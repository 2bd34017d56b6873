---- MODULE Economy_proofs ----
(***************************************************************************)
(* Theorems about the two parts that MCEconomy instantiates: the beggars,  *)
(* for all members, names, periods and lags, and the stock market, for all *)
(* stocks, prices, counts and widths of the int.                           *)
(***************************************************************************)
EXTENDS BeggarGate, Market, SequenceTheorems, TLAPS


---------------------------------------------------------------------------
(* The beggars *)

\* A mark has the flag beside it, and is the only one.
Flagged(r) == Len(r.nick.marks) <= (IF r.isbeggar THEN 1 ELSE 0)

GoodRecs == {r \in BegRec : Flagged(r)}

GoodWrites == [who: Members, rec: GoodRecs]

\* The inductive invariant: every file and every queued write is good, and the
\* timers know nicks without marks.
FlagInv ==
    /\ now \in Nat
    /\ file \in [Members -> GoodRecs \cup {NoRec}]
    /\ queue \in Seq(GoodWrites)
    /\ timers \in SUBSET {t \in [who: Members, nick: Nick, due: Nat] : t.nick.marks = << >>}
    /\ renames \in 0..MaxRename
    /\ crashes \in 0..MaxCrash
    /\ gift \in [Members -> Nat]
    /\ excused \in SUBSET Members

---------------------------------------------------------------------------
LEMMA BoundTypes ==
    Period \in Nat /\ MaxLag \in Nat /\ MaxTime \in Nat /\ MaxRename \in Nat /\ MaxCrash \in Nat
BY BeggarAssumption

\* Flags that are compared with TRUE and FALSE: no mark without the flag.
LEMMA FlaggedIff ==
    ASSUME NEW r \in BegRec
    PROVE  /\ r.isbeggar = TRUE /\ Len(r.nick.marks) <= 1 => r \in GoodRecs
           /\ r.isbeggar = FALSE /\ Len(r.nick.marks) <= 0 => r \in GoodRecs
           /\ (r.isbeggar = TRUE \/ r.isbeggar = FALSE)
BY DEF Flagged, BegRec, GoodRecs

\* A function on 1..n is a sequence.
LEMMA FunctionIsSeq ==
    ASSUME NEW S, NEW n \in Nat, NEW f \in [1..n -> S] PROVE f \in Seq(S)
BY SeqDef

LEMMA MarkCount == ASSUME NEW s \in Seq(Marks) PROVE Len(s) \in Nat /\ (Len(s) = 0 <=> s = << >>)
BY EmptySeq, LenProperties

LEMMA CalledType ==
    ASSUME NEW n \in Names \cup {Username}
    PROVE  Called(n) \in Nick /\ Called(n).marks = << >>
<1>1. << >> \in Seq(Marks) BY EmptySeq
<1> QED BY <1>1 DEF Called, Nick

LEMMA FreshGood == Fresh \in GoodRecs /\ Fresh.isbeggar = FALSE
<1>1. Called(Username) \in Nick /\ Called(Username).marks = << >>
  BY CalledType
<1> QED BY <1>1, EmptySeq DEF Fresh, BegRec, GoodRecs, Flagged

LEMMA ReadGood == ASSUME FlagInv, NEW m \in Members PROVE Read(m) \in GoodRecs
BY FreshGood DEF FlagInv, Read

LEMMA GoodIsRec == ASSUME NEW r \in GoodRecs PROVE r \in BegRec /\ r.nick.marks \in Seq(Marks)
BY DEF GoodRecs, BegRec, Nick

\* A record without the flag has no mark.
LEMMA NoFlagNoMark ==
    ASSUME NEW r \in GoodRecs, ~r.isbeggar PROVE r.nick.marks = << >>
<1>1. Len(r.nick.marks) <= 0 /\ r.nick.marks \in Seq(Marks)
  BY GoodIsRec DEF GoodRecs, Flagged
<1> QED BY <1>1, EmptySeq

LEMMA MarkType ==
    ASSUME NEW nick \in Nick, nick.marks = << >>, NEW mark \in Marks
    PROVE  Mark(nick, mark) \in Nick /\ Len(Mark(nick, mark).marks) = 1
<1>1. << mark >> \o << >> = << mark >>
  OBVIOUS
<1>2. << mark >> \in Seq(Marks) /\ Len(<< mark >>) = 1
  OBVIOUS
<1> QED BY <1>1, <1>2 DEF Mark, Nick

\* Of a nick with one mark at most, the gate leaves none.
LEMMA StripType ==
    ASSUME NEW nick \in Nick, Len(nick.marks) <= 1
    PROVE  Strip(nick) \in Nick /\ Strip(nick).marks = << >>
<1>1. CASE nick.marks = << >>
  BY <1>1 DEF Strip, Nick
<1>2. CASE nick.marks # << >>
  <2>1. nick.marks \in Seq(Marks) BY DEF Nick
  <2>2. Len(nick.marks) = 1
    <3> DEFINE n == Len(nick.marks)
    <3>1. n \in Nat /\ n # 0 BY <1>2, <2>1, MarkCount, Zenon
    <3>2. n <= 1 OBVIOUS
    <3> HIDE DEF n
    <3>3. n = 1 BY <3>1, <3>2
    <3> QED BY <3>3 DEF n
  <2>3. Tail(nick.marks) \in Seq(Marks) /\ Len(Tail(nick.marks)) = 0
    BY <1>2, <2>1, <2>2, HeadTailProperties
  <2>4. Tail(nick.marks) = << >> BY <2>3, EmptySeq
  <2> QED BY <1>2, <2>3, <2>4 DEF Strip, Nick
<1> QED BY <1>1, <1>2

LEMMA WriteGood ==
    ASSUME NEW m \in Members, NEW r \in GoodRecs PROVE Write(m, r) \in GoodWrites
BY DEF Write, GoodWrites

\* A record whose nick has no mark is good.
LEMMA CleanRec ==
    ASSUME NEW r \in BegRec, r.nick.marks = << >> PROVE r \in GoodRecs
<1>1. Len(r.nick.marks) <= 1 /\ Len(r.nick.marks) <= 0 BY EmptySeq
<1> QED BY <1>1, FlaggedIff, Zenon

LEMMA CleanIsGood ==
    ASSUME NEW r \in GoodRecs, NEW nick \in Nick, nick.marks = << >>
    PROVE  [r EXCEPT !.nick = nick] \in GoodRecs
<1>1. r \in BegRec BY DEF GoodRecs
<1>2. [r EXCEPT !.nick = nick] \in BegRec /\ [r EXCEPT !.nick = nick].nick = nick
  BY <1>1 DEF BegRec
<1> QED BY <1>2, CleanRec

\* What a file keeps of a record is the record but for the nick, and good.
LEMMA FiledGood ==
    ASSUME NEW r \in GoodRecs
    PROVE  /\ Filed(r) \in GoodRecs
           /\ Filed(r).begged = r.begged /\ Filed(r).money = r.money
           /\ Filed(r).nick.cut => r.nick.cut
<1>1. r \in BegRec BY DEF GoodRecs
<1>2. Filed(r) = [r EXCEPT !.nick = Kept(r.nick)] BY DEF Filed
<1>3. Filed(r).begged = r.begged /\ Filed(r).money = r.money /\ Filed(r).nick = Kept(r.nick)
  BY <1>1, <1>2 DEF BegRec
<1>4. CASE Kept(r.nick) = r.nick
  <2>1. Filed(r) = r BY <1>1, <1>2, <1>4 DEF BegRec
  <2> QED BY <2>1
<1>5. CASE Kept(r.nick) = Called(Username)
  <2>1. Called(Username) \in Nick /\ Called(Username).marks = << >> BY CalledType
  <2>2. Filed(r) \in GoodRecs BY <1>2, <1>5, <2>1, CleanIsGood
  <2>3. ~Called(Username).cut BY DEF Called
  <2> QED BY <1>3, <1>5, <2>2, <2>3
<1> QED BY <1>4, <1>5 DEF Kept

\* UpdNick with a nick without marks is good at each of its two writes.
LEMMA UpdNickGood ==
    ASSUME NEW m \in Members, NEW r \in GoodRecs, NEW nick \in Nick, nick.marks = << >>
    PROVE  UpdNickBeggar(m, r, nick) \in Seq(GoodWrites)
<1>1. [r EXCEPT !.nick = nick] \in GoodRecs
  BY CleanIsGood
<1>2. [r EXCEPT !.nick = nick, !.isbeggar = FALSE] \in GoodRecs
  <2>1. [[r EXCEPT !.nick = nick] EXCEPT !.isbeggar = FALSE] \in GoodRecs
    <3> DEFINE p == [r EXCEPT !.nick = nick]
    <3>1. p \in BegRec /\ p.nick = nick BY <1>1 DEF GoodRecs, BegRec
    <3> HIDE DEF p
    <3>2. [p EXCEPT !.isbeggar = FALSE] \in BegRec /\ [p EXCEPT !.isbeggar = FALSE].nick = nick
      BY <3>1 DEF BegRec
    <3>3. [p EXCEPT !.isbeggar = FALSE] \in GoodRecs BY <3>2, CleanRec
    <3> QED BY <3>3 DEF p
  <2> QED BY <2>1
<1>3. Write(m, [r EXCEPT !.nick = nick]) \in GoodWrites
      /\ Write(m, [r EXCEPT !.nick = nick, !.isbeggar = FALSE]) \in GoodWrites
  BY <1>1, <1>2, WriteGood
<1> QED BY <1>3 DEF UpdNickBeggar

\* The records that /beg writes, one after the other.
BegPaid(m, money) == [Begging(Read(m)) EXCEPT !.money = @ + money]
BegMarked(m, mark, money) == [BegPaid(m, money) EXCEPT !.nick = Mark(@, mark)]

LEMMA BegQueue ==
    ASSUME NEW m \in Members, NEW mark \in Marks, NEW money \in {0, 1}, Beg(m, mark, money)
    PROVE  /\ money = 0 => queue' = << Write(m, Read(m)), Write(m, Begging(Read(m))),
                                       Write(m, BegMarked(m, mark, money)) >>
           /\ money # 0 => queue' = << Write(m, Read(m)), Write(m, Begging(Read(m))),
                                       Write(m, BegPaid(m, money)),
                                       Write(m, BegMarked(m, mark, money)) >>
BY DEF Beg, BegPaid, BegMarked

LEMMA BegGood ==
    ASSUME FlagInv, NEW m \in Members, NEW mark \in Marks, NEW money \in {0, 1},
           ~Read(m).isbeggar
    PROVE  /\ Begging(Read(m)) \in GoodRecs
           /\ BegPaid(m, money) \in GoodRecs
           /\ BegMarked(m, mark, money) \in GoodRecs
           /\ BegMarked(m, mark, money).nick.marks # << >>
<1> DEFINE r == Read(m)
<1>1. r \in GoodRecs /\ r.nick.marks = << >> /\ r.nick \in Nick
  BY ReadGood, NoFlagNoMark DEF GoodRecs, BegRec
<1>2. Mark(r.nick, mark) \in Nick /\ Len(Mark(r.nick, mark).marks) = 1
  BY <1>1, MarkType
<1>3. now \in Nat BY DEF FlagInv
<1> HIDE DEF r
<1>4. Begging(r) = [r EXCEPT !.begged = now, !.isbeggar = TRUE]
  BY DEF Begging
<1>5. Begging(r) \in BegRec /\ Begging(r).isbeggar = TRUE /\ Begging(r).nick = r.nick
  BY <1>1, <1>3, <1>4 DEF GoodRecs, BegRec
<1>6. Begging(r) \in GoodRecs
  BY <1>1, <1>5, CleanRec
<1> DEFINE paid == [Begging(r) EXCEPT !.money = @ + money]
<1>7. paid \in BegRec /\ paid.isbeggar = TRUE /\ paid.nick = r.nick
  BY <1>5 DEF BegRec
<1>8. paid \in GoodRecs
  BY <1>1, <1>7, CleanRec
<1> HIDE DEF paid
<1> DEFINE marked == [paid EXCEPT !.nick = Mark(@, mark)]
<1>9. marked \in BegRec /\ marked.isbeggar = TRUE /\ marked.nick = Mark(r.nick, mark)
  BY <1>2, <1>7 DEF BegRec
<1>10. marked \in GoodRecs /\ marked.nick.marks # << >>
  <2>1. Len(marked.nick.marks) = 1 BY <1>2, <1>9
  <2>2. Len(<< >>) = 0 BY EmptySeq
  <2>3. marked.nick.marks # << >> BY <2>1, <2>2
  <2> HIDE DEF marked
  <2>4. Len(marked.nick.marks) <= 1 BY <2>1
  <2> QED BY <1>9, <2>3, <2>4, FlaggedIff, Zenon
<1> QED BY <1>6, <1>8, <1>10 DEF BegPaid, BegMarked, paid, r

---------------------------------------------------------------------------
LEMMA FlagInit == Init => FlagInv
<1> SUFFICES ASSUME Init PROVE FlagInv
  OBVIOUS
<1>1. file \in [Members -> GoodRecs \cup {NoRec}]
  BY FreshGood DEF Init
<1> QED BY <1>1, BoundTypes, EmptySeq DEF Init, FlagInv

LEMMA FlagNext == FlagInv /\ [Next]_vars => FlagInv'
<1> SUFFICES ASSUME FlagInv, [Next]_vars PROVE FlagInv'
  OBVIOUS
<1> USE BoundTypes
<1>1. CASE Tick
  BY <1>1 DEF Tick, FlagInv
<1>2. CASE PerformWrite
  <2>1. queue # << >> /\ queue \in Seq(GoodWrites)
    BY <1>2 DEF PerformWrite, Idle, FlagInv
  <2>2. Head(queue) \in GoodWrites /\ Tail(queue) \in Seq(GoodWrites)
    BY <2>1, HeadTailProperties
  <2>3. file' \in [Members -> GoodRecs \cup {NoRec}]
    <3>1. Head(queue).who \in Members /\ Head(queue).rec \in GoodRecs
      BY <2>2 DEF GoodWrites
    <3>2. Filed(Head(queue).rec) \in GoodRecs BY <3>1, FiledGood
    <3>3. file' = [file EXCEPT ![Head(queue).who] = Filed(Head(queue).rec)]
      BY <1>2 DEF PerformWrite
    <3> QED BY <3>2, <3>3 DEF FlagInv
  <2>4. gift' \in [Members -> Nat]
    BY <1>2, <2>2 DEF PerformWrite, FlagInv, GoodWrites
  <2>5. excused' \in SUBSET Members
    BY <1>2, <2>2 DEF PerformWrite, FlagInv, GoodWrites
  <2> QED BY <1>2, <2>2, <2>3, <2>4, <2>5 DEF PerformWrite, FlagInv
<1>3. CASE Crash
  <2>1. queue' = << >> /\ timers' = {} /\ crashes' \in 0..MaxCrash /\ now' = now /\ renames' = renames
    BY <1>3 DEF Crash, FlagInv
  <2>2. CASE Idle
    BY <1>3, <2>1, <2>2, EmptySeq DEF Crash, FlagInv
  <2>3. CASE ~Idle
    <3>1. Head(queue) \in GoodWrites
      BY <2>3, HeadTailProperties DEF Idle, FlagInv
    <3>2. Head(queue).who \in Members
      BY <3>1 DEF GoodWrites
    <3> DEFINE m == Head(queue).who
    <3>3. excused' = excused \cup {m}
          /\ (file' = file \/ file' = [file EXCEPT ![m] = NoRec])
          /\ (gift' = gift \/ gift' = [gift EXCEPT ![m] = 0])
      BY <1>3, <2>3 DEF Crash
    <3>4. m \in Members BY <3>2
    <3> HIDE DEF m
    <3>5. excused' \in SUBSET Members BY <3>3, <3>4 DEF FlagInv
    <3>6. file' \in [Members -> GoodRecs \cup {NoRec}] BY <3>3, <3>4 DEF FlagInv
    <3>7. gift' \in [Members -> Nat] BY <3>3, <3>4 DEF FlagInv
    <3> QED BY <2>1, <3>5, <3>6, <3>7, EmptySeq DEF FlagInv
  <2> QED BY <2>2, <2>3
<1>4. ASSUME NEW m \in Members, NEW mark \in Marks, NEW money \in {0, 1}, Beg(m, mark, money)
      PROVE  FlagInv'
  <2>1. ~Read(m).isbeggar BY <1>4 DEF Beg, Passes
  <2>2. Read(m) \in GoodRecs BY ReadGood
  <2>3. /\ Write(m, Read(m)) \in GoodWrites
        /\ Write(m, Begging(Read(m))) \in GoodWrites
        /\ Write(m, BegPaid(m, money)) \in GoodWrites
        /\ Write(m, BegMarked(m, mark, money)) \in GoodWrites
    BY <2>1, <2>2, BegGood, WriteGood
  <2>4. queue' \in Seq(GoodWrites)
    <3> DEFINE w1 == Write(m, Read(m))
               w2 == Write(m, Begging(Read(m)))
               w3 == Write(m, BegPaid(m, money))
               w4 == Write(m, BegMarked(m, mark, money))
    <3>a. /\ money = 0 => queue' = << w1, w2, w4 >>
          /\ money # 0 => queue' = << w1, w2, w3, w4 >>
      BY <1>4, BegQueue
    <3>b. w1 \in GoodWrites /\ w2 \in GoodWrites /\ w3 \in GoodWrites /\ w4 \in GoodWrites
      BY <2>3
    <3> HIDE DEF w1, w2, w3, w4
    <3>c. << w1, w2, w4 >> \in Seq(GoodWrites) /\ << w1, w2, w3, w4 >> \in Seq(GoodWrites)
      BY <3>b
    <3>1. CASE money = 0 BY <3>a, <3>c, <3>1
    <3>2. CASE money # 0 BY <3>a, <3>c, <3>2
    <3> QED BY <3>1, <3>2
  <2>5. Read(m).nick \in Nick /\ Read(m).nick.marks = << >>
    BY <2>1, <2>2, NoFlagNoMark DEF GoodRecs, BegRec
  <2>6. PICK lag \in 0..MaxLag : timers' = timers \cup {Timer(m, Read(m).nick, lag)}
    BY <1>4 DEF Beg
  <2>7. Timer(m, Read(m).nick, lag) \in [who: Members, nick: Nick, due: Nat]
        /\ Timer(m, Read(m).nick, lag).nick.marks = << >>
    BY <2>5 DEF Timer, FlagInv
  <2> QED BY <1>4, <2>4, <2>6, <2>7 DEF Beg, FlagInv
<1>5. ASSUME NEW m \in Members, Interact(m) PROVE FlagInv'
  <2>1. Write(m, Read(m)) \in GoodWrites
    BY ReadGood, WriteGood
  <2> QED BY <1>5, <2>1 DEF Interact, FlagInv
<1>6. ASSUME NEW m \in Members, Restore(m) PROVE FlagInv'
  <2>1. Read(m) \in GoodRecs /\ Read(m).nick \in Nick /\ Len(Read(m).nick.marks) <= 1
    BY ReadGood DEF GoodRecs, BegRec, Flagged
  <2>2. UpdNickBeggar(m, Read(m), Strip(Read(m).nick)) \in Seq(GoodWrites)
    BY <2>1, StripType, UpdNickGood
  <2> QED BY <1>6, <2>2 DEF Restore, FlagInv
<1>7. ASSUME NEW m \in Members, RestoreThrows(m) PROVE FlagInv'
  BY <1>7 DEF RestoreThrows, FlagInv
<1>8. ASSUME NEW t \in timers, Fire(t) PROVE FlagInv'
  <2>1. t.who \in Members /\ t.nick \in Nick /\ t.nick.marks = << >>
    BY DEF FlagInv
  <2>2. UpdNickBeggar(t.who, Read(t.who), t.nick) \in Seq(GoodWrites)
    BY <2>1, ReadGood, UpdNickGood
  <2> QED BY <1>8, <2>2 DEF Fire, FlagInv
<1>9. ASSUME NEW m \in Members, NEW name \in Names, Rename(m, name) PROVE FlagInv'
  <2>1. Called(name) \in Nick /\ Called(name).marks = << >> BY CalledType
  <2>2. [Read(m) EXCEPT !.nick = Called(name)] \in GoodRecs
    BY <2>1, ReadGood, EmptySeq DEF GoodRecs, BegRec, Flagged
  <2>3. Write(m, [Read(m) EXCEPT !.nick = Called(name)]) \in GoodWrites
    BY <2>2, WriteGood
  <2>4. queue' \in Seq(GoodWrites)
    BY <1>9, <2>3 DEF Rename
  <2> QED BY <1>9, <2>4 DEF Rename, FlagInv
<1>10. ASSUME NEW m \in Members, LookUp(m) PROVE FlagInv'
  <2>1. PICK name \in Names \cup {Username} :
            queue' = << Write(m, [Fresh EXCEPT !.nick = Called(name)]) >>
    BY <1>10 DEF LookUp
  <2>2. [Fresh EXCEPT !.nick = Called(name)] \in GoodRecs
    BY FreshGood, CalledType, CleanIsGood
  <2>3. queue' \in Seq(GoodWrites)
    BY <2>1, <2>2, WriteGood
  <2> QED BY <1>10, <2>3 DEF LookUp, FlagInv
<1>11. CASE UNCHANGED vars
  BY <1>11 DEF vars, FlagInv
<1> QED BY <1>1, <1>2, <1>3, <1>4, <1>5, <1>6, <1>7, <1>8, <1>9, <1>10, <1>11 DEF Next

LEMMA FlagInvariant == Spec => []FlagInv
BY FlagInit, FlagNext, PTL DEF Spec

\* The state keeps its types.
THEOREM BeggarTypeCorrect == Spec => []TypeOK
<1>1. FlagInv => TypeOK
  <2> SUFFICES ASSUME FlagInv PROVE TypeOK
    OBVIOUS
  <2>1. GoodRecs \subseteq BegRec BY DEF GoodRecs
  <2>2. queue \in Seq([who: Members, rec: BegRec])
    <3>1. GoodWrites \subseteq [who: Members, rec: BegRec]
      BY <2>1 DEF GoodWrites
    <3>2. queue \in [1..Len(queue) -> GoodWrites] /\ Len(queue) \in Nat
      BY LenProperties DEF FlagInv
    <3>3. queue \in [1..Len(queue) -> [who: Members, rec: BegRec]]
      BY <3>1, <3>2
    <3> QED BY <3>2, <3>3, FunctionIsSeq
  <2>3. file \in [Members -> BegRec \cup {NoRec}]
    BY <2>1 DEF FlagInv
  <2> QED BY <2>2, <2>3 DEF FlagInv, TypeOK
<1> QED BY <1>1, FlagInvariant, PTL

\* At no point of /beg, of the gate or of the timer is there a mark on file without
\* the flag that makes the gate take it off.
THEOREM MarksAreFlagged == Spec => []MarkIsFlagged
<1>1. FlagInv => MarkIsFlagged
  BY ReadGood DEF MarkIsFlagged, GoodRecs, Flagged
<1> QED BY <1>1, FlagInvariant, PTL

---------------------------------------------------------------------------
\* A gift is never newer than the begging on file, or in any queued write; a
\* queued write that adds money has the time of now, and the gift before it is a
\* period away; and no two queued writes add money one after the other.
GiftOnFile == \A m \in Members : gift[m] <= Read(m).begged

Adds(w) == w.rec.money > Read(w.who).money

GiftInQueue ==
    \A i \in 1..Len(queue) :
        /\ gift[queue[i].who] <= queue[i].rec.begged
        /\ queue[i].rec.money >= Read(queue[i].who).money
        /\ Adds(queue[i]) => /\ queue[i].rec.begged = now
                             /\ gift[queue[i].who] = 0 \/ now - gift[queue[i].who] > Period

OneGift ==
    \A i, j \in 1..Len(queue) :
        i < j => /\ queue[i].who = queue[j].who
                 /\ Adds(queue[i]) => queue[j].rec.money = queue[i].rec.money

GiftInv == GiftOnFile /\ GiftInQueue /\ OneGift

LEMMA ReadNumbers ==
    ASSUME FlagInv, NEW m \in Members
    PROVE  Read(m).begged \in Nat /\ Read(m).money \in Nat /\ gift[m] \in Nat
BY ReadGood DEF GoodRecs, BegRec, FlagInv

LEMMA QueueTypes ==
    ASSUME FlagInv, NEW i \in 1..Len(queue)
    PROVE  /\ queue[i].who \in Members /\ queue[i].rec \in GoodRecs
           /\ queue[i].rec.begged \in Nat /\ queue[i].rec.money \in Nat
<1>1. queue[i] \in GoodWrites BY ElementOfSeq DEF FlagInv
<1>2. queue[i].who \in Members /\ queue[i].rec \in GoodRecs BY <1>1 DEF GoodWrites
<1> QED BY <1>2 DEF GoodRecs, BegRec

\* Handlers that add no money and keep the time are harmless.
LEMMA Harmless ==
    ASSUME FlagInv, GiftInv, NEW m \in Members, UNCHANGED <<file, gift, now>>,
           \A i \in 1..Len(queue') : /\ queue'[i].who = m
                                     /\ queue'[i].rec.begged = Read(m).begged
                                     /\ queue'[i].rec.money = Read(m).money
    PROVE  GiftInv'
<1>1. Read(m)' = Read(m) /\ \A k \in Members : Read(k)' = Read(k)
  BY DEF Read
<1>2. Read(m).begged \in Nat /\ Read(m).money \in Nat /\ gift[m] \in Nat /\ gift[m] <= Read(m).begged
  BY ReadNumbers DEF GiftInv, GiftOnFile
<1>3. GiftOnFile' BY <1>1 DEF GiftInv, GiftOnFile
<1>4. \A i \in 1..Len(queue') : ~Adds(queue[i])'
  <2> TAKE i \in 1..Len(queue')
  <2>1. queue'[i].rec.money = Read(m).money /\ Read(queue[i].who)' = Read(m)
    BY <1>1 DEF Read
  <2>2. ~(queue'[i].rec.money > Read(queue[i].who)'.money)
    BY <1>2, <2>1
  <2> QED BY <2>2 DEF Adds
<1>5. GiftInQueue'
  <2> SUFFICES ASSUME NEW i \in 1..Len(queue')
               PROVE  /\ gift'[queue'[i].who] <= queue'[i].rec.begged
                      /\ queue'[i].rec.money >= Read(queue[i].who)'.money
    BY <1>4 DEF GiftInQueue
  <2>1. Read(queue[i].who)' = Read(m) BY <1>1 DEF Read
  <2> QED BY <1>2, <2>1
<1>6. OneGift' BY <1>4 DEF OneGift
<1> QED BY <1>3, <1>5, <1>6 DEF GiftInv

\* A handler that ends leaves nothing to show but the files.
LEMMA Emptied ==
    ASSUME GiftOnFile', queue' = << >> PROVE GiftInv'
<1>1. Len(queue') = 0 BY EmptySeq
<1> QED BY <1>1 DEF GiftInv, GiftInQueue, OneGift

LEMMA UpdNickHarmless ==
    ASSUME FlagInv, NEW m \in Members, NEW nick, NEW i \in 1..Len(UpdNickBeggar(m, Read(m), nick))
    PROVE  LET w == UpdNickBeggar(m, Read(m), nick)[i]
           IN  w.who = m /\ w.rec.begged = Read(m).begged /\ w.rec.money = Read(m).money
<1> DEFINE r == Read(m)
           w1 == Write(m, [r EXCEPT !.nick = nick])
           w2 == Write(m, [r EXCEPT !.nick = nick, !.isbeggar = FALSE])
<1>1. r \in BegRec BY ReadGood DEF GoodRecs
<1> HIDE DEF r
<1>2. w1.who = m /\ w1.rec.begged = r.begged /\ w1.rec.money = r.money
  BY <1>1 DEF BegRec, Write
<1>3. w2.who = m /\ w2.rec.begged = r.begged /\ w2.rec.money = r.money
  BY <1>1 DEF BegRec, Write
<1>4. UpdNickBeggar(m, r, nick) = << w1, w2 >> BY DEF UpdNickBeggar
<1> HIDE DEF w1, w2
<1>5. i \in 1..2 /\ << w1, w2 >>[1] = w1 /\ << w1, w2 >>[2] = w2 BY <1>4 DEF r
<1> QED BY <1>2, <1>3, <1>4, <1>5 DEF r

\* One write of a handler: the others stay harmless beside the new file.
LEMMA PerformGift == ASSUME FlagInv, GiftInv, PerformWrite PROVE GiftInv'
<1> DEFINE w == Head(queue)
<1>1. queue # << >> /\ queue \in Seq(GoodWrites) /\ Len(queue) \in Nat /\ Len(queue) > 0
  BY EmptySeq, LenProperties DEF PerformWrite, Idle, FlagInv
<1>2. w = queue[1] /\ 1 \in 1..Len(queue) /\ Len(Tail(queue)) = Len(queue) - 1
      /\ \A i \in 1..Len(Tail(queue)) : Tail(queue)[i] = queue[i + 1] /\ i + 1 \in 1..Len(queue)
  BY <1>1, HeadTailProperties
<1>3. w.who \in Members /\ w.rec \in GoodRecs /\ w.rec.begged \in Nat /\ w.rec.money \in Nat
  BY <1>2, QueueTypes
<1>4. /\ queue' = Tail(queue) /\ now' = now
      /\ file' = [file EXCEPT ![w.who] = Filed(w.rec)]
      /\ gift' = IF Adds(w) THEN [gift EXCEPT ![w.who] = now] ELSE gift
  BY DEF PerformWrite, Adds
<1> HIDE DEF w
<1> PICK m \in Members : m = w.who BY <1>3
<1>5. /\ Read(m)'.begged = w.rec.begged /\ Read(m)'.money = w.rec.money
      /\ \A k \in Members : k # m => Read(k)' = Read(k)
  <2>1. file'[m] = Filed(w.rec) BY <1>3, <1>4 DEF FlagInv
  <2>2. Filed(w.rec) # NoRec BY <1>3, FiledGood, BeggarAssumption DEF GoodRecs
  <2>3. \A k \in Members : k # m => file'[k] = file[k] BY <1>4 DEF FlagInv
  <2>4. Read(m)' = Filed(w.rec) BY <2>1, <2>2 DEF Read
  <2>5. \A k \in Members : k # m => Read(k)' = Read(k) BY <2>3 DEF Read
  <2> QED BY <1>3, <2>4, <2>5, FiledGood
<1>6. /\ gift[w.who] \in Nat /\ now \in Nat /\ Read(w.who).money \in Nat
      /\ gift'[w.who] = IF Adds(w) THEN now ELSE gift[w.who]
      /\ \A k \in Members : k # w.who => gift'[k] = gift[k]
  BY <1>3, <1>4, ReadNumbers DEF FlagInv
<1>7. /\ gift[w.who] <= w.rec.begged /\ w.rec.money >= Read(w.who).money
      /\ Adds(w) => w.rec.begged = now
  BY <1>2 DEF GiftInv, GiftInQueue
<1>8. GiftOnFile'
  <2> SUFFICES ASSUME NEW k \in Members PROVE gift'[k] <= Read(k)'.begged
    BY DEF GiftOnFile
  <2>1. CASE k = w.who BY <1>3, <1>5, <1>6, <1>7, <2>1
  <2>2. CASE k # w.who BY <1>5, <1>6, <2>2 DEF GiftInv, GiftOnFile
  <2> QED BY <2>1, <2>2
<1>9. ASSUME NEW i \in 1..Len(queue')
      PROVE  LET v == queue'[i]
             IN  /\ v.who = w.who /\ gift'[v.who] <= v.rec.begged
                 /\ v.rec.money >= w.rec.money
                 /\ v.rec.money > w.rec.money => /\ ~Adds(w) /\ v.rec.begged = now
                                                 /\ gift[v.who] = 0 \/ now - gift[v.who] > Period
                 /\ v.rec.money > w.rec.money => Adds(v)
  <2> DEFINE v == queue'[i]
  <2>1. v = queue[i + 1] /\ i + 1 \in 1..Len(queue) /\ 1 < i + 1
    BY <1>2, <1>4
  <2>2. v.rec.begged \in Nat /\ v.rec.money \in Nat BY <2>1, QueueTypes
  <2>3. v.who = w.who /\ (Adds(w) => v.rec.money = w.rec.money)
    BY <1>2, <2>1 DEF GiftInv, OneGift
  <2>4. /\ gift[v.who] <= v.rec.begged /\ v.rec.money >= Read(v.who).money
        /\ Adds(v) => v.rec.begged = now /\ (gift[v.who] = 0 \/ now - gift[v.who] > Period)
    BY <2>1 DEF GiftInv, GiftInQueue
  <2> HIDE DEF v
  <2>5. CASE Adds(w)
    <3>1. v.rec.money = w.rec.money /\ w.rec.money > Read(w.who).money
      BY <2>3, <2>5 DEF Adds
    <3>2. Adds(v) BY <2>3, <3>1 DEF Adds
    <3>3. v.rec.begged = now /\ gift'[v.who] = now BY <1>6, <2>3, <2>4, <2>5, <3>2
    <3> QED BY <1>3, <1>6, <2>2, <2>3, <3>1, <3>3 DEF v
  <2>6. CASE ~Adds(w)
    <3>1. w.rec.money = Read(w.who).money BY <1>3, <1>6, <1>7, <2>6 DEF Adds
    <3>2. gift'[v.who] = gift[v.who] BY <1>6, <2>3, <2>6
    <3>3. v.rec.money > w.rec.money => Adds(v) BY <2>3, <3>1 DEF Adds
    <3> QED BY <2>3, <2>4, <2>6, <3>1, <3>2, <3>3 DEF v
  <2> QED BY <2>5, <2>6
<1>10. \A i \in 1..Len(queue') : Adds(queue[i])' <=> queue'[i].rec.money > w.rec.money
  <2> TAKE i \in 1..Len(queue')
  <2>1. queue'[i].who = w.who BY <1>9
  <2>2. Read(queue[i].who)' = Read(m)' BY <2>1 DEF Read
  <2> QED BY <1>5, <2>2 DEF Adds
<1>11. GiftInQueue'
  <2> SUFFICES ASSUME NEW i \in 1..Len(queue')
               PROVE  /\ gift'[queue'[i].who] <= queue'[i].rec.begged
                      /\ queue'[i].rec.money >= Read(queue[i].who)'.money
                      /\ Adds(queue[i])' => /\ queue'[i].rec.begged = now'
                                            /\ gift'[queue'[i].who] = 0
                                               \/ now' - gift'[queue'[i].who] > Period
    BY DEF GiftInQueue
  <2>1. queue'[i].who = w.who BY <1>9
  <2>2. Read(queue[i].who)' = Read(m)' BY <2>1 DEF Read
  <2>3. ASSUME queue'[i].rec.money > w.rec.money
        PROVE  gift'[queue'[i].who] = gift[queue'[i].who]
    BY <1>6, <1>9, <2>1, <2>3
  <2> QED BY <1>4, <1>5, <1>9, <1>10, <2>2, <2>3
<1>12. OneGift'
  <2> SUFFICES ASSUME NEW i \in 1..Len(queue'), NEW j \in 1..Len(queue'), i < j
               PROVE  /\ queue'[i].who = queue'[j].who
                      /\ Adds(queue[i])' => queue'[j].rec.money = queue'[i].rec.money
    BY DEF OneGift
  <2>1. queue'[i].who = w.who /\ queue'[j].who = w.who BY <1>9
  <2>2. ASSUME Adds(queue[i])' PROVE queue'[j].rec.money = queue'[i].rec.money
    <3>1. Adds(queue'[i]) BY <1>9, <1>10, <2>2
    <3>2. queue'[i] = queue[i + 1] /\ queue'[j] = queue[j + 1]
          /\ i + 1 \in 1..Len(queue) /\ j + 1 \in 1..Len(queue) /\ i + 1 < j + 1
      BY <1>2, <1>4
    <3> QED BY <3>1, <3>2 DEF GiftInv, OneGift
  <2> QED BY <2>1, <2>2
<1> QED BY <1>8, <1>11, <1>12 DEF GiftInv

\* The writes of /beg: the time is in the file before the money, and whoever
\* passes the gate has not been given anything within the period.
LEMMA BegGift ==
    ASSUME FlagInv, GiftInv, NEW m \in Members, NEW mark \in Marks, NEW money \in {0, 1},
           Beg(m, mark, money)
    PROVE  GiftInv'
<1> DEFINE r == Read(m)
           w1 == Write(m, r)
           w2 == Write(m, Begging(r))
           w3 == Write(m, BegPaid(m, money))
           w4 == Write(m, BegMarked(m, mark, money))
<1>1. /\ r \in BegRec /\ r.begged \in Nat /\ r.money \in Nat /\ gift[m] \in Nat /\ now \in Nat
      /\ gift[m] <= r.begged /\ money \in Nat /\ Period \in Nat
  BY ReadGood, ReadNumbers, BoundTypes DEF GoodRecs, FlagInv, GiftInv, GiftOnFile
<1>2. now - gift[m] > Period /\ gift[m] <= now
  <2>1. ~(now - r.begged <= Period) BY DEF Beg, Passes, GateClosed
  <2> QED BY <1>1, <2>1
<1>3. Begging(r) \in BegRec /\ Begging(r).begged = now /\ Begging(r).money = r.money
  BY <1>1 DEF Begging, BegRec
<1>4. BegPaid(m, money) \in BegRec /\ BegPaid(m, money).begged = now
      /\ BegPaid(m, money).money = r.money + money
  BY <1>1, <1>3 DEF BegPaid, BegRec
<1>5. BegMarked(m, mark, money).begged = now /\ BegMarked(m, mark, money).money = r.money + money
  BY <1>4 DEF BegMarked, BegRec
<1>6. UNCHANGED <<file, gift, now>> /\ r' = r /\ \A k \in Members : Read(k)' = Read(k)
  BY DEF Beg, Read
<1>7. GiftOnFile' BY <1>6 DEF GiftInv, GiftOnFile
<1>8. /\ money = 0 => queue' = << w1, w2, w4 >>
      /\ money # 0 => queue' = << w1, w2, w3, w4 >>
  BY BegQueue
<1>9. /\ w1.who = m /\ w1.rec.begged = r.begged /\ w1.rec.money = r.money
      /\ w2.who = m /\ w2.rec.begged = now /\ w2.rec.money = r.money
      /\ w3.who = m /\ w3.rec.begged = now /\ w3.rec.money = r.money + money
      /\ w4.who = m /\ w4.rec.begged = now /\ w4.rec.money = r.money + money
  BY <1>3, <1>4, <1>5 DEF Write
<1> HIDE DEF w1, w2, w3, w4
<1>10. \A i \in 1..Len(queue') :
          /\ queue'[i].who = m
          /\ \/ queue'[i].rec.begged = r.begged /\ queue'[i].rec.money = r.money
             \/ queue'[i].rec.begged = now /\ queue'[i].rec.money = r.money
             \/ queue'[i].rec.begged = now /\ queue'[i].rec.money = r.money + money
  <2>1. CASE money = 0
    <3>1. queue' = << w1, w2, w4 >> BY <1>8, <2>1
    <3>2. Len(queue') = 3 /\ queue'[1] = w1 /\ queue'[2] = w2 /\ queue'[3] = w4 BY <3>1
    <3> QED BY <1>9, <3>2
  <2>2. CASE money # 0
    <3>1. queue' = << w1, w2, w3, w4 >> BY <1>8, <2>2
    <3>2. Len(queue') = 4 /\ queue'[1] = w1 /\ queue'[2] = w2 /\ queue'[3] = w3 /\ queue'[4] = w4
      BY <3>1
    <3> QED BY <1>9, <3>2
  <2> QED BY <2>1, <2>2
<1>11. \A i, j \in 1..Len(queue') :
          i < j /\ queue'[i].rec.money > r.money => queue'[j].rec.money = queue'[i].rec.money
  <2>1. CASE money = 0 BY <1>1, <1>10, <2>1
  <2>2. CASE money # 0
    <3>1. queue' = << w1, w2, w3, w4 >> BY <1>8, <2>2
    <3>2. Len(queue') = 4 /\ queue'[1] = w1 /\ queue'[2] = w2 /\ queue'[3] = w3 /\ queue'[4] = w4
      BY <3>1
    <3> QED BY <1>1, <1>9, <3>2
  <2> QED BY <2>1, <2>2
<1> HIDE DEF r
<1>12. \A i \in 1..Len(queue') : Adds(queue[i])' <=> queue'[i].rec.money > r.money
  <2> TAKE i \in 1..Len(queue')
  <2>1. Read(queue[i].who)' = r
    <3>1. queue'[i].who = m BY <1>10
    <3> QED BY <1>6, <3>1 DEF Read, r
  <2> QED BY <2>1 DEF Adds
<1>13. GiftInQueue'
  <2> SUFFICES ASSUME NEW i \in 1..Len(queue')
               PROVE  /\ gift'[queue'[i].who] <= queue'[i].rec.begged
                      /\ queue'[i].rec.money >= Read(queue[i].who)'.money
                      /\ Adds(queue[i])' => /\ queue'[i].rec.begged = now'
                                            /\ gift'[queue'[i].who] = 0
                                               \/ now' - gift'[queue'[i].who] > Period
    BY DEF GiftInQueue
  <2>1. Read(queue[i].who)' = r
    <3>1. queue'[i].who = m BY <1>10
    <3> QED BY <1>6, <3>1 DEF Read, r
  <2> QED BY <1>1, <1>2, <1>6, <1>10, <1>12, <2>1
<1>14. OneGift' BY <1>10, <1>11, <1>12 DEF OneGift
<1> QED BY <1>7, <1>13, <1>14 DEF GiftInv

LEMMA GiftInit == Init => GiftInv
<1> SUFFICES ASSUME Init PROVE GiftInv
  OBVIOUS
<1>1. Len(queue) = 0 BY EmptySeq DEF Init
<1>2. GiftOnFile
  <2> SUFFICES ASSUME NEW m \in Members PROVE 0 <= Read(m).begged
    BY DEF GiftOnFile, Init
  <2>1. Read(m).begged \in Nat BY FlagInit, ReadNumbers
  <2> QED BY <2>1
<1> QED BY <1>1, <1>2 DEF GiftInv, GiftInQueue, OneGift

LEMMA GiftNext == FlagInv /\ GiftInv /\ [Next]_vars => GiftInv'
<1> SUFFICES ASSUME FlagInv, GiftInv, [Next]_vars PROVE GiftInv'
  OBVIOUS
<1>1. CASE Tick
  <2>1. queue' = << >> /\ UNCHANGED <<file, gift>> BY <1>1 DEF Tick, Idle
  <2>2. GiftOnFile' BY <2>1 DEF GiftInv, GiftOnFile, Read
  <2> QED BY <2>1, <2>2, Emptied
<1>2. CASE PerformWrite
  BY <1>2, PerformGift
<1>3. CASE Crash
  <2>1. queue' = << >> BY <1>3 DEF Crash
  <2>2. CASE UNCHANGED <<file, gift>>
    BY <2>1, <2>2, Emptied DEF GiftInv, GiftOnFile, Read
  <2>3. ASSUME NEW m, file' = [file EXCEPT ![m] = NoRec], gift' = [gift EXCEPT ![m] = 0]
        PROVE  GiftInv'
    <3>1. \A k \in Members : gift'[k] <= Read(k)'.begged
      <4> TAKE k \in Members
      <4>1. CASE k = m
        <5>1. gift'[k] = 0 /\ file'[k] = NoRec BY <2>3, <4>1 DEF FlagInv
        <5> QED BY <5>1 DEF Read, Fresh
      <4>2. CASE k # m
        <5>1. gift'[k] = gift[k] /\ file'[k] = file[k] BY <2>3, <4>2 DEF FlagInv
        <5> QED BY <5>1 DEF GiftInv, GiftOnFile, Read
      <4> QED BY <4>1, <4>2
    <3> QED BY <2>1, <3>1, Emptied DEF GiftOnFile
  <2> QED BY <1>3, <2>2, <2>3 DEF Crash
<1>4. ASSUME NEW m \in Members, NEW mark \in Marks, NEW money \in {0, 1}, Beg(m, mark, money)
      PROVE  GiftInv'
  BY <1>4, BegGift
<1>5. ASSUME NEW m \in Members, Interact(m) PROVE GiftInv'
  <2>1. queue' = << Write(m, Read(m)) >> /\ UNCHANGED <<file, gift, now>>
    BY <1>5 DEF Interact
  <2>2. Len(queue') = 1 /\ queue'[1] = Write(m, Read(m)) BY <2>1
  <2>3. \A i \in 1..Len(queue') : /\ queue'[i].who = m
                                  /\ queue'[i].rec.begged = Read(m).begged
                                  /\ queue'[i].rec.money = Read(m).money
    BY <2>2 DEF Write
  <2> QED BY <2>1, <2>3, Harmless
<1>6. ASSUME NEW m \in Members, Restore(m) PROVE GiftInv'
  <2>1. queue' = UpdNickBeggar(m, Read(m), Strip(Read(m).nick)) /\ UNCHANGED <<file, gift, now>>
    BY <1>6 DEF Restore
  <2>2. \A i \in 1..Len(queue') : /\ queue'[i].who = m
                                  /\ queue'[i].rec.begged = Read(m).begged
                                  /\ queue'[i].rec.money = Read(m).money
    BY <2>1, UpdNickHarmless
  <2> QED BY <2>1, <2>2, Harmless
<1>7. ASSUME NEW m \in Members, RestoreThrows(m) PROVE GiftInv'
  BY <1>7, Emptied DEF RestoreThrows, GateRestores, Idle, GiftInv, GiftOnFile, Read
<1>8. ASSUME NEW t \in timers, Fire(t) PROVE GiftInv'
  <2>1. t.who \in Members BY DEF FlagInv
  <2> PICK m \in Members : m = t.who BY <2>1
  <2>2. queue' = UpdNickBeggar(m, Read(m), t.nick) /\ UNCHANGED <<file, gift, now>>
    BY <1>8 DEF Fire
  <2>3. \A i \in 1..Len(queue') : /\ queue'[i].who = m
                                  /\ queue'[i].rec.begged = Read(m).begged
                                  /\ queue'[i].rec.money = Read(m).money
    BY <2>2, UpdNickHarmless
  <2> QED BY <2>2, <2>3, Harmless
<1>9. ASSUME NEW m \in Members, NEW name \in Names, Rename(m, name) PROVE GiftInv'
  <2> DEFINE r == Read(m)
             w == Write(m, [r EXCEPT !.nick = Called(name)])
  <2>1. queue' = << w >> /\ UNCHANGED <<file, gift, now>> BY <1>9 DEF Rename
  <2>2. r \in BegRec BY ReadGood DEF GoodRecs
  <2>3. w.who = m /\ w.rec.begged = r.begged /\ w.rec.money = r.money
    BY <2>2 DEF Write, BegRec
  <2> HIDE DEF w
  <2>4. Len(queue') = 1 /\ queue'[1] = w BY <2>1
  <2>5. \A i \in 1..Len(queue') : /\ queue'[i].who = m
                                  /\ queue'[i].rec.begged = Read(m).begged
                                  /\ queue'[i].rec.money = Read(m).money
    BY <2>3, <2>4
  <2> QED BY <2>1, <2>5, Harmless
<1>10. ASSUME NEW m \in Members, LookUp(m) PROVE GiftInv'
  <2>1. Read(m) = Fresh /\ UNCHANGED <<file, gift, now>> BY <1>10 DEF LookUp, Read
  <2>2. PICK name \in Names \cup {Username} :
            queue' = << Write(m, [Fresh EXCEPT !.nick = Called(name)]) >>
    BY <1>10 DEF LookUp
  <2> DEFINE w == Write(m, [Fresh EXCEPT !.nick = Called(name)])
  <2>3. w.who = m /\ w.rec.begged = Fresh.begged /\ w.rec.money = Fresh.money
    BY DEF Write, Fresh
  <2> HIDE DEF w
  <2>4. Len(queue') = 1 /\ queue'[1] = w BY <2>2 DEF w
  <2>5. \A i \in 1..Len(queue') : /\ queue'[i].who = m
                                  /\ queue'[i].rec.begged = Read(m).begged
                                  /\ queue'[i].rec.money = Read(m).money
    BY <2>1, <2>3, <2>4
  <2> QED BY <2>1, <2>5, Harmless
<1>11. CASE UNCHANGED vars
  <2>1. UNCHANGED <<file, queue, gift, now>> BY <1>11 DEF vars
  <2> QED BY <2>1 DEF GiftInv, GiftOnFile, GiftInQueue, OneGift, Adds, Read
<1> QED BY <1>1, <1>2, <1>3, <1>4, <1>5, <1>6, <1>7, <1>8, <1>9, <1>10, <1>11 DEF Next

LEMMA GiftInvariant == Spec => []GiftInv
BY GiftInit, GiftNext, FlagInvariant, PTL DEF Spec

\* Only a queued write that adds money makes a gift.
LEMMA GiftStep ==
    ASSUME FlagInv, GiftInv, [Next]_vars,
           NEW m \in Members, gift'[m] # gift[m], gift[m] # 0, gift'[m] # 0
    PROVE  gift'[m] - gift[m] > Period
<1>1. gift \in [Members -> Nat] BY DEF FlagInv
<1>2. CASE PerformWrite
  <2> DEFINE w == Head(queue)
  <2>1. queue # << >> /\ queue \in Seq(GoodWrites) /\ Len(queue) \in Nat /\ Len(queue) > 0
    BY <1>2, EmptySeq, LenProperties DEF PerformWrite, Idle, FlagInv
  <2>2. w = queue[1] /\ 1 \in 1..Len(queue) BY <2>1, HeadTailProperties
  <2>3. gift' = IF Adds(w) THEN [gift EXCEPT ![w.who] = now] ELSE gift
    BY <1>2 DEF PerformWrite, Adds
  <2> HIDE DEF w
  <2>4. Adds(w) => gift[w.who] = 0 \/ now - gift[w.who] > Period
    BY <2>2 DEF GiftInv, GiftInQueue
  <2>5. CASE Adds(w)
    <3>1. m = w.who /\ gift'[m] = now BY <1>1, <2>3, <2>5
    <3> QED BY <2>4, <2>5, <3>1
  <2>6. CASE ~Adds(w) BY <2>3, <2>6
  <2> QED BY <2>5, <2>6
<1>3. ASSUME NEW k, gift' = [gift EXCEPT ![k] = 0] PROVE FALSE
  BY <1>1, <1>3
<1>4. CASE Crash BY <1>3, <1>4 DEF Crash
<1> QED BY <1>2, <1>4 DEF Next, Tick, Beg, LookUp, Interact, Restore, RestoreThrows, Fire, Rename, vars

\* Two gifts to a member are more than a period apart, whatever crashes, late
\* timers and torn files do in between.
THEOREM GiftsKeepApart == Spec => GiftsApart
<1>1. FlagInv /\ GiftInv /\ [Next]_vars =>
        [\A m \in Members : gift'[m] # gift[m] /\ gift[m] # 0 /\ gift'[m] # 0
                                => gift'[m] - gift[m] > Period]_vars
  BY GiftStep
<1> QED BY <1>1, FlagInvariant, GiftInvariant, PTL DEF Spec, GiftsApart

---------------------------------------------------------------------------
\* The gate would cut into the name of this record.
Bare(r) == r.isbeggar /\ r.nick.marks = << >>

\* Names are cut of excused members only, in files, queued writes and timers; a
\* bare record is that of an excused member, or of a handler that is not done yet.
CutOnFile == \A m \in Members : Read(m).nick.cut => m \in excused

CutInQueue == \A i \in 1..Len(queue) : queue[i].rec.nick.cut => queue[i].who \in excused

CutInTimers == \A t \in timers : t.nick.cut => t.who \in excused

BareOnFile ==
    \A m \in Members :
        Bare(Read(m)) => m \in excused \/ (queue # << >> /\ queue[Len(queue)].who = m)

BareAtEnd ==
    queue # << >> => (Bare(queue[Len(queue)].rec) => queue[Len(queue)].who \in excused)

CutInv == CutOnFile /\ CutInQueue /\ CutInTimers /\ BareOnFile /\ BareAtEnd

\* What a handler has to see to that begins now, for member m.
LEMMA HandlerCut ==
    ASSUME FlagInv, CutInv, queue = << >>, NEW m \in Members,
           file' = file, excused \subseteq excused',
           \A t \in timers' : t.nick.cut => t.who \in excused',
           Len(queue') \in Nat, Len(queue') > 0,
           \A i \in 1..Len(queue') :
              /\ queue'[i].who = m
              /\ queue'[i].rec.nick.cut => m \in excused',
           Bare(queue'[Len(queue')].rec) => m \in excused'
    PROVE  CutInv'
<1>1. \A k \in Members : Read(k)' = Read(k) BY DEF Read
<1>2. CutOnFile' BY <1>1 DEF CutInv, CutOnFile
<1>3. CutInQueue' /\ CutInTimers' BY DEF CutInQueue, CutInTimers
<1>4. BareOnFile'
  <2> SUFFICES ASSUME NEW k \in Members, Bare(Read(k)') PROVE k \in excused'
    BY DEF BareOnFile, Bare
  <2>1. Bare(Read(k)) BY <1>1
  <2> QED BY <2>1 DEF CutInv, BareOnFile
<1>5. BareAtEnd'
  <2>1. Len(queue') \in 1..Len(queue') OBVIOUS
  <2>2. queue'[Len(queue')].who = m BY <2>1
  <2> QED BY <2>2 DEF BareAtEnd, Bare
<1> QED BY <1>2, <1>3, <1>4, <1>5 DEF CutInv

LEMMA EmptiedCut ==
    ASSUME queue' = << >>, CutOnFile', CutInTimers',
           \A m \in Members : Bare(Read(m)') => m \in excused'
    PROVE  CutInv'
<1>1. Len(queue') = 0 BY EmptySeq
<1>2. CutInQueue' BY <1>1 DEF CutInQueue
<1>3. BareOnFile' /\ BareAtEnd' BY DEF BareOnFile, BareAtEnd, Bare
<1> QED BY <1>2, <1>3 DEF CutInv

LEMMA UpdNickCut ==
    ASSUME FlagInv, NEW m \in Members, NEW nick \in Nick
    PROVE  LET q == UpdNickBeggar(m, Read(m), nick)
           IN  /\ Len(q) = 2
               /\ \A i \in 1..2 : q[i].who = m /\ q[i].rec.nick = nick
               /\ ~Bare(q[2].rec)
<1> DEFINE r == Read(m)
           w1 == Write(m, [r EXCEPT !.nick = nick])
           w2 == Write(m, [r EXCEPT !.nick = nick, !.isbeggar = FALSE])
<1>1. r \in BegRec BY ReadGood DEF GoodRecs
<1> HIDE DEF r
<1>2. w1.who = m /\ w1.rec.nick = nick
  BY <1>1 DEF BegRec, Write
<1>3. w2.who = m /\ w2.rec.nick = nick /\ ~w2.rec.isbeggar
  BY <1>1 DEF BegRec, Write
<1>4. UpdNickBeggar(m, r, nick) = << w1, w2 >> BY DEF UpdNickBeggar
<1> HIDE DEF w1, w2
<1>5. Len(<< w1, w2 >>) = 2 /\ << w1, w2 >>[1] = w1 /\ << w1, w2 >>[2] = w2 OBVIOUS
<1>6. \A i \in 1..2 : i = 1 \/ i = 2 OBVIOUS
<1> QED BY <1>2, <1>3, <1>4, <1>5, <1>6, Zenon DEF r, Bare

LEMMA PerformCut == ASSUME FlagInv, GiftInv, CutInv, PerformWrite PROVE CutInv'
<1> DEFINE w == Head(queue)
           n == Len(queue)
<1>1. queue # << >> /\ queue \in Seq(GoodWrites) /\ n \in Nat /\ n > 0
  BY EmptySeq, LenProperties DEF PerformWrite, Idle, FlagInv
<1>2. w = queue[1] /\ 1 \in 1..n /\ Len(Tail(queue)) = n - 1
      /\ \A i \in 1..Len(Tail(queue)) : Tail(queue)[i] = queue[i + 1] /\ i + 1 \in 1..n
  BY <1>1, HeadTailProperties
<1>3. w.who \in Members /\ w.rec \in GoodRecs
  BY <1>2, QueueTypes
<1>4. /\ queue' = Tail(queue) /\ file' = [file EXCEPT ![w.who] = Filed(w.rec)]
      /\ timers' = timers
      /\ excused' = IF Filed(w.rec) = w.rec THEN excused ELSE excused \cup {w.who}
  BY DEF PerformWrite
<1> HIDE DEF w, n
<1> PICK m \in Members : m = w.who BY <1>3
<1>a. excused \subseteq excused' /\ (Filed(w.rec) = w.rec \/ m \in excused')
  BY <1>4
<1>5. Read(m)' = Filed(w.rec) /\ \A k \in Members : k # m => Read(k)' = Read(k)
  <2>1. file'[m] = Filed(w.rec) BY <1>3, <1>4 DEF FlagInv
  <2>2. Filed(w.rec) # NoRec BY <1>3, FiledGood, BeggarAssumption DEF GoodRecs
  <2>3. \A k \in Members : k # m => file'[k] = file[k] BY <1>4 DEF FlagInv
  <2> QED BY <2>1, <2>2, <2>3 DEF Read
<1>6. queue[n].who = m
  <2>1. CASE n = 1 BY <1>2, <2>1
  <2>2. CASE n # 1
    <3>1. 1 < n /\ n \in 1..n
      <4>1. n \in Nat /\ n > 0 BY <1>1
      <4> QED BY <2>2, <4>1
    <3>2. n \in 1..Len(queue) BY <3>1 DEF n
    <3> QED BY <1>2, <3>1, <3>2 DEF GiftInv, OneGift
  <2> QED BY <2>1, <2>2
<1>7. CutOnFile'
  <2>1. w.rec.nick.cut => m \in excused BY <1>2 DEF CutInv, CutInQueue, n
  <2>2. Filed(w.rec).nick.cut => m \in excused BY <1>3, <2>1, FiledGood
  <2> QED BY <1>a, <1>5, <2>2 DEF CutInv, CutOnFile
<1>8. CutInQueue'
  <2> SUFFICES ASSUME NEW i \in 1..Len(queue'), queue'[i].rec.nick.cut PROVE queue'[i].who \in excused'
    BY DEF CutInQueue
  <2>1. queue'[i] = queue[i + 1] /\ i + 1 \in 1..Len(queue) BY <1>2, <1>4 DEF n
  <2> QED BY <1>a, <2>1 DEF CutInv, CutInQueue
<1>9. CutInTimers' BY <1>a, <1>4 DEF CutInv, CutInTimers
<1>10. CASE n = 1
  <2>1. Len(queue') = 0 /\ queue' \in Seq(GoodWrites) BY <1>1, <1>2, <1>4, <1>10, HeadTailProperties
  <2>2. queue' = << >> BY <2>1, EmptySeq
  <2>3. Bare(w.rec) => m \in excused
    BY <1>1, <1>2, <1>6, <1>10 DEF CutInv, BareAtEnd, n
  <2>5. Bare(Filed(w.rec)) => m \in excused'
    BY <1>a, <2>3
  <2>4. ASSUME NEW k \in Members, Bare(Read(k)') PROVE k \in excused'
    <3>1. CASE k = m BY <1>5, <2>4, <2>5, <3>1
    <3>2. CASE k # m
      <4>1. Bare(Read(k)) BY <1>5, <2>4, <3>2
      <4> QED BY <1>a, <1>6, <3>2, <4>1 DEF CutInv, BareOnFile, n
    <3> QED BY <3>1, <3>2
  <2> QED BY <1>7, <1>9, <2>2, <2>4, EmptiedCut
<1>11. CASE n # 1
  <2>1. Len(queue') = n - 1 /\ n - 1 \in 1..Len(queue') BY <1>1, <1>2, <1>4, <1>11
  <2>2. queue'[Len(queue')] = queue[n] BY <1>1, <1>2, <1>4, <2>1
  <2>3. queue' # << >> BY <2>1, EmptySeq
  <2>4. BareAtEnd' BY <1>1, <1>a, <2>2 DEF CutInv, BareAtEnd, Bare, n
  <2>5. BareOnFile'
    <3> SUFFICES ASSUME NEW k \in Members, Bare(Read(k)')
                 PROVE  k \in excused' \/ (queue' # << >> /\ queue'[Len(queue')].who = k)
      BY DEF BareOnFile, Bare
    <3>1. CASE k = m BY <1>6, <2>2, <2>3, <3>1
    <3>2. CASE k # m
      <4>1. Read(k)' = Read(k) BY <1>5, <3>2
      <4>2. Bare(Read(k)) BY <4>1
      <4> QED BY <1>a, <1>6, <3>2, <4>2 DEF CutInv, BareOnFile, n
    <3> QED BY <3>1, <3>2
  <2> QED BY <1>7, <1>8, <1>9, <2>4, <2>5 DEF CutInv
<1> QED BY <1>10, <1>11

LEMMA CutInit == Init => CutInv
<1> SUFFICES ASSUME Init PROVE CutInv
  OBVIOUS
<1>1. Len(queue) = 0 /\ queue = << >> /\ timers = {} BY EmptySeq DEF Init
<1>2. \A m \in Members : Read(m) = Fresh BY DEF Init, Read
<1>3. Fresh.nick.cut = FALSE /\ Fresh.isbeggar = FALSE BY DEF Fresh, Called
<1>4. CutOnFile /\ BareOnFile BY <1>2, <1>3, Zenon DEF CutOnFile, BareOnFile, Bare
<1> QED BY <1>1, <1>4 DEF CutInv, CutInQueue, CutInTimers, BareAtEnd

LEMMA CutNext == FlagInv /\ GiftInv /\ CutInv /\ [Next]_vars => CutInv'
<1> SUFFICES ASSUME FlagInv, GiftInv, CutInv, [Next]_vars PROVE CutInv'
  OBVIOUS
<1>1. CASE Tick
  <2>1. queue' = << >> /\ queue = << >> /\ UNCHANGED <<file, timers, excused>> BY <1>1 DEF Tick, Idle
  <2> QED BY <2>1, EmptiedCut DEF CutInv, CutOnFile, CutInTimers, BareOnFile, Bare, Read
<1>2. CASE PerformWrite
  BY <1>2, PerformCut
<1>3. CASE Crash
  <2>1. queue' = << >> /\ timers' = {} BY <1>3 DEF Crash
  <2>2. CutInTimers' BY <2>1 DEF CutInTimers
  <2>3. CASE Idle
    <3>1. queue = << >> /\ UNCHANGED <<file, excused>> BY <1>3, <2>3 DEF Crash, Idle
    <3> QED BY <2>1, <2>2, <3>1, EmptiedCut DEF CutInv, CutOnFile, BareOnFile, Bare, Read
  <2>4. CASE ~Idle
    <3>1. queue # << >> /\ queue \in Seq(GoodWrites) /\ Len(queue) \in Nat /\ Len(queue) > 0
      BY <2>4, EmptySeq, LenProperties DEF Idle, FlagInv
    <3>2. Head(queue) = queue[1] /\ 1 \in 1..Len(queue) BY <3>1, HeadTailProperties
    <3>3. Head(queue).who \in Members BY <3>2, QueueTypes
    <3> PICK m \in Members : m = Head(queue).who BY <3>3
    <3>4. queue[Len(queue)].who = m
      <4>1. CASE Len(queue) = 1 BY <3>2, <4>1
      <4>2. CASE Len(queue) # 1
        <5> DEFINE n == Len(queue)
        <5>0. n \in Nat /\ n > 0 /\ n # 1 BY <3>1, <4>2
        <5> HIDE DEF n
        <5>a. 1 < n /\ n \in 1..n BY <5>0
        <5>1. 1 < Len(queue) /\ Len(queue) \in 1..Len(queue) BY <5>a DEF n
        <5> QED BY <3>2, <5>1 DEF GiftInv, OneGift
      <4> QED BY <4>1, <4>2
    <3>5. excused' = excused \cup {m} BY <1>3, <2>4 DEF Crash
    <3>6. file' = file \/ file' = [file EXCEPT ![m] = NoRec] BY <1>3, <2>4 DEF Crash
    <3>7. \A k \in Members : k # m => Read(k)' = Read(k) BY <3>6 DEF Read, FlagInv
    <3>8. CutOnFile' BY <3>5, <3>7 DEF CutInv, CutOnFile
    <3>9. ASSUME NEW k \in Members, Bare(Read(k)') PROVE k \in excused'
      <4>1. CASE k = m BY <3>5, <4>1
      <4>2. CASE k # m
        <5>1. Read(k)' = Read(k) BY <3>7, <4>2
        <5>2. Bare(Read(k)) BY <3>9, <5>1
        <5> QED BY <3>4, <3>5, <4>2, <5>2 DEF CutInv, BareOnFile
      <4> QED BY <4>1, <4>2
    <3> QED BY <2>1, <2>2, <3>8, <3>9, EmptiedCut
  <2> QED BY <2>3, <2>4
<1>4. ASSUME NEW m \in Members, NEW mark \in Marks, NEW money \in {0, 1}, Beg(m, mark, money)
      PROVE  CutInv'
  <2> DEFINE r == Read(m)
             w1 == Write(m, r)
             w2 == Write(m, Begging(r))
             w3 == Write(m, BegPaid(m, money))
             w4 == Write(m, BegMarked(m, mark, money))
  <2>1. queue = << >> /\ UNCHANGED <<file, excused>> /\ ~r.isbeggar BY <1>4 DEF Beg, Passes, Idle
  <2>2. r \in BegRec /\ r.nick \in Nick BY ReadGood DEF GoodRecs, BegRec
  <2>3. Begging(r) \in BegRec /\ Begging(r).nick = r.nick
    <3>1. now \in Nat BY DEF FlagInv
    <3> HIDE DEF r
    <3> QED BY <2>2, <3>1 DEF Begging, BegRec
  <2>4. BegPaid(m, money) \in BegRec /\ BegPaid(m, money).nick = r.nick BY <2>3 DEF BegPaid, BegRec
  <2>5. BegMarked(m, mark, money).nick = Mark(r.nick, mark) BY <2>4 DEF BegMarked, BegRec
  <2>6. Mark(r.nick, mark).cut = r.nick.cut BY <2>2 DEF Mark, Nick
  <2>7. BegMarked(m, mark, money).nick.marks # << >> BY <2>1, BegGood
  <2>8. /\ w1.who = m /\ w1.rec.nick = r.nick
        /\ w2.who = m /\ w2.rec.nick = r.nick
        /\ w3.who = m /\ w3.rec.nick = r.nick
        /\ w4.who = m /\ w4.rec.nick.cut = r.nick.cut /\ ~Bare(w4.rec)
    BY <2>3, <2>4, <2>5, <2>6, <2>7 DEF Write, Bare
  <2>9. /\ money = 0 => queue' = << w1, w2, w4 >>
        /\ money # 0 => queue' = << w1, w2, w3, w4 >>
    BY <1>4, BegQueue
  <2> HIDE DEF w1, w2, w3, w4
  <2>10. /\ Len(queue') \in Nat /\ Len(queue') > 0
         /\ \A i \in 1..Len(queue') : queue'[i].who = m /\ queue'[i].rec.nick.cut = r.nick.cut
         /\ queue'[Len(queue')] = w4
    <3>1. CASE money = 0
      <4>1. queue' = << w1, w2, w4 >> BY <2>9, <3>1
      <4>2. Len(queue') = 3 /\ queue'[1] = w1 /\ queue'[2] = w2 /\ queue'[3] = w4 BY <4>1
      <4> QED BY <2>8, <4>2
    <3>2. CASE money # 0
      <4>1. queue' = << w1, w2, w3, w4 >> BY <2>9, <3>2
      <4>2. Len(queue') = 4 /\ queue'[1] = w1 /\ queue'[2] = w2 /\ queue'[3] = w3 /\ queue'[4] = w4
        BY <4>1
      <4> QED BY <2>8, <4>2
    <3> QED BY <3>1, <3>2
  <2>11. r.nick.cut => m \in excused' BY <2>1 DEF CutInv, CutOnFile
  <2>12. \A t \in timers' : t.nick.cut => t.who \in excused'
    <3>1. PICK lag \in 0..MaxLag : timers' = timers \cup {Timer(m, r.nick, lag)}
      BY <1>4 DEF Beg
    <3>2. Timer(m, r.nick, lag).who = m /\ Timer(m, r.nick, lag).nick = r.nick BY DEF Timer
    <3> HIDE DEF r
    <3> QED BY <2>1, <2>11, <3>1, <3>2 DEF CutInv, CutInTimers
  <2> QED BY <2>1, <2>8, <2>10, <2>11, <2>12, HandlerCut
<1>5. ASSUME NEW m \in Members, Interact(m) PROVE CutInv'
  <2> DEFINE w == Write(m, Read(m))
  <2>1. queue = << >> /\ UNCHANGED <<file, excused, timers>> /\ ~Read(m).isbeggar /\ queue' = << w >>
    BY <1>5 DEF Interact, Passes, Idle
  <2>2. w.who = m /\ w.rec = Read(m) BY DEF Write
  <2> HIDE DEF w
  <2>3. Len(queue') = 1 /\ queue'[1] = w BY <2>1
  <2>4. Read(m).nick.cut => m \in excused' BY <2>1 DEF CutInv, CutOnFile
  <2>5. ~Bare(queue'[Len(queue')].rec) BY <2>1, <2>2, <2>3 DEF Bare
  <2>6. \A t \in timers' : t.nick.cut => t.who \in excused' BY <2>1 DEF CutInv, CutInTimers
  <2> QED BY <2>1, <2>2, <2>3, <2>4, <2>5, <2>6, HandlerCut
<1>6. ASSUME NEW m \in Members, Restore(m) PROVE CutInv'
  <2> DEFINE r == Read(m)
             nick == Strip(r.nick)
  <2>1. queue = << >> /\ UNCHANGED <<file, excused, timers>> /\ r.isbeggar
        /\ queue' = UpdNickBeggar(m, r, nick)
    BY <1>6 DEF Restore, GateRestores, Idle
  <2>2. r \in GoodRecs /\ r.nick \in Nick /\ Len(r.nick.marks) <= 1
    BY ReadGood DEF GoodRecs, BegRec, Flagged
  <2>3. nick \in Nick BY <2>2, StripType
  <2>4. nick.cut => m \in excused'
    <3>1. CASE r.nick.marks = << >>
      <4>1. Bare(r) BY <2>1, <3>1 DEF Bare
      <4> QED BY <2>1, <4>1 DEF CutInv, BareOnFile
    <3>2. CASE r.nick.marks # << >>
      <4>1. nick.cut = r.nick.cut BY <2>2, <3>2 DEF Strip, Nick
      <4> QED BY <2>1, <4>1 DEF CutInv, CutOnFile
    <3> QED BY <3>1, <3>2
  <2> HIDE DEF nick
  <2>5. /\ Len(queue') = 2 /\ \A i \in 1..2 : queue'[i].who = m /\ queue'[i].rec.nick = nick
        /\ ~Bare(queue'[2].rec)
    BY <2>1, <2>3, UpdNickCut
  <2>6. \A t \in timers' : t.nick.cut => t.who \in excused' BY <2>1 DEF CutInv, CutInTimers
  <2> QED BY <2>1, <2>4, <2>5, <2>6, HandlerCut
<1>7. ASSUME NEW m \in Members, RestoreThrows(m) PROVE CutInv'
  <2>1. queue' = << >> /\ queue = << >> /\ UNCHANGED <<file, excused>> /\ timers' = {}
    BY <1>7 DEF RestoreThrows, GateRestores, Idle
  <2> QED BY <2>1, EmptiedCut DEF CutInv, CutOnFile, CutInTimers, BareOnFile, Bare, Read
<1>8. ASSUME NEW t \in timers, Fire(t) PROVE CutInv'
  <2>1. t.who \in Members /\ t.nick \in Nick BY DEF FlagInv
  <2> PICK m \in Members : m = t.who BY <2>1
  <2>2. queue = << >> /\ UNCHANGED <<file, excused>> /\ timers' = timers \ {t}
        /\ queue' = UpdNickBeggar(m, Read(m), t.nick)
    BY <1>8 DEF Fire, Idle
  <2>3. t.nick.cut => m \in excused' BY <2>2 DEF CutInv, CutInTimers
  <2>4. /\ Len(queue') = 2 /\ \A i \in 1..2 : queue'[i].who = m /\ queue'[i].rec.nick = t.nick
        /\ ~Bare(queue'[2].rec)
    BY <2>1, <2>2, UpdNickCut
  <2>5. \A u \in timers' : u.nick.cut => u.who \in excused' BY <2>2 DEF CutInv, CutInTimers
  <2> QED BY <2>2, <2>3, <2>4, <2>5, HandlerCut
<1>9. ASSUME NEW m \in Members, NEW name \in Names, Rename(m, name) PROVE CutInv'
  <2> DEFINE r == Read(m)
             w == Write(m, [r EXCEPT !.nick = Called(name)])
  <2>1. queue = << >> /\ UNCHANGED <<file, timers>> /\ queue' = << w >>
        /\ excused' = IF r.isbeggar THEN excused \cup {m} ELSE excused
    BY <1>9 DEF Rename, Idle
  <2>2. r \in BegRec BY ReadGood DEF GoodRecs
  <2>3. w.who = m /\ w.rec.nick = Called(name) /\ w.rec.isbeggar = r.isbeggar
    BY <2>2 DEF Write, BegRec
  <2>4. Called(name).cut = FALSE BY DEF Called
  <2> HIDE DEF w
  <2>5. Len(queue') = 1 /\ queue'[1] = w BY <2>1
  <2>6. Bare(w.rec) => m \in excused' BY <2>1, <2>3 DEF Bare
  <2>7. excused \subseteq excused' BY <2>1
  <2>8. \A t \in timers' : t.nick.cut => t.who \in excused' BY <2>1, <2>7 DEF CutInv, CutInTimers
  <2>9. ~w.rec.nick.cut BY <2>3, <2>4
  <2> QED BY <2>1, <2>3, <2>5, <2>6, <2>7, <2>8, <2>9, HandlerCut
<1>10. ASSUME NEW m \in Members, LookUp(m) PROVE CutInv'
  <2>1. queue = << >> /\ UNCHANGED <<file, excused, timers>> BY <1>10 DEF LookUp, Idle
  <2>2. PICK name \in Names \cup {Username} :
            queue' = << Write(m, [Fresh EXCEPT !.nick = Called(name)]) >>
    BY <1>10 DEF LookUp
  <2> DEFINE w == Write(m, [Fresh EXCEPT !.nick = Called(name)])
  <2>3. w.who = m /\ w.rec.nick = Called(name) /\ ~w.rec.isbeggar
    BY DEF Write, Fresh
  <2>4. ~Called(name).cut BY DEF Called
  <2> HIDE DEF w
  <2>5. Len(queue') = 1 /\ queue'[1] = w BY <2>2 DEF w
  <2>6. ~Bare(w.rec) /\ ~w.rec.nick.cut BY <2>3, <2>4 DEF Bare
  <2>7. \A t \in timers' : t.nick.cut => t.who \in excused' BY <2>1 DEF CutInv, CutInTimers
  <2> QED BY <2>1, <2>3, <2>5, <2>6, <2>7, HandlerCut
<1>11. CASE UNCHANGED vars
  <2>1. UNCHANGED <<file, queue, timers, excused>> BY <1>11 DEF vars
  <2> QED BY <2>1 DEF CutInv, CutOnFile, CutInQueue, CutInTimers, BareOnFile, BareAtEnd, Bare, Read
<1> QED BY <1>1, <1>2, <1>3, <1>4, <1>5, <1>6, <1>7, <1>8, <1>9, <1>10, <1>11 DEF Next

\* The gate takes off what /beg put on.  It cuts into a name only in three cases: a
\* crash broke a handler of the member, the administrator renamed a beggar, or the
\* nick and its mark exceed the 63 bytes of the file, which needs neither.
THEOREM GateTakesOffMarks == Spec => []StripsOnlyMarks
<1>1. CutInv => StripsOnlyMarks BY DEF CutInv, CutOnFile, StripsOnlyMarks
<1>2. Spec => []CutInv
  BY CutInit, CutNext, FlagInvariant, GiftInvariant, PTL DEF Spec
<1> QED BY <1>1, <1>2, PTL

---------------------------------------------------------------------------
(* The stock market *)

\* The int wraps into its range, and what is in the range stays as it is.
LEMMA WrapRange == ASSUME NEW n \in Int PROVE Wrap(n) \in -Half..(Half - 1)
BY HalfAssumption DEF Wrap

LEMMA WrapType == ASSUME NEW n \in Int PROVE Wrap(n) \in Int
BY HalfAssumption DEF Wrap

LEMMA FitsIff == ASSUME NEW n \in Int PROVE Fits(n) <=> n \in -Half..(Half - 1)
<1>1. ASSUME n \in -Half..(Half - 1) PROVE Fits(n)
  <2>1. (n + Half) % (2 * Half) = n + Half
    BY <1>1, HalfAssumption
  <2> QED BY <2>1, HalfAssumption DEF Wrap, Fits
<1> QED BY <1>1, WrapRange DEF Fits

\* The place in the list, of whatever length it is.
LEMMA StockType == ASSUME NEW k \in Nat \ {0} PROVE Stock(k) \in Listed
BY MarketAssumption DEF Stock, Listed

\* A function on 1..count is a sequence of this length.
LEMMA Listing ==
    ASSUME NEW S, NEW count \in Nat, NEW f \in [1..count -> S]
    PROVE  f \in Seq(S) /\ Len(f) = count
<1>1. f \in Seq(S) BY SeqDef
<1> QED BY <1>1, LenProperties

---------------------------------------------------------------------------
\* A stock and its mirror add up to Ceiling whenever there is a trade.
MirrorAddsUp == quotes # << >> => quotes[1] + quotes[2] = Ceiling

\* The inductive invariant: there are no fewer places than stocks, so that the
\* place of the mirror is one.
MarketInv ==
    /\ MarketTypeOK
    /\ quotes # << >> => Len(quotes) >= StockCount
    /\ MirrorAddsUp
    /\ Solvent

LEMMA InitInv == MarketInit => MarketInv
<1> SUFFICES ASSUME MarketInit PROVE MarketInv
  OBVIOUS
<1>1. 2 \in Listed /\ Listed \subseteq Nat
  BY MarketAssumption DEF Listed
<1>2. board \in [Listed -> Int \cup {Missing, Torn}] /\ quoted \in [Listed -> Int]
  <2>1. CASE board = [n \in Listed |-> Missing] /\ quoted = [n \in Listed |-> 0]
    BY <2>1
  <2>2. ASSUME NEW p \in Openings, quoted = board,
               board = [n \in Listed |-> IF n = 2 THEN Ceiling - p ELSE p]
        PROVE  board \in [Listed -> Int]
    <3>1. p \in Int /\ Ceiling - p \in Int BY MarketAssumption
    <3> QED BY <2>2, <3>1
  <2> QED BY <2>1, <2>2 DEF MarketInit
<1>3. purse \in [money: Int, held: [Listed -> Int]]
  BY MarketAssumption DEF MarketInit
<1>4. odd \in BOOLEAN
  BY Zenon DEF MarketInit
<1>5. quotes \in Seq(Int) /\ Len(quotes) = 0 /\ pending \in Seq([stock: Listed, price: Int])
  BY EmptySeq DEF MarketInit
<1>6. \A k \in 1..Len(quotes) : k # 2 => quotes[k] >= 0
  BY <1>5
<1>7. MarketTypeOK
  BY <1>2, <1>3, <1>4, <1>5, <1>6, Zenon DEF MarketTypeOK
<1>8. Solvent
  BY MarketAssumption DEF MarketInit, Solvent
<1> QED BY <1>7, <1>8 DEF MarketInit, MarketInv, MirrorAddsUp

\* A move of all prices, on however many places.
LEMMA UpdateInv ==
    ASSUME MarketInv, NEW count \in Nat, count >= StockCount, UpdStk(count)
    PROVE  MarketInv'
<1> USE MarketAssumption
<1>1. PICK c \in Moves(count), opening \in Openings, garbage \in Garbage :
          quotes' = Mirrored([k \in 1..count |->
                        Moved(ReadStock(Stock(k), opening, garbage), c[k])])
  BY DEF UpdStk
<1> DEFINE walked == [k \in 1..count |-> Moved(ReadStock(Stock(k), opening, garbage), c[k])]
<1>2. \A k \in 1..count : walked[k] \in Nat
  <2> TAKE k \in 1..count
  <2>1. c[k] \in Int
    BY DEF Moves, Listed
  <2>2. ReadStock(Stock(k), opening, garbage) \in Int
    <3>1. board[Stock(k)] \in Int \cup {Missing, Torn}
      <4>1. Stock(k) \in Listed BY StockType
      <4>2. board \in [Listed -> Int \cup {Missing, Torn}]
        BY Zenon DEF MarketInv, MarketTypeOK
      <4> QED BY <4>1, <4>2
    <3> QED BY <3>1 DEF ReadStock
  <2> QED BY <2>1, <2>2 DEF Moved, Abs
<1>3. walked \in [1..count -> Nat]
  BY <1>2
<1>4. 1 \in 1..count /\ 2 \in 1..count
  OBVIOUS
<1>5. quotes' \in [1..count -> Int]
      /\ quotes'[2] = Ceiling - walked[1]
      /\ \A k \in 1..count : k # 2 => quotes'[k] = walked[k]
  BY <1>1, <1>3, <1>4 DEF Mirrored
<1>6. quotes' \in Seq(Int) /\ Len(quotes') = count
  BY <1>5, Listing
<1>7. pending' \in Seq([stock: Listed, price: Int])
  <2>1. pending' \in [1..count -> [stock: Listed, price: Int]]
    <3>1. ASSUME NEW k \in 1..count
          PROVE  [stock |-> Stock(k), price |-> quotes'[k]] \in [stock: Listed, price: Int]
      <4>1. Stock(k) \in Listed BY StockType
      <4>2. quotes'[k] \in Int BY <1>5
      <4> QED BY <4>1, <4>2
    <3>2. pending' = [k \in 1..count |-> [stock |-> Stock(k), price |-> quotes'[k]]]
      BY DEF UpdStk
    <3> QED BY <3>1, <3>2
  <2> QED BY <2>1, Listing
<1>8. quoted' \in [Listed -> Int]
  <2>1. \A n \in Listed : n \in 1..count BY DEF Listed
  <2> QED BY <2>1, <1>5 DEF UpdStk
<1>9. MarketTypeOK'
  <2>1. \A k \in 1..Len(quotes') : k # 2 => quotes'[k] >= 0
    BY <1>2, <1>5, <1>6
  <2>2. board' = board /\ purse' = purse /\ odd' = odd
    BY DEF UpdStk
  <2> QED BY <1>6, <1>7, <1>8, <2>1, <2>2, Zenon DEF MarketInv, MarketTypeOK
<1>10. MirrorAddsUp'
  BY <1>2, <1>4, <1>5 DEF MirrorAddsUp
<1> QED BY <1>6, <1>9, <1>10 DEF MarketInv, Solvent, UpdStk

---------------------------------------------------------------------------
\* What a purchase leaves, when its numbers are ints.
LEMMA BuyStep ==
    ASSUME MarketInv, NEW n \in Listed, NEW count \in ShareCounts, Buy(n, count)
    PROVE  /\ purse' \in [money: Int, held: [Listed -> Int]]
           /\ odd' \in BOOLEAN
           /\ ~odd' => /\ purse'.money = purse.money - count * quotes[n]
                       /\ purse'.money >= 0
                       /\ purse'.held = [purse.held EXCEPT ![n] = @ + count]
                       /\ count > 0
<1> USE MarketAssumption, HalfAssumption
<1> DEFINE price == count * quotes[n]
           rest  == purse.money - Wrap(price)
<1>1. n \in 1..Len(quotes) /\ quotes \in Seq(Int)
  BY DEF MarketInv, MarketTypeOK, Buy, Listed
<1>2. quotes[n] \in Int /\ count \in Int
  BY <1>1
<1>3. price \in Int BY <1>2
<1>4. purse.money \in Int /\ purse.held \in [Listed -> Int] /\ odd \in BOOLEAN
  BY DEF MarketInv, MarketTypeOK
<1> HIDE DEF price
<1>5. rest \in Int /\ Wrap(rest) \in Int /\ Wrap(purse.held[n] + count) \in Int
  <2>1. Wrap(price) \in Int BY <1>3, WrapType
  <2>2. rest \in Int BY <2>1, <1>4
  <2>3. purse.held[n] + count \in Int BY <1>2, <1>4
  <2> HIDE DEF rest
  <2> QED BY <2>2, <2>3, WrapType
<1>6. /\ purse' = [money |-> Wrap(rest), held |-> [purse.held EXCEPT ![n] = Wrap(purse.held[n] + count)]]
      /\ odd' = (odd \/ ~(Fits(price) /\ Fits(0 - price)) \/ ~Fits(rest) \/ ~Fits(purse.held[n] + count))
      /\ Wrap(rest) >= 0 /\ count > 0
  BY DEF Buy, TradeOf, MayBuy, price
<1>7. odd' \in BOOLEAN
  BY <1>4, <1>6
<1>8. ASSUME ~odd' PROVE Wrap(rest) = purse.money - price /\ Wrap(purse.held[n] + count) = purse.held[n] + count
  BY <1>3, <1>4, <1>6, <1>8 DEF Fits
<1>9. purse' \in [money: Int, held: [Listed -> Int]]
  BY <1>4, <1>5, <1>6
<1>10. ASSUME ~odd'
       PROVE  /\ purse'.money = purse.money - count * quotes[n]
              /\ purse'.money >= 0
              /\ purse'.held = [purse.held EXCEPT ![n] = @ + count]
  BY <1>6, <1>8, <1>10 DEF price
<1> QED BY <1>6, <1>7, <1>9, <1>10

\* What a sale leaves, when its numbers are ints and its price is not negative.
LEMMA SellStep ==
    ASSUME MarketInv, NEW n \in Listed, NEW count \in ShareCounts, Sell(n, count)
    PROVE  /\ purse' \in [money: Int, held: [Listed -> Int]]
           /\ odd' \in BOOLEAN
           /\ ~odd' => /\ purse'.money >= purse.money
                       /\ purse'.money <= purse.money + count * quotes[n]
                       /\ purse'.held = [purse.held EXCEPT ![n] = @ - count]
                       /\ purse.held[n] >= count
<1> USE MarketAssumption, HalfAssumption
<1> DEFINE price == count * quotes[n]
           rest  == purse.money + Proceeds(price)
<1>1. n \in 1..Len(quotes) /\ quotes \in Seq(Int)
  BY DEF MarketInv, MarketTypeOK, Sell, Listed
<1>2. quotes[n] \in Int /\ count \in Int
  BY <1>1
<1>3. price \in Int BY <1>2
<1>4. purse.money \in Int /\ purse.held \in [Listed -> Int] /\ odd \in BOOLEAN
  BY DEF MarketInv, MarketTypeOK
<1> HIDE DEF price
<1>5. Proceeds(price) \in Int
  <2>1. Wrap(price) \in Int BY <1>3, WrapType
  <2>2. Wrap(price) * 97 \in Int BY <2>1
  <2>3. Wrap(Wrap(price) * 97) \in Int BY <2>2, WrapType
  <2> QED BY <2>3 DEF Proceeds, Quot
<1>6. rest \in Int /\ Wrap(rest) \in Int /\ Wrap(purse.held[n] - count) \in Int
  <2>1. rest \in Int BY <1>4, <1>5
  <2>2. purse.held[n] - count \in Int BY <1>2, <1>4
  <2> HIDE DEF rest
  <2> QED BY <2>1, <2>2, WrapType
<1>7. /\ purse' = [money |-> Wrap(rest), held |-> [purse.held EXCEPT ![n] = Wrap(purse.held[n] - count)]]
      /\ odd' = (odd \/ ~(quotes[n] >= 0 /\ Fits(price * 97)) \/ ~Fits(rest) \/ ~Fits(purse.held[n] - count))
      /\ purse.held[n] - count >= 0 /\ count > 0
  BY DEF Sell, TradeOf, MaySell, price
<1>8. odd' \in BOOLEAN
  BY <1>4, <1>7
<1>9. ASSUME ~odd'
      PROVE  /\ Wrap(rest) >= purse.money
             /\ Wrap(rest) <= purse.money + price
             /\ Wrap(purse.held[n] - count) = purse.held[n] - count
  <2>1. quotes[n] >= 0 /\ Fits(price * 97) /\ Fits(rest) /\ Fits(purse.held[n] - count)
    BY <1>7, <1>9
  <2>2. price >= 0
    BY <2>1, <1>2, <1>7 DEF price
  <2>3. price * 97 \in -Half..(Half - 1)
    BY <2>1, <1>3, FitsIff
  <2>4. price \in -Half..(Half - 1)
    BY <2>2, <2>3, <1>3
  <2>5. Wrap(price) = price
    BY <2>4, <1>3, FitsIff DEF Fits
  <2>6. Wrap(Wrap(price) * 97) = price * 97
    BY <2>5, <2>1 DEF Fits
  <2>7. Proceeds(price) = (price * 97) \div 100
    BY <2>2, <2>6, <1>3 DEF Proceeds, Quot
  <2>8. Proceeds(price) >= 0 /\ Proceeds(price) <= price
    BY <2>2, <2>7, <1>3
  <2> QED BY <2>1, <2>8, <1>3, <1>4, <1>5 DEF Fits
<1>10. purse' \in [money: Int, held: [Listed -> Int]]
  BY <1>4, <1>6, <1>7
<1>11. ASSUME ~odd'
       PROVE  /\ purse'.money >= purse.money
              /\ purse'.money <= purse.money + count * quotes[n]
              /\ purse'.held = [purse.held EXCEPT ![n] = @ - count]
  BY <1>7, <1>9, <1>11 DEF price
<1> QED BY <1>2, <1>4, <1>7, <1>8, <1>10, <1>11

---------------------------------------------------------------------------
LEMMA NextInv == MarketInv /\ [MarketNext]_marketVars => MarketInv'
<1> SUFFICES ASSUME MarketInv, [MarketNext]_marketVars PROVE MarketInv'
  OBVIOUS
<1> USE MarketAssumption
<1>1. CASE OnReady
  <2>1. Len(quotes) + StockCount \in Nat /\ Len(quotes) + StockCount >= StockCount
    BY DEF MarketInv, MarketTypeOK
  <2> QED BY <1>1, <2>1, UpdateInv DEF OnReady
<1>2. CASE TimerTick
  <2>1. Len(quotes) \in Nat /\ Len(quotes) >= StockCount
    BY <1>2 DEF TimerTick, MarketInv, MarketTypeOK
  <2> QED BY <1>2, <2>1, UpdateInv DEF TimerTick
<1>3. CASE WriteStock
  <2>1. pending \in Seq([stock: Listed, price: Int]) /\ pending # << >>
    BY <1>3 DEF WriteStock, Open, MarketInv, MarketTypeOK
  <2>2. Head(pending) \in [stock: Listed, price: Int]
        /\ Tail(pending) \in Seq([stock: Listed, price: Int])
    BY <2>1, HeadTailProperties
  <2>3. MarketTypeOK'
    BY <1>3, <2>2 DEF WriteStock, MarketInv, MarketTypeOK
  <2> QED BY <1>3, <2>3 DEF WriteStock, MarketInv, MirrorAddsUp, Solvent
<1>4. CASE Die
  <2>1. board' \in [Listed -> Int \cup {Missing, Torn}]
    BY <1>4 DEF Die, MarketInv, MarketTypeOK
  <2>2. MarketTypeOK'
    BY <1>4, <2>1, EmptySeq DEF Die, MarketInv, MarketTypeOK
  <2> QED BY <1>4, <2>2 DEF Die, MarketInv, MirrorAddsUp, Solvent
<1>5. ASSUME NEW n \in Listed, NEW count \in ShareCounts, Buy(n, count)
      PROVE  MarketInv'
  <2>1. UNCHANGED <<quotes, board, pending, quoted>> /\ (~odd' => ~odd)
    BY <1>5 DEF Buy, TradeOf
  <2>2. MarketTypeOK'
    BY <1>5, <2>1, BuyStep DEF MarketInv, MarketTypeOK
  <2>3. Solvent'
    <3> SUFFICES ASSUME ~odd' PROVE Solvent'
      BY DEF Solvent
    <3>1. purse.held \in [Listed -> Int] /\ count \in Int
      BY DEF MarketInv, MarketTypeOK
    <3>2. \A j \in Listed : purse.held[j] >= 0
      BY <2>1 DEF MarketInv, Solvent
    <3>3. /\ purse'.money >= 0
          /\ purse'.held = [purse.held EXCEPT ![n] = @ + count]
          /\ count > 0
      BY <1>5, BuyStep
    <3> QED BY <3>1, <3>2, <3>3 DEF Solvent
  <2> QED BY <2>1, <2>2, <2>3 DEF MarketInv, MirrorAddsUp
<1>6. ASSUME NEW n \in Listed, NEW count \in ShareCounts, Sell(n, count)
      PROVE  MarketInv'
  <2>1. UNCHANGED <<quotes, board, pending, quoted>> /\ (~odd' => ~odd)
    BY <1>6 DEF Sell, TradeOf
  <2>2. MarketTypeOK'
    BY <1>6, <2>1, SellStep DEF MarketInv, MarketTypeOK
  <2>3. Solvent'
    <3> SUFFICES ASSUME ~odd' PROVE Solvent'
      BY DEF Solvent
    <3>1. purse.held \in [Listed -> Int] /\ count \in Int /\ purse.money \in Int
      BY DEF MarketInv, MarketTypeOK
    <3>2. purse.money >= 0 /\ \A j \in Listed : purse.held[j] >= 0
      BY <2>1 DEF MarketInv, Solvent
    <3>3. /\ purse'.money >= purse.money
          /\ purse'.money \in Int
          /\ purse'.held = [purse.held EXCEPT ![n] = @ - count]
          /\ purse.held[n] >= count
      BY <1>6, SellStep
    <3> QED BY <3>1, <3>2, <3>3 DEF Solvent
  <2> QED BY <2>1, <2>2, <2>3 DEF MarketInv, MirrorAddsUp
<1>7. CASE UNCHANGED marketVars
  BY <1>7 DEF marketVars, MarketInv, MarketTypeOK, MirrorAddsUp, Solvent
<1> QED BY <1>1, <1>2, <1>3, <1>4, <1>5, <1>6, <1>7 DEF MarketNext

LEMMA MarketInvariant == MarketSpec => []MarketInv
BY InitInv, NextInv, PTL DEF MarketSpec

---------------------------------------------------------------------------
\* The state keeps its types, and no price but that of the one mirror (stocks[1]
\* of UpdStk) is negative.
THEOREM MarketTypeCorrect == MarketSpec => []MarketTypeOK
<1>1. MarketInv => MarketTypeOK BY DEF MarketInv
<1> QED BY <1>1, MarketInvariant, PTL

\* The checks of /stock keep money and shares from falling below 0, as long as the
\* arithmetic fits and no negative price is paid.
THEOREM TradersStaySolvent == MarketSpec => []Solvent
<1>1. MarketInv => Solvent BY DEF MarketInv
<1> QED BY <1>1, MarketInvariant, PTL

\* No purchase and no sale of /stock enriches its trader at the prices of the moment.
THEOREM TradesDoNotGain == MarketSpec => TradesGainNothing
<1> DEFINE GainsNothing ==
        trades' # trades /\ ~odd' =>
          \E n \in Listed :
             /\ \A j \in Listed \ {n} : purse'.held[j] = purse.held[j]
             /\ purse'.money + purse'.held[n] * quotes[n]
                    <= purse.money + purse.held[n] * quotes[n]
<1>1. MarketInv /\ [MarketNext]_marketVars => [GainsNothing]_marketVars
  <2> SUFFICES ASSUME MarketInv, MarketNext, trades' # trades, ~odd' PROVE GainsNothing
    BY DEF marketVars
  <2> USE MarketAssumption
  <2>1. PICK n \in Listed, count \in ShareCounts : Buy(n, count) \/ Sell(n, count)
    BY DEF MarketNext, OnReady, TimerTick, UpdStk, WriteStock, Die
  <2>2. n \in 1..Len(quotes) /\ quotes \in Seq(Int)
    BY <2>1 DEF MarketInv, MarketTypeOK, Buy, Sell, Listed
  <2>3. quotes[n] \in Int /\ count \in Int
    BY <2>2
  <2>4. purse.money \in Int /\ purse.held \in [Listed -> Int]
    BY DEF MarketInv, MarketTypeOK
  <2>5. CASE Buy(n, count)
    <3>1. purse'.money = purse.money - count * quotes[n]
          /\ purse'.held = [purse.held EXCEPT ![n] = @ + count]
      BY <2>5, BuyStep
    <3>2. (purse.held[n] + count) * quotes[n] = purse.held[n] * quotes[n] + count * quotes[n]
      BY <2>3, <2>4
    <3>3. purse'.held[n] = purse.held[n] + count /\ \A j \in Listed \ {n} : purse'.held[j] = purse.held[j]
      BY <2>4, <3>1
    <3>4. purse.held[n] * quotes[n] \in Int /\ count * quotes[n] \in Int
      BY <2>3, <2>4
    <3>5. purse'.money + purse'.held[n] * quotes[n] <= purse.money + purse.held[n] * quotes[n]
      BY <2>4, <3>1, <3>2, <3>3, <3>4
    <3> QED BY <3>3, <3>5
  <2>6. CASE Sell(n, count)
    <3>1. purse'.money <= purse.money + count * quotes[n]
          /\ purse'.money \in Int
          /\ purse'.held = [purse.held EXCEPT ![n] = @ - count]
      BY <2>6, SellStep
    <3>2. (purse.held[n] - count) * quotes[n] = purse.held[n] * quotes[n] - count * quotes[n]
      BY <2>3, <2>4
    <3>3. purse'.held[n] = purse.held[n] - count /\ \A j \in Listed \ {n} : purse'.held[j] = purse.held[j]
      BY <2>4, <3>1
    <3>4. purse.held[n] * quotes[n] \in Int /\ count * quotes[n] \in Int
      BY <2>3, <2>4
    <3>5. purse'.money + purse'.held[n] * quotes[n] <= purse.money + purse.held[n] * quotes[n]
      BY <2>4, <3>1, <3>2, <3>3, <3>4
    <3> QED BY <3>3, <3>5
  <2> QED BY <2>1, <2>5, <2>6
<1> QED BY <1>1, MarketInvariant, PTL DEF MarketSpec, TradesGainNothing

---------------------------------------------------------------------------
\* How far prices jump.

\* A file, and what is still to be written to it, hold a price that one of the moves
\* made of the same number as the price that was last shown.
Near(p, n) == p >= 0 /\ Abs(p - quoted[n]) <= 2 * Dev[n]

\* With one listing the file of a stock has its price, or is to get it.
OneFile(n) ==
    /\ \A i \in 1..Len(pending) : pending[i].stock = n => pending[i].price = quoted[n]
    /\ board[n] = quoted[n] \/ \E i \in 1..Len(pending) : pending[i].stock = n

\* JumpsBounded made inductive.  The mirror has no file of its own to go on from.
BoardInv ==
    /\ \A n \in Listed \ {2} :
          /\ board[n] \in Int => Near(board[n], n)
          /\ \A i \in 1..Len(pending) : pending[i].stock = n => Near(pending[i].price, n)
          /\ Len(quotes) = StockCount => OneFile(n)
    /\ quoted[1] + quoted[2] = Ceiling \/ (board[1] \notin Int /\ pending = << >>)

\* Two moves from the same number, of d at most.
LEMMA MovesNear ==
    ASSUME NEW p \in Int, NEW c \in Int, NEW e \in Int, NEW d \in Nat,
           Abs(c) <= d, Abs(e) <= d
    PROVE  /\ Moved(p, c) \in Nat
           /\ Moved(p, e) \in Nat
           /\ Abs(Moved(p, e) - Moved(p, c)) <= 2 * d
           /\ p >= 0 => Abs(p - Moved(p, c)) <= d
BY DEF Moved, Abs

LEMMA Distances ==
    \A p, q, r, d, e \in Int :
        Abs(q - p) <= d /\ Abs(q - r) <= e => Abs(r - p) <= d + e
BY DEF Abs

LEMMA BoardInit == MarketInit => BoardInv
<1> SUFFICES ASSUME MarketInit PROVE BoardInv
  OBVIOUS
<1> USE MarketAssumption
<1>1. 1 \in Listed /\ 2 \in Listed /\ Len(quotes) # StockCount /\ pending = << >> /\ Len(pending) = 0
  BY DEF MarketInit, Listed
<1>2. CASE board = [n \in Listed |-> Missing]
  BY <1>1, <1>2 DEF BoardInv
<1>3. ASSUME NEW p \in Openings, quoted = board,
             board = [n \in Listed |-> IF n = 2 THEN Ceiling - p ELSE p]
      PROVE  BoardInv
  <2>1. p \in Nat /\ Ceiling - p \in Int
    OBVIOUS
  <2>2. quoted[1] + quoted[2] = Ceiling
    BY <1>1, <1>3, <2>1
  <2>3. ASSUME NEW n \in Listed \ {2} PROVE Near(board[n], n)
    <3>1. board[n] = p /\ quoted[n] = p /\ p - p = 0
      BY <1>3, <2>1
    <3>2. Dev[n] \in Nat
      BY DEF Listed
    <3>3. Abs(0) = 0 /\ p >= 0 /\ 2 * Dev[n] >= 0
      BY <2>1, <3>2 DEF Abs
    <3> QED BY <3>1, <3>3 DEF Near
  <2> QED BY <1>1, <2>2, <2>3 DEF BoardInv
<1> QED BY <1>2, <1>3 DEF MarketInit

\* A move of all prices fills as many places as it is given.
LEMMA UpdateLength ==
    ASSUME MarketInv, NEW count \in Nat, count >= StockCount, UpdStk(count)
    PROVE  Len(quotes') = count /\ Len(pending') = count
<1> USE MarketAssumption
<1>1. Len(pending') = count
  <2>1. pending' \in [1..count -> {pending'[k] : k \in 1..count}]
    BY DEF UpdStk
  <2> QED BY <2>1, Listing
<1>2. Len(quotes') = count
  <2>1. PICK c \in Moves(count), opening \in Openings, garbage \in Garbage :
            quotes' = Mirrored([k \in 1..count |->
                          Moved(ReadStock(Stock(k), opening, garbage), c[k])])
    BY DEF UpdStk
  <2>2. quotes' \in [1..count -> {quotes'[k] : k \in 1..count}]
    BY <2>1 DEF Mirrored
  <2> QED BY <2>2, Listing
<1> QED BY <1>1, <1>2

\* Whatever moves the prices moves those of all stocks at least.
LEMMA UpdatesAll ==
    ASSUME MarketInv, OnReady \/ TimerTick
    PROVE  \E count \in Nat : count >= StockCount /\ UpdStk(count)
<1> USE MarketAssumption
<1>1. Len(quotes) \in Nat /\ (quotes # << >> => Len(quotes) >= StockCount)
  BY DEF MarketInv, MarketTypeOK
<1>2. CASE OnReady
  <2>1. Len(quotes) + StockCount \in Nat /\ Len(quotes) + StockCount >= StockCount
    BY <1>1
  <2> QED BY <1>2, <2>1 DEF OnReady
<1>3. CASE TimerTick
  BY <1>1, <1>3 DEF TimerTick
<1> QED BY <1>2, <1>3

\* What a move of all prices shows and is going to write of a stock that does not
\* mirror, from the number it reads.
LEMMA UpdateMoves ==
    ASSUME MarketInv, NEW count \in Nat, count >= StockCount, UpdStk(count),
           NEW n \in Listed \ {2}
    PROVE  \E r \in Int :
              /\ board[n] \in Int => r = board[n]
              /\ \E c \in Int : Abs(c) <= Dev[n] /\ quoted'[n] = Moved(r, c)
              /\ \A i \in 1..Len(pending') : pending'[i].stock = n =>
                    \E e \in Int : Abs(e) <= Dev[n] /\ pending'[i].price = Moved(r, e)
<1> USE MarketAssumption
<1>1. PICK c \in Moves(count), opening \in Openings, garbage \in Garbage :
          quotes' = Mirrored([k \in 1..count |->
                        Moved(ReadStock(Stock(k), opening, garbage), c[k])])
  BY DEF UpdStk
<1> DEFINE walked == [k \in 1..count |-> Moved(ReadStock(Stock(k), opening, garbage), c[k])]
           r == ReadStock(n, opening, garbage)
<1>2. n \in 1..count /\ 1 \in 1..count /\ 2 \in 1..count /\ 2 \in Listed /\ n # 2
  BY DEF Listed
<1>3. board[n] \in Int \cup {Missing, Torn}
  BY Zenon DEF MarketInv, MarketTypeOK
<1>4. r \in Int /\ (board[n] \in Int => r = board[n])
  BY <1>3 DEF ReadStock
<1>5. \A k \in 1..count : c[k] \in Int /\ Abs(c[k]) <= Dev[Stock(k)]
  <2>1. UNION {0 - Dev[m]..Dev[m] : m \in Listed} \subseteq Int
    BY DEF Listed
  <2>2. c \in [1..count -> UNION {0 - Dev[m]..Dev[m] : m \in Listed}]
        /\ \A k \in 1..count : Abs(c[k]) <= Dev[Stock(k)]
    BY DEF Moves
  <2> QED BY <2>1, <2>2
<1>6. Stock(n) = n /\ Stock(2) = 2
  BY <1>2 DEF Stock, Listed
<1>7. \A k \in 1..count : k # 2 => quotes'[k] = walked[k]
  <2>1. quotes' = [walked EXCEPT ![2] = Ceiling - walked[1]]
    BY <1>1 DEF Mirrored
  <2> HIDE DEF walked
  <2>2. DOMAIN walked = 1..count
    BY DEF walked
  <2> QED BY <2>1, <2>2
<1>8. quoted'[n] = quotes'[n]
  BY DEF UpdStk
<1>9. quoted'[n] = Moved(r, c[n])
  BY <1>2, <1>6, <1>7, <1>8
<1>10. ASSUME NEW i \in 1..Len(pending'), pending'[i].stock = n
       PROVE  \E e \in Int : Abs(e) <= Dev[n] /\ pending'[i].price = Moved(r, e)
  <2>1. pending' = [k \in 1..count |-> [stock |-> Stock(k), price |-> quotes'[k]]]
    BY DEF UpdStk
  <2>2. Len(pending') = count
    <3>1. pending' \in [1..count -> {pending'[k] : k \in 1..count}]
      BY <2>1
    <3> QED BY <3>1, Listing
  <2>3. i \in 1..count /\ Stock(i) = n /\ pending'[i].price = quotes'[i]
    BY <1>10, <2>1, <2>2
  <2>4. i # 2
    BY <1>2, <1>6, <2>3
  <2>5. quotes'[i] = Moved(r, c[i])
    BY <1>7, <2>3, <2>4
  <2> QED BY <1>5, <2>3, <2>5
<1> QED BY <1>2, <1>4, <1>5, <1>6, <1>9, <1>10

LEMMA BoardUpdate ==
    ASSUME MarketInv, BoardInv, NEW count \in Nat, count >= StockCount, UpdStk(count)
    PROVE  BoardInv'
<1> USE MarketAssumption
<1>1. ASSUME NEW n \in Listed \ {2}
      PROVE  /\ board'[n] \in Int => Near(board[n], n)'
             /\ \A i \in 1..Len(pending') : pending'[i].stock = n => Near(pending[i].price, n)'
  <2>1. PICK r \in Int :
            /\ board[n] \in Int => r = board[n]
            /\ \E c \in Int : Abs(c) <= Dev[n] /\ quoted'[n] = Moved(r, c)
            /\ \A i \in 1..Len(pending') : pending'[i].stock = n =>
                  \E e \in Int : Abs(e) <= Dev[n] /\ pending'[i].price = Moved(r, e)
    BY UpdateMoves, Zenon
  <2>2. PICK c \in Int : Abs(c) <= Dev[n] /\ quoted'[n] = Moved(r, c)
    BY <2>1
  <2>3. Dev[n] \in Nat
    BY DEF Listed
  <2>4. ASSUME board[n] \in Int
        PROVE  board[n] >= 0 /\ Abs(board[n] - quoted'[n]) <= 2 * Dev[n]
    <3>1. r = board[n] /\ board[n] >= 0
      BY <2>1, <2>4 DEF BoardInv, Near
    <3>2. Abs(r - Moved(r, c)) <= Dev[n]
      BY <2>2, <2>3, <3>1, MovesNear
    <3>3. Abs(r - Moved(r, c)) \in Int
      BY DEF Abs, Moved
    <3> QED BY <2>2, <2>3, <3>1, <3>2, <3>3
  <2>5. ASSUME NEW i \in 1..Len(pending'), pending'[i].stock = n
        PROVE  pending'[i].price >= 0 /\ Abs(pending'[i].price - quoted'[n]) <= 2 * Dev[n]
    <3>1. PICK e \in Int : Abs(e) <= Dev[n] /\ pending'[i].price = Moved(r, e)
      BY <2>1, <2>5
    <3>2. Moved(r, e) \in Nat /\ Abs(Moved(r, e) - Moved(r, c)) <= 2 * Dev[n]
      BY <2>2, <2>3, <3>1, MovesNear
    <3> QED BY <2>2, <3>1, <3>2
  <2>6. board' = board
    BY DEF UpdStk
  <2> QED BY <2>4, <2>5, <2>6 DEF Near
<1>2. ASSUME NEW n \in Listed, Len(quotes') = StockCount
      PROVE  OneFile(n)'
  <2>1. count = StockCount
    BY <1>2, UpdateLength
  <2>2. pending' = [k \in 1..count |-> [stock |-> Stock(k), price |-> quotes'[k]]]
        /\ quoted' = [k \in Listed |-> quotes'[k]]
    BY DEF UpdStk
  <2>3. Len(pending') = count
    BY UpdateLength
  <2>4. \A k \in Listed : Stock(k) = k
    BY DEF Stock, Listed
  <2>5. \A i \in 1..Len(pending') : pending'[i].stock = i /\ pending'[i].price = quoted'[i]
    BY <2>1, <2>2, <2>3, <2>4 DEF Listed
  <2>6. n \in 1..Len(pending')
    BY <2>1, <2>3 DEF Listed
  <2> QED BY <2>5, <2>6 DEF OneFile
<1>3. (quoted[1] + quoted[2] = Ceiling)'
  <2>1. 1 \in Listed /\ 2 \in Listed BY DEF Listed
  <2>2. MirrorAddsUp' /\ quotes' # << >>
    <3>1. Len(quotes') = count BY UpdateLength
    <3>2. quotes' # << >> BY <3>1, EmptySeq
    <3> QED BY <3>2, UpdateInv DEF MarketInv
  <2>3. quoted' = [k \in Listed |-> quotes'[k]]
    BY DEF UpdStk
  <2> QED BY <2>1, <2>2, <2>3 DEF MirrorAddsUp
<1> QED BY <1>1, <1>2, <1>3 DEF BoardInv

LEMMA BoardWrite == ASSUME MarketInv, BoardInv, WriteStock PROVE BoardInv'
<1> USE MarketAssumption
<1>1. pending \in Seq([stock: Listed, price: Int]) /\ pending # << >>
  BY DEF WriteStock, Open, MarketInv, MarketTypeOK
<1>2. /\ Head(pending) = pending[1]
      /\ Len(pending) \in Nat \ {0}
      /\ Len(pending') = Len(pending) - 1
      /\ \A i \in 1..Len(pending') : pending'[i] = pending[i + 1]
  BY <1>1, HeadTailProperties DEF WriteStock
<1>3. board' = [board EXCEPT ![pending[1].stock] = pending[1].price]
      /\ quoted' = quoted /\ quotes' = quotes
  BY <1>2 DEF WriteStock
<1>4. board \in [Listed -> Int \cup {Missing, Torn}]
  BY Zenon DEF MarketInv, MarketTypeOK
<1>5. ASSUME NEW n \in Listed
      PROVE  board'[n] = IF pending[1].stock = n THEN pending[1].price ELSE board[n]
  BY <1>3, <1>4
<1>6. \A i \in 1..Len(pending') : i + 1 \in 1..Len(pending)
  BY <1>2
<1>7. 1 \in 1..Len(pending)
  BY <1>2
<1>8. ASSUME NEW n \in Listed \ {2}
      PROVE  /\ board'[n] \in Int => Near(board[n], n)'
             /\ \A i \in 1..Len(pending') : pending'[i].stock = n => Near(pending[i].price, n)'
             /\ Len(quotes') = StockCount => OneFile(n)'
  <2>1. /\ board[n] \in Int => Near(board[n], n)
        /\ \A i \in 1..Len(pending) : pending[i].stock = n => Near(pending[i].price, n)
        /\ Len(quotes) = StockCount => OneFile(n)
    BY DEF BoardInv
  <2>2. board'[n] \in Int => Near(board[n], n)'
    BY <1>3, <1>5, <1>7, <2>1 DEF Near
  <2>3. \A i \in 1..Len(pending') : pending'[i].stock = n => Near(pending[i].price, n)'
    BY <1>2, <1>3, <1>6, <2>1 DEF Near
  <2>4. ASSUME Len(quotes) = StockCount PROVE OneFile(n)'
    <3>1. OneFile(n) BY <2>1, <2>4
    <3>2. \A i \in 1..Len(pending') : pending'[i].stock = n => pending'[i].price = quoted[n]
      <4>1. \A i \in 1..Len(pending) : pending[i].stock = n => pending[i].price = quoted[n]
        BY <3>1 DEF OneFile
      <4> QED BY <1>2, <1>6, <4>1
    <3>3. CASE pending[1].stock = n
      <4>1. board'[n] = quoted[n]
        BY <1>5, <1>7, <3>1, <3>3 DEF OneFile
      <4> QED BY <1>3, <3>2, <4>1 DEF OneFile
    <3>4. CASE pending[1].stock # n
      <4>1. ASSUME NEW i \in 1..Len(pending), pending[i].stock = n
            PROVE  \E j \in 1..Len(pending') : pending'[j].stock = n
        <5>1. i # 1 BY <3>4, <4>1
        <5>2. i - 1 \in 1..Len(pending') /\ (i - 1) + 1 = i
          BY <1>2, <5>1
        <5> QED BY <1>2, <4>1, <5>2
      <4> QED BY <1>3, <1>5, <3>1, <3>2, <3>4, <4>1 DEF OneFile
    <3> QED BY <3>3, <3>4
  <2> QED BY <1>3, <2>2, <2>3, <2>4
<1>9. quoted[1] + quoted[2] = Ceiling
  BY <1>1 DEF BoardInv
<1> QED BY <1>3, <1>8, <1>9 DEF BoardInv

LEMMA BoardDeath == ASSUME MarketInv, BoardInv, Die PROVE BoardInv'
<1> USE MarketAssumption
<1>1. quotes' = << >> /\ pending' = << >> /\ quoted' = quoted
  BY DEF Die
<1>2. Len(quotes') = 0 /\ Len(pending') = 0
  BY <1>1, EmptySeq
<1>3. board \in [Listed -> Int \cup {Missing, Torn}]
  BY Zenon DEF MarketInv, MarketTypeOK
<1>4. \A n \in Listed : board'[n] \in Int => board'[n] = board[n]
  BY <1>3 DEF Die
<1>5. \A n \in Listed \ {2} : board'[n] \in Int => Near(board[n], n)'
  BY <1>1, <1>4 DEF BoardInv, Near
<1>6. 1 \in Listed BY DEF Listed
<1>7. quoted[1] + quoted[2] = Ceiling \/ board'[1] \notin Int
  BY <1>4, <1>6 DEF BoardInv
<1> QED BY <1>1, <1>2, <1>5, <1>7 DEF BoardInv

LEMMA BoardStep == MarketInv /\ BoardInv /\ [MarketNext]_marketVars => BoardInv'
<1> SUFFICES ASSUME MarketInv, BoardInv, [MarketNext]_marketVars PROVE BoardInv'
  OBVIOUS
<1>1. ASSUME OnReady \/ TimerTick
      PROVE  BoardInv'
  <2>1. \E count \in Nat : count >= StockCount /\ UpdStk(count)
    BY <1>1, UpdatesAll
  <2> QED BY <2>1, BoardUpdate
<1>2. CASE UNCHANGED <<quotes, board, pending, quoted>>
  BY <1>2 DEF BoardInv, OneFile, Near
<1>3. ASSUME NEW n \in Listed, NEW count \in ShareCounts, Buy(n, count) \/ Sell(n, count)
      PROVE  UNCHANGED <<quotes, board, pending, quoted>>
  BY <1>3 DEF Buy, Sell, TradeOf
<1> QED BY <1>1, <1>2, <1>3, BoardWrite, BoardDeath DEF MarketNext, marketVars

LEMMA BoardInvariant == MarketSpec => [](MarketInv /\ BoardInv)
BY InitInv, NextInv, BoardInit, BoardStep, PTL DEF MarketSpec

\* However many READY events and deaths there were, at any write of a file: UpdStk
\* moves a price that has a file by no more than its stock's deviation, three times as
\* much when a double of the listing, or a restart, has come between.
THEOREM PricesJumpSoFar == MarketSpec => JumpsBounded
<1> DEFINE Far(n) == IF Len(quotes) = StockCount THEN Dev[Source(n)] ELSE 3 * Dev[Source(n)]
           Bounded ==
              quotes' # << >> =>
                \A n \in Listed :
                   LET d == Dev[Source(n)]
                   IN  board[Source(n)] \in Int =>
                          Abs(quoted'[n] - quoted[n]) <= (IF Len(quotes) = StockCount THEN d ELSE 3 * d)
<1>1. MarketInv /\ BoardInv /\ [MarketNext]_marketVars => [Bounded]_marketVars
  <2> SUFFICES ASSUME MarketInv, BoardInv, MarketNext,
                      quotes' # << >>, NEW n \in Listed, board[Source(n)] \in Int
               PROVE  Abs(quoted'[n] - quoted[n]) <= Far(n)
    OBVIOUS
  <2> USE MarketAssumption
  <2>1. 1 \in Listed /\ 2 \in Listed /\ Source(n) \in Listed \ {2} /\ quoted \in [Listed -> Int]
    BY DEF Source, Listed, MarketInv, MarketTypeOK
  <2>2. Dev[Source(n)] \in Nat
    BY <2>1 DEF Listed
  <2>3. Far(n) \in Nat
    BY <2>2
  <2> HIDE DEF Far
  <2>4. CASE UNCHANGED quoted
    BY <2>1, <2>3, <2>4 DEF Abs
  <2>5. ASSUME NEW count \in Nat, count >= StockCount, UpdStk(count), Open
        PROVE  Abs(quoted'[n] - quoted[n]) <= Far(n)
    <3>0. PICK m \in Listed \ {2} : m = Source(n)
      BY <2>1
    <3>1. PICK c \in Int : Abs(c) <= Dev[m] /\ quoted'[m] = Moved(board[m], c)
      BY <3>0, <2>5, UpdateMoves
    <3>2. board[m] \in Int /\ board[m] >= 0 /\ Abs(board[m] - quoted[m]) <= 2 * Dev[m] /\ quoted[m] \in Int
      BY <2>1, <3>0 DEF BoardInv, Near
    <3>3. quoted'[m] \in Int /\ Abs(board[m] - quoted'[m]) <= Dev[m]
      <4>1. Moved(board[m], c) \in Nat /\ Abs(board[m] - Moved(board[m], c)) <= Dev[m]
        BY <2>2, <3>0, <3>1, <3>2, MovesNear
      <4> QED BY <3>1, <4>1
    <3>4. Abs(quoted'[m] - quoted[m]) <= Far(n)
      <4>1. CASE Len(quotes) = StockCount
        <5>1. Len(pending) = 0 BY <2>5, EmptySeq DEF Open
        <5>2. board[m] = quoted[m]
          BY <3>0, <3>2, <4>1, <5>1 DEF BoardInv, OneFile
        <5> QED BY <3>0, <3>2, <3>3, <4>1, <5>2 DEF Far, Abs
      <4>2. CASE Len(quotes) # StockCount
        <5>1. 2 * Dev[m] \in Int /\ Dev[m] \in Int
          BY <2>2, <3>0
        <5>2. Abs(quoted'[m] - quoted[m]) <= 2 * Dev[m] + Dev[m]
          BY <3>2, <3>3, <5>1, Distances
        <5> QED BY <2>2, <3>0, <4>2, <5>2 DEF Far
      <4> QED BY <4>1, <4>2
    <3>5. CASE n # 2
      BY <3>0, <3>4, <3>5 DEF Source
    <3>6. CASE n = 2
      <4>1. m = 1 BY <3>0, <3>6 DEF Source
      <4>2. quoted[1] + quoted[2] = Ceiling
        BY <3>2, <4>1 DEF BoardInv
      <4>3. quoted'[1] + quoted'[2] = Ceiling /\ quoted'[2] \in Int
        <5>1. MarketInv' BY <2>5, UpdateInv
        <5>2. quoted' = [k \in Listed |-> quotes'[k]]
          BY <2>5 DEF UpdStk
        <5> QED BY <2>1, <5>1, <5>2 DEF MarketInv, MarketTypeOK, MirrorAddsUp
      <4>4. quoted[1] \in Int /\ quoted[2] \in Int /\ quoted'[1] \in Int
        BY <2>1, <3>3, <4>1
      <4>5. quoted'[2] - quoted[2] = 0 - (quoted'[1] - quoted[1])
        <5>1. \A a, b, s \in Int : a + b = s => b = s - a
          OBVIOUS
        <5>2. quoted[2] = Ceiling - quoted[1]
          BY <4>2, <4>4, <5>1
        <5>3. quoted'[2] = Ceiling - quoted'[1]
          BY <4>3, <4>4, <5>1
        <5> QED BY <4>4, <5>2, <5>3
      <4>6. \A a \in Int : Abs(0 - a) = Abs(a)
        BY DEF Abs
      <4>7. Abs(quoted'[2] - quoted[2]) = Abs(quoted'[1] - quoted[1])
        <5>1. quoted'[1] - quoted[1] \in Int BY <4>4
        <5> QED BY <4>5, <4>6, <5>1
      <4> QED BY <3>4, <3>6, <4>1, <4>7
    <3> QED BY <3>5, <3>6
  <2>6. ASSUME OnReady \/ TimerTick
        PROVE  Open /\ \E count \in Nat : count >= StockCount /\ UpdStk(count)
    BY <2>6, UpdatesAll DEF OnReady, TimerTick
  <2>7. ASSUME ~OnReady, ~TimerTick
        PROVE  UNCHANGED quoted
    BY <2>7 DEF MarketNext, WriteStock, Die, Buy, Sell, TradeOf
  <2> QED BY <2>4, <2>5, <2>6, <2>7
<1> QED BY <1>1, BoardInvariant, PTL DEF MarketSpec, JumpsBounded
====
