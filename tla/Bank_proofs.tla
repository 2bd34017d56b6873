---- MODULE Bank_proofs ----
(***************************************************************************)
(* Theorems about Bank, for every set of users, amounts and counts, and    *)
(* every value of its bounds.                                              *)
(***************************************************************************)
EXTENDS Bank, SequenceTheorems, TLAPS

---------------------------------------------------------------------------
\* What the helpers of the model return.

\* A record read from a well-typed store is a record (readQamblerInfo).
LEMMA RecordType ==
    ASSUME NEW f \in [Users -> Rec \cup {NoRec}], NEW u \in Users
    PROVE  RecordIn(f, u) \in Rec
BY DEF RecordIn, Fresh, Rec

\* What a handler reads is what the file holds.
LEMMA ReadIsRecord == \A u : Read(u) = RecordIn(file, u)
BY DEF Read, RecordIn

\* What is wrapped is an int.
LEMMA WrapType == \A n \in Int : Wrap(n) \in Int
<1> SUFFICES ASSUME NEW n \in Int PROVE Wrap(n) \in Int
  OBVIOUS
<1>1. PICK h \in Nat : h = Half /\ h > 0
  BY HalfAssumption
<1>2. (n + h) % (2 * h) \in Int
  BY <1>1
<1> QED BY <1>1, <1>2 DEF Wrap

\* The writes the commands queue are writes of records.
LEMMA PayType ==
    ASSUME NEW r \in Rec, NEW n \in Int
    PROVE  /\ Credit(r, n) \in Rec
           /\ Credit(r, n).money = Wrap(r.money + n)
           /\ Credit(r, n).chip = r.chip
           /\ Debit(r, n) \in Rec
           /\ Debit(r, n).money = r.money - n
           /\ Debit(r, n).chip = r.chip
<1>1. Wrap(r.money + n) \in Int /\ r.money - n \in Int
  BY WrapType DEF Rec
<1> QED BY <1>1 DEF Credit, Debit, Rec

\* The record that ||money writes.
Granted(r, n) == [r EXCEPT !.money = n]

LEMMA ExchangeType ==
    ASSUME NEW r \in Rec, NEW k \in Int
    PROVE  /\ Bought(r, k) \in Rec
           /\ Bought(r, k).money = Wrap(r.money - k * BuyPrice)
           /\ Bought(r, k).chip = Wrap(r.chip + k)
           /\ Sold(r, k) \in Rec
           /\ Sold(r, k).money = Wrap(r.money + k * SellPrice)
           /\ Sold(r, k).chip = Wrap(r.chip - k)
           /\ Granted(r, k) \in Rec
           /\ Granted(r, k).money = k /\ Granted(r, k).chip = r.chip
<1>1. Bought(r, k) \in Rec /\ Sold(r, k) \in Rec
  <2>1. \A m, c \in Int : [r EXCEPT !.money = m, !.chip = c] \in Rec
    BY DEF Rec
  <2>2. /\ r.money - k * BuyPrice \in Int /\ r.money + k * SellPrice \in Int
        /\ r.chip + k \in Int /\ r.chip - k \in Int
    BY DEF Rec, BuyPrice, SellPrice
  <2>3. /\ Wrap(r.money - k * BuyPrice) \in Int /\ Wrap(r.money + k * SellPrice) \in Int
        /\ Wrap(r.chip + k) \in Int /\ Wrap(r.chip - k) \in Int
    BY <2>2, WrapType
  <2> QED BY <2>1, <2>3 DEF Bought, Sold
<1>2. Bought(r, k).money = Wrap(r.money - k * BuyPrice) /\ Bought(r, k).chip = Wrap(r.chip + k)
  BY DEF Rec, Bought
<1>3. Sold(r, k).money = Wrap(r.money + k * SellPrice) /\ Sold(r, k).chip = Wrap(r.chip - k)
  BY DEF Rec, Sold
<1>4. /\ Granted(r, k) \in Rec
      /\ Granted(r, k).money = k /\ Granted(r, k).chip = r.chip
  BY DEF Rec, Granted
<1> QED BY <1>1, <1>2, <1>3, <1>4

LEMMA WriteType ==
    ASSUME NEW u \in Users, NEW r \in Rec
    PROVE  /\ Write(u, r) \in WriteEffect
           /\ Write(u, r).who = u /\ Write(u, r).rec = r /\ Write(u, r).op = "write"
BY DEF Write, WriteEffect

LEMMA StampType ==
    ASSUME TypeOK, NEW u \in Users
    PROVE  << Stamp(u) >> \in Seq(WriteEffect)
<1>1. Stamp(u) \in WriteEffect
  BY ReadIsRecord, RecordType, WriteType DEF TypeOK, Stamp
<1> QED BY <1>1

LEMMA CreateType ==
    ASSUME TypeOK, NEW u \in Users, NEW v \in Users
    PROVE  /\ Create(v) \in Seq(WriteEffect)
           /\ CreateOther(u, v) \in Seq(WriteEffect)
<1>1. Write(v, Fresh) \in WriteEffect
  BY WriteType DEF Fresh, Rec
<1>2. Create(v) \in Seq(WriteEffect)
  BY <1>1 DEF Create
<1> QED BY <1>2 DEF CreateOther

---------------------------------------------------------------------------
\* Types.

LEMMA TypeInit == Init => TypeOK
<1> SUFFICES ASSUME Init PROVE TypeOK
  OBVIOUS
<1>1. file \in [Users -> Rec \cup {NoRec}]
  BY StoreAssumption DEF Init, StoreInit
<1>2. job \in Job
  BY DEF Init, Job, Commands
<1> QED BY <1>1, <1>2, BankAssumption DEF Init, StoreInit, TypeOK

\* A handler whose effects are writes of records.
LEMMA TypeHandle ==
    ASSUME TypeOK, NEW cmd \in Commands, NEW u \in Users, NEW v \in Users, NEW n \in Int,
           NEW q \in Seq(WriteEffect), Handle(cmd, u, v, n, q), served' \in 0..MaxServed
    PROVE  TypeOK'
BY DEF TypeOK, Handle, Job

\* A command, which begins with its stamp.
LEMMA TypeCommand ==
    ASSUME TypeOK, NEW cmd \in Commands, NEW u \in Users, NEW v \in Users, NEW n \in Int,
           NEW q \in Seq(WriteEffect), Command(cmd, u, v, n, q)
    PROVE  TypeOK'
<1>1. << Stamp(u) >> \o q \in Seq(WriteEffect)
  BY StampType, ConcatProperties
<1>2. served' \in 0..MaxServed
  BY BankAssumption DEF Command, TypeOK
<1> QED BY <1>1, <1>2, TypeHandle DEF Command

LEMMA TypeStep == TypeOK /\ [Next]_vars => TypeOK'
<1> SUFFICES ASSUME TypeOK, [Next]_vars PROVE TypeOK'
  OBVIOUS
<1>r. \A u \in Users : Read(u) \in Rec
  BY ReadIsRecord, RecordType DEF TypeOK
<1>c. {"none", "other", "send", "buy", "sell", "nick", "grant"} = Commands
  BY DEF Commands
<1>1. ASSUME NEW u \in Users, NEW v \in Users, NEW n \in Amounts, Send(u, v, n)
      PROVE  TypeOK'
  <2>1. n \in Int
    BY BankAssumption
  <2>2. << Write(u, Debit(Read(u), n)), Write(v, Credit(Read(v), n)) >> \in Seq(WriteEffect)
    <3>1. Write(u, Debit(Read(u), n)) \in WriteEffect /\ Write(v, Credit(Read(v), n)) \in WriteEffect
      BY <1>r, <2>1, PayType, WriteType
    <3> QED BY <3>1
  <2> DEFINE q == CreateOther(u, v) \o << Write(u, Debit(Read(u), n)),
                                          Write(v, Credit(Read(v), n)) >>
  <2>3. q \in Seq(WriteEffect)
    BY <2>2, CreateType, ConcatProperties
  <2>4. Command("send", u, v, n, q)
    BY <1>1 DEF Send
  <2> HIDE DEF q
  <2> QED BY <1>c, <2>1, <2>3, <2>4, TypeCommand
<1>2. ASSUME NEW u \in Users, NEW v \in Users, NEW n \in Amounts, SendRefused(u, v, n)
      PROVE  TypeOK'
  <2>1. n \in Int
    BY BankAssumption
  <2> QED BY <1>2, <1>c, <2>1, CreateType, TypeCommand DEF SendRefused
<1>3. ASSUME NEW u \in Users, NEW k \in Counts, Buy(u, k)
      PROVE  TypeOK'
  <2> DEFINE r == Bought(Read(u), k)
  <2>1. k \in Int
    BY BankAssumption
  <2>2. r \in Rec
    BY <1>r, <2>1, ExchangeType
  <2>3. Command("buy", u, u, k, << Write(u, r) >>)
    BY <1>3 DEF Buy
  <2> HIDE DEF r
  <2>4. << Write(u, r) >> \in Seq(WriteEffect)
    BY <2>2, WriteType
  <2> QED BY <1>c, <2>1, <2>3, <2>4, TypeCommand
<1>4. ASSUME NEW u \in Users, NEW k \in Counts, Sell(u, k)
      PROVE  TypeOK'
  <2> DEFINE r == Sold(Read(u), k)
  <2>1. k \in Int
    BY BankAssumption
  <2>2. r \in Rec
    BY <1>r, <2>1, ExchangeType
  <2>3. Command("sell", u, u, k, << Write(u, r) >>)
    BY <1>4 DEF Sell
  <2> HIDE DEF r
  <2>4. << Write(u, r) >> \in Seq(WriteEffect)
    BY <2>2, WriteType
  <2> QED BY <1>c, <2>1, <2>3, <2>4, TypeCommand
<1>5. ASSUME NEW u \in Users, Nick(u) PROVE TypeOK'
  <2>1. << >> \in Seq(WriteEffect) /\ 0 \in Int /\ "nick" \in Commands
    BY <1>c
  <2>2. Command("nick", u, u, 0, << >>)
    BY <1>5 DEF Nick
  <2> QED BY <2>1, <2>2, TypeCommand
<1>6. ASSUME NEW u \in Users, Other(u) PROVE TypeOK'
  <2>1. served' \in 0..MaxServed /\ 0 \in Int /\ "other" \in Commands
    BY <1>6, <1>c DEF Other, TypeOK
  <2>2. Handle("other", u, u, 0, << Stamp(u) >>)
    BY <1>6 DEF Other
  <2> QED BY <2>1, <2>2, StampType, TypeHandle
<1>7. ASSUME NEW v \in Users, NEW n \in Amounts, Grant(v, n) PROVE TypeOK'
  <2> DEFINE r == Granted(Read(v), n)
             q == Create(v) \o << Write(v, r) >>
  <2>1. n \in Int /\ served' \in 0..MaxServed
    BY <1>7, BankAssumption DEF Grant, TypeOK
  <2>2. r \in Rec
    BY <1>r, <2>1, ExchangeType
  <2>3. << Write(v, r) >> \in Seq(WriteEffect)
    BY <2>2, WriteType
  <2>4. q \in Seq(WriteEffect)
    BY <2>3, CreateType, ConcatProperties
  <2>5. Handle("grant", v, v, n, q)
    BY <1>7 DEF Grant, SetMoney, Granted
  <2> HIDE DEF q
  <2> QED BY <1>c, <2>1, <2>4, <2>5, TypeHandle
<1>8. CASE Perform
  <2>1. Head(queue) \in WriteEffect /\ Tail(queue) \in Seq(WriteEffect)
    BY <1>8, HeadTailProperties DEF Perform, PerformWrite, Idle, TypeOK
  <2>2. Head(queue).rec \in Rec
    BY <2>1 DEF WriteEffect
  <2> QED BY <1>8, <2>1, <2>2 DEF Perform, PerformWrite, bankVars, TypeOK
<1>9. CASE Crash
  <2>1. crashes' \in 0..MaxCrash
    BY <1>9, BankAssumption DEF Crash, TypeOK
  <2> QED BY <1>9, <2>1 DEF Crash, StoreCrash, TypeOK
<1>10. CASE UNCHANGED vars
  BY <1>10 DEF vars, bankVars, TypeOK
<1> QED
  BY <1>1, <1>2, <1>3, <1>4, <1>5, <1>6, <1>7, <1>8, <1>9, <1>10 DEF Next, Banking

\* The bank's state keeps its types: every write a command queues is that of a
\* whole record.
THEOREM TypeCorrect == Spec => []TypeOK
BY TypeInit, TypeStep, PTL DEF Spec

---------------------------------------------------------------------------
\* What a command has done and has still to do.

\* The same money and the same chips; the flag may differ.
Same(r, s) == r.money = s.money /\ r.chip = s.chip

\* The record of u as the running command found it.
Was(u) == RecordIn(opening, u)

\* A write that moves nothing of the books f, and effects of which all but the
\* last k do not.
Bland(f, e) == Same(e.rec, RecordIn(f, e.who))
BlandBut(f, q, k) == \A i \in 1..Len(q) : i + k <= Len(q) => Bland(f, q[i])

\* The accounts in the files are those the command found.
AsFound == \A u \in Users : Same(RecordIn(file, u), Was(u))

\* Nothing will change.
Leaves == AsFound /\ BlandBut(opening, queue, 0)

\* One record r will be written, as /chip and ||money do: the job is j, the
\* record was w.
Ordered(j, w, r) ==
    \/ /\ j.cmd = "buy" /\ j.n \in Counts /\ CoversChips(w, j.n)
       /\ r.money = Wrap(w.money - j.n * BuyPrice) /\ r.chip = Wrap(w.chip + j.n)
    \/ /\ j.cmd = "sell" /\ j.n \in Counts /\ w.chip >= j.n
       /\ r.money = Wrap(w.money + j.n * SellPrice) /\ r.chip = Wrap(w.chip - j.n)
    \/ /\ j.cmd = "grant" /\ j.n \in Amounts
       /\ r.money = j.n /\ r.chip = w.chip

Orders ==
    /\ AsFound
    /\ queue # << >> /\ BlandBut(opening, queue, 1)
    /\ queue[Len(queue)].who = job.to /\ Ordered(job, Was(job.to), queue[Len(queue)].rec)

\* A transfer: the debit, then the credit.
Debited  == Debit(Was(job.who), job.n)
Credited == Credit(Was(job.to), job.n)
Covered  == job.cmd = "send" /\ job.n \in Amounts /\ job.n > 0 /\ Was(job.who).money >= job.n

Sends ==
    /\ Covered
    /\ AsFound
    /\ Len(queue) >= 2 /\ BlandBut(opening, queue, 2)
    /\ queue[Len(queue) - 1] = Write(job.who, Debited)
    /\ queue[Len(queue)] = Write(job.to, Credited)

HalfSent ==
    /\ Covered
    /\ queue = << Write(job.to, Credited) >>
    /\ Same(RecordIn(file, job.who), Debited)
    /\ \A u \in Users \ {job.who} : Same(RecordIn(file, u), Was(u))

\* Where a running command can be.  What it writes is fixed when it starts, from
\* the files it found, and nobody else writes until it has ended.
JobInv == Idle \/ Leaves \/ Orders \/ Sends \/ HalfSent

---------------------------------------------------------------------------
\* What a command queues.

\* A bland effect in front of others.
LEMMA BlandFirst ==
    ASSUME NEW f, NEW e \in WriteEffect, NEW q \in Seq(WriteEffect), NEW k \in 0..Len(q),
           Bland(f, e), BlandBut(f, q, k)
    PROVE  /\ << e >> \o q \in Seq(WriteEffect)
           /\ Len(<< e >> \o q) = Len(q) + 1
           /\ BlandBut(f, << e >> \o q, k)
           /\ \A i \in 1..Len(q) : (<< e >> \o q)[i + 1] = q[i]
<1>1. << e >> \in Seq(WriteEffect) /\ Len(<< e >>) = 1 /\ << e >>[1] = e
  OBVIOUS
<1>2. /\ << e >> \o q \in Seq(WriteEffect)
      /\ Len(<< e >> \o q) = Len(q) + 1
      /\ \A i \in 1..(Len(q) + 1) : (<< e >> \o q)[i] = IF i <= 1 THEN e ELSE q[i - 1]
  BY <1>1, ConcatProperties
<1>3. Len(q) \in Nat
  BY LenProperties
<1>4. \A i \in 1..Len(q) : (<< e >> \o q)[i + 1] = q[i]
  BY <1>2, <1>3
<1>5. ASSUME NEW i \in 1..(Len(q) + 1), i + k <= Len(q) + 1
      PROVE  Bland(f, (<< e >> \o q)[i])
  <2>1. CASE i = 1
    BY <1>2, <1>3, <2>1
  <2>2. CASE i # 1
    <3>1. i - 1 \in 1..Len(q) /\ (i - 1) + k <= Len(q)
      BY <1>3, <1>5, <2>2
    <3>2. (<< e >> \o q)[i] = q[i - 1]
      BY <1>2, <1>3, <2>2, <3>1
    <3> QED BY <3>1, <3>2 DEF BlandBut
  <2> QED BY <2>1, <2>2
<1> QED BY <1>2, <1>4, <1>5 DEF BlandBut

\* The record made up for a file nobody can read is what it is read as.
LEMMA CreateFirst ==
    ASSUME TypeOK, NEW v \in Users, NEW t \in Seq(WriteEffect), NEW k \in 0..Len(t),
           BlandBut(file, t, k)
    PROVE  \E d \in {0, 1} :
             /\ Create(v) \o t \in Seq(WriteEffect)
             /\ Len(Create(v) \o t) = Len(t) + d
             /\ BlandBut(file, Create(v) \o t, k)
             /\ \A i \in 1..Len(t) : (Create(v) \o t)[i + d] = t[i]
<1>1. CASE file[v] # NoRec
  <2>1. Create(v) \o t = t
    BY <1>1, ConcatEmptySeq DEF Create
  <2>2. Len(t) \in Nat
    BY LenProperties
  <2> QED BY <2>1, <2>2
<1>2. CASE file[v] = NoRec
  <2> DEFINE e == Write(v, Fresh)
  <2>1. e \in WriteEffect /\ Bland(file, e)
    BY <1>2, WriteType DEF Fresh, Rec, Bland, Same, RecordIn
  <2>2. Create(v) = << e >>
    BY <1>2 DEF Create
  <2> HIDE DEF e
  <2> QED BY <2>1, <2>2, BlandFirst
<1> QED BY <1>1, <1>2

\* All of a command's effects: the stamp, perhaps the making of the other record,
\* then its own.
LEMMA CommandQueue ==
    ASSUME TypeOK, NEW u \in Users, NEW v \in Users, NEW t \in Seq(WriteEffect),
           NEW k \in 0..Len(t), BlandBut(file, t, k)
    PROVE  \E d \in {1, 2} :
             LET q == << Stamp(u) >> \o (CreateOther(u, v) \o t)
             IN  /\ Len(q) = Len(t) + d
                 /\ BlandBut(file, q, k)
                 /\ \A i \in 1..Len(t) : q[i + d] = t[i]
<1> DEFINE c == CreateOther(u, v) \o t
           q == << Stamp(u) >> \o c
<1>1. Len(t) \in Nat
  BY LenProperties
<1>2. PICK d \in {0, 1} : /\ c \in Seq(WriteEffect)
                          /\ Len(c) = Len(t) + d
                          /\ BlandBut(file, c, k)
                          /\ \A i \in 1..Len(t) : c[i + d] = t[i]
  <2>1. CASE u = v
    <3>1. c = t
      BY <2>1, ConcatEmptySeq DEF CreateOther
    <3> QED BY <1>1, <3>1
  <2>2. CASE u # v
    <3>1. c = Create(v) \o t
      BY <2>2 DEF CreateOther
    <3> HIDE DEF c
    <3> QED BY <3>1, CreateFirst
  <2> QED BY <2>1, <2>2
<1>3. Stamp(u) \in WriteEffect /\ Bland(file, Stamp(u))
  BY ReadIsRecord, RecordType, WriteType DEF TypeOK, Stamp, Bland, Same
<1> HIDE DEF c
<1>4. k \in 0..Len(c)
  BY <1>1, <1>2
<1>5. /\ Len(q) = Len(c) + 1
      /\ BlandBut(file, q, k)
      /\ \A i \in 1..Len(c) : q[i + 1] = c[i]
  BY <1>2, <1>3, <1>4, BlandFirst
<1>6. \A i \in 1..Len(t) : q[i + (d + 1)] = t[i]
  <2> TAKE i \in 1..Len(t)
  <2>1. i + d \in 1..Len(c) /\ (i + d) + 1 = i + (d + 1)
    BY <1>1, <1>2
  <2>2. q[(i + d) + 1] = c[i + d]
    BY <1>5, <2>1
  <2> QED BY <1>2, <2>1, <2>2
<1>7. Len(q) = Len(t) + (d + 1) /\ d + 1 \in {1, 2}
  BY <1>1, <1>2, <1>5
<1> HIDE DEF q
<1>8. LET p == << Stamp(u) >> \o (CreateOther(u, v) \o t)
      IN  /\ Len(p) = Len(t) + (d + 1)
          /\ BlandBut(file, p, k)
          /\ \A i \in 1..Len(t) : p[i + (d + 1)] = t[i]
  BY <1>5, <1>6, <1>7 DEF q, c
<1> QED BY <1>7, <1>8

LEMMA StampBland ==
    ASSUME TypeOK, NEW u \in Users
    PROVE  Stamp(u) \in WriteEffect /\ Bland(file, Stamp(u))
BY ReadIsRecord, RecordType, WriteType DEF TypeOK, Stamp, Bland, Same

---------------------------------------------------------------------------
\* A running command is where JobInv says.

\* What every handler finds and leaves alone at its start.
LEMMA Begins ==
    ASSUME TypeOK, NEW cmd, NEW u, NEW v, NEW n, NEW q, Handle(cmd, u, v, n, q)
    PROVE  /\ AsFound' /\ queue' = q /\ opening' = file
           /\ \A w : Was(w)' = Read(w)
           /\ job'.cmd = cmd /\ job'.who = u /\ job'.to = v /\ job'.n = n
<1>1. /\ queue' = q /\ opening' = file /\ file' = file
      /\ job'.cmd = cmd /\ job'.who = u /\ job'.to = v /\ job'.n = n
  BY DEF Handle
<1>2. AsFound'
  BY <1>1 DEF AsFound, Was, Same
<1>3. \A w : Was(w)' = Read(w)
  BY <1>1, ReadIsRecord DEF Was
<1> QED BY <1>1, <1>2, <1>3

LEMMA SendStarts ==
    ASSUME TypeOK, NEW u \in Users, NEW v \in Users, NEW n \in Amounts, Send(u, v, n)
    PROVE  Sends'
<1> DEFINE d == Debit(Read(u), n)
           c == Credit(Read(v), n)
           t == << Write(u, d), Write(v, c) >>
           q == << Stamp(u) >> \o (CreateOther(u, v) \o t)
<1>1. Read(u).money >= n /\ n > 0
  BY DEF Send, CanSend
<1>2. n \in Int
  BY BankAssumption
<1>3. d \in Rec /\ c \in Rec
  BY <1>2, ReadIsRecord, RecordType, PayType DEF TypeOK
<1>4. /\ t \in Seq(WriteEffect) /\ Len(t) = 2
      /\ t[1] = Write(u, d) /\ t[2] = Write(v, c)
  <2> HIDE DEF d, c
  <2> QED BY <1>3, WriteType
<1>5. Handle("send", u, v, n, q)
  BY DEF Send, Command
<1>6. /\ AsFound' /\ queue' = q /\ opening' = file
      /\ \A w : Was(w)' = Read(w)
      /\ job'.cmd = "send" /\ job'.who = u /\ job'.to = v /\ job'.n = n
  <2> HIDE DEF q
  <2> QED BY <1>5, Begins
<1>7. Debited' = d /\ Credited' = c /\ Covered'
  BY <1>1, <1>6 DEF Debited, Credited, Covered
<1> HIDE DEF d, c, t
<1>8. BlandBut(file, t, 2)
  BY <1>4 DEF BlandBut
<1>9. 2 \in 0..Len(t)
  BY <1>4
<1>10. PICK e \in {1, 2} : /\ Len(q) = Len(t) + e
                           /\ BlandBut(file, q, 2)
                           /\ \A i \in 1..Len(t) : q[i + e] = t[i]
  BY <1>4, <1>8, <1>9, CommandQueue
<1> HIDE DEF q
<1>11. Len(q) = 2 + e /\ q[Len(q) - 1] = t[1] /\ q[Len(q)] = t[2]
  <2>1. q[1 + e] = t[1] /\ q[2 + e] = t[2]
    BY <1>4, <1>10
  <2>2. Len(q) = 2 + e /\ Len(q) - 1 = 1 + e
    BY <1>4, <1>10
  <2> QED BY <2>1, <2>2
<1> QED BY <1>4, <1>6, <1>7, <1>10, <1>11 DEF Sends

\* A command that writes one record of its own: its effects end with that.
LEMMA OrderStarts ==
    ASSUME TypeOK, NEW cmd, NEW u \in Users, NEW n, NEW r \in Rec, NEW q,
           Handle(cmd, u, u, n, q),
           Ordered([cmd |-> cmd, who |-> u, to |-> u, n |-> n], Read(u), r),
           NEW d \in {0, 1, 2}, Len(q) = 1 + d, BlandBut(file, q, 1), q[1 + d] = Write(u, r)
    PROVE  Orders'
<1>1. q[Len(q)].who = u /\ q[Len(q)].rec = r
  BY WriteType
<1>2. q # << >>
  OBVIOUS
<1>3. job' = [cmd |-> cmd, who |-> u, to |-> u, n |-> n]
  BY DEF Handle
<1>4. AsFound' /\ queue' = q /\ opening' = file /\ job'.to = u /\ Was(job.to)' = Read(u)
  BY Begins
<1> QED BY <1>1, <1>2, <1>3, <1>4 DEF Orders

LEMMA ExchangeStarts ==
    ASSUME TypeOK, NEW cmd, NEW u \in Users, NEW n, NEW r \in Rec,
           Handle(cmd, u, u, n, << Stamp(u) >> \o << Write(u, r) >>),
           Ordered([cmd |-> cmd, who |-> u, to |-> u, n |-> n], Read(u), r)
    PROVE  Orders'
<1> DEFINE t == << Write(u, r) >>
           q == << Stamp(u) >> \o t
<1>1. t \in Seq(WriteEffect) /\ Len(t) = 1 /\ t[1] = Write(u, r) /\ 1 \in 0..Len(t)
  BY WriteType
<1>2. BlandBut(file, t, 1)
  BY <1>1 DEF BlandBut
<1>3. Handle(cmd, u, u, n, q)
  OBVIOUS
<1> HIDE DEF t
<1>4. /\ Len(q) = Len(t) + 1 /\ BlandBut(file, q, 1)
      /\ \A i \in 1..Len(t) : q[i + 1] = t[i]
  BY <1>1, <1>2, StampBland, BlandFirst
<1> HIDE DEF q
<1>5. \E d \in {0, 1, 2} : Len(q) = 1 + d /\ q[1 + d] = Write(u, r)
  BY <1>1, <1>4
<1> QED BY <1>3, <1>4, <1>5, OrderStarts

LEMMA GrantStarts ==
    ASSUME TypeOK, NEW v \in Users, NEW n \in Amounts, Grant(v, n)
    PROVE  Orders'
<1> DEFINE r == Granted(Read(v), n)
           t == << Write(v, r) >>
           q == Create(v) \o t
<1>1. n \in Int /\ Read(v) \in Rec
  BY BankAssumption, ReadIsRecord, RecordType DEF TypeOK
<1>2. r \in Rec /\ r.money = n /\ r.chip = Read(v).chip
  BY <1>1, ExchangeType
<1>3. Handle("grant", v, v, n, q)
  BY DEF Grant, SetMoney, Granted
<1> HIDE DEF r
<1>4. t \in Seq(WriteEffect) /\ Len(t) = 1 /\ t[1] = Write(v, r) /\ 1 \in 0..Len(t)
  BY <1>2, WriteType
<1> HIDE DEF t
<1>5. BlandBut(file, t, 1)
  BY <1>4 DEF BlandBut
<1>6. PICK d \in {0, 1} : /\ Len(q) = Len(t) + d
                          /\ BlandBut(file, q, 1)
                          /\ \A i \in 1..Len(t) : q[i + d] = t[i]
  BY <1>4, <1>5, CreateFirst
<1> HIDE DEF q
<1>7. Ordered([cmd |-> "grant", who |-> v, to |-> v, n |-> n], Read(v), r)
  BY <1>2 DEF Ordered
<1>8. q[1 + d] = Write(v, r) /\ Len(q) = 1 + d
  BY <1>4, <1>6
<1> QED BY <1>2, <1>3, <1>6, <1>7, <1>8, OrderStarts

\* Every handler of the bank starts where JobInv says.
LEMMA JobStarts ==
    ASSUME TypeOK, Banking
    PROVE  JobInv'
<1>r. \A u \in Users : Read(u) \in Rec
  BY ReadIsRecord, RecordType DEF TypeOK
<1>1. ASSUME NEW u \in Users, NEW v \in Users, NEW n \in Amounts, SendRefused(u, v, n)
      PROVE  Leaves'
  <2> DEFINE q == << Stamp(u) >> \o CreateOther(u, v)
  <2>1. << >> \in Seq(WriteEffect) /\ BlandBut(file, << >>, 0) /\ 0 \in 0..Len(<< >>)
    BY DEF BlandBut
  <2>2. CreateOther(u, v) \o << >> = CreateOther(u, v)
    BY CreateType, ConcatEmptySeq
  <2>3. BlandBut(file, q, 0)
    BY <2>1, <2>2, CommandQueue
  <2>4. Handle("other", u, v, n, q)
    BY <1>1 DEF SendRefused, Command
  <2> HIDE DEF q
  <2> QED BY <2>3, <2>4, Begins DEF Leaves
<1>2. ASSUME NEW u \in Users, NEW k \in Counts, Buy(u, k) PROVE Orders'
  <2> DEFINE r == Bought(Read(u), k)
  <2>1. /\ r \in Rec
        /\ r.money = Wrap(Read(u).money - k * BuyPrice) /\ r.chip = Wrap(Read(u).chip + k)
    BY <1>r, BankAssumption, ExchangeType
  <2>2. /\ Handle("buy", u, u, k, << Stamp(u) >> \o << Write(u, r) >>)
        /\ CoversChips(Read(u), k)
    BY <1>2 DEF Buy, Command
  <2> HIDE DEF r
  <2>3. Ordered([cmd |-> "buy", who |-> u, to |-> u, n |-> k], Read(u), r)
    BY <2>1, <2>2 DEF Ordered
  <2> QED BY <2>1, <2>2, <2>3, ExchangeStarts
<1>3. ASSUME NEW u \in Users, NEW k \in Counts, Sell(u, k) PROVE Orders'
  <2> DEFINE r == Sold(Read(u), k)
  <2>1. /\ r \in Rec
        /\ r.money = Wrap(Read(u).money + k * SellPrice) /\ r.chip = Wrap(Read(u).chip - k)
    BY <1>r, BankAssumption, ExchangeType
  <2>2. /\ Handle("sell", u, u, k, << Stamp(u) >> \o << Write(u, r) >>)
        /\ Read(u).chip >= k
    BY <1>3 DEF Sell, Command
  <2> HIDE DEF r
  <2>3. Ordered([cmd |-> "sell", who |-> u, to |-> u, n |-> k], Read(u), r)
    BY <2>1, <2>2 DEF Ordered
  <2> QED BY <2>1, <2>2, <2>3, ExchangeStarts
<1>4. ASSUME NEW u \in Users, Nick(u) \/ Other(u) PROVE Leaves'
  <2> DEFINE q == << Stamp(u) >>
  <2>1. BlandBut(file, q, 0)
    BY StampBland DEF BlandBut
  <2>2. << Stamp(u) >> \o << >> = << Stamp(u) >>
    BY StampType, ConcatEmptySeq
  <2>3. \E cmd, n : Handle(cmd, u, u, n, q)
    BY <1>4, <2>2 DEF Nick, Other, Command
  <2> HIDE DEF q
  <2> QED BY <2>1, <2>3, Begins DEF Leaves
<1> QED BY <1>1, <1>2, <1>3, <1>4, SendStarts, GrantStarts DEF Banking, JobInv

\* One effect less to perform.
LEMMA Performs ==
    ASSUME TypeOK, Perform
    PROVE  /\ queue # << >> /\ Len(queue) \in Nat \ {0}
           /\ queue[1] \in WriteEffect
           /\ \A u \in Users : RecordIn(file', u) =
                 IF u = queue[1].who THEN queue[1].rec ELSE RecordIn(file, u)
           /\ queue' \in Seq(WriteEffect) /\ Len(queue') = Len(queue) - 1
           /\ \A i \in 1..(Len(queue) - 1) : queue'[i] = queue[i + 1]
           /\ opening' = opening /\ job' = job /\ crashes' = crashes
<1>1. queue \in Seq(WriteEffect) /\ queue # << >>
  BY DEF TypeOK, Perform, PerformWrite, Idle
<1>2. Len(queue) \in Nat \ {0}
  BY <1>1, LenProperties, EmptySeq
<1>3. Head(queue) = queue[1] /\ queue[1] \in WriteEffect
  BY <1>1, <1>2, ElementOfSeq
<1>4. /\ Tail(queue) \in Seq(WriteEffect) /\ Len(Tail(queue)) = Len(queue) - 1
      /\ \A i \in 1..(Len(queue) - 1) : Tail(queue)[i] = queue[i + 1]
  BY <1>1, <1>2, HeadTailProperties
<1>5. file' = [file EXCEPT ![queue[1].who] = queue[1].rec]
  BY <1>3 DEF Perform, PerformWrite
<1>6. queue[1].who \in Users /\ queue[1].rec \in Rec
  BY <1>3 DEF WriteEffect
<1>7. \A u \in Users : RecordIn(file', u) =
        IF u = queue[1].who THEN queue[1].rec ELSE RecordIn(file, u)
  BY <1>5, <1>6, StoreAssumption DEF TypeOK, RecordIn
<1> QED BY <1>1, <1>2, <1>3, <1>4, <1>7 DEF Perform, PerformWrite, bankVars

\* A bland effect leaves the accounts as they are.
LEMMA BlandPerformed ==
    ASSUME TypeOK, Perform, AsFound, Bland(opening, queue[1])
    PROVE  AsFound'
BY Performs DEF AsFound, Bland, Same, Was

LEMMA BlandTail ==
    ASSUME TypeOK, Perform, NEW k \in Nat, BlandBut(opening, queue, k)
    PROVE  BlandBut(opening, queue, k)'
<1>1. /\ Len(queue') = Len(queue) - 1 /\ Len(queue) \in Nat \ {0}
      /\ \A i \in 1..(Len(queue) - 1) : queue'[i] = queue[i + 1]
      /\ opening' = opening
  BY Performs
<1>2. ASSUME NEW i \in 1..Len(queue'), i + k <= Len(queue')
      PROVE  Bland(opening', queue'[i])
  <2>1. i + 1 \in 1..Len(queue) /\ (i + 1) + k <= Len(queue) /\ i \in 1..(Len(queue) - 1)
    BY <1>1, <1>2
  <2> QED BY <1>1, <2>1 DEF BlandBut
<1> QED BY <1>2 DEF BlandBut

\* Every performed effect leaves the command where JobInv says.
LEMMA JobGoesOn ==
    ASSUME TypeOK, JobInv, Perform
    PROVE  JobInv'
<1>1. /\ queue # << >> /\ Len(queue) \in Nat \ {0}
      /\ queue' \in Seq(WriteEffect) /\ Len(queue') = Len(queue) - 1
      /\ \A i \in 1..(Len(queue) - 1) : queue'[i] = queue[i + 1]
      /\ opening' = opening /\ job' = job
  BY Performs
<1>2. Len(queue) = 1 => Idle'
  BY <1>1, EmptySeq DEF Idle
<1>3. /\ \A u : Was(u)' = Was(u)
      /\ Debited' = Debited /\ Credited' = Credited /\ Covered' = Covered
  BY <1>1 DEF Was, Debited, Credited, Covered
<1>4. CASE Leaves
  <2>1. 1 + 0 <= Len(queue) /\ 0 \in Nat
    BY <1>1
  <2>2. Bland(opening, queue[1])
    BY <1>1, <1>4, <2>1 DEF Leaves, BlandBut
  <2>3. AsFound' /\ BlandBut(opening, queue, 0)'
    BY <1>4, <2>1, <2>2, BlandPerformed, BlandTail DEF Leaves
  <2> QED BY <2>3 DEF Leaves, JobInv
<1>5. CASE Orders /\ Len(queue) # 1
  <2>1. 1 + 1 <= Len(queue) /\ 1 \in Nat
    BY <1>1, <1>5
  <2>2. Bland(opening, queue[1])
    BY <1>1, <1>5, <2>1 DEF Orders, BlandBut
  <2>3. AsFound' /\ BlandBut(opening, queue, 1)'
    BY <1>5, <2>1, <2>2, BlandPerformed, BlandTail DEF Orders
  <2>4. queue'[Len(queue')] = queue[Len(queue)] /\ queue' # << >>
    BY <1>1, <1>5
  <2>5. Orders'
    BY <1>1, <1>3, <1>5, <2>3, <2>4 DEF Orders
  <2> QED BY <2>5 DEF JobInv
<1>6. CASE Sends /\ Len(queue) # 2
  <2>1. 1 + 2 <= Len(queue) /\ 2 \in Nat
    BY <1>1, <1>6 DEF Sends
  <2>2. Bland(opening, queue[1])
    BY <1>1, <1>6, <2>1 DEF Sends, BlandBut
  <2>3. AsFound' /\ BlandBut(opening, queue, 2)'
    BY <1>6, <2>1, <2>2, BlandPerformed, BlandTail DEF Sends
  <2>4. /\ queue'[Len(queue')] = queue[Len(queue)]
        /\ queue'[Len(queue') - 1] = queue[Len(queue) - 1]
        /\ Len(queue') >= 2
    BY <1>1, <2>1
  <2>5. Sends'
    BY <1>1, <1>3, <1>6, <2>3, <2>4 DEF Sends
  <2> QED BY <2>5 DEF JobInv
<1>7. CASE Sends /\ Len(queue) = 2
  <2>1. queue[1] = Write(job.who, Debited) /\ queue[2] = Write(job.to, Credited)
    BY <1>7 DEF Sends
  <2>2. Len(queue') = 1 /\ queue'[1] = Write(job.to, Credited)
    BY <1>1, <1>7, <2>1
  <2>3. queue' = << Write(job.to, Credited) >>
    BY <1>1, <2>2
  <2>4. queue[1].who = job.who /\ queue[1].rec = Debited
    BY <2>1 DEF Write
  <2>5. job.who \in Users
    BY DEF TypeOK, Job
  <2>6. /\ Same(RecordIn(file, job.who), Debited)'
        /\ \A u \in Users \ {job'.who} : Same(RecordIn(file, u), Was(u))'
    BY <1>1, <1>3, <1>7, <2>4, <2>5, Performs DEF Sends, AsFound, Same
  <2>7. HalfSent'
    BY <1>1, <1>3, <1>7, <2>3, <2>6 DEF Sends, HalfSent
  <2> QED BY <2>7 DEF JobInv
<1>8. CASE HalfSent
  <2>1. Len(queue) = 1
    BY <1>8 DEF HalfSent
  <2> QED BY <1>2, <2>1 DEF JobInv
<1> QED BY <1>1, <1>2, <1>4, <1>5, <1>6, <1>7, <1>8 DEF JobInv, Idle

\* JobInv is inductive.
LEMMA JobStep == TypeOK /\ JobInv /\ [Next]_vars => JobInv'
<1> SUFFICES ASSUME TypeOK, JobInv, [Next]_vars PROVE JobInv'
  OBVIOUS
<1>1. CASE Banking
  BY <1>1, JobStarts
<1>2. CASE Perform
  BY <1>2, JobGoesOn
<1>3. CASE Crash
  BY <1>3 DEF Crash, StoreCrash, JobInv, Idle
<1>4. CASE UNCHANGED vars
  BY <1>4 DEF vars, bankVars, JobInv, Idle, Leaves, Orders, Sends, HalfSent, AsFound, Was,
     Covered, Debited, Credited
<1> QED BY <1>1, <1>2, <1>3, <1>4 DEF Next

LEMMA JobKept == Spec => [](TypeOK /\ JobInv)
<1>1. Init => JobInv
  BY DEF Init, StoreInit, JobInv, Idle
<1> QED BY <1>1, JobStep, TypeInit, TypeStep, PTL DEF Spec

---------------------------------------------------------------------------
\* The ledger that the accounts keep.

Acc == [money: Int, chip: Int]

\* The accounts that the files f hold.
AccOf(r) == [money |-> r.money, chip |-> r.chip]
Books(f) == [u \in Users |-> AccOf(RecordIn(f, u))]

LEMMA AccountIs ==
    /\ Idle => Account = Books(file)
    /\ ~Idle => Account = Books(opening)
BY DEF Account, Books, AccOf

LEMMA BooksType ==
    ASSUME NEW f \in [Users -> Rec \cup {NoRec}]
    PROVE  /\ Books(f) \in [Users -> Acc]
           /\ \A u \in Users : /\ Books(f)[u] = AccOf(RecordIn(f, u))
                               /\ Books(f)[u].money = RecordIn(f, u).money
                               /\ Books(f)[u].chip = RecordIn(f, u).chip
<1>1. \A u \in Users : AccOf(RecordIn(f, u)) \in Acc
  BY RecordType DEF AccOf, Acc, Rec
<1> QED BY <1>1 DEF Books, AccOf

\* Equal accounts are equal.
LEMMA SameAcc ==
    ASSUME NEW r \in Rec, NEW s \in Rec
    PROVE  Same(r, s) <=> AccOf(r) = AccOf(s)
BY DEF Same, AccOf, Rec

\* What the operations of the ledger make of the accounts a.
LEMMA TwoChanged ==
    ASSUME NEW a \in [Users -> Acc], NEW b \in [Users -> Acc],
           NEW u \in Users, NEW v \in Users \ {u}, NEW c, NEW d,
           b[u] = c, b[v] = d, \A w \in Users \ {u, v} : b[w] = a[w]
    PROVE  b = [a EXCEPT ![u] = c, ![v] = d]
OBVIOUS

LEMMA OneChanged ==
    ASSUME NEW a \in [Users -> Acc], NEW b \in [Users -> Acc],
           NEW u \in Users, NEW c, b[u] = c, \A w \in Users \ {u} : b[w] = a[w]
    PROVE  b = [a EXCEPT ![u] = c]
OBVIOUS

\* The operation that a step of the bank is for the accounts.
Moves ==
    /\ ~Idle
    /\ \/ Covered /\ Book!Transfer(job.who, job.to, job.n)
       \/ Covered /\ Book!LoseAndReset(job.who, job.to, job.n)
       \/ Covered /\ Book!Lose(job.who, job.n)
       \/ Covered /\ job.who = job.to /\ Book!SelfSend(job.to, job.n)
       \/ job.cmd = "buy" /\ job.n \in Counts /\ Book!Buy(job.to, job.n)
       \/ job.cmd = "sell" /\ job.n \in Counts /\ Book!Sell(job.to, job.n)
       \/ job.cmd = "grant" /\ job.n \in Amounts /\ Book!Grant(job.to, job.n)
       \/ \E u \in Users : Book!Reset(u)

\* The accounts are read from files that hold records.
LEMMA AccountFacts ==
    ASSUME TypeOK
    PROVE  /\ Account \in [Users -> Acc]
           /\ ~Idle => \A u \in Users : Account[u] = AccOf(Was(u))
           /\ Idle => \A u \in Users : Account[u] = AccOf(RecordIn(file, u))
           /\ \A u \in Users : Was(u) \in Rec /\ RecordIn(file, u) \in Rec
BY AccountIs, BooksType, RecordType DEF TypeOK, Was

\* The last effect of a command makes its operation of it.
LEMMA Settles ==
    ASSUME TypeOK, TypeOK', JobInv, Perform, Idle'
    PROVE  Account' = Account \/ Moves
<1> DEFINE h == queue[1]
<1>1. /\ ~Idle /\ queue # << >> /\ Len(queue) = 1
      /\ h \in WriteEffect
      /\ \A u \in Users : RecordIn(file', u) = IF u = h.who THEN h.rec ELSE RecordIn(file, u)
  <2>1. queue' = << >> /\ Len(queue') = 0
    BY DEF Idle
  <2> QED BY <2>1, Performs DEF Idle
<1>2. /\ Account \in [Users -> Acc] /\ Account' \in [Users -> Acc]
      /\ \A u \in Users : Account[u] = AccOf(Was(u)) /\ Account'[u] = AccOf(RecordIn(file', u))
      /\ \A u \in Users : Was(u) \in Rec /\ RecordIn(file, u) \in Rec /\ RecordIn(file', u) \in Rec
  <2>1. /\ Account' \in [Users -> Acc]
        /\ \A u \in Users : Account'[u] = AccOf(RecordIn(file', u)) /\ RecordIn(file', u) \in Rec
    <3>1. Account' = Books(file') /\ file' \in [Users -> Rec \cup {NoRec}]
      BY DEF Account, Books, AccOf, TypeOK
    <3> QED BY <3>1, BooksType, RecordType
  <2> QED BY <1>1, <2>1, AccountFacts
<1>3. job.who \in Users /\ job.to \in Users /\ job.n \in Int
  BY DEF TypeOK, Job
<1> HIDE DEF h
<1>4. CASE Leaves
  <2>1. Bland(opening, h)
    BY <1>1, <1>4 DEF Leaves, BlandBut, h
  <2>2. \A u \in Users : Same(Was(u), RecordIn(file', u))
    BY <1>1, <1>4, <2>1 DEF Leaves, AsFound, Bland, Same, Was
  <2>3. \A u \in Users : Account'[u] = Account[u]
    BY <1>2, <2>2, SameAcc
  <2> QED BY <1>2, <2>3
<1>5. CASE Orders
  <2> DEFINE w == job.to
  <2>1. h.who = w /\ Ordered(job, Was(w), h.rec) /\ AsFound
    BY <1>1, <1>5 DEF Orders, h
  <2>2. Account'[w] = AccOf(h.rec) /\ h.rec \in Rec
    BY <1>1, <1>2, <1>3, <2>1 DEF WriteEffect
  <2>3. \A u \in Users \ {w} : Account'[u] = Account[u]
    BY <1>1, <1>2, <2>1, SameAcc DEF AsFound
  <2>4. Account[w].money = Was(w).money /\ Account[w].chip = Was(w).chip
    BY <1>2, <1>3 DEF AccOf
  <2>5. Account' = [Account EXCEPT ![w] = AccOf(h.rec)]
    BY <1>2, <1>3, <2>2, <2>3, OneChanged
  <2>6. CASE job.cmd = "buy"
    <3>1. /\ job.n \in Counts /\ Was(w).money >= Wrap(job.n * BuyPrice)
          /\ h.rec.money = Wrap(Was(w).money - job.n * BuyPrice)
          /\ h.rec.chip = Wrap(Was(w).chip + job.n)
      BY <2>1, <2>6 DEF Ordered, CoversChips
    <3>2. Was(w).money \in Int /\ Was(w).chip \in Int
      BY <1>2, <1>3 DEF Rec
    <3>3. /\ Was(w).money - job.n * BuyPrice = Account[w].money + (0 - 1000 * job.n)
          /\ job.n * BuyPrice = 1000 * job.n
      BY <1>3, <2>4, <3>2 DEF BuyPrice
    <3>4. AccOf(h.rec) = Book!Exchanged(Account[w], 0 - 1000 * job.n, job.n)
      BY <2>4, <3>1, <3>3 DEF AccOf, Book!Exchanged, Book!Wrap, Wrap
    <3>5. Book!Buy(w, job.n)
      BY <2>4, <2>5, <3>1, <3>3, <3>4 DEF Book!Buy, Book!Wrap, Wrap
    <3> QED BY <1>1, <2>6, <3>1, <3>5 DEF Moves
  <2>7. CASE job.cmd = "sell"
    <3>1. /\ job.n \in Counts /\ Was(w).chip >= job.n
          /\ h.rec.money = Wrap(Was(w).money + job.n * SellPrice)
          /\ h.rec.chip = Wrap(Was(w).chip - job.n)
      BY <2>1, <2>7 DEF Ordered
    <3>2. Was(w).money \in Int /\ Was(w).chip \in Int
      BY <1>2, <1>3 DEF Rec
    <3>3. /\ Was(w).money + job.n * SellPrice = Account[w].money + 950 * job.n
          /\ Was(w).chip - job.n = Account[w].chip + (0 - job.n)
      BY <1>3, <2>4, <3>2 DEF SellPrice
    <3>4. AccOf(h.rec) = Book!Exchanged(Account[w], 950 * job.n, 0 - job.n)
      BY <3>1, <3>3 DEF AccOf, Book!Exchanged, Book!Wrap, Wrap
    <3>5. Book!Sell(w, job.n)
      BY <2>4, <2>5, <3>1, <3>4 DEF Book!Sell
    <3> QED BY <1>1, <2>7, <3>1, <3>5 DEF Moves
  <2>8. CASE job.cmd = "grant"
    <3>1. job.n \in Amounts /\ h.rec.money = job.n /\ h.rec.chip = Was(w).chip
      BY <2>1, <2>8 DEF Ordered
    <3>2. AccOf(h.rec) = [money |-> job.n, chip |-> Account[w].chip]
      BY <2>4, <3>1 DEF AccOf
    <3>3. Book!Grant(w, job.n)
      BY <2>5, <3>2 DEF Book!Grant
    <3> QED BY <1>1, <2>8, <3>1, <3>3 DEF Moves
  <2> QED BY <2>1, <2>6, <2>7, <2>8 DEF Ordered
<1>6. CASE Sends
  BY <1>1, <1>6 DEF Sends
<1>7. CASE HalfSent
  <2> DEFINE u == job.who
             v == job.to
             n == job.n
  <2>1. h = Write(v, Credited) /\ h.who = v /\ h.rec = Credited
    BY <1>7 DEF HalfSent, h, Write
  <2>2. /\ Covered /\ n \in Amounts /\ n > 0 /\ Was(u).money >= n
        /\ Same(RecordIn(file, u), Debited)
        /\ \A x \in Users \ {u} : Same(RecordIn(file, x), Was(x))
    BY <1>7 DEF HalfSent, Covered
  <2>3. /\ \A x \in Users : Account[x].money = Was(x).money /\ Account[x].chip = Was(x).chip
        /\ \A x \in Users : Was(x).money \in Int /\ Was(x).chip \in Int
    BY <1>2 DEF AccOf, Rec
  <2>4. /\ Credited.money = Wrap(Was(v).money + n) /\ Credited.chip = Was(v).chip
        /\ Debited.money = Was(u).money - n /\ Debited.chip = Was(u).chip
    <3>1. Was(u) \in Rec /\ Was(v) \in Rec
      BY <1>2, <1>3
    <3>2. Debited = Debit(Was(u), n) /\ Credited = Credit(Was(v), n)
      BY DEF Debited, Credited
    <3> HIDE DEF u, v, n
    <3> QED BY <1>3, <3>1, <3>2, PayType DEF n
  <2>5. Account'[v] = Book!Gain(Account[v], n)
    BY <1>1, <1>2, <1>3, <2>1, <2>3, <2>4 DEF AccOf, Book!Gain, Book!Wrap, Wrap
  <2>6. \A x \in Users \ {u, v} : Account'[x] = Account[x]
    BY <1>1, <1>2, <2>1, <2>2, SameAcc
  <2>7. CASE u = v
    <3>1. Account' = [Account EXCEPT ![u] = Book!Gain(Account[u], n)]
      BY <1>2, <1>3, <2>5, <2>6, <2>7, OneChanged
    <3>2. Book!SelfSend(u, n)
      BY <1>3, <2>2, <2>3, <3>1 DEF Book!SelfSend, Book!Covers
    <3> QED BY <1>1, <2>2, <2>7, <3>2 DEF Moves
  <2>8. CASE u # v
    <3>1. Account'[u] = AccOf(RecordIn(file, u))
      BY <1>1, <1>2, <1>3, <2>1, <2>8
    <3>2. Account'[u] = Book!Pay(Account[u], n)
      BY <1>3, <2>2, <2>3, <2>4, <3>1 DEF AccOf, Book!Pay, Same
    <3>3. Account' = [Account EXCEPT ![u] = Book!Pay(Account[u], n),
                                     ![v] = Book!Gain(Account[v], n)]
      BY <1>2, <1>3, <2>5, <2>6, <2>8, <3>2, TwoChanged
    <3>4. Book!Transfer(u, v, n)
      BY <1>3, <2>2, <2>3, <2>8, <3>3 DEF Book!Transfer, Book!Covers
    <3> QED BY <1>1, <2>2, <3>4 DEF Moves
  <2> QED BY <2>7, <2>8
<1> QED BY <1>1, <1>4, <1>5, <1>6, <1>7 DEF JobInv

\* A death of the process makes one of it too: the effects that are done, and the
\* file that was open, are those of a prefix of the command.
LEMMA Dies ==
    ASSUME TypeOK, TypeOK', JobInv, Crash
    PROVE  Account' = Account \/ Moves
<1>1. /\ Account' \in [Users -> Acc] /\ Account \in [Users -> Acc]
      /\ \A u \in Users : Account'[u] = AccOf(RecordIn(file', u)) /\ RecordIn(file', u) \in Rec
      /\ \A u \in Users : Was(u) \in Rec /\ RecordIn(file, u) \in Rec
  <2>1. Account' = Books(file') /\ file' \in [Users -> Rec \cup {NoRec}]
    BY DEF Crash, StoreCrash, Idle, Account, Books, AccOf, TypeOK
  <2> QED BY <2>1, AccountFacts, BooksType, RecordType
<1>2. CASE Idle
  <2>1. \A u \in Users : Account'[u] = Account[u]
    BY <1>1, <1>2, AccountFacts DEF Crash, StoreCrash
  <2> QED BY <1>1, <2>1
<1>3. CASE ~Idle
  <2> DEFINE w == queue[1].who
  <2>1. \A u \in Users : Account[u] = AccOf(Was(u))
    BY <1>3, AccountFacts
  <2>2. queue \in Seq(WriteEffect) /\ queue # << >>
    BY <1>3 DEF TypeOK, Idle
  <2>3. Len(queue) \in Nat \ {0} /\ queue[1] \in WriteEffect /\ Head(queue) = queue[1]
    BY <2>2, LenProperties, EmptySeq, ElementOfSeq
  <2>4. w \in Users
    BY <2>3 DEF WriteEffect
  <2>5. \/ file' = file
        \/ \A u \in Users : RecordIn(file', u) = IF u = w THEN Fresh ELSE RecordIn(file, u)
    <3>1. file' = file \/ file' = [file EXCEPT ![w] = NoRec]
      BY <2>3 DEF Crash, StoreCrash
    <3> QED BY <2>4, <3>1 DEF TypeOK, RecordIn
  <2> HIDE DEF w
  <2>6. CASE AsFound
    <3>1. \A u \in Users : AccOf(RecordIn(file, u)) = Account[u]
      BY <1>1, <2>1, <2>6, SameAcc DEF AsFound
    <3>2. CASE file' = file
      BY <1>1, <3>1, <3>2
    <3>3. CASE \A u \in Users : RecordIn(file', u) = IF u = w THEN Fresh ELSE RecordIn(file, u)
      <4>1. Account'[w] = AccOf(Fresh) /\ \A u \in Users \ {w} : Account'[u] = Account[u]
        BY <1>1, <2>4, <3>1, <3>3
      <4>2. Account' = [Account EXCEPT ![w] = AccOf(Fresh)]
        BY <1>1, <2>4, <4>1, OneChanged
      <4>3. Book!Reset(w)
        BY <4>2 DEF Book!Reset, AccOf
      <4> QED BY <1>3, <2>4, <4>3 DEF Moves
    <3> QED BY <2>5, <3>2, <3>3
  <2>7. CASE HalfSent
    <3> DEFINE u == job.who
               v == job.to
               n == job.n
    <3>1. u \in Users /\ v \in Users /\ n \in Int
      BY DEF TypeOK, Job
    <3>2. /\ Covered /\ n \in Amounts /\ n > 0 /\ Was(u).money >= n
          /\ Same(RecordIn(file, u), Debited)
          /\ \A x \in Users \ {u} : Same(RecordIn(file, x), Was(x))
      BY <2>7 DEF HalfSent, Covered
    <3>3. /\ Account[u].money = Was(u).money /\ Account[u].chip = Was(u).chip
          /\ Was(u).money \in Int /\ Was(u).chip \in Int
      BY <1>1, <2>1, <3>1 DEF AccOf, Rec
    <3>4. Debited.money = Was(u).money - n /\ Debited.chip = Was(u).chip
      <4>1. Was(u) \in Rec /\ Debited = Debit(Was(u), n)
        BY <1>1, <3>1 DEF Debited
      <4> HIDE DEF u, n
      <4> QED BY <3>1, <4>1, PayType
    <3>5. AccOf(RecordIn(file, u)) = Book!Pay(Account[u], n)
      BY <3>1, <3>2, <3>3, <3>4 DEF AccOf, Same, Book!Pay
    <3>6. \A x \in Users \ {u} : AccOf(RecordIn(file, x)) = Account[x]
      BY <1>1, <2>1, <3>2, SameAcc
    <3>7. Book!Covers(u, n)
      BY <3>2, <3>3 DEF Book!Covers
    <3>8. w = v
      BY <2>7 DEF HalfSent, w, Write
    <3>9. CASE file' = file
      <4>1. Account' = [Account EXCEPT ![u] = Book!Pay(Account[u], n)]
        BY <1>1, <3>1, <3>5, <3>6, <3>9, OneChanged
      <4>2. Book!Lose(u, n)
        BY <3>7, <4>1 DEF Book!Lose
      <4> QED BY <1>3, <3>2, <4>2 DEF Moves
    <3>10. CASE \A x \in Users : RecordIn(file', x) = IF x = w THEN Fresh ELSE RecordIn(file, x)
      <4>1. Account'[v] = AccOf(Fresh) /\ \A x \in Users \ {u, v} : Account'[x] = Account[x]
        BY <1>1, <3>1, <3>6, <3>8, <3>10
      <4>2. CASE u = v
        <5>1. Account' = [Account EXCEPT ![v] = AccOf(Fresh)]
          BY <1>1, <3>1, <4>1, <4>2, OneChanged
        <5>2. Book!Reset(v)
          BY <5>1 DEF Book!Reset, AccOf
        <5> QED BY <1>3, <3>1, <5>2 DEF Moves
      <4>3. CASE u # v
        <5>1. Account'[u] = Book!Pay(Account[u], n)
          BY <1>1, <3>1, <3>5, <3>8, <3>10, <4>3
        <5>2. Account' = [Account EXCEPT ![u] = Book!Pay(Account[u], n),
                                         ![v] = AccOf(Fresh)]
          BY <1>1, <3>1, <4>1, <4>3, <5>1, TwoChanged
        <5>3. Book!LoseAndReset(u, v, n)
          BY <3>7, <5>2 DEF Book!LoseAndReset, AccOf
        <5> QED BY <1>3, <3>2, <5>3 DEF Moves
      <4> QED BY <4>2, <4>3
    <3> QED BY <2>5, <3>9, <3>10
  <2> QED BY <1>3, <2>6, <2>7 DEF JobInv, Leaves, Orders, Sends
<1> QED BY <1>2, <1>3

\* Every step of the bank is one operation of the ledger, or none.
LEMMA LedgerStep == TypeOK /\ TypeOK' /\ JobInv /\ [Next]_vars => Account' = Account \/ Moves
<1> SUFFICES ASSUME TypeOK, TypeOK', JobInv, [Next]_vars
             PROVE  Account' = Account \/ Moves
  OBVIOUS
<1>1. CASE Banking
  <2>1. Idle /\ file' = file /\ opening' = file
    BY <1>1 DEF Banking, Send, SendRefused, Buy, Sell, Nick, Other, Grant, Command, Handle
  <2>2. Account = Books(file) /\ Account' = Books(file)
    BY <2>1 DEF Account, Books, AccOf
  <2> QED BY <2>2
<1>2. CASE Perform
  <2>1. CASE Idle'
    BY <1>2, <2>1, Settles
  <2>2. CASE ~Idle'
    <3>1. ~Idle /\ opening' = opening
      BY <1>2 DEF Perform, PerformWrite, bankVars
    <3> QED BY <2>2, <3>1 DEF Account
  <2> QED BY <2>1, <2>2
<1>3. CASE Crash
  BY <1>3, Dies
<1>4. CASE UNCHANGED vars
  BY <1>4 DEF vars, bankVars, Account, Idle
<1> QED BY <1>1, <1>2, <1>3, <1>4 DEF Next

\* The bank implements the ledger: whatever the order of the writes, the files that
\* were missing and the deaths of the process, the accounts change by one whole
\* operation, and a transfer never credits what it has not debited.
THEOREM BankIsLedger == Spec => LedgerRefinement
<1>1. Init => Book!LedgerInit
  <2> SUFFICES ASSUME Init PROVE Book!LedgerInit
    OBVIOUS
  <2>1. Account \in [Users -> Acc]
    BY TypeInit, AccountFacts
  <2> QED BY <2>1 DEF Book!LedgerInit, Acc
<1>2. TypeOK /\ TypeOK' /\ JobInv /\ [Next]_vars => [Book!LedgerNext]_Account
  <2>1. TypeOK /\ Moves => Book!LedgerNext
    <3>1. TypeOK => job.to \in Users /\ job.who \in Users
      BY DEF TypeOK, Job
    <3> QED BY <3>1 DEF Moves, Covered, Book!LedgerNext
  <2> QED BY <2>1, LedgerStep
<1> QED BY <1>1, <1>2, JobKept, PTL DEF Spec, LedgerRefinement, Book!LedgerSpec

\* What does not leave the int is what the code computes of it.
LEMMA FitsMeans == \A n \in Int : Fits(n) => Wrap(n) = n
BY DEF Fits

\* Nobody gets into debt but by the sale of a negative number of chips, by a
\* product or a sum that leaves the int, or by the administrator: /send and
\* /chip buy compare what they take, and what a crash takes had been compared
\* before.
THEOREM DebtsHaveCause == Spec => DebtHasCause
<1>1. TypeOK /\ TypeOK' /\ JobInv /\ [Next]_vars
        => [\A u \in Users :
              Account[u].money >= 0 /\ Account'[u].money < 0 =>
                  \/ job.cmd = "sell" /\ job.n < 0
                  \/ LeavesInt
                  \/ job.cmd = "grant"]_vars
  <2> SUFFICES ASSUME TypeOK, TypeOK', JobInv, [Next]_vars, NEW u \in Users,
                      Account[u].money >= 0, Account'[u].money < 0, job.cmd # "grant",
                      ~LeavesInt
               PROVE  job.cmd = "sell" /\ job.n < 0
    OBVIOUS
  <2> DEFINE v == job.to
             n == job.n
             m == Was(v).money
  <2>1. /\ Moves /\ ~Idle
        /\ Account \in [Users -> Acc]
        /\ \A w \in Users : Account[w].money \in Int /\ Account[w].money = Was(w).money
    <3>1. Account' = Account \/ Moves
      BY LedgerStep
    <3>2. Account' # Account
      <4>1. Account[u].money \in Int
        BY AccountFacts DEF Acc
      <4> QED BY <4>1
    <3>3. Moves /\ ~Idle
      BY <3>1, <3>2 DEF Moves
    <3> QED BY <3>3, AccountFacts DEF Acc, AccOf
  <2>2. v \in Users /\ job.who \in Users /\ n \in Int /\ m \in Int
    BY <2>1 DEF TypeOK, Job
  <2>3. /\ job.cmd = "send" => Wrap(m + n) = m + n
        /\ job.cmd = "buy" => Wrap(n * BuyPrice) = n * BuyPrice
                            /\ Wrap(m - n * BuyPrice) = m - n * BuyPrice
        /\ job.cmd = "sell" => Wrap(m + n * SellPrice) = m + n * SellPrice
    <3>1. /\ m + n \in Int /\ n * BuyPrice \in Int
          /\ m - n * BuyPrice \in Int /\ m + n * SellPrice \in Int
      BY <2>2 DEF BuyPrice, SellPrice
    <3> QED BY <3>1 DEF LeavesInt, Fits, Was
  <2>4. Account[v].money = m
    BY <2>1, <2>2
  <2>5. \A x : Book!Wrap(x) = Wrap(x)
    BY DEF Book!Wrap, Wrap
  <2> HIDE DEF m
  <2>6. CASE Covered /\ (\/ Book!Transfer(job.who, v, n) \/ Book!LoseAndReset(job.who, v, n)
                         \/ Book!Lose(job.who, n) \/ Book!SelfSend(v, n))
    <3>1. /\ Account[job.who].money >= n \/ Account[v].money >= n
          /\ n > 0 /\ Wrap(Account[v].money + n) = Account[v].money + n
      BY <2>1, <2>2, <2>3, <2>4, <2>6 DEF Covered, Book!Transfer, Book!LoseAndReset,
         Book!Lose, Book!SelfSend, Book!Covers
    <3>2. \/ Account'[u] = Account[u]
          \/ Account'[u] = Book!Pay(Account[u], n) /\ Account[u].money >= n
          \/ Account'[u] = Book!Gain(Account[u], n) /\ u = v
          \/ Account'[u] = [money |-> Fresh.money, chip |-> Fresh.chip]
      BY <2>1, <2>2, <2>6 DEF Book!Transfer, Book!LoseAndReset, Book!Lose, Book!SelfSend,
         Book!Covers
    <3> QED BY <2>1, <2>2, <2>5, <3>1, <3>2 DEF Book!Pay, Book!Gain, Fresh
  <2>7. CASE job.cmd = "buy" /\ Book!Buy(v, n)
    <3>1. m >= Wrap(n * BuyPrice) /\ n * BuyPrice = 1000 * n
      BY <2>2, <2>4, <2>5, <2>7 DEF Book!Buy, BuyPrice
    <3>2. m - n * BuyPrice = m + (0 - 1000 * n)
      BY <2>2 DEF BuyPrice
    <3>3. Account' = [Account EXCEPT ![v] = Book!Exchanged(@, 0 - 1000 * n, n)]
      BY <2>7 DEF Book!Buy
    <3>4. Account'[v].money = m - n * BuyPrice /\ m - n * BuyPrice >= 0
      BY <2>1, <2>2, <2>3, <2>4, <2>5, <2>7, <3>1, <3>2, <3>3 DEF Book!Exchanged, BuyPrice
    <3>5. u = v
      BY <2>1, <2>2, <3>3
    <3> QED BY <2>2, <3>4, <3>5 DEF BuyPrice
  <2>8. CASE job.cmd = "sell" /\ Book!Sell(v, n)
    <3>1. m + n * SellPrice = m + 950 * n
      BY <2>2 DEF SellPrice
    <3>2. Account' = [Account EXCEPT ![v] = Book!Exchanged(@, 950 * n, 0 - n)]
      BY <2>8 DEF Book!Sell
    <3>3. Account'[v].money = m + 950 * n
      BY <2>1, <2>2, <2>3, <2>4, <2>5, <2>8, <3>1, <3>2 DEF Book!Exchanged
    <3>4. u = v
      BY <2>1, <2>2, <3>2
    <3> QED BY <2>2, <2>4, <2>8, <3>3, <3>4
  <2>9. ASSUME NEW w \in Users, Book!Reset(w)
        PROVE  FALSE
    BY <2>1, <2>9 DEF Book!Reset, Fresh
  <2> QED BY <2>1, <2>6, <2>7, <2>8, <2>9 DEF Moves
<1> QED BY <1>1, JobKept, PTL DEF Spec, DebtHasCause
====
