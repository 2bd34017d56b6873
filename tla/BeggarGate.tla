---- MODULE BeggarGate ----
(***************************************************************************)
(* Begging: /beg, the gate it closes in front of all interactions, and the *)
(* two ways in which a beggar's nick comes back, the timer and the gate.   *)
(* QasinoBot.cpp, onInteraction and UpdNick.                               *)
(*                                                                         *)
(* Handlers are one step in memory and a queue of writes, as in            *)
(* QamblerStore; the fields of the record are those that begging uses.  A  *)
(* nick is a name behind its marks: the texts "beg-beggar" and "beg-fool", *)
(* each with a blank, taken to be the seven bytes that the gate removes.   *)
(* A file keeps 63 bytes of a nick, as a text of hexadecimal digits.       *)
(***************************************************************************)
EXTENDS Integers, Sequences

CONSTANTS
    Members,
    NoRec,      \* a file that is absent or cut short
    Names,      \* what the administrator may call a member
    Username,   \* the name on Discord, for a record without a nick
    Room,       \* how many marks fit into the 63 bytes with each name; < 0: not even the name
    Period,     \* 7200, the seconds of the gate and of the timer
    MaxLag,     \* bound: the seconds /beg takes until it starts the timer
    MaxTime,    \* bound: the clock
    MaxRename,  \* bound: how often the administrator renames someone
    MaxCrash    \* bound: how often the process dies

Marks == {"beggar", "fool"}

\* cut: bytes of the name itself were removed.
Nick == [marks: Seq(Marks), name: Names \cup {Username}, cut: BOOLEAN]

\* nick, ECO_BEGGAR, ECO_ISBEGGAR, and the money in gifts.
BegRec == [nick: Nick, begged: Nat, isbeggar: BOOLEAN, money: Nat]

ASSUME BeggarAssumption ==
    /\ NoRec \notin BegRec
    /\ Room \in [Names \cup {Username} -> Int]
    /\ {Period, MaxLag, MaxTime, MaxRename, MaxCrash} \subseteq Nat

VARIABLES
    now,        \* the clock in seconds; at 0 nobody has ever begged
    file,       \* the file of each member
    queue,      \* the writes the running handler still has to perform
    timers,     \* the calls of UpdNick that are scheduled
    renames, crashes,
    gift,       \* history: when a member was last given money, or 0
    excused     \* history: members with a broken handler, renamed as beggars, or
                \* whose nick did not fit into the file

vars == <<now, file, queue, timers, renames, crashes, gift, excused>>

---------------------------------------------------------------------------
Called(n) == [marks |-> << >>, name |-> n, cut |-> FALSE]

\* The record made up for an unreadable file.
Fresh == [nick |-> Called(Username), begged |-> 0, isbeggar |-> FALSE, money |-> 0]

Read(m) == IF file[m] = NoRec THEN Fresh ELSE file[m]

Write(m, r) == [who |-> m, rec |-> r]

\* hexprint cuts the digits off after the 127th, so that hexdeprint finds half a
\* byte at the end and gives up: a longer nick is lost, for the name on Discord.
Kept(nick) == IF Len(nick.marks) <= Room[nick.name] THEN nick ELSE Called(Username)

\* The record that is read where r was written.
Filed(r) == [r EXCEPT !.nick = Kept(@)]

Idle == queue = << >>

Mark(nick, mark) == [nick EXCEPT !.marks = << mark >> \o @]

\* nick.substr(7): a mark, or if there is none the first letters of the name.
Strip(nick) == IF nick.marks = << >> THEN [nick EXCEPT !.cut = TRUE]
               ELSE [nick EXCEPT !.marks = Tail(@)]

\* Mutant: the flag is cleared before the nick is back.
UpdNickFlagFirst(m, r, nick) ==
    << Write(m, [r EXCEPT !.isbeggar = FALSE]),
       Write(m, [r EXCEPT !.nick = nick, !.isbeggar = FALSE]) >>

\* Mutant: the flag stays.
UpdNickKeepsFlag(m, r, nick) == << Write(m, [r EXCEPT !.nick = nick]) >>

\* UpdNick(ID, nick, true) on the record r: the nick, and then the flag.
UpdNickBeggar(m, r, nick) ==
    << Write(m, [r EXCEPT !.nick = nick]),
       Write(m, [r EXCEPT !.nick = nick, !.isbeggar = FALSE]) >>

\* Mutant: the time is not set, only the flag.
BeggingUntimed(r) == [r EXCEPT !.isbeggar = TRUE]

\* What /beg writes before it decides on anything else.
Begging(r) == [r EXCEPT !.begged = now, !.isbeggar = TRUE]

\* Mutant: the timer is given the nick with the mark.
TimerMarked(m, nick, lag) ==
    [who |-> m, nick |-> Mark(nick, "beggar"), due |-> now + lag + Period]

\* The timer of /beg, with the nick as it was.
Timer(m, nick, lag) == [who |-> m, nick |-> nick, due |-> now + lag + Period]

---------------------------------------------------------------------------
Init ==
    /\ now = Period + 1
    /\ file \in [Members -> {NoRec, Fresh}]
    /\ queue = << >>
    /\ timers = {}
    /\ renames = 0
    /\ crashes = 0
    /\ gift = [m \in Members |-> 0]
    /\ excused = {}

Tick ==
    /\ Idle
    /\ now < MaxTime
    /\ now' = now + 1
    /\ UNCHANGED <<file, queue, timers, renames, crashes, gift, excused>>

GateClosed(m) == now - Read(m).begged <= Period

\* An interaction that passes both tests of the gate.
Passes(m) == Idle /\ ~GateClosed(m) /\ ~Read(m).isbeggar

\* The gate finds a beggar whose time is over.
GateRestores(m) == Idle /\ ~GateClosed(m) /\ Read(m).isbeggar

\* /beg: the mark of a beggar or of a fool, money for some beggars, and the
\* timer with the nick as it was, which starts to count when all is done.
Beg(m, mark, money) ==
    /\ Passes(m)
    /\ now + MaxLag + Period <= MaxTime
    /\ mark = "fool" => money = 0
    /\ LET r      == Begging(Read(m))
           paid   == [r EXCEPT !.money = @ + money]
           marked == [paid EXCEPT !.nick = Mark(@, mark)]
       IN  queue' = IF money = 0
                    THEN << Write(m, Read(m)), Write(m, r), Write(m, marked) >>
                    ELSE << Write(m, Read(m)), Write(m, r), Write(m, paid), Write(m, marked) >>
    /\ \E lag \in 0..MaxLag : timers' = timers \cup {Timer(m, Read(m).nick, lag)}
    /\ UNCHANGED <<now, file, renames, crashes, gift, excused>>

\* Another member's /profile of one without a file: the record that is made up is
\* written, with the digits of no nick, which hexprint takes from an array not set.
LookUp(m) ==
    /\ Idle
    /\ file[m] = NoRec
    /\ \E name \in Names \cup {Username} :
          queue' = << Write(m, [Fresh EXCEPT !.nick = Called(name)]) >>
    /\ UNCHANGED <<now, file, timers, renames, crashes, gift, excused>>

\* Any other interaction of a member writes the record back.
Interact(m) ==
    /\ Passes(m)
    /\ queue' = << Write(m, Read(m)) >>
    /\ UNCHANGED <<now, file, timers, renames, crashes, gift, excused>>

\* The gate takes the mark off and drops the interaction.  A name of less than
\* seven bytes makes substr throw, which is taken to end the process.
Restore(m) ==
    /\ GateRestores(m)
    /\ queue' = UpdNickBeggar(m, Read(m), Strip(Read(m).nick))
    /\ UNCHANGED <<now, file, timers, renames, crashes, gift, excused>>

RestoreThrows(m) ==
    /\ GateRestores(m)
    /\ Read(m).nick.marks = << >>
    /\ crashes < MaxCrash
    /\ crashes' = crashes + 1
    /\ timers' = {}
    /\ UNCHANGED <<now, file, queue, renames, gift, excused>>

\* The timer fires, at its time or later: the thread may be busy.
Fire(t) ==
    /\ Idle
    /\ t \in timers
    /\ t.due <= now
    /\ timers' = timers \ {t}
    /\ queue' = UpdNickBeggar(t.who, Read(t.who), t.nick)
    /\ UNCHANGED <<now, file, renames, crashes, gift, excused>>

\* ||nick
Rename(m, name) ==
    /\ Idle
    /\ renames < MaxRename
    /\ renames' = renames + 1
    /\ queue' = << Write(m, [Read(m) EXCEPT !.nick = Called(name)]) >>
    /\ excused' = IF Read(m).isbeggar THEN excused \cup {m} ELSE excused
    /\ UNCHANGED <<now, file, timers, crashes, gift>>

PerformWrite ==
    /\ ~Idle
    /\ LET w == Head(queue)
       IN  /\ file' = [file EXCEPT ![w.who] = Filed(w.rec)]
           /\ excused' = IF Filed(w.rec) = w.rec THEN excused ELSE excused \cup {w.who}
           /\ gift' = IF w.rec.money > Read(w.who).money
                      THEN [gift EXCEPT ![w.who] = now] ELSE gift
    /\ queue' = Tail(queue)
    /\ UNCHANGED <<now, timers, renames, crashes>>

\* The process dies, and with it the timers.
Crash ==
    /\ crashes < MaxCrash
    /\ crashes' = crashes + 1
    /\ timers' = {}
    /\ queue' = << >>
    /\ IF Idle THEN UNCHANGED <<file, gift, excused>>
       ELSE LET m == Head(queue).who
            IN  /\ excused' = excused \cup {m}
                /\ \/ UNCHANGED <<file, gift>>
                   \/ file' = [file EXCEPT ![m] = NoRec] /\ gift' = [gift EXCEPT ![m] = 0]
    /\ UNCHANGED <<now, renames>>

Next ==
    \/ Tick \/ PerformWrite \/ Crash
    \/ \E m \in Members :
          \/ \E mark \in Marks, money \in {0, 1} : Beg(m, mark, money)
          \/ LookUp(m) \/ Interact(m) \/ Restore(m) \/ RestoreThrows(m)
          \/ \E name \in Names : Rename(m, name)
    \/ \E t \in timers : Fire(t)

\* Handlers run to their end; time passes, and the timers that are due get their
\* turn between the handlers of users, as the event loop is a queue.
Fairness ==
    /\ WF_vars(PerformWrite)
    /\ SF_vars(Tick)
    /\ \A m \in Members : SF_vars(\E t \in timers : t.who = m /\ Fire(t))

Spec == Init /\ [][Next]_vars /\ Fairness

---------------------------------------------------------------------------
(* Properties *)

\* Types of the state.
TypeOK ==
    /\ now \in Nat
    /\ file \in [Members -> BegRec \cup {NoRec}]
    /\ queue \in Seq([who: Members, rec: BegRec])
    /\ timers \in SUBSET [who: Members, nick: Nick, due: Nat]
    /\ renames \in 0..MaxRename
    /\ crashes \in 0..MaxCrash
    /\ gift \in [Members -> Nat]
    /\ excused \in SUBSET Members

\* A mark on a nick always has the flag beside it that makes the gate take it
\* off, and is the only one: at no point of any handler can a crash leave a
\* marked nick that nothing would ever restore.
MarkIsFlagged ==
    \A m \in Members : Len(Read(m).nick.marks) <= (IF Read(m).isbeggar THEN 1 ELSE 0)

\* The gate takes off what /beg put on.  It cuts into a name only in three cases: a
\* crash broke one of the member's handlers, the administrator renamed a beggar, or
\* the nick with its mark was too long for the file, which then holds neither.
StripsOnlyMarks == \A m \in Members : Read(m).nick.cut => m \in excused

\* Who was given money has to wait, whatever crashes and the late timer do:
\* the time is on file before the money.
GiftsApart ==
    [][\A m \in Members :
          gift'[m] # gift[m] /\ gift[m] # 0 /\ gift'[m] # 0
              => gift'[m] - gift[m] > Period]_vars

\* A mark comes off in the end while the process lives, also when the beggar
\* never comes back: the timer sees to it.  After a crash only the gate does.  A
\* nick that the 63 bytes of the file cut off is lost with its mark, and is not
\* missed here.
MarkComesOff ==
    \A m \in Members :
        crashes = 0 /\ Read(m).nick.marks # << >>
            ~> crashes > 0 \/ Read(m).nick.marks = << >>
====
