---- MODULE QamblerStore ----
(***************************************************************************)
(* The qambler records and the thread that writes them.                    *)
(*                                                                         *)
(* A qambler is one file, database/qamblers/<ID>.json, read and written    *)
(* whole.  The bot runs one handler at a time and a handler runs to its    *)
(* end, so no other handler sees it half done; what can be seen half done  *)
(* is what it leaves outside the process when the process dies.  A handler *)
(* is therefore one step in memory followed by a queue of outside effects, *)
(* in the order in which the code performs them: whole-file writes, and    *)
(* whatever other effects the modules that extend this one add.            *)
(*                                                                         *)
(* Of the hundred fields of a record the model keeps SYS_MONEY,            *)
(* SYS_GAME_CHIP and SYS_IS_PLAYING.                                       *)
(***************************************************************************)
EXTENDS Integers, Sequences

CONSTANTS
    Users,      \* the qamblers
    NoRec,      \* a file that is absent, or cut short by a crash: unparsable
    InitRecs    \* what a file may hold when the model starts

Rec == [money: Int, chip: Int, playing: {0, 1}]

ASSUME StoreAssumption ==
    /\ NoRec \notin Rec
    /\ InitRecs \subseteq Rec \cup {NoRec}

VARIABLES
    file,       \* [Users -> Rec \cup {NoRec}], what the disk holds
    queue       \* the effects the running handler still has to perform

\* The record readQamblerInfo makes up for a file it cannot parse.
Fresh == [money |-> 100000, chip |-> 0, playing |-> 0]

\* readQamblerInfo: the record of u as a handler gets to see it.
Read(u) == IF file[u] = NoRec THEN Fresh ELSE file[u]

\* writeQamblerInfo, as an effect: the whole record of u is replaced by r.
Write(u, r) == [op |-> "write", who |-> u, rec |-> r]
WriteEffect == [op: {"write"}, who: Users, rec: Rec]

\* Every interaction that passes the gates of onInteraction first writes its
\* member's record back with a new SYS_SPAMTIME, a field the model leaves out.
Stamp(u) == Write(u, Read(u))

\* Mutant: what could not be read is what is written.
CreateUnread(v) == IF file[v] = NoRec THEN << Write(v, file[v]) >> ELSE << >>

\* readQamblerInfo writes the record it makes up for an unreadable file.
Create(v) == IF file[v] = NoRec THEN << Write(v, Fresh) >> ELSE << >>

\* ||money, and for its receiver /send: the money of v is set, whatever v does.
SetMoney(v, n) == Create(v) \o << Write(v, [Read(v) EXCEPT !.money = n]) >>

\* A handler starts only when the previous one has performed all its effects.
Idle == queue = << >>

StoreInit ==
    /\ file \in [Users -> InitRecs]
    /\ queue = << >>

\* The next effect of the running handler is a write, and it completes.
PerformWrite ==
    /\ ~Idle
    /\ Head(queue).op = "write"
    /\ file' = [file EXCEPT ![Head(queue).who] = Head(queue).rec]
    /\ queue' = Tail(queue)

\* The process dies: the rest of the handler is lost.  A write that was under
\* way had opened the file with truncation, so it may leave it unparsable.
StoreCrash ==
    /\ queue' = << >>
    /\ \/ UNCHANGED file
       \/ /\ ~Idle
          /\ Head(queue).op = "write"
          /\ file' = [file EXCEPT ![Head(queue).who] = NoRec]
====
