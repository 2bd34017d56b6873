---- MODULE LabyrinthQuestions ----
(***************************************************************************)
(* The riddles of one server of LabyrinthBot: the owner's commands that    *)
(* edit questions, and the members' answers, which open channels and give  *)
(* roles.                                                                  *)
(*                                                                         *)
(* A question is a text file, read and written whole.  Each setting is a   *)
(* text, that is a sequence of lines, printed under its title.  Reading    *)
(* does not give back what was printed where the owner has typed a line    *)
(* break.  A write truncates first, so the death of the process can leave  *)
(* an empty file.  Nothing is kept in memory.                              *)
(***************************************************************************)
EXTENDS LabyrinthServer, Integers, Sequences

CONSTANTS
    Lines,      \* all lines, names of questions, roles and channels among them
    Solvers,    \* the members who answer
    Words,      \* the lines that they answer with
    Questions, Roles,
    Answers,    \* the texts given as answers
    Leads,      \* the texts given as questions that an answer leads to
    Hints,      \* the texts given as hints
    Glue(_),    \* the lines of a text as one line
    Traps,      \* questions whose file was written by hand, to kick who solves them
    Kick,       \* the text "KICKTHISUSER", in the place of a channel
    Empty,      \* the file whose write was cut short
    MaxEdits    \* bound: the owner's commands

ASSUME QuestionAssumption ==
    /\ Words \cup Questions \cup Roles \cup Channels \cup {inv, Kick} \subseteq Lines
    /\ inv \notin Words \cup Questions \cup Roles \cup Channels
    /\ Kick \notin Channels \cup {inv}
    /\ Traps \subseteq Questions
    /\ MaxEdits \in Nat
    /\ Answers \cup Leads \cup Hints \subseteq {t \in Seq(Lines) : t # << >> /\ t # << inv >>}

ASSUME GlueAssumption ==
    /\ \A l \in Lines : Glue(<< l >>) = l
    /\ \A t \in Answers : Glue(t) \in Lines

Texts(S) == {<< l >> : l \in S}

\* The entries of the multiple answers are the lines that they are printed on: an
\* answer, and then the question that it leads to.
Questioninfo ==
    [answer:         Texts(Lines) \cup Answers,
     channelid:      Texts(Channels \cup {inv, Kick}),
     roleid:         Texts(Roles \cup {inv}),
     hint:           Texts({inv}) \cup Hints,
     multipleanswer: Seq(Lines),
     permission:     Texts(Roles \cup {inv})]

ASSUME FileAssumption == {NoFile, Empty} \cap Questioninfo = {} /\ NoFile # Empty

Unset == [answer |-> << inv >>, channelid |-> << inv >>, roleid |-> << inv >>,
          hint |-> << inv >>, multipleanswer |-> << >>, permission |-> << inv >>]

VARIABLES
    file,       \* the file of each question
    opened,     \* the channels opened to each member
    roles,      \* the roles of each member
    present,    \* the members who were not kicked
    edits,      \* the number of commands, for the bound
    given,      \* history: what the owner has given, as far as no crash undid it
    deleted     \* history: the questions that the owner has deleted

vars == <<file, opened, roles, present, edits, given, deleted>>
access == <<opened, roles, present>>

---------------------------------------------------------------------------
Known(q) == q \in Questions /\ file[q] # NoFile

\* Lines are read two by two; one that is left over is dropped.
Entries(lines) == SubSeq(lines, 1, 2 * (Len(lines) \div 2))

\* Mutant: a further line of an answer takes the place of the ones before it.
ParsedLast(f) == [answer         |-> << f.answer[Len(f.answer)] >>,
                  channelid      |-> << Glue(f.channelid) >>,
                  roleid         |-> << Glue(f.roleid) >>,
                  hint           |-> f.hint,
                  multipleanswer |-> Entries(f.multipleanswer),
                  permission     |-> << Head(f.permission) >>]

\* The parser: lines are put together, with line breaks in the hint only; of the
\* permission it reads the first line.
Parsed(f) == [answer         |-> << Glue(f.answer) >>,
              channelid      |-> << Glue(f.channelid) >>,
              roleid         |-> << Glue(f.roleid) >>,
              hint           |-> f.hint,
              multipleanswer |-> Entries(f.multipleanswer),
              permission     |-> << Head(f.permission) >>]

ReadQuestion(q) == IF Known(q) /\ file[q] # Empty THEN Parsed(file[q]) ELSE Unset

\* The place of an answer's entries among the lines.
Hits(lines, a) == {i \in 1..(Len(lines) \div 2) : lines[2 * i - 1] = a}

\* Mutant: the last of several entries counts.
LastLead(q, a) ==
    LET lines == ReadQuestion(q).multipleanswer
    IN  IF Hits(lines, a) = {} THEN inv
        ELSE lines[2 * CHOOSE i \in Hits(lines, a) : \A j \in Hits(lines, a) : j <= i]

\* The question that an answer leads to: the first entry counts.
MultipleAnswerChannel(q, a) ==
    LET lines == ReadQuestion(q).multipleanswer
    IN  IF Hits(lines, a) = {} THEN inv
        ELSE lines[2 * CHOOSE i \in Hits(lines, a) : \A j \in Hits(lines, a) : i <= j]

\* The question whose rewards an answer to q earns; inv if it is wrong, or if q
\* has no answer yet, in which case nothing else is looked at.
Target(q, a) ==
    CASE ReadQuestion(q).answer = << a >>   -> q
      [] ReadQuestion(q).answer = << inv >> -> inv
      [] OTHER                              -> MultipleAnswerChannel(q, a)

Permitted(m, q) == ReadQuestion(q).permission \in Texts(roles[m] \cup {inv})

ChannelOf(t) == Head(ReadQuestion(t).channelid)
RoleOf(t)    == Head(ReadQuestion(t).roleid)

\* Mutant: the role comes first.
RoleFirst(t) ==
    (IF RoleOf(t) = inv THEN << >> ELSE << [role |-> RoleOf(t)] >>)
    \o (IF ChannelOf(t) = inv THEN << >> ELSE << [channel |-> ChannelOf(t)] >>)

\* The calls that give the rewards of a question, in order.
Rewards(t) ==
    (IF ChannelOf(t) = inv THEN << >> ELSE << [channel |-> ChannelOf(t)] >>)
    \o (IF RoleOf(t) = inv THEN << >> ELSE << [role |-> RoleOf(t)] >>)

Given(calls, kind) == {calls[i][kind] : i \in {j \in DOMAIN calls : kind \in DOMAIN calls[j]}}

---------------------------------------------------------------------------
Trap(a, r) == [Unset EXCEPT !.answer = << a >>, !.channelid = << Kick >>, !.roleid = << r >>]

Init ==
    /\ \E a \in Words, r \in Roles \cup {inv} :
          file = [q \in Questions |-> IF q \in Traps THEN Trap(a, r) ELSE NoFile]
    /\ given = [q \in Questions |-> IF q \in Traps THEN file[q] ELSE Unset]
    /\ opened = [m \in Solvers |-> {}]
    /\ roles \in [Solvers -> SUBSET Roles]
    /\ present = Solvers
    /\ edits = 0
    /\ deleted = {}

\* WriteQuestion.
Write(q, f) ==
    /\ edits < MaxEdits
    /\ edits' = edits + 1
    /\ file' = [file EXCEPT ![q] = f]
    /\ UNCHANGED access

\* ChangeQuestion: reads the question, puts in the settings that are given, and
\* writes it.  (It removes the file where there is none, before it writes one.)
ChangeQuestion(q, change) ==
    LET Qi == ReadQuestion(q)
    IN  Write(q, [s \in DOMAIN Unset |-> IF change[s] = Unset[s] THEN Qi[s] ELSE change[s]])

\* A command that gives one setting; value is what should be read from then on.
Set(q, setting, text, value) ==
    /\ ChangeQuestion(q, [Unset EXCEPT ![setting] = text])
    /\ given' = [given EXCEPT ![q] = [@ EXCEPT ![setting] = value]]
    /\ UNCHANGED deleted

\* The answer comes back as one line.
setQuestion(q, t)   == Set(q, "answer", t, << Glue(t) >>)
setChannel(q, c)    == Set(q, "channelid", << c >>, << c >>)
setRole(q, r)       == Set(q, "roleid", << r >>, << r >>)
setHint(q, t)       == Set(q, "hint", t, t)
setPermission(q, r) == Set(q, "permission", << r >>, << r >>)

\* The entries are read, one is put at the end, and they are given back.  An entry
\* of more than two lines is read as several, and the last line of an odd number
\* is lost.
setMultipleAnswer(q, t, t2) ==
    Set(q, "multipleanswer", ReadQuestion(q).multipleanswer \o t \o t2,
        given[q].multipleanswer \o Entries(t \o t2))

\* ChangeQuestion with nothing given: since the removal is nested in the test for
\* a question that is not known, it writes back what it has read.
deleteQuestion(q) ==
    /\ Known(q)
    /\ ChangeQuestion(q, Unset)
    /\ deleted' = deleted \cup {q}
    /\ UNCHANGED given

\* The process dies in the write of any command.
Tear(q) ==
    /\ Write(q, Empty)
    /\ given' = [given EXCEPT ![q] = Unset]
    /\ UNCHANGED deleted

Edit(q) ==
    \/ \E t \in Answers : setQuestion(q, t)
    \/ \E c \in Channels : setChannel(q, c)
    \/ \E r \in Roles : setRole(q, r)
    \/ \E t \in Hints : setHint(q, t)
    \/ \E r \in Roles : setPermission(q, r)
    \/ \E t \in Answers, t2 \in Leads : setMultipleAnswer(q, t, t2)
    \/ deleteQuestion(q)
    \/ Tear(q)

\* Two messages and a kick, and the handler returns; where a message is refused,
\* or the process dies, the kick does not come.
KickMember(m) ==
    \/ /\ present' = present \ {m}
       /\ roles' = [roles EXCEPT ![m] = {}]
       /\ UNCHANGED opened
    \/ UNCHANGED access

\* The calls are made in order; the process may die, or a call fail, after any.
Reward(m, t) ==
    /\ \E n \in 0..Len(Rewards(t)) :
          LET calls == SubSeq(Rewards(t), 1, n)
          IN  /\ opened' = [opened EXCEPT ![m] = @ \cup Given(calls, "channel")]
              /\ roles' = [roles EXCEPT ![m] = @ \cup Given(calls, "role")]
    /\ UNCHANGED present

\* An answer that is right, or leads to another question, whose permission is not
\* looked at and which need not exist.
Answer(m, q, a) ==
    /\ m \in present
    /\ Permitted(m, q)
    /\ Target(q, a) # inv
    /\ IF ChannelOf(Target(q, a)) = Kick
       THEN KickMember(m)
       ELSE Reward(m, Target(q, a))
    /\ UNCHANGED <<file, edits, given, deleted>>

\* An answer that is wrong or not permitted.
AnswerInVain(m, q, a) ==
    /\ m \in present
    /\ Permitted(m, q) => Target(q, a) = inv
    /\ UNCHANGED vars

\* A member who was kicked comes back, without roles.
Rejoin(m) ==
    /\ m \notin present
    /\ present' = present \cup {m}
    /\ UNCHANGED <<file, opened, roles, edits, given, deleted>>

Next ==
    \/ \E q \in Questions : Edit(q)
    \/ \E m \in Solvers, q \in Questions, a \in Words :
          Answer(m, q, a) \/ AnswerInVain(m, q, a)
    \/ \E m \in Solvers : Rejoin(m)

Spec == Init /\ [][Next]_vars

---------------------------------------------------------------------------
(* Properties *)

\* Types; who is not present has no roles.
TypeOK ==
    /\ file \in [Questions -> Questioninfo \cup {NoFile, Empty}]
    /\ opened \in [Solvers -> SUBSET Channels]
    /\ roles \in [Solvers -> SUBSET Roles]
    /\ present \in SUBSET Solvers
    /\ \A m \in Solvers \ present : roles[m] = {}
    /\ edits \in 0..MaxEdits
    /\ given \in [Questions -> Questioninfo]
    /\ deleted \in SUBSET Questions

\* What is read of a question is what the owner has given for each of its settings,
\* however often the file was read and printed since for the sake of other settings:
\* no line break in one setting moves another or an entry made before.  A deleted
\* question is left out.
ReadsAsGiven == \A q \in Questions \ deleted : ReadQuestion(q) = given[q]

\* Where an answer leads is settled by its first !!setMultipleAnswer: no later
\* command leads it elsewhere, and none takes it back, unless a crash tears the file
\* or the question is deleted.
LeadsAreFixed ==
    [][\A q \in Questions \ deleted', a \in Words :
          MultipleAnswerChannel(q, a) # inv /\ file'[q] # Empty
              => MultipleAnswerChannel(q, a)' = MultipleAnswerChannel(q, a)]_file

\* Who gets a role for an answer has the channel of the same question open, whatever
\* fails between the two.
ChannelComesFirst ==
    [][\A m \in Solvers : roles'[m] \ roles[m] # {} =>
          \E t \in Lines :
              /\ roles'[m] = roles[m] \cup {RoleOf(t)}
              /\ ChannelOf(t) \in opened'[m] \cup {inv}]_roles

\* The command !!deleteQuestion removes the question, as its name and the call of
\* remove() in ChangeQuestion say.
DeleteRemoves == [][\A q \in deleted' \ deleted : ~Known(q)']_vars
====
