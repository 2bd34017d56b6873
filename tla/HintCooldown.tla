---- MODULE HintCooldown ----
(***************************************************************************)
(* Hints of LabyrinthBot: the settings of a server, the time of each       *)
(* member's last hint, and the wait between two hints.                     *)
(*                                                                         *)
(* Both are small text files, read and written whole; each command writes  *)
(* at most one.  A write truncates first, so the death of the process can  *)
(* leave the file empty (Torn).  Nothing is kept in memory, so a restart   *)
(* needs no action.                                                        *)
(***************************************************************************)
EXTENDS LabyrinthServer, CInt

CONSTANTS
    Members,
    Settings,       \* the numbers given to !!setHintTime
    DefaultWait,    \* hinttime of a server without a file: 30 in the code
    Minute,         \* seconds in a minute
    MaxTime,        \* bound: the clock
    Torn,           \* the state of a file whose write was cut short
    None            \* no time, in the history

ASSUME HintAssumption ==
    /\ Settings \subseteq -Half..(Half - 1)
    /\ DefaultWait \in 0..(Half - 1)
    /\ Minute \in Nat \ {0}
    /\ MaxTime \in Nat
    /\ NoFile \notin Int
    /\ Torn \notin Int
    /\ NoFile # Torn
    /\ None \notin Int

Serverinfo == [release: BOOLEAN, hinttime: Int, logchannel: Channels \cup {inv}]

ASSUME SettingsAssumption == NoFile \notin Serverinfo /\ Torn \notin Serverinfo

VARIABLES
    now,        \* the clock, in seconds
    info,       \* the file of the server
    last,       \* the file of each member's last hint
    sent,       \* history: when a member was last sent a hint, or None
    told        \* history: when a member was told to come back, or None

hintVars == <<now, info, last, sent, told>>

---------------------------------------------------------------------------
\* What ReadServerInfo may return.  Of an empty file, release is a variable
\* that was never assigned.
ReadServerInfo ==
    CASE info = NoFile -> {[release |-> FALSE, hinttime |-> DefaultWait, logchannel |-> inv]}
      [] info = Torn   -> [release: BOOLEAN, hinttime: {DefaultWait}, logchannel: {inv}]
      [] OTHER         -> {info}

hinttime == IF info \in {NoFile, Torn} THEN DefaultWait ELSE info.hinttime

\* The wait in seconds: a product of ints, which very long waits make wrap around.
Wait == Wrap(hinttime * Minute)

\* What ReadHintTime may return: -1 without a file, half a century ago, which is
\* taken to be longer than any wait, and of an empty file a variable that was never
\* assigned.
Elapsed(m) == now - last[m]

\* Mutant: hours for minutes, the other way round.
MayHintSoon(m) == last[m] \notin {NoFile, Torn} => Elapsed(m) >= hinttime

\* The test of /hint; a file that is torn may pass it or not.
MayHint(m) == last[m] \notin {NoFile, Torn} => Elapsed(m) >= Wait

MayRefuse(m) ==
    \/ last[m] = Torn
    \/ last[m] \notin {NoFile, Torn} /\ Elapsed(m) < Wait

\* Mutant: the minutes left are rounded down.
MinutesDown(m) == (hinttime * Minute - Elapsed(m)) \div Minute

\* The minutes that the refusal announces.
MinutesLeft(m) == hinttime - Elapsed(m) \div Minute

---------------------------------------------------------------------------
HintInit ==
    /\ now = 0
    /\ info = NoFile
    /\ last = [m \in Members |-> NoFile]
    /\ sent = [m \in Members |-> None]
    /\ told = [m \in Members |-> None]

Tick ==
    /\ now < MaxTime
    /\ now' = now + 1
    /\ UNCHANGED <<info, last, sent, told>>

\* Mutant: the settings that are not named go back to their defaults.
ChangeFresh(release, time, channel) ==
    info' = [release    |-> release = 1,
             hinttime   |-> IF time = -1 THEN DefaultWait ELSE time,
             logchannel |-> channel]

\* ChangeServerInfo: reads, puts in what is given, and writes.
ChangeServerInfo(release, time, channel) ==
    \E old \in ReadServerInfo :
        info' = [release    |-> IF release = -1 THEN old.release ELSE release = 1,
                 hinttime   |-> IF time = -1 THEN old.hinttime ELSE time,
                 logchannel |-> IF channel = inv THEN old.logchannel ELSE channel]

\* A longer wait makes what members were told void.
Announced == IF hinttime' > hinttime THEN [m \in Members |-> None] ELSE told

\* A command or a button of the owner that changes a setting.
Change(release, time, channel) ==
    /\ ChangeServerInfo(release, time, channel)
    /\ told' = Announced
    /\ UNCHANGED <<now, last, sent>>

setHintTime(i) == Change(-1, i, inv)
logChannel(c)  == Change(-1, -1, c)
releaseServer  == Change(1, -1, inv)
hideServer     == Change(0, -1, inv)

\* The process dies while it writes the server's file.
TearInfo ==
    /\ info' = Torn
    /\ told' = Announced
    /\ UNCHANGED <<now, last, sent>>

\* /hint for a question that has one: the time is written before the hint is
\* sent; the process may die, or the message be refused, between the two.
Hint(m) ==
    /\ MayHint(m)
    /\ last' = [last EXCEPT ![m] = now]
    /\ sent' \in {sent, [sent EXCEPT ![m] = now]}
    /\ told' = [told EXCEPT ![m] = None]
    /\ UNCHANGED <<now, info>>

\* The process dies while it writes the member's file.
TearHint(m) ==
    /\ MayHint(m)
    /\ last' = [last EXCEPT ![m] = Torn]
    /\ told' = [told EXCEPT ![m] = None]
    /\ UNCHANGED <<now, info, sent>>

\* Refused, with the minutes left.  What a torn file makes the bot announce is
\* anything, and is left out.
HintRefused(m) ==
    /\ MayRefuse(m)
    /\ told' = [told EXCEPT ![m] = IF last[m] = Torn THEN None
                                   ELSE now + Minute * MinutesLeft(m)]
    /\ UNCHANGED <<now, info, last, sent>>

HintNext ==
    \/ Tick
    \/ \E i \in Settings : setHintTime(i)
    \/ \E c \in Channels : logChannel(c)
    \/ releaseServer
    \/ hideServer
    \/ TearInfo
    \/ \E m \in Members : Hint(m) \/ TearHint(m) \/ HintRefused(m)

HintSpec == HintInit /\ [][HintNext]_hintVars

---------------------------------------------------------------------------
(* Properties *)

\* Types; no time lies in the future.
HintTypeOK ==
    /\ now \in 0..MaxTime
    /\ info \in Serverinfo \cup {NoFile, Torn}
    /\ last \in [Members -> (0..now) \cup {NoFile, Torn}]
    /\ sent \in [Members -> (0..now) \cup {None}]
    /\ told \in [Members -> Int \cup {None}]

\* A hint that was sent is on record, or a crash tore the record since: no order of
\* writes, failures and crashes lets a hint go free.
SentIsRecorded ==
    \A m \in Members :
        sent[m] # None => last[m] # NoFile /\ (last[m] # Torn => last[m] >= sent[m])

\* Two hints to a member are as far apart as the wait is when the second is sent,
\* whatever happened to the settings between them, unless the record was torn or the
\* wait in seconds does not fit the int.
HintsApart ==
    [][\A m \in Members :
          sent'[m] # sent[m] /\ sent[m] # None /\ last[m] # Torn /\ Fits(hinttime * Minute)
              => sent'[m] - sent[m] >= hinttime * Minute]_hintVars

\* Who was told to come back in so many minutes and does is not refused, unless the
\* wait was raised since or does not fit the int in seconds, although what is
\* announced is rounded to minutes.
ToldEnough ==
    \A m \in Members :
        told[m] # None /\ now >= told[m] /\ Fits(hinttime * Minute) => ~MayRefuse(m)

\* A change of one setting keeps the two others, in all orders of changes, also
\* from the defaults of a server that had no file.
SettingsKept ==
    [][info' \notin {info, Torn} =>
          \E old \in ReadServerInfo, f \in DOMAIN info' :
              \A g \in DOMAIN info' \ {f} : info'[g] = old[g]]_hintVars
====
