---- MODULE HintCooldown_proofs ----
(***************************************************************************)
(* Theorems about HintCooldown, for every set of members and settings, any *)
(* length of the minute and any clock.                                     *)
(***************************************************************************)
EXTENDS HintCooldown, TLAPS

\* Who has been told to come back is refused no longer than that.
ToldInv ==
    \A m \in Members :
        told[m] # None => /\ last[m] \notin {NoFile, Torn}
                          /\ told[m] >= last[m] + hinttime * Minute

Inv == HintTypeOK /\ SentIsRecorded /\ ToldInv

LEMMA WaitType == HintTypeOK => hinttime \in Int /\ hinttime * Minute \in Int
<1> SUFFICES ASSUME HintTypeOK PROVE hinttime \in Int /\ hinttime * Minute \in Int
  OBVIOUS
<1>1. hinttime \in Int
  BY HintAssumption DEF HintTypeOK, hinttime, Serverinfo
<1> QED BY <1>1, HintAssumption

LEMMA WaitIs == Fits(hinttime * Minute) => Wait = hinttime * Minute
BY DEF Wait, Fits

LEMMA ReadType == HintTypeOK => ReadServerInfo \subseteq Serverinfo
<1> SUFFICES ASSUME HintTypeOK PROVE ReadServerInfo \subseteq Serverinfo
  OBVIOUS
<1>1. CASE info = NoFile
  <2>1. [release |-> FALSE, hinttime |-> DefaultWait, logchannel |-> inv] \in Serverinfo
    BY HintAssumption DEF Serverinfo
  <2> QED BY <1>1, <2>1, HintAssumption DEF ReadServerInfo
<1>2. CASE info = Torn
  <2>1. [release: BOOLEAN, hinttime: {DefaultWait}, logchannel: {inv}] \subseteq Serverinfo
    BY HintAssumption DEF Serverinfo
  <2> QED BY <1>2, <2>1, HintAssumption DEF ReadServerInfo
<1>3. CASE info \notin {NoFile, Torn}
  BY <1>3 DEF ReadServerInfo, HintTypeOK
<1> QED BY <1>1, <1>2, <1>3

\* A change of the settings leaves a file of the right type.
LEMMA ChangeType ==
    ASSUME HintTypeOK, NEW release \in Int, NEW time \in Int, NEW channel \in Channels \cup {inv},
           ChangeServerInfo(release, time, channel)
    PROVE  info' \in Serverinfo
<1> PICK old \in ReadServerInfo :
        info' = [release    |-> IF release = -1 THEN old.release ELSE release = 1,
                 hinttime   |-> IF time = -1 THEN old.hinttime ELSE time,
                 logchannel |-> IF channel = inv THEN old.logchannel ELSE channel]
  BY DEF ChangeServerInfo
<1>1. old \in Serverinfo
  BY ReadType
<1>2. old.release \in BOOLEAN /\ old.hinttime \in Int /\ old.logchannel \in Channels \cup {inv}
  BY <1>1 DEF Serverinfo
<1> QED BY <1>2 DEF Serverinfo

\* A wait that is not raised is over no later.
LEMMA WaitMonotone ==
    ASSUME NEW a \in Int, NEW b \in Int, a <= b
    PROVE  a * Minute <= b * Minute
  BY HintAssumption

\* Minutes that are rounded down announce enough.
LEMMA AnnouncedIsEnough ==
    ASSUME NEW w \in Int, NEW e \in Nat
    PROVE  /\ w - e \div Minute \in Int
           /\ Minute * (w - e \div Minute) \in Int
           /\ Minute * (w - e \div Minute) >= w * Minute - e
<1> DEFINE q == e \div Minute
<1>1. q \in Int /\ Minute * q <= e
  BY HintAssumption, Z3
<1> HIDE DEF q
<1>2. Minute * (w - q) = w * Minute - Minute * q
  BY <1>1, HintAssumption
<1>3. Minute \in Int /\ Minute * q \in Int /\ w * Minute \in Int
  BY <1>1, HintAssumption
<1> QED BY <1>1, <1>2, <1>3 DEF q

LEMMA InitInv == HintInit => Inv
<1> SUFFICES ASSUME HintInit PROVE Inv
  OBVIOUS
<1>1. HintTypeOK
  BY HintAssumption DEF HintInit, HintTypeOK
<1>2. SentIsRecorded /\ ToldInv
  BY DEF HintInit, SentIsRecorded, ToldInv
<1> QED BY <1>1, <1>2 DEF Inv

\* Whatever becomes of the settings.
LEMMA SettingsInv ==
    ASSUME Inv, info' \in Serverinfo \cup {NoFile, Torn}, told' = Announced,
           UNCHANGED <<now, last, sent>>
    PROVE  Inv'
<1> USE DEF Inv
<1>1. told' \in [Members -> Int \cup {None}]
  BY DEF HintTypeOK, Announced
<1>2. HintTypeOK'
  BY <1>1 DEF HintTypeOK
<1>3. SentIsRecorded'
  BY DEF SentIsRecorded
<1>4. hinttime \in Int /\ hinttime' \in Int
  <2>1. hinttime' \in Int
    BY HintAssumption DEF hinttime, Serverinfo
  <2> QED BY <2>1, WaitType
<1>5. ASSUME NEW m \in Members, told'[m] # None
      PROVE  last'[m] \notin {NoFile, Torn} /\ told'[m] >= last'[m] + (hinttime * Minute)'
  <2>1. ~(hinttime' > hinttime) /\ told' = told
    BY <1>5 DEF Announced
  <2>2. last[m] \notin {NoFile, Torn} /\ told[m] >= last[m] + hinttime * Minute
    BY <1>5, <2>1 DEF ToldInv
  <2>3. hinttime' * Minute <= hinttime * Minute
    BY <1>4, <2>1, WaitMonotone
  <2>4. last[m] \in Int /\ told[m] \in Int
    BY <1>5, <2>1, <2>2 DEF HintTypeOK
  <2>5. hinttime' * Minute \in Int /\ hinttime * Minute \in Int
    BY <1>4, HintAssumption
  <2> QED BY <2>1, <2>2, <2>3, <2>4, <2>5
<1>6. ToldInv'
  BY <1>5 DEF ToldInv
<1> QED BY <1>2, <1>3, <1>6

LEMMA NextInv == Inv /\ [HintNext]_hintVars => Inv'
<1> SUFFICES ASSUME Inv, [HintNext]_hintVars PROVE Inv'
  OBVIOUS
<1> USE DEF Inv
<1>1. CASE Tick
  <2>1. now' = now + 1 /\ now' \in 0..MaxTime
    BY <1>1, HintAssumption DEF Tick, HintTypeOK
  <2>2. HintTypeOK'
    BY <1>1, <2>1, HintAssumption DEF Tick, HintTypeOK
  <2> QED BY <1>1, <2>2 DEF Tick, SentIsRecorded, ToldInv, hinttime
<1>2. ASSUME NEW release \in Int, NEW time \in Int, NEW channel \in Channels \cup {inv},
             Change(release, time, channel)
      PROVE  Inv'
  BY <1>2, ChangeType, SettingsInv DEF Change
<1>3. CASE TearInfo
  BY <1>3, SettingsInv DEF TearInfo
<1>4. ASSUME NEW m \in Members, Hint(m) PROVE Inv'
  <2>1. HintTypeOK'
    BY <1>4, HintAssumption DEF Hint, HintTypeOK
  <2>2. SentIsRecorded'
    BY <1>4, HintAssumption DEF Hint, SentIsRecorded, HintTypeOK
  <2>3. ToldInv'
    BY <1>4 DEF Hint, ToldInv, HintTypeOK, hinttime
  <2> QED BY <2>1, <2>2, <2>3
<1>5. ASSUME NEW m \in Members, TearHint(m) PROVE Inv'
  <2>1. HintTypeOK'
    BY <1>5 DEF TearHint, HintTypeOK
  <2>2. SentIsRecorded'
    BY <1>5, HintAssumption DEF TearHint, SentIsRecorded, HintTypeOK
  <2>3. ToldInv'
    BY <1>5 DEF TearHint, ToldInv, HintTypeOK, hinttime
  <2> QED BY <2>1, <2>2, <2>3
<1>6. ASSUME NEW m \in Members, HintRefused(m) PROVE Inv'
  <2> DEFINE until == now + Minute * MinutesLeft(m)
  <2>1. CASE last[m] = Torn
    <3>1. told' = [told EXCEPT ![m] = None]
      BY <1>6, <2>1 DEF HintRefused
    <3> QED BY <1>6, <3>1 DEF HintRefused, HintTypeOK, SentIsRecorded, ToldInv, hinttime
  <2>2. CASE last[m] # Torn
    <3>1. last[m] \notin {NoFile, Torn}
      BY <1>6, <2>2 DEF HintRefused, MayRefuse
    <3>2. last[m] \in Int /\ now \in Nat /\ Elapsed(m) \in Nat
      BY <3>1 DEF HintTypeOK, Elapsed
    <3>3. hinttime \in Int /\ hinttime * Minute \in Int
      BY WaitType
    <3>4. /\ Minute * MinutesLeft(m) \in Int
          /\ Minute * MinutesLeft(m) >= hinttime * Minute - Elapsed(m)
      BY <3>2, <3>3, AnnouncedIsEnough DEF MinutesLeft
    <3>5. until \in Int /\ until >= last[m] + hinttime * Minute
      BY <3>1, <3>2, <3>3, <3>4 DEF Elapsed
    <3>6. told' = [told EXCEPT ![m] = until]
      BY <1>6, <2>2 DEF HintRefused
    <3> HIDE DEF until
    <3>7. HintTypeOK'
      BY <1>6, <3>5, <3>6 DEF HintRefused, HintTypeOK
    <3>8. ToldInv'
      BY <1>6, <3>1, <3>5, <3>6 DEF HintRefused, ToldInv, HintTypeOK, hinttime
    <3> QED BY <1>6, <3>7, <3>8 DEF HintRefused, SentIsRecorded
  <2> QED BY <2>1, <2>2
<1>7. CASE UNCHANGED hintVars
  BY <1>7 DEF hintVars, HintTypeOK, SentIsRecorded, ToldInv, hinttime
<1>8. ASSUME NEW i \in Settings, setHintTime(i) PROVE Inv'
  BY <1>2, <1>8, HintAssumption DEF setHintTime
<1>9. ASSUME NEW c \in Channels, logChannel(c) PROVE Inv'
  BY <1>2, <1>9 DEF logChannel
<1>10. CASE releaseServer \/ hideServer
  BY <1>2, <1>10 DEF releaseServer, hideServer
<1> QED
  BY <1>1, <1>3, <1>4, <1>5, <1>6, <1>7, <1>8, <1>9, <1>10 DEF HintNext

LEMMA InvHolds == HintSpec => []Inv
  BY InitInv, NextInv, PTL DEF HintSpec

---------------------------------------------------------------------------
\* The files and the clock keep their types, and no recorded time lies ahead.
THEOREM TypeCorrect == HintSpec => []HintTypeOK
<1>1. Inv => HintTypeOK
  BY DEF Inv
<1> QED BY <1>1, InvHolds, PTL

\* No order of writes, failures and crashes lets a hint go unrecorded.
THEOREM HintsAreRecorded == HintSpec => []SentIsRecorded
<1>1. Inv => SentIsRecorded
  BY DEF Inv
<1> QED BY <1>1, InvHolds, PTL

\* Two hints to a member are a whole wait apart, if the wait in seconds fits the int.
THEOREM HintsKeepApart == HintSpec => HintsApart
<1> DEFINE Apart(m) == sent'[m] # sent[m] /\ sent[m] # None /\ last[m] # Torn
                          /\ Fits(hinttime * Minute) => sent'[m] - sent[m] >= hinttime * Minute
<1>1. ASSUME Inv, [HintNext]_hintVars, UNCHANGED sent PROVE \A m \in Members : Apart(m)
  BY <1>1
<1>2. ASSUME Inv, NEW k \in Members, Hint(k), NEW m \in Members PROVE Apart(m)
  <2> SUFFICES ASSUME sent'[m] # sent[m], sent[m] # None, last[m] # Torn,
                      Fits(hinttime * Minute)
               PROVE  sent'[m] - sent[m] >= hinttime * Minute
    OBVIOUS
  <2>1. m = k /\ sent'[m] = now
    BY <1>2 DEF Hint, Inv, HintTypeOK
  <2>2. last[m] \notin {NoFile, Torn} /\ last[m] >= sent[m]
    BY <1>2 DEF Inv, SentIsRecorded
  <2>3. now - last[m] >= hinttime * Minute
    BY <1>2, <2>1, <2>2, WaitIs DEF Hint, MayHint, Elapsed, Inv
  <2>4. now \in Int /\ last[m] \in Int /\ sent[m] \in Int /\ hinttime * Minute \in Int
    BY <1>2, <2>2, WaitType DEF Inv, HintTypeOK
  <2> QED BY <2>1, <2>2, <2>3, <2>4
<1>3. Inv /\ [HintNext]_hintVars => [\A m \in Members : Apart(m)]_hintVars
  <2> SUFFICES ASSUME Inv, HintNext PROVE \A m \in Members : Apart(m)
    BY <1>1 DEF hintVars
  <2>1. UNCHANGED sent \/ \E k \in Members : Hint(k)
    BY DEF HintNext, Tick, setHintTime, logChannel, releaseServer, hideServer, Change,
           TearInfo, TearHint, HintRefused
  <2> QED BY <1>1, <1>2, <2>1
<1> QED BY <1>3, InvHolds, PTL DEF HintSpec, HintsApart

\* Who waits as long as announced gets the hint, if the wait in seconds fits the int.
THEOREM WaitIsAsTold == HintSpec => []ToldEnough
<1>1. Inv => ToldEnough
  <2> SUFFICES ASSUME Inv, NEW m \in Members, told[m] # None, now >= told[m],
                      Fits(hinttime * Minute)
               PROVE  ~MayRefuse(m)
    BY DEF ToldEnough
  <2>1. last[m] \notin {NoFile, Torn} /\ told[m] >= last[m] + hinttime * Minute
    BY DEF Inv, ToldInv
  <2>2. now \in Int /\ last[m] \in Int /\ told[m] \in Int /\ hinttime * Minute \in Int
    BY <2>1, WaitType DEF Inv, HintTypeOK
  <2>3. ~(Elapsed(m) < Wait)
    BY <2>1, <2>2, WaitIs DEF Elapsed, Inv
  <2> QED BY <2>1, <2>3 DEF MayRefuse
<1> QED BY <1>1, InvHolds, PTL

\* A change leaves the settings that it does not name as they were, or as they are
\* when there is no file.
LEMMA ChangeKeeps ==
    ASSUME NEW release \in Int, NEW time \in Int, NEW channel,
           \/ time = -1 /\ channel = inv
           \/ release = -1 /\ channel = inv
           \/ release = -1 /\ time = -1,
           ChangeServerInfo(release, time, channel)
    PROVE  \E old \in ReadServerInfo, f \in DOMAIN info' :
              \A g \in DOMAIN info' \ {f} : info'[g] = old[g]
<1>1. PICK old \in ReadServerInfo :
        info' = [release    |-> IF release = -1 THEN old.release ELSE release = 1,
                 hinttime   |-> IF time = -1 THEN old.hinttime ELSE time,
                 logchannel |-> IF channel = inv THEN old.logchannel ELSE channel]
  BY DEF ChangeServerInfo
<1>2. DOMAIN info' = {"release", "hinttime", "logchannel"}
  BY <1>1
<1>3. /\ info'["release"] = IF release = -1 THEN old["release"] ELSE release = 1
      /\ info'["hinttime"] = IF time = -1 THEN old["hinttime"] ELSE time
      /\ info'["logchannel"] = IF channel = inv THEN old["logchannel"] ELSE channel
  BY <1>1
<1>4. CASE time = -1 /\ channel = inv
  <2>1. \A g \in DOMAIN info' \ {"release"} : info'[g] = old[g]
    BY <1>2, <1>3, <1>4
  <2> QED BY <1>2, <2>1
<1>5. CASE release = -1 /\ channel = inv
  <2>1. \A g \in DOMAIN info' \ {"hinttime"} : info'[g] = old[g]
    BY <1>2, <1>3, <1>5
  <2> QED BY <1>2, <2>1
<1>6. CASE release = -1 /\ time = -1
  <2>1. \A g \in DOMAIN info' \ {"logchannel"} : info'[g] = old[g]
    BY <1>2, <1>3, <1>6
  <2> QED BY <1>2, <2>1
<1> QED BY <1>4, <1>5, <1>6

\* A command or a button changes one setting and keeps the two others.
THEOREM OtherSettingsKept == HintSpec => SettingsKept
<1> DEFINE Kept == \E old \in ReadServerInfo, f \in DOMAIN info' :
                      \A g \in DOMAIN info' \ {f} : info'[g] = old[g]
<1>1. ASSUME NEW i \in Settings, setHintTime(i) PROVE Kept
  <2>1. i \in Int /\ -1 \in Int
    BY HintAssumption
  <2> QED BY <1>1, <2>1, ChangeKeeps DEF setHintTime, Change
<1>2. ASSUME NEW c \in Channels, logChannel(c) PROVE Kept
  BY <1>2, ChangeKeeps DEF logChannel, Change
<1>3. ASSUME releaseServer PROVE Kept
  BY <1>3, ChangeKeeps DEF releaseServer, Change
<1>4. ASSUME hideServer PROVE Kept
  BY <1>4, ChangeKeeps DEF hideServer, Change
<1> HIDE DEF Kept
<1>5. [HintNext]_hintVars => [info' \notin {info, Torn} => Kept]_hintVars
  <2> SUFFICES ASSUME HintNext, info' \notin {info, Torn} PROVE Kept
    OBVIOUS
  <2>1. info' # info /\ info' # Torn
    OBVIOUS
  <2>2. ~Tick /\ ~TearInfo /\ \A m \in Members : ~Hint(m) /\ ~TearHint(m) /\ ~HintRefused(m)
    BY <2>1 DEF Tick, TearInfo, Hint, TearHint, HintRefused
  <2> QED BY <1>1, <1>2, <1>3, <1>4, <2>2 DEF HintNext
<1> QED BY <1>5, PTL DEF HintSpec, SettingsKept, Kept
====
