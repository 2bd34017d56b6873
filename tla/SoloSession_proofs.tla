---- MODULE SoloSession_proofs ----
(***************************************************************************)
(* Theorems about SoloSession, for every set of users and channels, every  *)
(* set of bets and payouts, and every value of its bounds.                 *)
(***************************************************************************)
EXTENDS SoloSession, SequenceTheorems, WellFoundedInduction, TLAPS

---------------------------------------------------------------------------
\* What the helpers of the model return.

\* A record read from a well-typed store is a record, also when the file
\* cannot be parsed (readQamblerInfo).
LEMMA ReadType ==
    ASSUME file \in [Users -> Rec \cup {NoRec}], NEW u \in Users
    PROVE  Read(u) \in Rec
BY DEF Read, Fresh, Rec

\* Clearing or setting the flag of a record leaves a record.
LEMMA FlagType ==
    ASSUME NEW r \in Rec, NEW f \in {0, 1}
    PROVE  /\ [r EXCEPT !.playing = f] \in Rec
           /\ [r EXCEPT !.playing = f].chip = r.chip
BY DEF Rec

\* The effects a handler queues are effects.
LEMMA EffectType ==
    /\ \A u \in Users, r \in Rec : Write(u, r) \in Effect
    /\ \A g \in Ids : Post(g) \in Effect /\ Retire(g) \in Effect
    /\ Abort \in Effect
BY DEF Write, Post, Retire, Abort, Effect, WriteEffect

\* The first write of an accepted interaction.
LEMMA StampType ==
    ASSUME TypeOK, NEW u \in Users
    PROVE  << Stamp(u) >> \in Seq(Effect)
<1>1. Stamp(u) \in Effect
  BY ReadType, EffectType DEF Stamp, TypeOK
<1> QED BY <1>1

\* The two writes of UpdNick, for a record whose beggar's time is up.
LEMMA UpdNickType ==
    ASSUME TypeOK, NEW u \in Users
    PROVE  << Stamp(u), Stamp(u) >> \in Seq(Effect)
<1>1. Stamp(u) \in Effect
  BY ReadType, EffectType DEF Stamp, TypeOK
<1> QED BY <1>1

\* A game of the vector is a game object.
LEMMA VectorType ==
    ASSUME TypeOK, NEW g \in Vector
    PROVE  solo[g] \in Game /\ g \in Ids
BY DEF TypeOK, Vector

\* Erasing leaves a well-typed vector.
LEMMA EraseType ==
    ASSUME TypeOK, NEW S
    PROVE  Erase(S) \in [Ids -> Game \cup {NoGame}]
BY DEF Erase, TypeOK

\* What a game may gain is a number.
LEMMA GainType ==
    ASSUME TypeOK, NEW g \in Vector, NEW d \in Gains(g)
    PROVE  d \in Int
<1>1. solo[g].bet \in Int
  BY VectorType DEF Game
<1>2. \A p \in Prizes(g) : p \in Int
  <2>1. CASE solo[g].kind = "blackjack"
    BY <1>1, <2>1 DEF Prizes
  <2>2. CASE solo[g].kind # "blackjack"
    BY <2>2, SessionAssumption DEF Prizes
  <2> QED BY <2>1, <2>2
<1> QED BY <1>1, <1>2 DEF Gains

\* SoloGame::EndGame leaves a game object and queues two writes of its player.
LEMMA EndGameType ==
    ASSUME TypeOK, NEW g \in Vector, NEW d \in Int
    PROVE  /\ Ended(g, d) \in Game
           /\ Ended(g, d).phase = "done"
           /\ EndGameWrites(g, d) \in Seq(Effect)
<1>1. solo[g] \in Game
  BY VectorType
<1>2. AfterPay(g, d) \in Rec
  BY <1>1 DEF AfterPay, Game, Rec
<1>3. AfterClear(g, d) \in Rec
  BY <1>2 DEF AfterClear, Rec
<1>4. Ended(g, d) \in Game /\ Ended(g, d).phase = "done"
  BY <1>1, <1>3 DEF Ended, Game, Phases
<1>5. /\ Write(solo[g].owner, AfterPay(g, d)) \in Effect
      /\ Write(solo[g].owner, AfterClear(g, d)) \in Effect
  BY <1>1, <1>2, <1>3, EffectType DEF Game
<1> QED BY <1>4, <1>5 DEF EndGameWrites

\* Every non-empty set of naturals has a least element.
LEMMA LeastElement ==
    ASSUME NEW S, S \subseteq Nat, S # {}
    PROVE  \E n \in S : \A k \in S : n <= k
<1>1. PICK n \in S : \A k \in S : ~ (<< k, n >> \in OpToRel(<, Nat))
  BY NatLessThanWellFounded, WFMin
<1>2. \A k \in S : ~ (k < n)
  BY <1>1 DEF OpToRel
<1> QED BY <1>2

\* The scans of the vector stop at its objects: the first of a non-empty set
\* of interaction IDs is in it.
LEMMA FirstType ==
    ASSUME NEW S, S \subseteq Ids, S # {}
    PROVE  First(S) \in S
<1>1. S \subseteq Nat
  BY SessionAssumption DEF Ids
<1>2. \E g \in S : \A h \in S : g <= h
  BY <1>1, LeastElement
<1> QED BY <1>2 DEF First

\* So is the last one.
LEMMA LastType ==
    ASSUME NEW S, S \subseteq Ids, S # {}
    PROVE  Last(S) \in S
<1> DEFINE T == {MaxGames - g : g \in S}
<1>1. S \subseteq Int /\ MaxGames \in Int /\ \A g \in S : g <= MaxGames
  BY SessionAssumption DEF Ids
<1>2. T \subseteq Nat /\ T # {}
  <2>1. \A g \in S : MaxGames - g \in Nat
    BY <1>1
  <2> QED BY <2>1
<1>3. PICK t \in T : \A x \in T : t <= x
  BY <1>2, LeastElement
<1>4. PICK g \in S : t = MaxGames - g
  BY <1>3
<1>5. \A h \in S : h <= g
  <2> TAKE h \in S
  <2>1. t <= MaxGames - h
    BY <1>3
  <2> QED BY <1>1, <1>4, <2>1
<1> QED BY <1>5 DEF Last

---------------------------------------------------------------------------
\* Type correctness.

\* A press in flight is counted within its bound.
LEMMA DeliverType ==
    ASSUME TypeOK, NEW u \in Users, NEW g \in Ids, Deliver(u, g)
    PROVE  clicks' \in [Users -> [Ids -> 0..MaxPress]]
BY SessionAssumption DEF TypeOK, Deliver

\* A new game object is a game object, and its counter stays in range.
LEMMA PushType ==
    ASSUME TypeOK,
           NEW u \in Users, NEW c \in Channels, NEW k \in Kinds, NEW b \in Bets,
           NEW ph \in Phases, NEW f \in {0, 1}, NEW rest \in Seq(Effect),
           SoloPush(u, c, k, b, ph, f, rest)
    PROVE  TypeOK'
<1> DEFINE r == [Read(u) EXCEPT !.playing = f]
<1>1. r \in Rec
  BY ReadType, FlagType DEF TypeOK
<1>2. nextId \in Ids /\ nextId' \in 1..(MaxGames + 1)
  BY SessionAssumption DEF SoloPush, TypeOK, Ids
<1>3. NewGame(k, u, c, b, r, ph) \in Game
  BY <1>1, SessionAssumption DEF NewGame, Game
<1>4. solo' \in [Ids -> Game \cup {NoGame}]
  BY <1>2, <1>3, EraseType DEF SoloPush
<1>5. << Stamp(u), Write(u, r) >> \in Seq(Effect)
  <2>1. Stamp(u) \in Effect /\ Write(u, r) \in Effect
    BY <1>1, ReadType, EffectType DEF Stamp, TypeOK
  <2> QED BY <2>1
<1>6. queue' \in Seq(Effect)
  BY <1>5, ConcatProperties DEF SoloPush
<1> QED BY <1>2, <1>4, <1>6 DEF TypeOK, SoloPush

\* Settling a game from a press keeps the types.
LEMMA PressEndsType ==
    ASSUME TypeOK, NEW u \in Users, NEW g \in Ids, NEW d \in Int,
           PressEnds(u, g, d)
    PROVE  TypeOK'
<1>1. g \in Vector
  BY DEF PressEnds, Found, LiveGames
<1>2. solo' \in [Ids -> Game \cup {NoGame}]
  BY <1>1, EndGameType DEF PressEnds, TypeOK
<1>3. RetireOwn(g) \in Seq(Effect)
  <2>1. Retire(g) \in Effect
    BY EffectType
  <2> QED BY <2>1 DEF RetireOwn
<1>4. << Stamp(u) >> \o RetireOwn(g) \in Seq(Effect)
  BY <1>3, StampType, ConcatProperties
<1>5. queue' \in Seq(Effect)
  BY <1>1, <1>4, EndGameType, ConcatProperties DEF PressEnds
<1>6. clicks' \in [Users -> [Ids -> 0..MaxPress]]
  BY DeliverType DEF PressEnds
<1>7. paid' \in [Ids -> Nat]
  BY DEF PressEnds, TypeOK
<1> QED BY <1>2, <1>5, <1>6, <1>7 DEF TypeOK, PressEnds

\* Types hold at the start.
LEMMA TypeInit == Init => TypeOK
<1> SUFFICES ASSUME Init PROVE TypeOK
  OBVIOUS
<1>1. queue \in Seq(Effect) /\ file \in [Users -> Rec \cup {NoRec}]
  BY StoreAssumption DEF Init, StoreInit
<1>2. nextId \in 1..(MaxGames + 1) /\ 0 \in 0..MaxPress /\ crashes \in 0..MaxCrash
  BY SessionAssumption DEF Init
<1> QED BY <1>1, <1>2 DEF Init, TypeOK, NoClicks

\* Types are kept by the presses.
LEMMA TypePress ==
    ASSUME TypeOK, NEW u \in Users, NEW g \in Ids, Press(u, g) \/ Pressed(u, g)
    PROVE  TypeOK'
<1>1. CASE Press(u, g)
  <2>1. clicks' \in [Users -> [Ids -> 0..MaxPress]]
    BY <1>1, SessionAssumption DEF Press, TypeOK
  <2> QED BY <1>1, <2>1 DEF Press, TypeOK
<1>2. CASE PressGated(u, g)
  <2>1. << Stamp(u), Stamp(u) >> \in Seq(Effect)
    BY UpdNickType
  <2>2. << >> \in Seq(Effect)
    OBVIOUS
  <2>3. queue' \in Seq(Effect)
    BY <1>2, <2>1, <2>2 DEF PressGated
  <2> QED BY <1>2, <2>3, DeliverType DEF PressGated, TypeOK
<1>3. CASE PressPassed(u, g)
  BY <1>3, DeliverType, StampType DEF PressPassed, TypeOK
<1>4. CASE PressDouble(u, g)
  <2>1. solo[g] \in Game
    BY <1>4, VectorType DEF PressDouble, Found, LiveGames
  <2>2. [solo[g] EXCEPT !.bet = 2 * solo[g].bet] \in Game
    BY <2>1 DEF Game
  <2>3. solo' = [solo EXCEPT ![g] = [solo[g] EXCEPT !.bet = 2 * solo[g].bet]]
    BY <1>4 DEF PressDouble
  <2>4. solo' \in [Ids -> Game \cup {NoGame}]
    BY <2>2, <2>3 DEF TypeOK
  <2> QED BY <1>4, <2>4, DeliverType, StampType DEF PressDouble, TypeOK
<1>5. CASE PressLoses(u, g)
  <2>1. g \in Vector
    BY <1>5 DEF PressLoses, PressEnds, Found, LiveGames
  <2>2. 0 - solo[g].bet \in Int
    BY <2>1, VectorType DEF Game
  <2> QED BY <1>5, <2>2, PressEndsType DEF PressLoses
<1>6. CASE PressWins(u, g)
  <2>1. g \in Vector
    BY <1>6 DEF PressWins, Found, LiveGames
  <2> QED BY <1>6, <2>1, GainType, PressEndsType DEF PressWins
<1>7. CASE PressUnknown(u, g)
  <2>1. [Read(u) EXCEPT !.playing = 0] \in Rec
    BY ReadType, FlagType DEF TypeOK
  <2>2. /\ Stamp(u) \in Effect /\ Retire(g) \in Effect
        /\ Write(u, [Read(u) EXCEPT !.playing = 0]) \in Effect
    BY <2>1, ReadType, EffectType DEF Stamp, TypeOK
  <2>3. queue' \in Seq(Effect)
    BY <1>7, <2>2 DEF PressUnknown
  <2> QED BY <1>7, <2>3, DeliverType DEF PressUnknown, TypeOK
<1> QED BY <1>1, <1>2, <1>3, <1>4, <1>5, <1>6, <1>7 DEF Pressed

\* Types are kept by /solo-game.
LEMMA TypeSoloGame ==
    ASSUME TypeOK, NEW u \in Users, NEW c \in Channels, SoloGame(u, c)
    PROVE  TypeOK'
<1>1. CASE SoloBusy(u, c)
  BY <1>1, EraseType, StampType DEF SoloBusy, TypeOK
<1>2. ASSUME NEW k \in Kinds, NEW b \in Bets, SoloRefuse(u, c, k, b)
      PROVE  TypeOK'
  <2>1. << >> \in Seq(Effect) /\ "refused" \in Phases
    BY DEF Phases
  <2> QED BY <1>2, <2>1, PushType DEF SoloRefuse
<1>3. ASSUME NEW k \in Kinds, NEW b \in Bets, SoloStart(u, c, k, b)
      PROVE  TypeOK'
  <2>1. nextId \in Ids
    BY <1>3, SessionAssumption DEF SoloStart, SoloPush, TypeOK, Ids
  <2>2. Post(nextId) \in Effect
    BY <2>1, EffectType
  <2>3. << Post(nextId) >> \in Seq(Effect) /\ "live" \in Phases
    BY <2>2 DEF Phases
  <2> QED BY <1>3, <2>3, PushType DEF SoloStart
<1> QED BY <1>1, <1>2, <1>3 DEF SoloGame

\* Types are kept by /gc and by every other command.
LEMMA TypeGc ==
    ASSUME TypeOK, NEW u \in Users, Gc(u) \/ OtherCommand(u)
    PROVE  TypeOK'
<1>s. GcScan(u) \in [Ids -> Game \cup {NoGame}]
  BY EraseType DEF GcScan
<1>a. << Stamp(u), Abort >> \in Seq(Effect)
  <2>1. Stamp(u) \in Effect /\ Abort \in Effect
    BY ReadType, EffectType DEF Stamp, TypeOK
  <2> QED BY <2>1
<1>1. CASE GcMiss(u)
  BY <1>1, <1>s, StampType DEF GcMiss, TypeOK
<1>2. CASE GcHit(u)
  <2> DEFINE g == First(LiveOf(u))
  <2>1. g \in LiveOf(u)
    BY <1>2, FirstType DEF GcHit, GcFinds, LiveOf, LiveGames, Vector
  <2>2. g \in Vector /\ g \in Ids
    BY <2>1 DEF LiveOf, LiveGames, Vector
  <2>3. PICK d \in Gains(g) :
          /\ solo' = [GcScan(u) EXCEPT ![g] = Ended(g, d)]
          /\ queue' = << Stamp(u) >> \o EndGameWrites(g, d)
    BY <1>2 DEF GcHit
  <2>4. d \in Int
    BY <2>2, GainType
  <2>5. solo' \in [Ids -> Game \cup {NoGame}]
    BY <1>s, <2>2, <2>3, <2>4, EndGameType
  <2>6. queue' \in Seq(Effect)
    BY <2>2, <2>3, <2>4, StampType, EndGameType, ConcatProperties
  <2>7. paid' \in [Ids -> Nat]
    BY <1>2, <2>2 DEF GcHit, TypeOK
  <2> QED BY <1>2, <2>5, <2>6, <2>7 DEF GcHit, TypeOK
<1>3. CASE GcIndexesEmpty(u)
  BY <1>3, <1>a DEF GcIndexesEmpty, TypeOK, sessionVars
<1>4. CASE GcNotFound(u)
  BY <1>4, <1>s, StampType DEF GcNotFound, TypeOK
<1>5. CASE GcStrayHit(u)
  <2> DEFINE g == Last(Vector)
  <2>1. g \in Vector /\ g \in Ids
    BY <1>5, LastType DEF GcStrayHit, TakesGuess, Vector
  <2>2. PICK d \in Gains(g) :
          /\ solo' = IF g \in Dead THEN GcScan(u)
                     ELSE [GcScan(u) EXCEPT ![g] = Ended(g, d)]
          /\ queue' = << Stamp(u) >> \o EndGameWrites(g, d)
    BY <1>5 DEF GcStrayHit
  <2>3. d \in Int
    BY <2>1, GainType
  <2>4. solo' \in [Ids -> Game \cup {NoGame}]
    BY <1>s, <2>1, <2>2, <2>3, EndGameType
  <2>5. queue' \in Seq(Effect)
    BY <2>1, <2>2, <2>3, StampType, EndGameType, ConcatProperties
  <2>6. paid' \in [Ids -> Nat] /\ wild' \subseteq Ids
    BY <1>5, <2>1 DEF GcStrayHit, TypeOK
  <2>7. solo[g].owner \in Users
    BY <2>1, VectorType DEF Game
  <2>8. stray' \subseteq Users
    BY <1>5, <2>7 DEF GcStrayHit, TypeOK
  <2> QED BY <1>5, <2>4, <2>5, <2>6, <2>8 DEF GcStrayHit, TypeOK
<1>6. CASE GcStrayDies(u)
  BY <1>6, <1>a DEF GcStrayDies, TypeOK, sessionVars
<1>7. CASE OtherCommand(u)
  BY <1>7, StampType DEF OtherCommand, TypeOK, sessionVars
<1> QED BY <1>1, <1>2, <1>3, <1>4, <1>5, <1>6, <1>7 DEF Gc

\* Types are kept by the effects of a handler and by the death of the process.
LEMMA TypePerform ==
    ASSUME TypeOK, Perform \/ Crash
    PROVE  TypeOK'
<1>1. CASE PerformFlag
  <2>1. Head(queue) \in Effect /\ Tail(queue) \in Seq(Effect)
    BY <1>1, HeadTailProperties DEF PerformFlag, PerformWrite, Idle, TypeOK
  <2>2. Head(queue) \in WriteEffect
    BY <1>1, <2>1 DEF PerformFlag, PerformWrite, Effect
  <2>3. file' \in [Users -> Rec \cup {NoRec}]
    BY <1>1, <2>2 DEF PerformFlag, PerformWrite, WriteEffect, TypeOK
  <2> QED BY <1>1, <2>1, <2>3 DEF PerformFlag, PerformWrite, TypeOK, sessionVars
<1>2. CASE PerformMessage
  <2>1. Head(queue) \in Effect /\ Tail(queue) \in Seq(Effect)
    BY <1>2, HeadTailProperties DEF PerformMessage, Idle, TypeOK
  <2>2. msg' \in [Ids -> {"none", "live", "gone"}]
    BY <1>2 DEF PerformMessage, TypeOK
  <2> QED BY <1>2, <2>1, <2>2 DEF PerformMessage, TypeOK
<1>3. CASE Crash
  <2>1. file' \in [Users -> Rec \cup {NoRec}] /\ queue' \in Seq(Effect)
    <3> DEFINE w == Head(queue).who
    <3>1. file' = file \/ file' = [file EXCEPT ![w] = NoRec]
      BY <1>3 DEF Crash, StoreCrash
    <3>2. file' \in [Users -> Rec \cup {NoRec}]
      BY <3>1 DEF TypeOK
    <3> QED BY <1>3, <3>2 DEF Crash, StoreCrash
  <2>2. clicks' \in [Users -> [Ids -> 0..MaxPress]] /\ crashes' \in 0..MaxCrash
    BY <1>3, SessionAssumption DEF Crash, NoClicks, TypeOK
  <2> QED BY <1>3, <2>1, <2>2 DEF Crash, TypeOK
<1> QED BY <1>1, <1>2, <1>3 DEF Perform

\* The writes that leave a member with other money.
LEMMA SetMoneyType ==
    ASSUME TypeOK, NEW v \in Users, NEW n \in Int
    PROVE  /\ Create(v) \in Seq(Effect)
           /\ [Read(v) EXCEPT !.money = n] \in Rec
           /\ << Write(v, [Read(v) EXCEPT !.money = n]) >> \in Seq(Effect)
           /\ SetMoney(v, n) \in Seq(Effect)
<1>1. [Read(v) EXCEPT !.money = n] \in Rec
  BY ReadType DEF TypeOK, Rec
<1>2. Write(v, [Read(v) EXCEPT !.money = n]) \in Effect
  BY <1>1, EffectType
<1>3. Write(v, Fresh) \in Effect
  BY EffectType DEF Fresh, Rec
<1>4. Create(v) \in Seq(Effect)
  BY <1>3 DEF Create
<1> QED BY <1>1, <1>2, <1>4, ConcatProperties DEF SetMoney

LEMMA TypeReceive ==
    ASSUME TypeOK, NEW v \in Users, NEW n \in Sums, Receive(v, n)
    PROVE  TypeOK'
<1>1. n \in Int
  BY SessionAssumption
<1>2. SetMoney(v, n) \in Seq(Effect)
  BY <1>1, SetMoneyType
<1> QED BY <1>2 DEF Receive, TypeOK, sessionVars

\* Every step of the session keeps the types of TypeOK.
LEMMA TypeStep == TypeOK /\ [Next]_vars => TypeOK'
<1> SUFFICES ASSUME TypeOK, [Next]_vars PROVE TypeOK'
  OBVIOUS
<1>1. CASE UNCHANGED vars
  BY <1>1 DEF TypeOK, vars, sessionVars
<1>2. CASE Next
  BY <1>2, TypePress, TypeSoloGame, TypeGc, TypeReceive, TypePerform DEF Next, Session
<1> QED BY <1>1, <1>2

\* The session's state has its types in every reachable state.
THEOREM TypeCorrect == Spec => []TypeOK
<1> QED BY TypeInit, TypeStep, PTL DEF Spec

---------------------------------------------------------------------------
\* What a step may do to the running games.  All the safety theorems below
\* rest on this classification of the steps, stated in lemma LiveStep.

SameLive ==
    /\ LiveGames' = LiveGames
    /\ \A h \in LiveGames : solo'[h] = solo[h]

EndsOne(g) ==
    /\ g \in LiveGames
    /\ LiveGames' = LiveGames \ {g}
    /\ \A h \in LiveGames \ {g} : solo'[h] = solo[h]

DoublesOne(g) ==
    /\ g \in LiveGames
    /\ LiveGames' = LiveGames
    /\ \A h \in LiveGames \ {g} : solo'[h] = solo[h]
    /\ solo[g].kind = "blackjack"
    /\ solo[g].cache.chip >= solo[g].bet
    /\ solo'[g] = [solo[g] EXCEPT !.bet = 2 * solo[g].bet]

StartsOne(u, c, k, b, r) ==
    /\ nextId \in Ids \ LiveGames
    /\ LiveIn(c) = {}
    /\ LiveGames' = LiveGames \cup {nextId}
    /\ \A h \in LiveGames : solo'[h] = solo[h]
    /\ solo'[nextId] = NewGame(k, u, c, b, r, "live")
    /\ r \in Rec /\ b >= LeastBet(k) /\ r.chip >= b

LiveChange ==
    \/ SameLive
    \/ \E g \in Ids : EndsOne(g) \/ DoublesOne(g)
    \/ \E u \in Users, c \in Channels, k \in Kinds, b \in Bets, r \in Rec :
          StartsOne(u, c, k, b, r)
    \/ LiveGames' = {}

\* IDs are not reused: an object of the vector has an earlier interaction ID.
NextIsNew == \A g \in Vector : g < nextId

\* Erasing dead objects leaves the running games as they are.
LEMMA EraseLive ==
    ASSUME NEW S, S \subseteq Dead, solo' = Erase(S)
    PROVE  SameLive
<1>1. \A g \in Ids : g \notin S => solo'[g] = solo[g]
  BY DEF Erase
<1>2. \A g \in S : g \in Ids /\ solo'[g] = NoGame /\ g \notin LiveGames
  BY DEF Erase, Dead, Vector
<1>3. LiveGames \subseteq Ids
  BY DEF LiveGames, Vector
<1>4. \A g \in LiveGames : g \notin S /\ g \in LiveGames'
  BY <1>1, <1>2, <1>3 DEF LiveGames, Vector
<1>5. \A g \in LiveGames' : g \notin S /\ g \in LiveGames
  BY <1>1, <1>2 DEF LiveGames, Vector
<1> QED BY <1>1, <1>3, <1>4, <1>5 DEF SameLive

\* The scan of /gc erases nothing but dead objects.
LEMMA GcScanDead ==
    ASSUME NEW u, solo' = GcScan(u)
    PROVE  SameLive
<1> DEFINE S == {g \in Dead : LiveOf(u) # {} => g < First(LiveOf(u))}
<1>1. S \subseteq Dead /\ solo' = Erase(S)
  BY DEF GcScan
<1> HIDE DEF S
<1> QED BY <1>1, EraseLive

\* Marking one running game as ended, while dead objects may be erased.
LEMMA EndLive ==
    ASSUME TypeOK, NEW S, S \subseteq Dead, NEW g \in LiveGames, NEW d \in Int,
           solo' = [Erase(S) EXCEPT ![g] = Ended(g, d)]
    PROVE  EndsOne(g)
<1>1. g \in Ids /\ g \in Vector
  BY DEF LiveGames, Vector
<1>2. Ended(g, d) \in Game /\ Ended(g, d).phase = "done"
  BY <1>1, EndGameType
<1>3. solo'[g] = Ended(g, d)
  BY <1>1 DEF Erase
<1>4. \A h \in Ids : h \notin S /\ h # g => solo'[h] = solo[h]
  BY DEF Erase
<1>5. \A h \in S : h \in Ids /\ h # g /\ solo'[h] = NoGame /\ h \notin LiveGames
  BY DEF Erase, Dead, Vector
<1>6. g \notin LiveGames'
  BY <1>2, <1>3 DEF LiveGames
<1>7. \A h \in LiveGames \ {g} : h \in Ids /\ h \notin S /\ solo'[h] = solo[h] /\ h \in LiveGames'
  BY <1>4, <1>5 DEF LiveGames, Vector
<1>8. \A h \in LiveGames' : h \in LiveGames
  BY <1>4, <1>5, <1>6 DEF LiveGames, Vector
<1> QED BY <1>6, <1>7, <1>8 DEF EndsOne

\* A press changes one running game at most.
LEMMA LivePress ==
    ASSUME TypeOK, NEW u \in Users, NEW g \in Ids, Press(u, g) \/ Pressed(u, g)
    PROVE  LiveChange
<1>1. CASE UNCHANGED solo
  BY <1>1 DEF LiveChange, SameLive, LiveGames, Vector
<1>2. CASE PressDouble(u, g)
  <2>1. g \in LiveGames /\ g \in Vector
    BY <1>2 DEF PressDouble, Found, LiveGames
  <2>2. solo[g] \in Game
    BY <2>1, VectorType
  <2>3. solo'[g] = [solo[g] EXCEPT !.bet = 2 * solo[g].bet]
    BY <1>2 DEF PressDouble, TypeOK
  <2>4. solo'[g] \in Game /\ solo'[g].phase = solo[g].phase
    BY <2>2, <2>3 DEF Game
  <2>5. \A h \in Ids \ {g} : solo'[h] = solo[h]
    BY <1>2 DEF PressDouble, TypeOK
  <2>6. LiveGames' = LiveGames
    <3>1. g \in LiveGames'
      BY <2>1, <2>4, SessionAssumption DEF LiveGames, Vector
    <3> QED BY <2>1, <2>5, <3>1 DEF LiveGames, Vector
  <2>7. DoublesOne(g)
    BY <1>2, <2>1, <2>3, <2>5, <2>6 DEF DoublesOne, PressDouble, LiveGames, Vector
  <2> QED BY <2>7 DEF LiveChange
<1>3. ASSUME NEW d \in Int, PressEnds(u, g, d)
      PROVE  LiveChange
  <2>1. g \in LiveGames
    BY <1>3 DEF PressEnds, Found
  <2>2. solo' = [Erase({}) EXCEPT ![g] = Ended(g, d)]
    <3>1. Erase({}) = solo
      BY DEF Erase, TypeOK
    <3> QED BY <1>3, <3>1 DEF PressEnds
  <2>3. EndsOne(g)
    BY <2>1, <2>2, EndLive
  <2> QED BY <2>3 DEF LiveChange
<1>4. CASE PressLoses(u, g)
  <2>1. 0 - solo[g].bet \in Int
    BY <1>4, VectorType DEF PressLoses, PressEnds, Found, LiveGames, Game
  <2> QED BY <1>3, <1>4, <2>1 DEF PressLoses
<1>5. CASE PressWins(u, g)
  <2>1. g \in Vector
    BY <1>5 DEF PressWins, Found, LiveGames
  <2> QED BY <1>3, <1>5, <2>1, GainType DEF PressWins
<1> QED
  BY <1>1, <1>2, <1>4, <1>5
  DEF Pressed, Press, PressGated, PressPassed, PressUnknown

\* A push puts one object into the vector and leaves the running games alone.
LEMMA PushLive ==
    ASSUME TypeOK, NextIsNew, NEW u \in Users, NEW c \in Channels,
           NEW k \in Kinds, NEW b \in Bets, NEW ph \in Phases, NEW f \in {0, 1},
           NEW rest, SoloPush(u, c, k, b, ph, f, rest)
    PROVE  /\ nextId \in Ids /\ nextId \notin LiveGames
           /\ solo'[nextId] = NewGame(k, u, c, b, [Read(u) EXCEPT !.playing = f], ph)
           /\ \A h \in LiveGames : solo'[h] = solo[h] /\ h \in LiveGames'
           /\ \A h \in LiveGames' : h \in LiveGames \/ h = nextId
<1>1. nextId \in Ids /\ nextId \notin Vector
  BY SessionAssumption DEF SoloPush, TypeOK, Ids, NextIsNew
<1>2. solo'[nextId] = NewGame(k, u, c, b, [Read(u) EXCEPT !.playing = f], ph)
  BY <1>1 DEF SoloPush, Erase
<1>3. \A h \in Ids : h # nextId /\ h \notin Dead => solo'[h] = solo[h]
  BY DEF SoloPush, Erase
<1>4. \A h \in Dead : h # nextId => solo'[h] = NoGame
  BY DEF SoloPush, Erase, Dead, Vector
<1>5. \A h \in LiveGames : h \in Ids /\ h # nextId /\ h \notin Dead
  BY <1>1 DEF LiveGames, Dead, Vector
<1>6. \A h \in LiveGames' : h = nextId \/ h \in LiveGames
  BY <1>3, <1>4 DEF LiveGames, Vector
<1> QED BY <1>1, <1>2, <1>3, <1>5, <1>6 DEF LiveGames, Vector

\* /solo-game starts one game in a free channel, or none.
LEMMA LiveSoloGame ==
    ASSUME TypeOK, NextIsNew, NEW u \in Users, NEW c \in Channels, SoloGame(u, c)
    PROVE  LiveChange
<1>1. CASE SoloBusy(u, c)
  <2> DEFINE S == {g \in Dead : g < First(LiveIn(c))}
  <2>1. S \subseteq Dead /\ solo' = Erase(S)
    BY <1>1 DEF SoloBusy
  <2> HIDE DEF S
  <2> QED BY <2>1, EraseLive DEF LiveChange
<1>3. ASSUME NEW k \in Kinds, NEW b \in Bets, SoloRefuse(u, c, k, b)
      PROVE  LiveChange
  <2>1. /\ nextId \notin LiveGames
        /\ solo'[nextId] = NewGame(k, u, c, b, [Read(u) EXCEPT !.playing = 0], "refused")
        /\ \A h \in LiveGames : solo'[h] = solo[h] /\ h \in LiveGames'
        /\ \A h \in LiveGames' : h \in LiveGames \/ h = nextId
    BY <1>3, PushLive DEF SoloRefuse, Phases
  <2>2. nextId \notin LiveGames'
    BY <2>1 DEF NewGame, LiveGames
  <2> QED BY <2>1, <2>2 DEF LiveChange, SameLive
<1>4. ASSUME NEW k \in Kinds, NEW b \in Bets, SoloStart(u, c, k, b)
      PROVE  LiveChange
  <2> DEFINE r == [Read(u) EXCEPT !.playing = 1]
  <2>1. /\ nextId \in Ids /\ nextId \notin LiveGames
        /\ solo'[nextId] = NewGame(k, u, c, b, r, "live")
        /\ \A h \in LiveGames : solo'[h] = solo[h] /\ h \in LiveGames'
        /\ \A h \in LiveGames' : h \in LiveGames \/ h = nextId
    BY <1>4, PushLive DEF SoloStart, Phases
  <2>2. r \in Rec /\ r.chip = Read(u).chip
    BY ReadType, FlagType DEF TypeOK
  <2>3. NewGame(k, u, c, b, r, "live") \in Game
    BY <2>2, SessionAssumption DEF NewGame, Game, Phases
  <2>4. NewGame(k, u, c, b, r, "live").phase = "live"
    BY DEF NewGame
  <2>5. nextId \in LiveGames'
    BY <2>1, <2>3, <2>4, SessionAssumption DEF LiveGames, Vector
  <2>6. LiveIn(c) = {} /\ b >= LeastBet(k) /\ r.chip >= b
    BY <1>4, <2>2 DEF SoloStart, SoloPush
  <2>7. StartsOne(u, c, k, b, r)
    BY <2>1, <2>2, <2>5, <2>6 DEF StartsOne
  <2> QED BY <2>2, <2>7 DEF LiveChange
<1> QED BY <1>1, <1>3, <1>4 DEF SoloGame

\* /gc ends one game, or none.
LEMMA LiveGc ==
    ASSUME TypeOK, NEW u \in Users, Gc(u) \/ OtherCommand(u)
    PROVE  LiveChange
<1> DEFINE S == {g \in Dead : LiveOf(u) # {} => g < First(LiveOf(u))}
<1>s. S \subseteq Dead /\ GcScan(u) = Erase(S)
  BY DEF GcScan
<1>1. CASE UNCHANGED solo
  BY <1>1 DEF LiveChange, SameLive, LiveGames, Vector
<1>2. CASE solo' = GcScan(u)
  BY <1>2, GcScanDead DEF LiveChange
<1>3. CASE GcHit(u)
  <2> DEFINE g == First(LiveOf(u))
  <2>1. g \in LiveGames /\ g \in Vector
    <3>1. g \in LiveOf(u)
      BY <1>3, FirstType DEF GcHit, GcFinds, LiveOf, LiveGames, Vector
    <3> QED BY <3>1 DEF LiveOf, LiveGames
  <2>2. PICK d \in Gains(g) : solo' = [GcScan(u) EXCEPT ![g] = Ended(g, d)]
    BY <1>3 DEF GcHit
  <2>3. d \in Int
    BY <2>1, GainType
  <2> HIDE DEF S, g
  <2>4. EndsOne(g)
    BY <1>s, <2>1, <2>2, <2>3, EndLive
  <2>5. g \in Ids
    BY <2>1 DEF Vector
  <2> QED BY <2>4, <2>5 DEF LiveChange
<1>4. CASE GcStrayHit(u)
  <2> DEFINE g == Last(Vector)
  <2>1. g \in Vector
    BY <1>4, LastType DEF GcStrayHit, TakesGuess, Vector
  <2>2. PICK d \in Gains(g) :
          solo' = IF g \in Dead THEN GcScan(u)
                  ELSE [GcScan(u) EXCEPT ![g] = Ended(g, d)]
    BY <1>4 DEF GcStrayHit
  <2>3. d \in Int
    BY <2>1, GainType
  <2>4. CASE g \in Dead
    BY <1>2, <2>2, <2>4
  <2>5. CASE g \notin Dead
    <3>1. g \in LiveGames /\ g \in Ids
      BY <2>1, <2>5 DEF Dead, Vector
    <3> HIDE DEF S, g
    <3>2. EndsOne(g)
      BY <1>s, <2>2, <2>3, <2>5, <3>1, EndLive
    <3> QED BY <3>1, <3>2 DEF LiveChange
  <2> QED BY <2>4, <2>5
<1> QED
  BY <1>1, <1>2, <1>3, <1>4
  DEF Gc, GcMiss, GcIndexesEmpty, GcNotFound, GcStrayDies, OtherCommand, sessionVars

\* Every step of the session changes the running games in one of these ways.
LEMMA LiveStep == TypeOK /\ NextIsNew /\ [Next]_vars => LiveChange
<1> SUFFICES ASSUME TypeOK, NextIsNew, [Next]_vars PROVE LiveChange
  OBVIOUS
<1>1. CASE UNCHANGED solo
  BY <1>1 DEF LiveChange, SameLive, LiveGames, Vector
<1>2. CASE Crash
  <2>1. LiveGames' = {}
    BY <1>2 DEF Crash, LiveGames, Vector
  <2> QED BY <2>1 DEF LiveChange
<1>3. CASE Next
  BY <1>1, <1>2, <1>3, LivePress, LiveSoloGame, LiveGc
  DEF Next, Session, Receive, Perform, PerformFlag, PerformMessage, sessionVars
<1> QED BY <1>1, <1>3 DEF vars, sessionVars

---------------------------------------------------------------------------
\* Interaction IDs are not reused.

\* Which objects a step may leave in the vector.
LEMMA VectorStep ==
    ASSUME TypeOK, NextIsNew, [Next]_vars
    PROVE  /\ nextId' \in {nextId, nextId + 1}
           /\ \A g \in Vector' : g \in Vector \/ (g = nextId /\ nextId' = nextId + 1)
<1>e. \A S : \A g \in Ids : Erase(S)[g] # NoGame => g \in Vector
  BY DEF Erase, Vector
<1>g. \A u : \A g \in Ids : GcScan(u)[g] # NoGame => g \in Vector
  BY <1>e DEF GcScan
<1>1. CASE UNCHANGED <<solo, nextId>>
  BY <1>1 DEF Vector
<1>2. CASE Crash
  BY <1>2 DEF Crash, Vector
<1>3. ASSUME NEW u \in Users, NEW g \in Ids, Pressed(u, g)
      PROVE  nextId' = nextId /\ Vector' \subseteq Vector
  <2>1. CASE UNCHANGED <<solo, nextId>>
    BY <2>1 DEF Vector
  <2>2. CASE PressDouble(u, g)
    <3>1. g \in Vector
      BY <2>2 DEF PressDouble, Found, LiveGames
    <3> QED BY <2>2, <3>1 DEF PressDouble, TypeOK, Vector
  <2>3. ASSUME NEW d, PressEnds(u, g, d)
        PROVE  nextId' = nextId /\ Vector' \subseteq Vector
    <3>1. g \in Vector
      BY <2>3 DEF PressEnds, Found, LiveGames
    <3> QED BY <2>3, <3>1 DEF PressEnds, TypeOK, Vector
  <2> QED
    BY <1>3, <2>1, <2>2, <2>3
    DEF Pressed, PressGated, PressPassed, PressLoses, PressWins, PressUnknown
<1>4. ASSUME NEW u \in Users, NEW c \in Channels, SoloGame(u, c)
      PROVE  /\ nextId' \in {nextId, nextId + 1}
             /\ \A g \in Vector' : g \in Vector \/ (g = nextId /\ nextId' = nextId + 1)
  <2>1. CASE SoloBusy(u, c)
    BY <1>e, <2>1 DEF SoloBusy, Vector
  <2>2. ASSUME NEW k, NEW b, NEW ph, NEW f, NEW rest,
               SoloPush(u, c, k, b, ph, f, rest)
        PROVE  /\ nextId' \in {nextId, nextId + 1}
               /\ \A g \in Vector' : g \in Vector \/ (g = nextId /\ nextId' = nextId + 1)
    <3>1. \A g \in Ids : g # nextId => solo'[g] = Erase(Dead)[g]
      BY <2>2 DEF SoloPush, Erase
    <3> QED BY <1>e, <2>2, <3>1 DEF SoloPush, Vector
  <2> QED BY <1>4, <2>1, <2>2 DEF SoloGame, SoloRefuse, SoloStart
<1>5. ASSUME NEW u \in Users, Gc(u)
      PROVE  nextId' = nextId /\ Vector' \subseteq Vector
  <2>1. CASE UNCHANGED <<solo, nextId>>
    BY <2>1 DEF Vector
  <2>2. CASE solo' = GcScan(u) /\ nextId' = nextId
    BY <1>g, <2>2 DEF Vector
  <2>3. CASE GcHit(u)
    <3>1. First(LiveOf(u)) \in Vector
      <4>1. First(LiveOf(u)) \in LiveOf(u)
        BY <2>3, FirstType DEF GcHit, GcFinds, LiveOf, LiveGames, Vector
      <4> QED BY <4>1 DEF LiveOf, LiveGames
    <3>2. \A g \in Ids : g # First(LiveOf(u)) => solo'[g] = GcScan(u)[g]
      BY <2>3 DEF GcHit, GcScan, Erase
    <3> QED BY <1>g, <2>3, <3>1, <3>2 DEF GcHit, Vector
  <2>4. CASE GcStrayHit(u)
    <3>1. Last(Vector) \in Vector
      BY <2>4, LastType DEF GcStrayHit, TakesGuess, Vector
    <3>2. \A g \in Ids : g # Last(Vector) => solo'[g] = GcScan(u)[g]
      BY <2>4 DEF GcStrayHit, GcScan, Erase
    <3> QED BY <1>g, <2>4, <3>1, <3>2 DEF GcStrayHit, Vector
  <2> QED
    BY <1>5, <2>1, <2>2, <2>3, <2>4
    DEF Gc, GcMiss, GcIndexesEmpty, GcNotFound, GcStrayDies, sessionVars
<1> QED
  BY <1>1, <1>2, <1>3, <1>4, <1>5
  DEF Next, Session, vars, sessionVars, Press, OtherCommand, Receive, Perform, PerformFlag,
      PerformMessage

\* The IDs of the listed objects stay below the next one.
LEMMA IdsStep == TypeOK /\ NextIsNew /\ [Next]_vars => NextIsNew'
<1> SUFFICES ASSUME TypeOK, NextIsNew, [Next]_vars,
                    NEW g \in Vector'
             PROVE  g < nextId'
  BY DEF NextIsNew
<1>1. nextId \in Int /\ g \in Int
  BY SessionAssumption DEF TypeOK, Vector, Ids
<1>2. nextId' \in {nextId, nextId + 1}
  BY VectorStep
<1>3. g \in Vector \/ (g = nextId /\ nextId' = nextId + 1)
  BY VectorStep
<1> QED BY <1>1, <1>2, <1>3 DEF NextIsNew

\* So a new game never takes the place of another.
THEOREM IdsNotReused == Spec => []NextIsNew
<1>1. Init => NextIsNew
  BY DEF Init, NextIsNew, Vector
<1> QED BY <1>1, IdsStep, TypeCorrect, PTL DEF Spec

---------------------------------------------------------------------------
\* Safety.

\* Two games never run in one channel: the scan of /solo-game returns at the
\* first running game of the channel, whatever else it erases on its way.
THEOREM OneGamePerChannel == Spec => []ChannelExclusive
<1>1. Init => ChannelExclusive
  BY DEF Init, ChannelExclusive, LiveGames, Vector
<1>2. TypeOK /\ LiveChange /\ ChannelExclusive => ChannelExclusive'
  <2> SUFFICES ASSUME TypeOK, LiveChange, ChannelExclusive PROVE ChannelExclusive'
    OBVIOUS
  <2>1. CASE SameLive
    BY <2>1 DEF SameLive, ChannelExclusive
  <2>2. ASSUME NEW g \in Ids, EndsOne(g) PROVE ChannelExclusive'
    BY <2>2 DEF EndsOne, ChannelExclusive
  <2>3. ASSUME NEW g \in Ids, DoublesOne(g) PROVE ChannelExclusive'
    <3>0. solo[g] \in Game
      BY <2>3, VectorType DEF DoublesOne, LiveGames
    <3>1. \A h \in LiveGames : solo'[h].chan = solo[h].chan
      BY <2>3, <3>0 DEF DoublesOne, Game
    <3> QED BY <2>3, <3>1 DEF DoublesOne, ChannelExclusive
  <2>4. ASSUME NEW u \in Users, NEW c \in Channels, NEW k \in Kinds, NEW b \in Bets,
               NEW r \in Rec, StartsOne(u, c, k, b, r)
        PROVE  ChannelExclusive'
    <3>1. solo'[nextId].chan = c
      BY <2>4 DEF StartsOne, NewGame
    <3>2. \A h \in LiveGames : solo'[h].chan = solo[h].chan /\ solo[h].chan # c
      BY <2>4 DEF StartsOne, LiveIn
    <3> QED BY <2>4, <3>1, <3>2 DEF StartsOne, ChannelExclusive
  <2>5. CASE LiveGames' = {}
    BY <2>5 DEF ChannelExclusive
  <2> QED BY <2>1, <2>2, <2>3, <2>4, <2>5 DEF LiveChange
<1>3. TypeOK /\ NextIsNew /\ ChannelExclusive /\ [Next]_vars => ChannelExclusive'
  BY <1>2, LiveStep
<1> QED BY <1>1, <1>3, TypeCorrect, IdsNotReused, PTL DEF Spec

\* The bet of a running game is covered by the chips of its player's record as
\* OnStart read it, a doubled blackjack bet by twice those chips.
THEOREM BetsAreCovered == Spec => []StakeCovered
<1>1. Init => StakeCovered
  BY DEF Init, StakeCovered, LiveGames, Vector
<1>2. TypeOK /\ LiveChange /\ StakeCovered => StakeCovered'
  <2> SUFFICES ASSUME TypeOK, LiveChange, StakeCovered PROVE StakeCovered'
    OBVIOUS
  <2>t. \A g \in LiveGames : /\ solo[g] \in Game
                            /\ solo[g].bet \in Int /\ solo[g].cache.chip \in Int
    BY VectorType DEF LiveGames, Game, Rec
  <2>1. CASE SameLive
    BY <2>1 DEF SameLive, StakeCovered
  <2>2. ASSUME NEW g \in Ids, EndsOne(g) PROVE StakeCovered'
    BY <2>2 DEF EndsOne, StakeCovered
  <2>3. ASSUME NEW g \in Ids, DoublesOne(g) PROVE StakeCovered'
    <3>1. /\ solo'[g].kind = "blackjack" /\ solo'[g].bet = 2 * solo[g].bet
          /\ solo'[g].cache = solo[g].cache
      BY <2>3, <2>t DEF DoublesOne, Game
    <3>2. solo[g].bet >= 1
      BY <2>3, <2>t DEF DoublesOne, StakeCovered, LeastBet
    <3>3. /\ solo'[g].bet >= LeastBet(solo'[g].kind)
          /\ solo'[g].bet <= solo'[g].cache.chip * 2
      BY <2>3, <2>t, <3>1, <3>2 DEF DoublesOne, LeastBet
    <3> QED BY <2>3, <3>1, <3>3 DEF DoublesOne, StakeCovered
  <2>4. ASSUME NEW u \in Users, NEW c \in Channels, NEW k \in Kinds, NEW b \in Bets,
               NEW r \in Rec, StartsOne(u, c, k, b, r)
        PROVE  StakeCovered'
    <3>1. /\ solo'[nextId].kind = k /\ solo'[nextId].bet = b
          /\ solo'[nextId].cache = r
      BY <2>4 DEF StartsOne, NewGame
    <3>2. b \in Int /\ r.chip \in Int /\ b >= 1
      BY <2>4, SessionAssumption DEF StartsOne, LeastBet, Kinds, Rec
    <3>3. b >= LeastBet(k) /\ b <= r.chip * (IF k = "blackjack" THEN 2 ELSE 1)
      BY <2>4, <3>2 DEF StartsOne
    <3> QED BY <2>4, <3>1, <3>3 DEF StartsOne, StakeCovered
  <2>5. CASE LiveGames' = {}
    BY <2>5 DEF StakeCovered
  <2> QED BY <2>1, <2>2, <2>3, <2>4, <2>5 DEF LiveChange
<1>3. TypeOK /\ NextIsNew /\ StakeCovered /\ [Next]_vars => StakeCovered'
  BY <1>2, LiveStep
<1> QED BY <1>1, <1>3, TypeCorrect, IdsNotReused, PTL DEF Spec

---------------------------------------------------------------------------
\* The session implements the table of ChannelTable.

SeatFacts ==
    \A c \in Channels :
        /\ LiveIn(c) = {} => Seat[c] = Vacant
        /\ \A g \in LiveIn(c) :
              Seat[c] = [who |-> solo[g].owner, stake |-> solo[g].bet]

\* The seat of a channel with a running game, and of one without.
LEMMA SeatOf == ChannelExclusive => SeatFacts
<1> SUFFICES ASSUME ChannelExclusive, NEW c \in Channels
             PROVE  /\ LiveIn(c) = {} => Seat[c] = Vacant
                    /\ \A g \in LiveIn(c) :
                          Seat[c] = [who |-> solo[g].owner, stake |-> solo[g].bet]
  BY DEF SeatFacts
<1>1. ASSUME NEW g \in LiveIn(c) PROVE First(LiveIn(c)) = g
  <2>1. LiveIn(c) = {g}
    BY <1>1 DEF ChannelExclusive, LiveIn
  <2>2. g \in Int
    BY <1>1, SessionAssumption DEF LiveIn, LiveGames, Vector, Ids
  <2> QED BY <2>1, <2>2 DEF First
<1> QED BY <1>1 DEF Seat

\* The same in the next state.
LEMMA SeatOfNext == (ChannelExclusive => SeatFacts)'
BY SeatOf, PTL

\* A channel whose game keeps its player and its bet keeps its occupant.
LEMMA SeatKept ==
    ASSUME SeatFacts, SeatFacts', NEW c \in Channels,
           LiveIn(c)' = LiveIn(c),
           \A g \in LiveIn(c) : solo'[g] = solo[g]
    PROVE  Seat'[c] = Seat[c]
<1>1. CASE LiveIn(c) = {}
  <2>1. Seat[c] = Vacant
    BY <1>1 DEF SeatFacts
  <2>2. Seat'[c] = Vacant
    BY <1>1 DEF SeatFacts
  <2> QED BY <2>1, <2>2
<1>2. ASSUME NEW g \in LiveIn(c) PROVE Seat'[c] = Seat[c]
  <2>1. Seat[c] = [who |-> solo[g].owner, stake |-> solo[g].bet]
    BY <1>2 DEF SeatFacts
  <2>2. Seat'[c] = [who |-> solo'[g].owner, stake |-> solo'[g].bet]
    BY <1>2 DEF SeatFacts
  <2> QED BY <1>2, <2>1, <2>2
<1> QED BY <1>1, <1>2

\* A change of the running games is a step of the table, or none.
LEMMA SeatStep ==
    TypeOK /\ ChannelExclusive /\ ChannelExclusive' /\ LiveChange
        => [Table!TableNext]_Seat
<1> SUFFICES ASSUME TypeOK, ChannelExclusive, ChannelExclusive', LiveChange
             PROVE  [Table!TableNext]_Seat
  OBVIOUS
<1>f. SeatFacts /\ SeatFacts'
  BY SeatOf, SeatOfNext
<1>d. /\ Seat = [c \in Channels |-> Seat[c]]
      /\ Seat' = [c \in Channels |-> Seat'[c]]
  BY DEF Seat
<1>t. \A g \in LiveGames : solo[g] \in Game
  BY VectorType DEF LiveGames
<1>v. \A g \in LiveGames : [who |-> solo[g].owner, stake |-> solo[g].bet] # Vacant
  BY <1>t, SessionAssumption DEF Game
<1>1. CASE SameLive
  <2>1. \A c \in Channels : Seat'[c] = Seat[c]
    <3> TAKE c \in Channels
    <3>1. LiveIn(c)' = LiveIn(c)
      BY <1>1 DEF SameLive, LiveIn
    <3> QED BY <1>1, <1>f, <3>1, SeatKept DEF SameLive, LiveIn
  <2>2. Seat' = Seat
    BY <1>d, <2>1
  <2> QED BY <2>2
<1>2. ASSUME NEW g \in Ids, EndsOne(g) PROVE Table!TableNext
  <2>0. PICK c \in Channels : c = solo[g].chan
    BY <1>2, <1>t DEF EndsOne, Game
  <2>1. g \in LiveIn(c)
    BY <1>2, <2>0 DEF EndsOne, LiveIn
  <2>2. Seat[c] # Vacant
    BY <1>f, <1>v, <2>1 DEF SeatFacts, LiveIn
  <2>3. LiveIn(c)' = {}
    <3>1. \A h \in LiveGames' : h \in LiveGames \ {g} /\ solo'[h] = solo[h]
      BY <1>2 DEF EndsOne
    <3>2. \A h \in LiveGames \ {g} : solo[h].chan # c
      BY <1>2, <2>0 DEF EndsOne, ChannelExclusive
    <3> QED BY <3>1, <3>2 DEF LiveIn
  <2>4. Seat'[c] = Vacant
    BY <1>f, <2>3 DEF SeatFacts
  <2>5. \A x \in Channels \ {c} : Seat'[x] = Seat[x]
    <3> TAKE x \in Channels \ {c}
    <3>1. LiveIn(x)' = LiveIn(x)
      BY <1>2, <2>0 DEF EndsOne, LiveIn
    <3>2. \A h \in LiveIn(x) : solo'[h] = solo[h]
      BY <1>2, <2>0 DEF EndsOne, LiveIn
    <3> QED BY <1>f, <3>1, <3>2, SeatKept
  <2>6. Table!Leave(c)
    BY <1>d, <2>1, <2>2, <2>4, <2>5 DEF Table!Leave
  <2> QED BY <2>1, <2>6 DEF Table!TableNext
<1>3. ASSUME NEW g \in Ids, DoublesOne(g) PROVE Table!TableNext
  <2>0. PICK c \in Channels : c = solo[g].chan
    BY <1>3, <1>t DEF DoublesOne, Game
  <2>1. g \in LiveIn(c)
    BY <1>3, <2>0 DEF DoublesOne, LiveIn
  <2>2. Seat[c] = [who |-> solo[g].owner, stake |-> solo[g].bet]
    BY <1>f, <2>1 DEF SeatFacts
  <2>3. solo'[g].owner = solo[g].owner /\ solo'[g].bet = 2 * solo[g].bet
        /\ solo'[g].chan = c
    BY <1>3, <1>t, <2>0 DEF DoublesOne, Game
  <2>4. g \in LiveIn(c)'
    BY <1>3, <2>3 DEF DoublesOne, LiveIn
  <2>5. Seat'[c] = [who |-> solo[g].owner, stake |-> 2 * solo[g].bet]
    BY <1>f, <2>1, <2>3, <2>4 DEF SeatFacts
  <2>6. \A x \in Channels \ {c} : Seat'[x] = Seat[x]
    <3> TAKE x \in Channels \ {c}
    <3>1. LiveIn(x)' = LiveIn(x)
      BY <1>3, <2>0, <2>3 DEF DoublesOne, LiveIn
    <3>2. \A h \in LiveIn(x) : solo'[h] = solo[h]
      BY <1>3, <2>0 DEF DoublesOne, LiveIn
    <3> QED BY <1>f, <3>1, <3>2, SeatKept
  <2>7. Table!Double(c)
    BY <1>d, <1>v, <2>1, <2>2, <2>5, <2>6 DEF Table!Double, LiveIn
  <2> QED BY <2>1, <2>7 DEF Table!TableNext
<1>4. ASSUME NEW u \in Users, NEW c \in Channels, NEW k \in Kinds, NEW b \in Bets,
             NEW r \in Rec, StartsOne(u, c, k, b, r)
      PROVE  Table!TableNext
  <2>1. solo'[nextId].owner = u /\ solo'[nextId].bet = b /\ solo'[nextId].chan = c
    BY <1>4 DEF StartsOne, NewGame
  <2>2. Seat[c] = Vacant
    BY <1>4, <1>f DEF StartsOne, SeatFacts
  <2>3. Seat'[c] = [who |-> u, stake |-> b]
    BY <1>4, <1>f, <2>1 DEF StartsOne, SeatFacts, LiveIn
  <2>4. \A x \in Channels \ {c} : Seat'[x] = Seat[x]
    <3> TAKE x \in Channels \ {c}
    <3>1. LiveIn(x)' = LiveIn(x)
      BY <1>4, <2>1 DEF StartsOne, LiveIn
    <3>2. \A h \in LiveIn(x) : solo'[h] = solo[h]
      BY <1>4 DEF StartsOne, LiveIn
    <3> QED BY <1>f, <3>1, <3>2, SeatKept
  <2>5. Table!Sit(c, u, b)
    BY <1>d, <2>2, <2>3, <2>4 DEF Table!Sit
  <2> QED BY <2>5 DEF Table!TableNext
<1>5. ASSUME LiveGames' = {} PROVE Table!TableNext
  <2>1. \A c \in Channels : Seat'[c] = Vacant
    BY <1>5, <1>f DEF SeatFacts, LiveIn
  <2>2. Table!Clear
    BY <1>d, <2>1 DEF Table!Clear
  <2> QED BY <2>2 DEF Table!TableNext
<1> QED BY <1>1, <1>2, <1>3, <1>4, <1>5 DEF LiveChange

\* The session implements the table: a channel's seat is taken when it is
\* vacant, its stake only doubles, and it is left, whatever the presses, the
\* commands and the deaths of the process do.
THEOREM SessionIsTable == Spec => SeatRefinement
<1>1. Init => Table!TableInit
  BY DEF Init, Table!TableInit, Seat, LiveIn, LiveGames, Vector
<1>2. /\ TypeOK /\ NextIsNew /\ ChannelExclusive /\ ChannelExclusive' /\ [Next]_vars
      => [Table!TableNext]_Seat
  BY LiveStep, SeatStep
<1> QED
  BY <1>1, <1>2, TypeCorrect, IdsNotReused, OneGamePerChannel, PTL
  DEF Spec, SeatRefinement, Table!TableSpec

---------------------------------------------------------------------------
\* A game is settled once.

\* SettledOnce made inductive: a game that runs has not been settled, one that
\* is still listed at most once, and an ID that is still to come not at all.
SettleInv ==
    /\ SettledOnce
    /\ \A g \in LiveGames : paid[g] = 0
    /\ \A g \in Vector : paid[g] <= 1
    /\ \A g \in Ids : g >= nextId => paid[g] = 0

PaysLive(g) ==
    /\ g \in LiveGames /\ g \notin LiveGames'
    /\ paid' = [paid EXCEPT ![g] = paid[g] + 1]

PaysErased(g) ==
    /\ g \in Dead /\ g \notin Vector' /\ g \in wild'
    /\ paid' = [paid EXCEPT ![g] = paid[g] + 1]

\* Which settlements a step may make: of a running game, which it ends, or,
\* from a gc that found no game, of an object it has just erased.
LEMMA PaidStep ==
    ASSUME TypeOK, [Next]_vars
    PROVE  /\ wild \subseteq wild'
           /\ \/ UNCHANGED paid
              \/ \E g \in Ids : PaysLive(g) \/ PaysErased(g)
<1>1. ASSUME NEW u \in Users, NEW g \in Ids, NEW d \in Int, PressEnds(u, g, d)
      PROVE  PaysLive(g) /\ wild' = wild
  <2>1. g \in LiveGames /\ g \in Vector
    BY <1>1 DEF PressEnds, Found, LiveGames
  <2>2. solo'[g] = Ended(g, d)
    BY <1>1 DEF PressEnds, TypeOK
  <2>3. g \notin LiveGames'
    BY <2>1, <2>2, EndGameType DEF LiveGames
  <2> QED BY <1>1, <2>1, <2>3 DEF PaysLive, PressEnds
<1>2. ASSUME NEW u \in Users, NEW g \in Ids, PressLoses(u, g) \/ PressWins(u, g)
      PROVE  PaysLive(g) /\ wild' = wild
  <2>1. g \in Vector
    BY <1>2 DEF PressLoses, PressWins, PressEnds, Found, LiveGames
  <2>2. 0 - solo[g].bet \in Int
    BY <2>1, VectorType DEF Game
  <2> QED BY <1>1, <1>2, <2>1, <2>2, GainType DEF PressLoses, PressWins
<1>3. ASSUME NEW u \in Users, GcHit(u)
      PROVE  wild' = wild /\ \E g \in Ids : PaysLive(g)
  <2> DEFINE g == First(LiveOf(u))
  <2>1. g \in LiveGames /\ g \in Vector /\ g \in Ids
    <3>1. g \in LiveOf(u)
      BY <1>3, FirstType DEF GcHit, GcFinds, LiveOf, LiveGames, Vector
    <3> QED BY <3>1 DEF LiveOf, LiveGames, Vector
  <2>2. PICK d \in Gains(g) : solo' = [GcScan(u) EXCEPT ![g] = Ended(g, d)]
    BY <1>3 DEF GcHit
  <2>3. paid' = [paid EXCEPT ![g] = paid[g] + 1] /\ wild' = wild
    BY <1>3 DEF GcHit
  <2>4. d \in Int
    BY <2>1, GainType
  <2>5. solo'[g] = Ended(g, d)
    BY <2>1, <2>2 DEF GcScan, Erase
  <2>6. PICK x \in Ids : x = g
    BY <2>1
  <2>7. x \notin LiveGames'
    BY <2>1, <2>4, <2>5, <2>6, EndGameType DEF LiveGames
  <2>8. PaysLive(x)
    BY <2>1, <2>3, <2>6, <2>7 DEF PaysLive
  <2> QED BY <2>3, <2>8
<1>4. ASSUME NEW u \in Users, GcStrayHit(u)
      PROVE  wild \subseteq wild' /\ \E g \in Ids : PaysLive(g) \/ PaysErased(g)
  <2>0. Last(Vector) \in Vector /\ Last(Vector) \in Ids
    BY <1>4, LastType DEF GcStrayHit, TakesGuess, Vector
  <2>1. PICK g \in Ids : g = Last(Vector)
    BY <2>0
  <2>2. PICK d \in Gains(g) :
          solo' = IF g \in Dead THEN GcScan(u)
                  ELSE [GcScan(u) EXCEPT ![g] = Ended(g, d)]
    BY <1>4, <2>1 DEF GcStrayHit
  <2>3. /\ paid' = [paid EXCEPT ![g] = paid[g] + 1]
        /\ wild' = wild \cup {g}
    BY <1>4, <2>1 DEF GcStrayHit
  <2>4. g \in Vector /\ d \in Int
    BY <2>0, <2>1, <2>2, GainType
  <2>5. CASE g \in Dead
    <3>1. solo'[g] = NoGame
      BY <1>4, <2>2, <2>5 DEF GcStrayHit, GcScan, Erase
    <3>2. g \notin Vector'
      BY <3>1 DEF Vector
    <3> QED BY <2>3, <2>5, <3>2 DEF PaysErased
  <2>6. CASE g \notin Dead
    <3>1. solo'[g] = Ended(g, d)
      BY <2>2, <2>6 DEF GcScan, Erase
    <3>2. g \notin LiveGames'
      BY <2>4, <3>1, EndGameType DEF LiveGames
    <3>3. g \in LiveGames
      BY <2>4, <2>6 DEF Dead
    <3> QED BY <2>3, <3>2, <3>3 DEF PaysLive
  <2> QED BY <2>3, <2>5, <2>6
<1>5. CASE UNCHANGED <<paid, wild>>
  BY <1>5
<1>6. ASSUME NEW u \in Users, Gc(u)
      PROVE  UNCHANGED <<paid, wild>> \/ GcHit(u) \/ GcStrayHit(u)
  BY <1>6 DEF Gc, GcMiss, GcIndexesEmpty, GcNotFound, GcStrayDies, sessionVars
<1>7. ASSUME NEW u \in Users, NEW g \in Ids, Pressed(u, g)
      PROVE  UNCHANGED <<paid, wild>> \/ PressLoses(u, g) \/ PressWins(u, g)
  BY <1>7 DEF Pressed, PressGated, PressPassed, PressDouble, PressUnknown
<1>8. ASSUME NEW u \in Users, NEW c \in Channels, SoloGame(u, c)
      PROVE  UNCHANGED <<paid, wild>>
  BY <1>8 DEF SoloGame, SoloBusy, SoloRefuse, SoloStart, SoloPush
<1>9. CASE Next
  BY <1>2, <1>3, <1>4, <1>5, <1>6, <1>7, <1>8, <1>9
  DEF Next, Session, Press, OtherCommand, Receive, Perform, PerformFlag, PerformMessage, Crash,
      sessionVars
<1> QED BY <1>5, <1>9 DEF vars, sessionVars

\* A running game is one that ran, or the new one.
LEMMA LiveGrowth ==
    ASSUME TypeOK, NextIsNew, [Next]_vars, NEW g \in LiveGames'
    PROVE  g \in LiveGames \/ (g = nextId /\ nextId' = nextId + 1)
<1>1. g \in LiveGames \/ g = nextId
  BY LiveStep DEF LiveChange, SameLive, EndsOne, DoublesOne, StartsOne
<1>2. g \in Vector'
  BY DEF LiveGames
<1>3. g \in Vector \/ (g = nextId /\ nextId' = nextId + 1)
  BY <1>2, VectorStep
<1>4. g \in Vector => g < nextId /\ g \in Int /\ nextId \in Int
  BY SessionAssumption DEF NextIsNew, TypeOK, Vector, Ids
<1> QED BY <1>1, <1>3, <1>4

\* No press and no guess settles a game twice, however late it arrives, except
\* a gc that acts on an object it did not find, and that one only once more.
THEOREM GamesAreSettledOnce == Spec => []SettledOnce
<1>1. Init => SettleInv
  BY DEF Init, SettleInv, SettledOnce, LiveGames, Vector
<1>2. TypeOK /\ NextIsNew /\ SettleInv /\ [Next]_vars => SettleInv'
  <2> SUFFICES ASSUME TypeOK, NextIsNew, SettleInv, [Next]_vars PROVE SettleInv'
    OBVIOUS
  <2>t. /\ \A g \in Ids : g \in Int /\ paid[g] \in Nat
        /\ nextId \in Int /\ nextId' \in {nextId, nextId + 1}
        /\ wild \subseteq wild'
        /\ DOMAIN paid = Ids
        /\ Vector \subseteq Ids /\ LiveGames \subseteq Vector
    BY VectorStep, PaidStep, SessionAssumption DEF TypeOK, Ids, Vector, LiveGames
  <2>v. /\ \A g \in Vector' : g \in Vector \/ (g = nextId /\ nextId' = nextId + 1)
        /\ Vector' \subseteq Ids
    BY VectorStep DEF Vector
  <2>g. /\ \A g \in LiveGames' : g \in LiveGames \/ (g = nextId /\ nextId' = nextId + 1)
        /\ LiveGames' \subseteq Vector'
    BY LiveGrowth DEF LiveGames
  <2>n. \A g \in Vector : g < nextId
    BY DEF NextIsNew
  <2>1. CASE UNCHANGED paid
    BY <2>t, <2>v, <2>g, <2>1 DEF SettleInv, SettledOnce
  <2>2. ASSUME NEW x \in Ids, PaysLive(x) PROVE SettleInv'
    <3>1. /\ paid'[x] = 1
          /\ \A g \in Ids \ {x} : paid'[g] = paid[g]
          /\ x \in LiveGames /\ x \notin LiveGames'
      BY <2>t, <2>2 DEF PaysLive, SettleInv
    <3>2. x < nextId
      BY <2>t, <2>n, <3>1
    <3> QED BY <2>t, <2>v, <2>g, <3>1, <3>2 DEF SettleInv, SettledOnce
  <2>3. ASSUME NEW x \in Ids, PaysErased(x) PROVE SettleInv'
    <3>1. /\ paid'[x] <= 2
          /\ \A g \in Ids \ {x} : paid'[g] = paid[g]
          /\ x \in Vector /\ x \notin Vector' /\ x \in wild'
      BY <2>t, <2>3 DEF PaysErased, SettleInv, Dead
    <3>2. x < nextId
      BY <2>n, <3>1
    <3> QED BY <2>t, <2>v, <2>g, <3>1, <3>2 DEF SettleInv, SettledOnce
  <2> QED BY <2>1, <2>2, <2>3, PaidStep
<1>3. SettleInv => SettledOnce
  BY DEF SettleInv
<1> QED BY <1>1, <1>2, <1>3, TypeCorrect, IdsNotReused, PTL DEF Spec

---------------------------------------------------------------------------
\* What the queue of a handler will leave in a file.

IsWriteTo(e, u) == e.op = "write" /\ e.who = u

\* The effects q leave the file of u alone.
Untouched(q, u) == \A i \in 1..Len(q) : ~IsWriteTo(q[i], u)

\* The last write of q to the file of u is that of r.
LeftAs(q, u, r) ==
    \E i \in 1..Len(q) :
        /\ q[i] = Write(u, r)
        /\ \A j \in (i + 1)..Len(q) : ~IsWriteTo(q[j], u)

\* If the running handler gets to its end, the file of u will be r.
ComesTo(u, r) == (Untouched(queue, u) /\ file[u] = r) \/ LeftAs(queue, u, r)

\* The effects q leave in the file of u what a handler reads there now.
Keeps(q, u) == Untouched(q, u) \/ LeftAs(q, u, Read(u))

\* The empty queue leaves all files alone; a handler may read them then.
LEMMA IdleComesTo ==
    ASSUME Idle, NEW u, NEW r
    PROVE  ComesTo(u, r) <=> file[u] = r
BY DEF Idle, ComesTo, Untouched, LeftAs

\* One effect, and effects one after the other.
LEMMA OneEffect ==
    ASSUME NEW e, NEW u
    PROVE  /\ ~IsWriteTo(e, u) => Untouched(<< e >>, u)
           /\ \A r : e = Write(u, r) => LeftAs(<< e >>, u, r)
BY DEF Untouched, LeftAs

LEMMA LaterEffects ==
    ASSUME NEW S, NEW s \in Seq(S), NEW t \in Seq(S), NEW u
    PROVE  /\ Untouched(s, u) /\ Untouched(t, u) => Untouched(s \o t, u)
           /\ \A r : LeftAs(t, u, r) => LeftAs(s \o t, u, r)
           /\ \A r : LeftAs(s, u, r) /\ Untouched(t, u) => LeftAs(s \o t, u, r)
<1>1. /\ Len(s) \in Nat /\ Len(t) \in Nat /\ Len(s \o t) = Len(s) + Len(t)
      /\ \A i \in 1..Len(s) : (s \o t)[i] = s[i]
      /\ \A i \in 1..Len(t) : (s \o t)[Len(s) + i] = t[i]
      /\ \A i \in 1..Len(s \o t) : i \in 1..Len(s) \/ \E k \in 1..Len(t) : i = Len(s) + k
  <2>1. Len(s) \in Nat /\ Len(t) \in Nat
    BY LenProperties
  <2>2. Len(s \o t) = Len(s) + Len(t)
    BY ConcatProperties
  <2>3. \A i \in 1..Len(s) + Len(t) :
           (s \o t)[i] = IF i <= Len(s) THEN s[i] ELSE t[i - Len(s)]
    BY ConcatProperties
  <2>4. \A i \in 1..Len(t) : (s \o t)[Len(s) + i] = t[i]
    BY <2>1, <2>3
  <2>5. ASSUME NEW i \in 1..Len(s \o t), i \notin 1..Len(s)
        PROVE  \E k \in 1..Len(t) : i = Len(s) + k
    <3>1. i - Len(s) \in 1..Len(t) /\ i = Len(s) + (i - Len(s))
      BY <2>1, <2>2, <2>5
    <3> QED BY <3>1
  <2>6. \A i \in 1..Len(s) : (s \o t)[i] = s[i]
    BY <2>1, <2>3
  <2> QED BY <2>1, <2>2, <2>4, <2>5, <2>6
<1>2. Untouched(s, u) /\ Untouched(t, u) => Untouched(s \o t, u)
  BY <1>1 DEF Untouched
<1>3. ASSUME NEW r, LeftAs(t, u, r) PROVE LeftAs(s \o t, u, r)
  <2>1. PICK i \in 1..Len(t) :
          t[i] = Write(u, r) /\ \A j \in (i + 1)..Len(t) : ~IsWriteTo(t[j], u)
    BY <1>3 DEF LeftAs
  <2>2. Len(s) + i \in 1..Len(s \o t) /\ (s \o t)[Len(s) + i] = Write(u, r)
    BY <1>1, <2>1
  <2>3. ASSUME NEW j \in (Len(s) + i + 1)..Len(s \o t) PROVE ~IsWriteTo((s \o t)[j], u)
    <3>1. j \in 1..Len(s \o t) /\ j \notin 1..Len(s)
      BY <1>1
    <3>2. PICK k \in 1..Len(t) : j = Len(s) + k
      BY <1>1, <3>1
    <3> QED BY <1>1, <2>1, <3>2
  <2> QED BY <2>2, <2>3 DEF LeftAs
<1>4. ASSUME NEW r, LeftAs(s, u, r), Untouched(t, u) PROVE LeftAs(s \o t, u, r)
  <2>1. PICK i \in 1..Len(s) :
          s[i] = Write(u, r) /\ \A j \in (i + 1)..Len(s) : ~IsWriteTo(s[j], u)
    BY <1>4 DEF LeftAs
  <2>2. i \in 1..Len(s \o t) /\ (s \o t)[i] = Write(u, r)
    BY <1>1, <2>1
  <2>3. ASSUME NEW j \in (i + 1)..Len(s \o t) PROVE ~IsWriteTo((s \o t)[j], u)
    <3>1. j \in 1..Len(s \o t)
      BY <1>1
    <3> QED BY <1>1, <1>4, <2>1, <3>1 DEF Untouched
  <2> QED BY <2>2, <2>3 DEF LeftAs
<1> QED BY <1>2, <1>3, <1>4

\* The same, for effects that keep a record.
LEMMA LaterKeeps ==
    ASSUME NEW S, NEW s \in Seq(S), NEW t \in Seq(S), NEW u, Keeps(s, u), Untouched(t, u)
    PROVE  Keeps(s \o t, u)
BY LaterEffects DEF Keeps

\* The first write of a handler puts back what it has read.
LEMMA StampKeeps ==
    ASSUME NEW u, NEW v
    PROVE  /\ Keeps(<< Stamp(u) >>, v)
           /\ Keeps(<< Stamp(u), Stamp(u) >>, v)
           /\ Keeps(<< Stamp(u), Abort >>, v)
           /\ \A r : v # u => Keeps(<< Stamp(u), Write(u, r) >>, v)
           /\ \A r : LeftAs(<< Stamp(u), Write(u, r) >>, u, r)
<1> DEFINE e == Write(u, Read(u))
<1>e. e.op = "write" /\ e.who = u /\ Abort.op = "abort"
  BY DEF Write, Abort
<1>r. \A r : Write(u, r).op = "write" /\ Write(u, r).who = u
  BY DEF Write
<1>1. ASSUME v = u
      PROVE  /\ Keeps(<< Stamp(u) >>, v)
             /\ Keeps(<< Stamp(u), Stamp(u) >>, v)
             /\ Keeps(<< Stamp(u), Abort >>, v)
  <2> HIDE DEF e
  <2>1. LeftAs(<< e >>, u, Read(u))
    BY OneEffect DEF e
  <2>2. LeftAs(<< e, e >>, u, Read(u))
    <3>1. << e, e >>[2] = Write(u, Read(u)) /\ Len(<< e, e >>) = 2
      BY DEF e
    <3>2. 2 \in 1..2 /\ (2 + 1)..2 = {}
      OBVIOUS
    <3> QED BY <3>1, <3>2 DEF LeftAs
  <2>3. LeftAs(<< e, Abort >>, u, Read(u))
    <3>1. << e, Abort >>[1] = Write(u, Read(u)) /\ Len(<< e, Abort >>) = 2
          /\ << e, Abort >>[2] = Abort
      BY DEF e
    <3>2. 1 \in 1..2 /\ (1 + 1)..2 = {2}
      OBVIOUS
    <3>3. ~IsWriteTo(Abort, u)
      BY <1>e DEF IsWriteTo
    <3> QED BY <3>1, <3>2, <3>3 DEF LeftAs
  <2> QED BY <1>1, <2>1, <2>2, <2>3 DEF Keeps, Stamp, e
<1>2. ASSUME v # u
      PROVE  /\ Keeps(<< Stamp(u) >>, v)
             /\ Keeps(<< Stamp(u), Stamp(u) >>, v)
             /\ Keeps(<< Stamp(u), Abort >>, v)
             /\ \A r : Keeps(<< Stamp(u), Write(u, r) >>, v)
  <2> HIDE DEF e
  <2>1. ~IsWriteTo(e, v) /\ ~IsWriteTo(Abort, v) /\ \A r : ~IsWriteTo(Write(u, r), v)
    BY <1>2, <1>e, <1>r DEF IsWriteTo
  <2>2. Untouched(<< e >>, v) /\ Untouched(<< e, e >>, v) /\ Untouched(<< e, Abort >>, v)
        /\ \A r : Untouched(<< e, Write(u, r) >>, v)
    BY <2>1 DEF Untouched
  <2> QED BY <2>2 DEF Keeps, Stamp, e
<1>3. ASSUME NEW r PROVE LeftAs(<< Stamp(u), Write(u, r) >>, u, r)
  <2>1. << Stamp(u), Write(u, r) >>[2] = Write(u, r) /\ Len(<< Stamp(u), Write(u, r) >>) = 2
    OBVIOUS
  <2>2. 2 \in 1..2 /\ (2 + 1)..2 = {}
    OBVIOUS
  <2> QED BY <2>1, <2>2 DEF LeftAs
<1> QED BY <1>1, <1>2, <1>3

\* EndGame's second write is the one that stays.
LEMMA EndGameLeaves ==
    ASSUME NEW g, NEW d
    PROVE  /\ LeftAs(EndGameWrites(g, d), solo[g].owner, AfterClear(g, d))
           /\ \A v : v # solo[g].owner => Untouched(EndGameWrites(g, d), v)
BY DEF EndGameWrites, LeftAs, Untouched, Write, IsWriteTo

\* Performing an effect does not change what the queue will leave.
LEMMA PerformKeeps ==
    ASSUME TypeOK, Perform, NEW u \in Users, NEW r, ComesTo(u, r)
    PROVE  ComesTo(u, r)'
<1>1. queue # << >> /\ queue' = Tail(queue)
  BY DEF Perform, PerformFlag, PerformWrite, PerformMessage, Idle
<1>2. /\ Len(queue) \in Nat \ {0} /\ Len(queue') = Len(queue) - 1
      /\ \A i \in 1..Len(queue') : queue'[i] = queue[i + 1]
      /\ Head(queue) = queue[1]
  BY <1>1, HeadTailProperties, EmptySeq DEF TypeOK
<1>3. CASE LeftAs(queue, u, r)
  <2>1. PICK i \in 1..Len(queue) :
          queue[i] = Write(u, r) /\ \A j \in (i + 1)..Len(queue) : ~IsWriteTo(queue[j], u)
    BY <1>3 DEF LeftAs
  <2>2. \A k \in i..Len(queue') : ~IsWriteTo(queue'[k], u)
    BY <1>2, <2>1
  <2>3. CASE i = 1
    <3>1. Head(queue).op = "write" /\ Head(queue).who = u /\ Head(queue).rec = r
      BY <1>2, <2>1, <2>3 DEF Write
    <3>2. file' = [file EXCEPT ![u] = r]
      BY <3>1 DEF Perform, PerformFlag, PerformWrite, PerformMessage
    <3>3. file'[u] = r
      BY <3>2 DEF TypeOK
    <3> QED BY <2>2, <2>3, <3>3 DEF ComesTo, Untouched
  <2>4. CASE i # 1
    <3>1. i - 1 \in 1..Len(queue') /\ queue'[i - 1] = Write(u, r)
      BY <1>2, <2>1, <2>4
    <3>2. \A k \in ((i - 1) + 1)..Len(queue') : ~IsWriteTo(queue'[k], u)
      BY <2>2
    <3> QED BY <3>1, <3>2 DEF ComesTo, LeftAs
  <2> QED BY <2>3, <2>4
<1>4. CASE Untouched(queue, u) /\ file[u] = r
  <2>1. Untouched(queue', u)
    BY <1>2, <1>4 DEF Untouched
  <2>2. ~IsWriteTo(Head(queue), u)
    BY <1>2, <1>4 DEF Untouched
  <2>3. file'[u] = file[u]
    BY <2>2 DEF Perform, PerformFlag, PerformWrite, PerformMessage, IsWriteTo, TypeOK
  <2> QED BY <1>4, <2>1, <2>3 DEF ComesTo
<1> QED BY <1>3, <1>4 DEF ComesTo

---------------------------------------------------------------------------
\* What a step may do to the files of the players.

\* A player of a running game is seen to be one, between two handlers.
FlagsSet ==
    Idle => \A g \in LiveGames :
        solo[g].owner \notin stray => Read(solo[g].owner).playing = 1

\* A handler starts, which is to write files of w only.
StartsFor(w) ==
    /\ Idle /\ file' = file /\ crashes' = crashes
    /\ \A v \in Users \ {w} : Keeps(queue', v)

\* A handler that leaves the running games and all files as they are.
Quiet ==
    /\ Idle /\ file' = file /\ crashes' = crashes /\ stray' = stray
    /\ \A v \in Users : Keeps(queue', v)
    /\ LiveGames' = LiveGames
    /\ \A h \in LiveGames : solo'[h].owner = solo[h].owner /\ solo'[h].cache = solo[h].cache

\* Like records, but for the money.
Alike(r, s) == r.playing = s.playing /\ r.chip = s.chip

\* A handler that leaves the running games and, but for money, all files.
Moneyed ==
    /\ Idle /\ file' = file
    /\ UNCHANGED <<solo, stray, crashes>>
    /\ \A v \in Users :
          Keeps(queue', v) \/ \E r \in Rec : LeftAs(queue', v, r) /\ Alike(r, Read(v))

\* A handler that clears the flag of w, who has no running game after it.
Unlocks(w) ==
    /\ StartsFor(w)
    /\ stray \subseteq stray'
    /\ \E r \in Rec : r.playing = 0 /\ LeftAs(queue', w, r)
    /\ LiveGames' \subseteq LiveGames
    /\ \A h \in LiveGames' : solo'[h] = solo[h] /\ (solo[h].owner = w => w \in stray')
    /\ \A h \in LiveGames \ LiveGames' : solo[h].owner = w

\* A handler that starts a game of w, who has no other.
Locks(w) ==
    /\ StartsFor(w)
    /\ stray' = stray
    /\ LiveGames' = LiveGames \cup {nextId}
    /\ nextId \in Ids \ LiveGames
    /\ \A h \in LiveGames : solo'[h] = solo[h] /\ (solo[h].owner = w => w \in stray)
    /\ solo'[nextId].owner = w
    /\ solo'[nextId].cache \in Rec
    /\ solo'[nextId].cache.playing = 1
    /\ LeftAs(queue', w, solo'[nextId].cache)

\* The running handler goes on, or nothing happens to files, games and queue.
GoesOn ==
    /\ UNCHANGED <<solo, stray, crashes>>
    /\ \A v \in Users : \A r : ComesTo(v, r) => ComesTo(v, r)'

Dies == LiveGames' = {} /\ crashes' > 0

FileChange ==
    \/ Quiet
    \/ Moneyed
    \/ \E w \in Users : Unlocks(w) \/ Locks(w)
    \/ GoesOn
    \/ Dies

\* A stamp is a legal effect, alone and in front of others.
LEMMA StampFirst ==
    ASSUME TypeOK, NEW u \in Users, NEW t \in Seq(Effect)
    PROVE  /\ \A v : Untouched(t, v) => Keeps(<< Stamp(u) >> \o t, v)
           /\ \A v, r : LeftAs(t, v, r) => LeftAs(<< Stamp(u) >> \o t, v, r)
<1>1. << Stamp(u) >> \in Seq(Effect)
  BY StampType
<1> QED BY <1>1, StampKeeps, LaterKeeps, LaterEffects

\* Retiring a message leaves the files alone.
LEMMA RetireTouchesNot ==
    ASSUME NEW g \in Ids, NEW v
    PROVE  /\ Untouched(<< Retire(g) >>, v) /\ Untouched(<< Post(g) >>, v)
           /\ Untouched(RetireOwn(g), v)
           /\ RetireOwn(g) \in Seq(Effect)
<1>1. ~IsWriteTo(Retire(g), v) /\ ~IsWriteTo(Post(g), v)
  BY DEF IsWriteTo, Retire, Post
<1>2. Untouched(<< >>, v)
  BY DEF Untouched
<1>3. Retire(g) \in Effect
  BY EffectType
<1> QED BY <1>1, <1>2, <1>3, OneEffect DEF RetireOwn

\* The player of a running game may not start another.
LEMMA MayNotPlay ==
    ASSUME TypeOK, FlagsSet, Idle, NEW u \in Users, Read(u).playing = 0
    PROVE  \A h \in LiveGames : solo[h].owner = u => u \in stray
BY DEF FlagsSet

\* EndGame clears the flag in the record it writes.
LEMMA ClearedType ==
    ASSUME TypeOK, NEW g \in Vector, NEW d \in Int
    PROVE  AfterClear(g, d) \in Rec /\ AfterClear(g, d).playing = 0
<1>1. solo[g] \in Game
  BY VectorType
<1>2. AfterPay(g, d) \in Rec
  BY <1>1 DEF AfterPay, Game, Rec
<1> QED BY <1>2 DEF AfterClear, Rec

\* The end of a game from a press unlocks its player.
LEMMA PressEndsUnlocks ==
    ASSUME TypeOK, OneGamePerUser, NEW u \in Users, NEW g \in Ids, NEW d \in Int,
           PressEnds(u, g, d)
    PROVE  Unlocks(u)
<1>1. g \in LiveGames /\ g \in Vector /\ solo[g].owner = u
  BY DEF PressEnds, Found, LiveGames
<1>2. EndsOne(g)
  <2>1. Erase({}) = solo
    BY DEF Erase, TypeOK
  <2>2. solo' = [Erase({}) EXCEPT ![g] = Ended(g, d)]
    BY <2>1 DEF PressEnds
  <2> QED BY <1>1, <2>2, EndLive
<1>3. /\ EndGameWrites(g, d) \in Seq(Effect)
      /\ RetireOwn(g) \in Seq(Effect)
      /\ << Stamp(u) >> \in Seq(Effect)
  BY <1>1, EndGameType, RetireTouchesNot, StampType
<1> DEFINE s == << Stamp(u) >> \o RetireOwn(g)
<1>4. s \in Seq(Effect) /\ \A v : Keeps(s, v)
  BY <1>3, ConcatProperties, StampFirst, RetireTouchesNot
<1>5. queue' = s \o EndGameWrites(g, d)
  BY DEF PressEnds
<1> HIDE DEF s
<1>6. LeftAs(queue', u, AfterClear(g, d)) /\ \A v \in Users \ {u} : Keeps(queue', v)
  BY <1>1, <1>3, <1>4, <1>5, EndGameLeaves, LaterEffects, LaterKeeps
<1>7. AfterClear(g, d) \in Rec /\ AfterClear(g, d).playing = 0
  BY <1>1, ClearedType
<1>8. \A h \in LiveGames' : solo[h].owner = u => u \in stray'
  BY <1>1, <1>2 DEF EndsOne, OneGamePerUser, PressEnds
<1> QED
  BY <1>1, <1>2, <1>6, <1>7, <1>8 DEF Unlocks, StartsFor, EndsOne, PressEnds, Deliver

\* A press does one of these.
LEMMA FilePress ==
    ASSUME TypeOK, OneGamePerUser, NEW u \in Users, NEW g \in Ids,
           Press(u, g) \/ Pressed(u, g)
    PROVE  FileChange
<1>s. \A v : Keeps(<< Stamp(u) >>, v) /\ Keeps(<< Stamp(u), Stamp(u) >>, v) /\ Keeps(<< >>, v)
  <2>1. \A v : Keeps(<< >>, v)
    BY DEF Keeps, Untouched
  <2> QED BY <2>1, StampKeeps
<1>1. CASE Press(u, g)
  BY <1>1 DEF Press, FileChange, GoesOn, ComesTo
<1>2. CASE PressGated(u, g)
  <2>1. Quiet
    BY <1>2, <1>s DEF PressGated, Deliver, Quiet, LiveGames, Vector
  <2> QED BY <2>1 DEF FileChange
<1>3. CASE PressPassed(u, g)
  <2>1. Quiet
    BY <1>3, <1>s DEF PressPassed, Deliver, Quiet, LiveGames, Vector
  <2> QED BY <2>1 DEF FileChange
<1>4. CASE PressDouble(u, g)
  <2>1. g \in LiveGames /\ g \in Vector
    BY <1>4 DEF PressDouble, Found, LiveGames
  <2>2. solo[g] \in Game
    BY <2>1, VectorType
  <2>3. solo'[g] = [solo[g] EXCEPT !.bet = 2 * solo[g].bet]
    BY <1>4 DEF PressDouble, TypeOK
  <2>4. /\ solo'[g] \in Game /\ solo'[g].phase = solo[g].phase
        /\ solo'[g].owner = solo[g].owner /\ solo'[g].cache = solo[g].cache
    BY <2>2, <2>3 DEF Game
  <2>5. \A h \in Ids \ {g} : solo'[h] = solo[h]
    BY <1>4 DEF PressDouble, TypeOK
  <2>6. g \in LiveGames'
    BY <2>1, <2>4, SessionAssumption DEF LiveGames, Vector
  <2>7. LiveGames' = LiveGames
    BY <2>1, <2>5, <2>6 DEF LiveGames, Vector
  <2>8. Quiet
    BY <1>4, <1>s, <2>4, <2>5, <2>7 DEF PressDouble, Deliver, Quiet, LiveGames, Vector
  <2> QED BY <2>8 DEF FileChange
<1>5. CASE PressLoses(u, g)
  <2>1. 0 - solo[g].bet \in Int
    BY <1>5, VectorType DEF PressLoses, PressEnds, Found, LiveGames, Game
  <2> QED BY <1>5, <2>1, PressEndsUnlocks DEF PressLoses, FileChange
<1>6. CASE PressWins(u, g)
  <2>1. g \in Vector
    BY <1>6 DEF PressWins, Found, LiveGames
  <2> QED BY <1>6, <2>1, GainType, PressEndsUnlocks DEF PressWins, FileChange
<1>7. CASE PressUnknown(u, g)
  <2> DEFINE r == [Read(u) EXCEPT !.playing = 0]
             t == << Retire(g), Write(u, r) >>
  <2>1. Read(u) \in Rec /\ r \in Rec /\ r.playing = 0
    BY ReadType, FlagType DEF TypeOK, Rec
  <2>2. Retire(g) \in Effect /\ Write(u, r) \in Effect
    BY <2>1, EffectType
  <2>3. t \in Seq(Effect) /\ queue' = << Stamp(u) >> \o t
    BY <1>7, <2>2 DEF PressUnknown
  <2>4. t = << Retire(g) >> \o << Write(u, r) >>
        /\ << Retire(g) >> \in Seq(Effect) /\ << Write(u, r) >> \in Seq(Effect)
    BY <2>2
  <2> HIDE DEF r, t
  <2>5. LeftAs(t, u, r)
    BY <2>4, LaterEffects, OneEffect
  <2>6. \A v \in Users \ {u} : Untouched(t, v)
    <3>1. \A v \in Users \ {u} : Untouched(<< Write(u, r) >>, v)
      BY OneEffect DEF IsWriteTo, Write
    <3> QED BY <2>4, <3>1, RetireTouchesNot, LaterEffects
  <2>7. LeftAs(queue', u, r) /\ \A v \in Users \ {u} : Keeps(queue', v)
    BY <2>3, <2>5, <2>6, StampFirst
  <2>8. \A h \in LiveGames : solo[h].owner = u => u \in stray'
    BY <1>7 DEF PressUnknown, LiveOf
  <2>9. Unlocks(u)
    BY <1>7, <2>1, <2>7, <2>8
    DEF PressUnknown, Deliver, Unlocks, StartsFor, LiveGames, Vector
  <2> QED BY <2>9 DEF FileChange
<1> QED BY <1>1, <1>2, <1>3, <1>4, <1>5, <1>6, <1>7 DEF Pressed

\* So does /solo-game.
LEMMA FileSoloGame ==
    ASSUME TypeOK, NextIsNew, FlagsSet, NEW u \in Users, NEW c \in Channels, SoloGame(u, c)
    PROVE  FileChange
<1>1. CASE SoloBusy(u, c)
  <2> DEFINE S == {g \in Dead : g < First(LiveIn(c))}
  <2>1. S \subseteq Dead /\ solo' = Erase(S)
    BY <1>1 DEF SoloBusy
  <2> HIDE DEF S
  <2>2. SameLive
    BY <2>1, EraseLive
  <2>3. Quiet
    BY <1>1, <2>2, StampKeeps DEF SoloBusy, Quiet, SameLive
  <2> QED BY <2>3 DEF FileChange
<1>2. ASSUME NEW k \in Kinds, NEW b \in Bets, SoloRefuse(u, c, k, b)
      PROVE  FileChange
  <2> DEFINE r == [Read(u) EXCEPT !.playing = 0]
  <2>1. r \in Rec /\ r.playing = 0
    BY ReadType, FlagType DEF TypeOK, Rec
  <2>2. SoloPush(u, c, k, b, "refused", 0, << >>)
    BY <1>2 DEF SoloRefuse
  <2>3. /\ nextId \notin LiveGames
        /\ solo'[nextId] = NewGame(k, u, c, b, r, "refused")
        /\ \A h \in LiveGames : solo'[h] = solo[h] /\ h \in LiveGames'
        /\ \A h \in LiveGames' : h \in LiveGames \/ h = nextId
    BY <2>2, PushLive DEF Phases
  <2>4. nextId \notin LiveGames'
    BY <2>3 DEF NewGame, LiveGames
  <2>5. queue' = << Stamp(u), Write(u, r) >>
    BY <2>2 DEF SoloPush
  <2>6. Idle /\ Read(u).playing = 0 /\ file' = file /\ crashes' = crashes /\ stray' = stray
    BY <2>2 DEF SoloPush
  <2> HIDE DEF r
  <2>7. LeftAs(queue', u, r) /\ \A v \in Users \ {u} : Keeps(queue', v)
    BY <2>5, StampKeeps
  <2>8. \A h \in LiveGames : solo[h].owner = u => u \in stray
    BY <2>6, MayNotPlay
  <2>9. Unlocks(u)
    BY <2>1, <2>3, <2>4, <2>6, <2>7, <2>8 DEF Unlocks, StartsFor
  <2> QED BY <2>9 DEF FileChange
<1>3. ASSUME NEW k \in Kinds, NEW b \in Bets, SoloStart(u, c, k, b)
      PROVE  FileChange
  <2> DEFINE r == [Read(u) EXCEPT !.playing = 1]
  <2>1. r \in Rec /\ r.playing = 1
    BY ReadType, FlagType DEF TypeOK, Rec
  <2>2. SoloPush(u, c, k, b, "live", 1, << Post(nextId) >>)
    BY <1>3 DEF SoloStart
  <2>3. /\ nextId \in Ids /\ nextId \notin LiveGames
        /\ solo'[nextId] = NewGame(k, u, c, b, r, "live")
        /\ \A h \in LiveGames : solo'[h] = solo[h] /\ h \in LiveGames'
        /\ \A h \in LiveGames' : h \in LiveGames \/ h = nextId
    BY <2>2, PushLive DEF Phases
  <2>4. /\ NewGame(k, u, c, b, r, "live") \in Game
        /\ NewGame(k, u, c, b, r, "live").phase = "live"
        /\ NewGame(k, u, c, b, r, "live").owner = u
        /\ NewGame(k, u, c, b, r, "live").cache = r
    BY <2>1, SessionAssumption DEF NewGame, Game, Phases
  <2>5. nextId \in LiveGames'
    BY <2>3, <2>4, SessionAssumption DEF LiveGames, Vector
  <2>6. queue' = << Stamp(u), Write(u, r) >> \o << Post(nextId) >>
    BY <2>2 DEF SoloPush
  <2>7. Idle /\ Read(u).playing = 0 /\ file' = file /\ crashes' = crashes /\ stray' = stray
    BY <2>2 DEF SoloPush
  <2>8. << Stamp(u), Write(u, r) >> \in Seq(Effect) /\ << Post(nextId) >> \in Seq(Effect)
    <3>1. Stamp(u) \in Effect /\ Write(u, r) \in Effect /\ Post(nextId) \in Effect
      BY <2>1, <2>3, ReadType, EffectType DEF Stamp, TypeOK
    <3> QED BY <3>1
  <2> HIDE DEF r
  <2>9. LeftAs(queue', u, r) /\ \A v \in Users \ {u} : Keeps(queue', v)
    <3> DEFINE s == << Stamp(u), Write(u, r) >>
               t == << Post(nextId) >>
    <3>1. LeftAs(s, u, r) /\ \A v \in Users \ {u} : Keeps(s, v)
      BY StampKeeps
    <3>2. \A v : Untouched(t, v)
      BY <2>3, RetireTouchesNot
    <3>3. s \in Seq(Effect) /\ t \in Seq(Effect) /\ queue' = s \o t
      BY <2>6, <2>8
    <3> HIDE DEF s, t
    <3>4. LeftAs(s \o t, u, r)
      BY <3>1, <3>2, <3>3, LaterEffects
    <3>5. \A v \in Users \ {u} : Keeps(s \o t, v)
      BY <3>1, <3>2, <3>3, LaterKeeps
    <3> QED BY <3>3, <3>4, <3>5
  <2>10. \A h \in LiveGames : solo[h].owner = u => u \in stray
    BY <2>7, MayNotPlay
  <2>11. Locks(u)
    BY <2>1, <2>3, <2>4, <2>5, <2>7, <2>9, <2>10 DEF Locks, StartsFor
  <2> QED BY <2>11 DEF FileChange
<1> QED BY <1>1, <1>2, <1>3 DEF SoloGame

\* So do /gc and every other command.
LEMMA FileGc ==
    ASSUME TypeOK, OneGamePerUser, NEW u \in Users, Gc(u) \/ OtherCommand(u)
    PROVE  FileChange
<1>s. \A v : Keeps(<< Stamp(u) >>, v) /\ Keeps(<< Stamp(u), Abort >>, v)
  BY StampKeeps
<1>1. CASE GcMiss(u) \/ GcNotFound(u)
  <2>1. SameLive
    BY <1>1, GcScanDead DEF GcMiss, GcNotFound
  <2>2. Quiet
    BY <1>1, <1>s, <2>1 DEF GcMiss, GcNotFound, GcFinds, Quiet, SameLive
  <2> QED BY <2>2 DEF FileChange
<1>2. CASE GcIndexesEmpty(u) \/ GcStrayDies(u) \/ OtherCommand(u)
  <2>1. Quiet
    BY <1>2, <1>s
    DEF GcIndexesEmpty, GcStrayDies, OtherCommand, GcFinds, Quiet, sessionVars, LiveGames, Vector
  <2> QED BY <2>1 DEF FileChange
<1> DEFINE S == {g \in Dead : LiveOf(u) # {} => g < First(LiveOf(u))}
<1>d. S \subseteq Dead /\ GcScan(u) = Erase(S)
  BY DEF GcScan
<1> HIDE DEF S
<1>w. ASSUME NEW g \in Vector, NEW d \in Int, queue' = << Stamp(u) >> \o EndGameWrites(g, d)
      PROVE  /\ solo[g].owner \in Users
             /\ AfterClear(g, d) \in Rec /\ AfterClear(g, d).playing = 0
             /\ LeftAs(queue', solo[g].owner, AfterClear(g, d))
             /\ \A v \in Users \ {solo[g].owner} : Keeps(queue', v)
  <2>1. EndGameWrites(g, d) \in Seq(Effect)
    BY EndGameType
  <2>2. solo[g].owner \in Users
    BY VectorType DEF Game
  <2> QED BY <1>w, <2>1, <2>2, EndGameLeaves, StampFirst, ClearedType
<1>3. CASE GcHit(u)
  <2> DEFINE g == First(LiveOf(u))
  <2>1. g \in LiveGames /\ g \in Vector /\ solo[g].owner = u
    <3>1. g \in LiveOf(u)
      BY <1>3, FirstType DEF GcHit, GcFinds, LiveOf, LiveGames, Vector
    <3> QED BY <3>1 DEF LiveOf, LiveGames
  <2>2. PICK d \in Gains(g) : /\ solo' = [GcScan(u) EXCEPT ![g] = Ended(g, d)]
                              /\ queue' = << Stamp(u) >> \o EndGameWrites(g, d)
    BY <1>3 DEF GcHit
  <2>3. d \in Int
    BY <2>1, GainType
  <2>i. Idle /\ file' = file /\ crashes' = crashes /\ stray' = stray
    BY <1>3 DEF GcHit, GcFinds
  <2> HIDE DEF g
  <2>4. EndsOne(g)
    BY <1>d, <2>1, <2>2, <2>3, EndLive
  <2>5. \A h \in LiveGames' : solo[h].owner = u => u \in stray
    BY <2>1, <2>4 DEF EndsOne, OneGamePerUser
  <2>6. Unlocks(u)
    BY <1>w, <2>1, <2>2, <2>3, <2>i, <2>4, <2>5 DEF Unlocks, StartsFor, EndsOne
  <2> QED BY <2>6 DEF FileChange
<1>4. CASE GcStrayHit(u)
  <2>0. Last(Vector) \in Vector
    BY <1>4, LastType DEF GcStrayHit, TakesGuess, Vector
  <2>1. PICK g \in Vector : g = Last(Vector)
    BY <2>0
  <2>2. PICK d \in Gains(g) :
          /\ solo' = IF g \in Dead THEN GcScan(u)
                     ELSE [GcScan(u) EXCEPT ![g] = Ended(g, d)]
          /\ queue' = << Stamp(u) >> \o EndGameWrites(g, d)
    BY <1>4, <2>1 DEF GcStrayHit
  <2>3. d \in Int
    BY GainType
  <2>4. PICK w \in Users : w = solo[g].owner
    BY <1>w, <2>2, <2>3
  <2>i. /\ Idle /\ file' = file /\ crashes' = crashes
        /\ stray' = IF LiveOf(w) \ {g} = {} THEN stray ELSE stray \cup {w}
    BY <1>4, <2>1, <2>4 DEF GcStrayHit
  <2>5. stray \subseteq stray' /\ \A h \in LiveGames \ {g} : solo[h].owner = w => w \in stray'
    BY <2>i DEF LiveOf
  <2>r. /\ \E r \in Rec : r.playing = 0 /\ LeftAs(queue', w, r)
        /\ \A v \in Users \ {w} : Keeps(queue', v)
    BY <1>w, <2>2, <2>3, <2>4
  <2>6. CASE g \in Dead
    <3>1. SameLive
      BY <2>2, <2>6, GcScanDead
    <3>2. g \notin LiveGames
      BY <2>6 DEF Dead
    <3>3. Unlocks(w)
      BY <2>r, <2>i, <2>5, <3>1, <3>2 DEF Unlocks, StartsFor, SameLive
    <3> QED BY <3>3 DEF FileChange
  <2>7. CASE g \notin Dead
    <3>1. g \in LiveGames
      BY <2>7 DEF Dead
    <3>2. EndsOne(g)
      BY <1>d, <2>2, <2>3, <2>7, <3>1, EndLive
    <3>3. /\ LiveGames' \subseteq LiveGames
          /\ \A h \in LiveGames' : solo'[h] = solo[h] /\ h \in LiveGames \ {g}
          /\ \A h \in LiveGames \ LiveGames' : h = g
      BY <3>2 DEF EndsOne
    <3>4. Unlocks(w)
      BY <2>r, <2>4, <2>i, <2>5, <3>3 DEF Unlocks, StartsFor
    <3> QED BY <3>4 DEF FileChange
  <2> QED BY <2>6, <2>7
<1> QED BY <1>1, <1>2, <1>3, <1>4 DEF Gc

\* What the handler that sets the money of v leaves in the files.
LEMMA FileReceive ==
    ASSUME TypeOK, NEW v \in Users, NEW n \in Sums, Receive(v, n)
    PROVE  FileChange
<1> DEFINE r == [Read(v) EXCEPT !.money = n]
           t == << Write(v, r) >>
<1>1. n \in Int
  BY SessionAssumption
<1>2. r \in Rec /\ t \in Seq(Effect) /\ Create(v) \in Seq(Effect)
  BY <1>1, SetMoneyType
<1>3. queue' = Create(v) \o t
  BY DEF Receive, SetMoney
<1>4. Alike(r, Read(v))
  BY ReadType DEF TypeOK, Rec, Alike
<1> HIDE DEF r
<1>5. LeftAs(t, v, r) /\ \A w \in Users \ {v} : Untouched(t, w)
  BY OneEffect DEF IsWriteTo, Write
<1>6. \A w \in Users \ {v} : Untouched(Create(v), w)
  <2>1. \A w \in Users : Untouched(<< >>, w)
    BY DEF Untouched
  <2>2. \A w \in Users \ {v} : Untouched(<< Write(v, Fresh) >>, w)
    BY OneEffect DEF IsWriteTo, Write
  <2> QED BY <2>1, <2>2 DEF Create
<1> HIDE DEF t
<1>7. LeftAs(queue', v, r) /\ \A w \in Users \ {v} : Untouched(queue', w)
  BY <1>2, <1>3, <1>5, <1>6, LaterEffects
<1>8. Moneyed
  BY <1>2, <1>4, <1>7 DEF Moneyed, Keeps, Receive, sessionVars
<1> QED BY <1>8 DEF FileChange

\* Every step does.
LEMMA FileStep ==
    TypeOK /\ NextIsNew /\ OneGamePerUser /\ FlagsSet /\ [Next]_vars => FileChange
<1> SUFFICES ASSUME TypeOK, NextIsNew, OneGamePerUser, FlagsSet, [Next]_vars
             PROVE  FileChange
  OBVIOUS
<1>1. CASE UNCHANGED vars
  BY <1>1 DEF vars, sessionVars, FileChange, GoesOn, ComesTo
<1>2. CASE Crash
  <2>1. LiveGames' = {}
    BY <1>2 DEF Crash, LiveGames, Vector
  <2>2. crashes' > 0
    BY <1>2, SessionAssumption DEF Crash, TypeOK
  <2> QED BY <2>1, <2>2 DEF FileChange, Dies
<1>3. CASE Perform
  <2>1. UNCHANGED <<solo, stray, crashes>>
    BY <1>3 DEF Perform, PerformFlag, PerformMessage, sessionVars
  <2> QED BY <1>3, <2>1, PerformKeeps DEF FileChange, GoesOn
<1> QED BY <1>1, <1>2, <1>3, FilePress, FileSoloGame, FileGc, FileReceive DEF Next, Session

---------------------------------------------------------------------------
\* Copies and flags of the players.

\* If the running handler gets to its end, u has the flag and the chips c.
Staked(u, c) == \E r \in Rec : ComesTo(u, r) /\ r.playing = 1 /\ r.chip = c

\* CacheFresh and OneGamePerUser made inductive: what the queue leaves in the file
\* of a player has the chips of the copy of the game, and both have the flag set.
CopyInv ==
    /\ OneGamePerUser
    /\ \A g \in LiveGames, u \in Users, r \in Rec :
          solo[g].owner = u /\ solo[g].cache = r =>
              /\ r.playing = 1
              /\ u \notin stray => Staked(u, r.chip)

\* NoLockout made inductive: the flag of who has no running game comes down.
ComesDown(u) == ComesTo(u, NoRec) \/ \E r \in Rec : r.playing = 0 /\ ComesTo(u, r)

FlagInv == crashes = 0 => \A u \in Users : LiveOf(u) = {} => ComesDown(u)

\* Between two handlers the invariant says what the properties say.
LEMMA CopyWhenIdle ==
    ASSUME TypeOK, CopyInv
    PROVE  FlagsSet /\ CacheFresh
<1>1. ASSUME Idle, NEW g \in LiveGames, solo[g].owner \notin stray
      PROVE  LET u == solo[g].owner
             IN  /\ file[u] \in Rec /\ file[u] # NoRec
                 /\ file[u].playing = 1 /\ solo[g].cache.playing = 1
                 /\ file[u].chip = solo[g].cache.chip /\ solo[g].cache \in Rec
  <2> DEFINE u == solo[g].owner
  <2>1. u \in Users /\ solo[g].cache \in Rec
    BY VectorType DEF LiveGames, Game
  <2>2. solo[g].cache.playing = 1 /\ Staked(u, solo[g].cache.chip)
    BY <1>1, <2>1 DEF CopyInv
  <2>3. PICK r \in Rec : ComesTo(u, r) /\ r.playing = 1 /\ r.chip = solo[g].cache.chip
    BY <2>2 DEF Staked
  <2>4. file[u] = r
    BY <1>1, <2>3, IdleComesTo
  <2> QED BY <2>1, <2>2, <2>3, <2>4, StoreAssumption
<1>2. \A r \in Rec, s \in Rec :
        r.playing = s.playing /\ r.chip = s.chip => r = [s EXCEPT !.money = r.money]
  BY DEF Rec
<1>3. CacheFresh
  BY <1>1, <1>2 DEF CacheFresh
<1>4. FlagsSet
  BY <1>1 DEF FlagsSet, Read
<1> QED BY <1>3, <1>4

LEMMA DownWhenIdle ==
    ASSUME TypeOK, Idle, NEW u \in Users
    PROVE  ComesDown(u) <=> Read(u).playing = 0
<1>1. file[u] \in Rec \cup {NoRec}
  BY DEF TypeOK
<1> QED BY <1>1, IdleComesTo, StoreAssumption DEF ComesDown, Read, Fresh

\* A handler that keeps a file keeps what it comes to.
LEMMA KeepsComesTo ==
    ASSUME TypeOK, Idle, file' = file, NEW u \in Users, Keeps(queue', u)
    PROVE  /\ \A r \in Rec : ComesTo(u, r) => ComesTo(u, r)'
           /\ ComesDown(u) => ComesDown(u)'
<1>1. ASSUME NEW r \in Rec, ComesTo(u, r) PROVE ComesTo(u, r)'
  <2>1. file[u] = r /\ Read(u) = r
    BY <1>1, IdleComesTo, StoreAssumption DEF Read
  <2> QED BY <2>1 DEF Keeps, ComesTo
<1>2. ASSUME ComesDown(u) PROVE ComesDown(u)'
  <2>1. Read(u) \in Rec /\ Read(u).playing = 0
    BY <1>2, DownWhenIdle, ReadType DEF TypeOK
  <2>2. CASE LeftAs(queue', u, Read(u))
    BY <2>1, <2>2 DEF ComesDown, ComesTo
  <2>3. CASE Untouched(queue', u)
    <3>1. file'[u] = NoRec \/ file'[u] = Read(u)
      BY DEF Read
    <3> QED BY <2>1, <2>3, <3>1 DEF ComesDown, ComesTo
  <2> QED BY <2>2, <2>3 DEF Keeps
<1> QED BY <1>1, <1>2

\* What a handler keeps, it keeps staked.
LEMMA KeepsStaked ==
    ASSUME NEW u, NEW c, \A r \in Rec : ComesTo(u, r) => ComesTo(u, r)'
    PROVE  Staked(u, c) => Staked(u, c)'
BY DEF Staked

\* Other money leaves a player the flag and the chips, and takes no flag up.
LEMMA MoneyedKeeps ==
    ASSUME TypeOK, Moneyed, NEW u \in Users
    PROVE  /\ \A c : Staked(u, c) => Staked(u, c)'
           /\ ComesDown(u) => ComesDown(u)'
<1>1. CASE Keeps(queue', u)
  <2>1. Idle /\ file' = file
    BY DEF Moneyed
  <2> QED BY <1>1, <2>1, KeepsComesTo, KeepsStaked
<1>2. CASE ~Keeps(queue', u)
  <2>1. PICK r \in Rec : LeftAs(queue', u, r) /\ Alike(r, Read(u))
    BY <1>2 DEF Moneyed
  <2>2. ComesTo(u, r)'
    BY <2>1 DEF ComesTo
  <2>3. ASSUME NEW c, Staked(u, c) PROVE Staked(u, c)'
    <3>1. PICK s \in Rec : ComesTo(u, s) /\ s.playing = 1 /\ s.chip = c
      BY <2>3 DEF Staked
    <3>2. Read(u) = s
      BY <3>1, IdleComesTo, StoreAssumption DEF Moneyed, Read
    <3> QED BY <2>1, <2>2, <3>1, <3>2 DEF Alike, Staked
  <2>4. ASSUME ComesDown(u) PROVE ComesDown(u)'
    <3>1. Read(u).playing = 0
      BY <2>4, DownWhenIdle DEF Moneyed
    <3> QED BY <2>1, <2>2, <3>1 DEF Alike, ComesDown
  <2> QED BY <2>3, <2>4
<1> QED BY <1>1, <1>2

\* No step separates a running game from its player's file.
LEMMA CopyStep ==
    ASSUME TypeOK, CopyInv, FileChange
    PROVE  CopyInv'
<1>1. CASE Quiet
  <2>1. OneGamePerUser'
    BY <1>1 DEF Quiet, CopyInv, OneGamePerUser
  <2>2. ASSUME NEW g \in LiveGames', NEW u \in Users, NEW r \in Rec,
               solo'[g].owner = u, solo'[g].cache = r
        PROVE  r.playing = 1 /\ (u \notin stray' => Staked(u, r.chip)')
    <3>1. r.playing = 1 /\ (u \notin stray' => Staked(u, r.chip))
      BY <1>1, <2>2 DEF Quiet, CopyInv
    <3>2. \A s \in Rec : ComesTo(u, s) => ComesTo(u, s)'
      BY <1>1, KeepsComesTo DEF Quiet
    <3> QED BY <3>1, <3>2, KeepsStaked
  <2> QED BY <2>1, <2>2 DEF CopyInv
<1>2. ASSUME NEW w \in Users, Unlocks(w) PROVE CopyInv'
  <2>1. OneGamePerUser'
    BY <1>2 DEF Unlocks, CopyInv, OneGamePerUser
  <2>2. ASSUME NEW g \in LiveGames', NEW u \in Users, NEW r \in Rec,
               solo'[g].owner = u, solo'[g].cache = r
        PROVE  r.playing = 1 /\ (u \notin stray' => Staked(u, r.chip)')
    <3>1. /\ g \in LiveGames /\ solo'[g] = solo[g]
          /\ u \notin stray' => u \notin stray /\ u # w
      BY <1>2, <2>2 DEF Unlocks
    <3>2. r.playing = 1 /\ (u \notin stray => Staked(u, r.chip))
      BY <2>2, <3>1 DEF CopyInv
    <3>3. u # w => \A s \in Rec : ComesTo(u, s) => ComesTo(u, s)'
      BY <1>2, KeepsComesTo DEF Unlocks, StartsFor
    <3> QED BY <3>1, <3>2, <3>3, KeepsStaked
  <2> QED BY <2>1, <2>2 DEF CopyInv
<1>3. ASSUME NEW w \in Users, Locks(w) PROVE CopyInv'
  <2>1. OneGamePerUser'
    BY <1>3 DEF Locks, CopyInv, OneGamePerUser
  <2>2. ASSUME NEW g \in LiveGames', NEW u \in Users, NEW r \in Rec,
               solo'[g].owner = u, solo'[g].cache = r
        PROVE  r.playing = 1 /\ (u \notin stray' => Staked(u, r.chip)')
    <3>1. CASE g = nextId
      <4>1. r.playing = 1 /\ ComesTo(u, r)'
        BY <1>3, <2>2, <3>1 DEF Locks, ComesTo
      <4> QED BY <4>1 DEF Staked
    <3>2. CASE g # nextId
      <4>1. /\ g \in LiveGames /\ solo'[g] = solo[g] /\ stray' = stray
            /\ u \notin stray => u # w
        BY <1>3, <2>2, <3>2 DEF Locks
      <4>2. r.playing = 1 /\ (u \notin stray => Staked(u, r.chip))
        BY <2>2, <4>1 DEF CopyInv
      <4>3. u # w => \A s \in Rec : ComesTo(u, s) => ComesTo(u, s)'
        BY <1>3, KeepsComesTo DEF Locks, StartsFor
      <4> QED BY <4>1, <4>2, <4>3, KeepsStaked
    <3> QED BY <3>1, <3>2
  <2> QED BY <2>1, <2>2 DEF CopyInv
<1>4. CASE GoesOn \/ Moneyed
  <2>1. LiveGames' = LiveGames /\ solo' = solo /\ stray' = stray
    BY <1>4 DEF GoesOn, Moneyed, LiveGames, Vector
  <2>2. OneGamePerUser'
    BY <2>1 DEF CopyInv, OneGamePerUser
  <2>3. \A u \in Users : \A c : Staked(u, c) => Staked(u, c)'
    <3>1. CASE GoesOn
      BY <3>1, KeepsStaked DEF GoesOn
    <3> QED BY <1>4, <3>1, MoneyedKeeps
  <2> QED BY <2>1, <2>2, <2>3 DEF CopyInv
<1>5. CASE Dies
  BY <1>5 DEF Dies, CopyInv, OneGamePerUser
<1> QED BY <1>1, <1>2, <1>3, <1>4, <1>5 DEF FileChange

\* No step but a death leaves a flag up for good.
LEMMA FlagStep ==
    ASSUME TypeOK, FlagInv, FileChange
    PROVE  FlagInv'
<1> SUFFICES ASSUME crashes' = 0, NEW u \in Users, LiveOf(u)' = {}
             PROVE  ComesDown(u)'
  BY DEF FlagInv
<1>1. CASE Quiet
  <2>1. LiveOf(u) = {} /\ crashes = 0
    BY <1>1 DEF Quiet, LiveOf
  <2> QED BY <1>1, <2>1, KeepsComesTo DEF Quiet, FlagInv
<1>2. ASSUME NEW w \in Users, Unlocks(w) PROVE ComesDown(u)'
  <2>1. CASE u = w
    BY <1>2, <2>1 DEF Unlocks, ComesDown, ComesTo
  <2>2. CASE u # w
    <3>1. LiveOf(u) = {}
      BY <1>2, <2>2 DEF Unlocks, LiveOf
    <3> QED BY <1>2, <2>2, <3>1, KeepsComesTo DEF Unlocks, StartsFor, FlagInv
  <2> QED BY <2>1, <2>2
<1>3. ASSUME NEW w \in Users, Locks(w) PROVE ComesDown(u)'
  <2>1. u # w /\ LiveOf(u) = {}
    BY <1>3 DEF Locks, LiveOf
  <2> QED BY <1>3, <2>1, KeepsComesTo DEF Locks, StartsFor, FlagInv
<1>4. CASE GoesOn
  <2>1. LiveOf(u) = {} /\ crashes = 0
    BY <1>4 DEF GoesOn, LiveOf, LiveGames, Vector
  <2>2. ComesDown(u)
    BY <2>1 DEF FlagInv
  <2> QED BY <1>4, <2>2 DEF GoesOn, ComesDown
<1>5. CASE Dies
  BY <1>5 DEF Dies
<1>6. CASE Moneyed
  <2>1. LiveOf(u) = {} /\ crashes = 0
    BY <1>6 DEF Moneyed, LiveOf, LiveGames, Vector
  <2>2. ComesDown(u)
    BY <2>1 DEF FlagInv
  <2> QED BY <1>6, <2>2, MoneyedKeeps
<1> QED BY <1>1, <1>2, <1>3, <1>4, <1>5, <1>6 DEF FileChange

\* The copies stay what the files come to.
LEMMA CopiesKept == Spec => [](TypeOK /\ NextIsNew /\ CopyInv)
<1>1. Init => CopyInv
  BY DEF Init, CopyInv, OneGamePerUser, LiveGames, Vector
<1>2. TypeOK /\ NextIsNew /\ CopyInv /\ [Next]_vars => CopyInv'
  <2>1. CopyInv => OneGamePerUser
    BY DEF CopyInv
  <2> QED BY <2>1, CopyWhenIdle, FileStep, CopyStep
<1> QED BY <1>1, <1>2, TypeCorrect, IdsNotReused, PTL DEF Spec

\* A player has one running game, unless something else than the end of a game has
\* cleared the flag: the flag in the file and the game in memory keep together
\* through every handler.
THEOREM PlayersHaveOneGame == Spec => []OneGamePerUser
<1>1. CopyInv => OneGamePerUser
  BY DEF CopyInv
<1> QED BY <1>1, CopiesKept, PTL

\* Between two handlers the copy that a running game holds of its player's record
\* is the file but for the money, so that EndGame's write of the copy loses no
\* chips and no flag; money that came in meanwhile it does lose.
THEOREM CopiesAreFresh == Spec => []CacheFresh
<1>1. TypeOK /\ CopyInv => CacheFresh
  BY CopyWhenIdle
<1> QED BY <1>1, CopiesKept, PTL

\* Nobody has the flag set.
NobodyPlays == \A u \in Users : Read(u).playing = 0

\* If nobody was playing at the start and the process has not died, whoever has the
\* flag set has a game to finish.
THEOREM NobodyIsLockedOut == NobodyPlays /\ Spec => []NoLockout
<1>1. NobodyPlays /\ Init => FlagInv
  <2> SUFFICES ASSUME NobodyPlays, Init, NEW u \in Users PROVE ComesDown(u)
    BY DEF FlagInv
  <2>1. TypeOK /\ Idle
    BY TypeInit DEF Init, StoreInit, Idle
  <2> QED BY <2>1, DownWhenIdle DEF NobodyPlays
<1>2. TypeOK /\ NextIsNew /\ CopyInv /\ FlagInv /\ [Next]_vars => FlagInv'
  <2>1. CopyInv => OneGamePerUser
    BY DEF CopyInv
  <2> QED BY <2>1, CopyWhenIdle, FileStep, FlagStep
<1>3. TypeOK /\ FlagInv => NoLockout
  <2> SUFFICES ASSUME TypeOK, FlagInv, Idle, crashes = 0,
                      NEW u \in Users, Read(u).playing = 1
               PROVE  LiveOf(u) # {}
    BY DEF NoLockout
  <2> QED BY DownWhenIdle DEF FlagInv
<1> QED BY <1>1, <1>2, <1>3, CopiesKept, PTL DEF Spec
====
