---- MODULE Qasino_proofs ----
(***************************************************************************)
(* Theorems about Qasino, the sessions and the bank over the same files,   *)
(* for every value of the constants of both.                               *)
(***************************************************************************)
EXTENDS Qasino, SoloSession_proofs

---------------------------------------------------------------------------
\* The bank's names for what the sessions and the bank share.
LEMMA DeskNames ==
    /\ Desk!Idle <=> Idle
    /\ Desk!Fresh = Fresh
    /\ \A u : Desk!Read(u) = Read(u) /\ Desk!Stamp(u) = Stamp(u)
    /\ \A u, r : Desk!Write(u, r) = Write(u, r)
    /\ \A u, n : Desk!Create(u) = Create(u) /\ Desk!SetMoney(u, n) = SetMoney(u, n)
BY DEF Desk!Idle, Idle, Desk!Fresh, Fresh, Desk!Read, Read, Desk!Stamp, Stamp, Desk!Write, Write,
   Desk!Create, Create, Desk!SetMoney, SetMoney

\* The bank's sums are ints.
LEMMA DeskWrap == \A n \in Int : Desk!Wrap(n) \in Int
<1> SUFFICES ASSUME NEW n \in Int PROVE Desk!Wrap(n) \in Int
  OBVIOUS
<1>1. PICK h \in Nat : h = Half /\ h > 0
  BY HalfAssumption
<1>2. (n + h) % (2 * h) \in Int
  BY <1>1
<1> QED BY <1>1, <1>2 DEF Desk!Wrap

---------------------------------------------------------------------------
\* What the bank's commands do to the records of players.

\* An effect that leaves a player the flag and the chips.
Gentle(e) ==
    \E v \in Users, r \in Rec :
        /\ e = Write(v, r)
        /\ Read(v).playing = 1 => r.playing = 1 /\ r.chip = Read(v).chip

\* Effects after which the player u has the flag and the chips.
PlayerKept(q, u) ==
    \/ Untouched(q, u)
    \/ \E r \in Rec :
          /\ LeftAs(q, u, r)
          /\ Read(u).playing = 1 => r.playing = 1 /\ r.chip = Read(u).chip

LEMMA GentleKeeps ==
    ASSUME NEW u \in Users, NEW e, Gentle(e)
    PROVE  e \in Effect /\ PlayerKept(<< e >>, u)
<1>1. PICK v \in Users, r \in Rec :
        /\ e = Write(v, r)
        /\ Read(v).playing = 1 => r.playing = 1 /\ r.chip = Read(v).chip
  BY DEF Gentle
<1>2. e \in Effect
  BY <1>1, EffectType
<1>3. CASE u = v
  <2>1. LeftAs(<< e >>, u, r)
    BY <1>1, <1>3, OneEffect
  <2> QED BY <1>1, <1>2, <1>3, <2>1 DEF PlayerKept
<1>4. CASE u # v
  <2>1. ~IsWriteTo(e, u)
    BY <1>1, <1>4 DEF IsWriteTo, Write
  <2>2. Untouched(<< e >>, u)
    BY <2>1, OneEffect
  <2> QED BY <1>2, <2>2 DEF PlayerKept
<1> QED BY <1>3, <1>4

\* A gentle effect in front of effects that leave the player alone.
LEMMA GentleFirst ==
    ASSUME NEW e, Gentle(e), NEW t \in Seq(Effect), \A u \in Users : PlayerKept(t, u)
    PROVE  << e >> \o t \in Seq(Effect) /\ \A u \in Users : PlayerKept(<< e >> \o t, u)
<1>1. PICK v \in Users : e = Write(v, e.rec)
  BY DEF Gentle, Write
<1>2. e \in Effect
  BY <1>1, GentleKeeps
<1>3. << e >> \in Seq(Effect) /\ << e >> \o t \in Seq(Effect)
  BY <1>2, ConcatProperties
<1>4. ASSUME NEW u \in Users PROVE PlayerKept(<< e >> \o t, u)
  <2>1. PlayerKept(<< e >>, u)
    BY GentleKeeps
  <2>2. CASE Untouched(t, u)
    <3>1. CASE Untouched(<< e >>, u)
      BY <1>3, <2>2, <3>1, LaterEffects DEF PlayerKept
    <3>2. CASE ~Untouched(<< e >>, u)
      <4>1. PICK r \in Rec : /\ LeftAs(<< e >>, u, r)
                             /\ Read(u).playing = 1 => r.playing = 1 /\ r.chip = Read(u).chip
        BY <2>1, <3>2 DEF PlayerKept
      <4>2. LeftAs(<< e >> \o t, u, r)
        BY <1>3, <2>2, <4>1, LaterEffects
      <4> QED BY <4>1, <4>2 DEF PlayerKept
    <3> QED BY <3>1, <3>2
  <2>3. CASE ~Untouched(t, u)
    <3>1. PICK r \in Rec : /\ LeftAs(t, u, r)
                           /\ Read(u).playing = 1 => r.playing = 1 /\ r.chip = Read(u).chip
      BY <2>3 DEF PlayerKept
    <3>2. LeftAs(<< e >> \o t, u, r)
      BY <1>3, <3>1, LaterEffects
    <3> QED BY <3>1, <3>2 DEF PlayerKept
  <2> QED BY <2>2, <2>3
<1> QED BY <1>3, <1>4

\* The stamp of a member and the record made up for another are gentle.
LEMMA StampGentle ==
    ASSUME TypeOK, NEW u \in Users
    PROVE  Gentle(Stamp(u))
BY ReadType DEF TypeOK, Gentle, Stamp

\* The handler of a command: its stamp, perhaps the making of the other's record,
\* then what is its own.
LEMMA CommandKeeps ==
    ASSUME TypeOK, NEW u \in Users, NEW v \in Users, NEW t \in Seq(Effect),
           \A w \in Users : PlayerKept(t, w)
    PROVE  LET c == Create(v) \o t
               p == << Stamp(u) >> \o (Desk!CreateOther(u, v) \o t)
           IN  /\ c \in Seq(Effect) /\ \A w \in Users : PlayerKept(c, w)
               /\ p \in Seq(Effect) /\ \A w \in Users : PlayerKept(p, w)
<1> DEFINE c == Create(v) \o t
           d == Desk!CreateOther(u, v) \o t
<1>1. c \in Seq(Effect) /\ \A w \in Users : PlayerKept(c, w)
  <2>1. CASE file[v] = NoRec
    <3>1. Create(v) = << Stamp(v) >>
      BY <2>1 DEF Create, Stamp, Read
    <3> QED BY <3>1, StampGentle, GentleFirst
  <2>2. CASE file[v] # NoRec
    <3>1. c = t
      BY <2>2, ConcatEmptySeq DEF Create
    <3> QED BY <3>1
  <2> QED BY <2>1, <2>2
<1>2. d \in Seq(Effect) /\ \A w \in Users : PlayerKept(d, w)
  <2>1. CASE u = v
    <3>1. d = t
      BY <2>1, ConcatEmptySeq, DeskNames DEF Desk!CreateOther
    <3> QED BY <3>1
  <2>2. CASE u # v
    <3>1. d = c
      BY <2>2, DeskNames DEF Desk!CreateOther
    <3> HIDE DEF c, d
    <3> QED BY <1>1, <3>1
  <2> QED BY <2>1, <2>2
<1> HIDE DEF c, d
<1>3. << Stamp(u) >> \o d \in Seq(Effect) /\ \A w \in Users : PlayerKept(<< Stamp(u) >> \o d, w)
  BY <1>2, StampGentle, GentleFirst
<1> QED BY <1>1, <1>3 DEF c, d

\* Two effects are one and then one.
LEMMA PairIsConcat ==
    ASSUME NEW e \in Effect, NEW f \in Effect
    PROVE  << e >> \o << f >> = << e, f >>
<1>1. << e >> \in Seq(Effect) /\ << f >> \in Seq(Effect) /\ << e, f >> \in Seq(Effect)
  OBVIOUS
<1>2. << e >> \o << f >> \in Seq(Effect) /\ Len(<< e >> \o << f >>) = 2
  BY <1>1, ConcatProperties
<1>3. (<< e >> \o << f >>)[1] = e /\ (<< e >> \o << f >>)[2] = f
  BY <1>1, ConcatProperties
<1>4. Len(<< e, f >>) = 2 /\ \A i \in 1..2 : (<< e >> \o << f >>)[i] = << e, f >>[i]
  BY <1>3
<1> QED BY <1>1, <1>2, <1>4, SeqEqual

\* No effects, one or two gentle ones.
LEMMA FewGentle ==
    /\ << >> \in Seq(Effect) /\ \A w \in Users : PlayerKept(<< >>, w)
    /\ \A e : Gentle(e) => << e >> \in Seq(Effect) /\ \A w \in Users : PlayerKept(<< e >>, w)
    /\ \A e, f : Gentle(e) /\ Gentle(f) =>
          << e, f >> \in Seq(Effect) /\ \A w \in Users : PlayerKept(<< e, f >>, w)
<1>1. << >> \in Seq(Effect) /\ \A w \in Users : PlayerKept(<< >>, w)
  BY DEF PlayerKept, Untouched
<1>2. ASSUME NEW e, Gentle(e)
      PROVE  /\ e \in Effect
             /\ << e >> \in Seq(Effect) /\ \A w \in Users : PlayerKept(<< e >>, w)
  <2>1. e \in Effect
    <3>1. PICK v \in Users : TRUE
      BY <1>2 DEF Gentle
    <3> QED BY <1>2, <3>1, GentleKeeps
  <2> QED BY <1>2, <2>1, GentleKeeps
<1>3. ASSUME NEW e, NEW f, Gentle(e), Gentle(f)
      PROVE  << e, f >> \in Seq(Effect) /\ \A w \in Users : PlayerKept(<< e, f >>, w)
  <2>1. e \in Effect /\ f \in Effect
    BY <1>2, <1>3
  <2>2. << f >> \in Seq(Effect) /\ \A w \in Users : PlayerKept(<< f >>, w)
    BY <1>2, <1>3
  <2>3. << e >> \o << f >> = << e, f >>
    BY <2>1, PairIsConcat
  <2> QED BY <1>3, <2>2, <2>3, GentleFirst
<1> QED BY <1>1, <1>2, <1>3

\* A handler of the bank: it starts when no other runs, moves nothing in memory,
\* and leaves players the flag and the chips.
Trades ==
    /\ Idle /\ file' = file
    /\ queue' \in Seq(Effect)
    /\ \A w \in Users : PlayerKept(queue', w)

LEMMA TradeStarts ==
    ASSUME TypeOK, Desk!Banking
    PROVE  Trades /\ crashes' = crashes
<1> USE BotAssumption
<1>r. \A u \in Users : Read(u) \in Rec
  BY ReadType DEF TypeOK
<1>p. ASSUME NEW u \in Users, NEW n \in Int
      PROVE  /\ Gentle(Write(u, Desk!Debit(Read(u), n)))
             /\ Gentle(Write(u, Desk!Credit(Read(u), n)))
  <2>1. /\ Desk!Debit(Read(u), n) \in Rec
        /\ Desk!Debit(Read(u), n).playing = Read(u).playing
        /\ Desk!Debit(Read(u), n).chip = Read(u).chip
    BY <1>r DEF Desk!Debit, Rec
  <2>2. /\ Desk!Credit(Read(u), n) \in Rec
        /\ Desk!Credit(Read(u), n).playing = Read(u).playing
        /\ Desk!Credit(Read(u), n).chip = Read(u).chip
    <3>1. Desk!Wrap(Read(u).money + n) \in Int
      BY <1>r, DeskWrap DEF Rec
    <3> QED BY <1>r, <3>1 DEF Desk!Credit, Rec
  <2> QED BY <2>1, <2>2 DEF Gentle
<1>1. ASSUME NEW u \in Users, NEW v \in Users, NEW n \in Amounts, Desk!Send(u, v, n)
      PROVE  Trades /\ crashes' = crashes
  <2> DEFINE t == << Write(u, Desk!Debit(Read(u), n)), Write(v, Desk!Credit(Read(v), n)) >>
             q == << Stamp(u) >> \o (Desk!CreateOther(u, v) \o t)
  <2>1. n \in Int
    OBVIOUS
  <2>2. t \in Seq(Effect) /\ \A w \in Users : PlayerKept(t, w)
    BY <1>p, <2>1, FewGentle
  <2>3. Idle /\ queue' = q /\ file' = file /\ crashes' = crashes
    BY <1>1, DeskNames DEF Desk!Send, Desk!Command, Desk!Handle
  <2> HIDE DEF t
  <2>4. q \in Seq(Effect) /\ \A w \in Users : PlayerKept(q, w)
    BY <2>2, CommandKeeps
  <2> HIDE DEF q
  <2> QED BY <2>3, <2>4 DEF Trades
<1>2. ASSUME NEW u \in Users, NEW v \in Users, NEW n \in Amounts, Desk!SendRefused(u, v, n)
      PROVE  Trades /\ crashes' = crashes
  <2> DEFINE q == << Stamp(u) >> \o (Desk!CreateOther(u, v) \o << >>)
  <2>1. Desk!CreateOther(u, v) \o << >> = Desk!CreateOther(u, v)
    BY DeskNames, ConcatEmptySeq DEF Desk!CreateOther, Create
  <2>2. Idle /\ queue' = q /\ file' = file /\ crashes' = crashes
    BY <1>2, <2>1, DeskNames DEF Desk!SendRefused, Desk!Command, Desk!Handle
  <2>3. q \in Seq(Effect) /\ \A w \in Users : PlayerKept(q, w)
    BY FewGentle, CommandKeeps
  <2> HIDE DEF q
  <2> QED BY <2>2, <2>3 DEF Trades
<1>3. ASSUME NEW u \in Users, NEW k \in Counts, Desk!Buy(u, k) \/ Desk!Sell(u, k)
      PROVE  Trades /\ crashes' = crashes
  <2>1. /\ Idle /\ Read(u).playing = 0 /\ file' = file /\ crashes' = crashes
        /\ \E r \in Rec : queue' = << Stamp(u) >> \o << Write(u, r) >>
    <3>1. \A m, c \in Int : [Read(u) EXCEPT !.money = m, !.chip = c] \in Rec
      BY <1>r DEF Rec
    <3>2. /\ Read(u).money - k * Desk!BuyPrice \in Int /\ Read(u).chip + k \in Int
          /\ Read(u).money + k * Desk!SellPrice \in Int /\ Read(u).chip - k \in Int
      BY <1>r DEF Rec, Desk!BuyPrice, Desk!SellPrice
    <3>w. /\ Desk!Wrap(Read(u).money - k * Desk!BuyPrice) \in Int
          /\ Desk!Wrap(Read(u).chip + k) \in Int
          /\ Desk!Wrap(Read(u).money + k * Desk!SellPrice) \in Int
          /\ Desk!Wrap(Read(u).chip - k) \in Int
      BY <3>2, DeskWrap
    <3>b. Desk!Bought(Read(u), k) \in Rec /\ Desk!Sold(Read(u), k) \in Rec
      BY <3>1, <3>w DEF Desk!Bought, Desk!Sold
    <3>3. CASE Desk!Buy(u, k)
      BY <3>b, <3>3, DeskNames DEF Desk!Buy, Desk!Command, Desk!Handle
    <3>4. CASE Desk!Sell(u, k)
      BY <3>b, <3>4, DeskNames DEF Desk!Sell, Desk!Command, Desk!Handle
    <3> QED BY <1>3, <3>3, <3>4
  <2>2. PICK r \in Rec : queue' = << Stamp(u) >> \o << Write(u, r) >>
    BY <2>1
  <2>3. Gentle(Write(u, r))
    BY <2>1 DEF Gentle
  <2> QED BY <2>1, <2>2, <2>3, FewGentle, StampGentle, GentleFirst DEF Trades
<1>4. ASSUME NEW u \in Users, Desk!Nick(u) \/ Desk!Other(u)
      PROVE  Trades /\ crashes' = crashes
  <2>1. << Stamp(u) >> \o << >> = << Stamp(u) >>
    OBVIOUS
  <2>2. Idle /\ queue' = << Stamp(u) >> /\ file' = file /\ crashes' = crashes
    BY <1>4, <2>1, DeskNames DEF Desk!Nick, Desk!Other, Desk!Command, Desk!Handle
  <2> QED BY <2>2, FewGentle, StampGentle DEF Trades
<1>5. ASSUME NEW v \in Users, NEW n \in Amounts, Desk!Grant(v, n)
      PROVE  Trades /\ crashes' = crashes
  <2> DEFINE r == [Read(v) EXCEPT !.money = n]
             q == Create(v) \o << Write(v, r) >>
  <2>1. r \in Rec /\ r.playing = Read(v).playing /\ r.chip = Read(v).chip
    BY <1>r DEF Rec
  <2>2. Idle /\ queue' = q /\ file' = file /\ crashes' = crashes
    BY <1>5, DeskNames DEF Desk!Grant, Desk!Handle, SetMoney
  <2> HIDE DEF r
  <2>3. Gentle(Write(v, r))
    BY <2>1 DEF Gentle
  <2>4. q \in Seq(Effect) /\ \A w \in Users : PlayerKept(q, w)
    BY <2>3, FewGentle, CommandKeeps
  <2> HIDE DEF q
  <2> QED BY <2>2, <2>4 DEF Trades
<1> QED BY <1>1, <1>2, <1>3, <1>4, <1>5 DEF Desk!Banking

---------------------------------------------------------------------------
\* The chips of the running games.

\* Between two handlers the invariant of the sessions says what the property says.
LEMMA ChipWhenIdle ==
    ASSUME TypeOK, CopyInv
    PROVE  GameChipsFresh
<1> SUFFICES ASSUME Idle, NEW g \in LiveGames, solo[g].owner \notin stray
             PROVE  /\ Read(solo[g].owner).chip = solo[g].cache.chip
                    /\ Read(solo[g].owner).playing = 1
  BY DEF GameChipsFresh
<1>1. solo[g].owner \in Users /\ solo[g].cache \in Rec
  BY VectorType DEF LiveGames, Game
<1>2. PICK r \in Rec : /\ ComesTo(solo[g].owner, r)
                       /\ r.playing = 1 /\ r.chip = solo[g].cache.chip
  BY <1>1 DEF CopyInv, Staked
<1>3. Read(solo[g].owner) = r
  BY <1>2, IdleComesTo, StoreAssumption DEF Read
<1> QED BY <1>2, <1>3

\* A handler of the bank separates no running game from its player's chips: who has a game running has the flag set, and
\* what the bank writes for a player with the flag has the chips it read.
LEMMA TradeStep ==
    ASSUME TypeOK, NextIsNew, CopyInv, Trade
    PROVE  TypeOK' /\ NextIsNew' /\ CopyInv'
<1>1. /\ Trades /\ crashes' = crashes
      /\ UNCHANGED <<solo, nextId, msg, clicks, paid, wild, stray>>
  BY TradeStarts DEF Trade, gameVars
<1>2. LiveGames' = LiveGames /\ Vector' = Vector
  BY <1>1 DEF LiveGames, Vector
<1>3. TypeOK'
  BY <1>1 DEF TypeOK, Trades
<1>4. NextIsNew'
  BY <1>1, <1>2 DEF NextIsNew
<1>5. OneGamePerUser'
  BY <1>1, <1>2 DEF CopyInv, OneGamePerUser
<1>6. ASSUME NEW u \in Users, NEW c \in Int, Staked(u, c) PROVE Staked(u, c)'
  <2>1. PICK r \in Rec : ComesTo(u, r) /\ r.playing = 1 /\ r.chip = c
    BY <1>6 DEF Staked
  <2>2. file[u] = r /\ Read(u) = r
    BY <1>1, <2>1, IdleComesTo, StoreAssumption DEF Trades, Read
  <2>3. CASE Untouched(queue', u)
    BY <1>1, <2>1, <2>2, <2>3 DEF Trades, Staked, ComesTo
  <2>4. CASE ~Untouched(queue', u)
    <3>1. PICK s \in Rec : /\ LeftAs(queue', u, s)
                           /\ Read(u).playing = 1 => s.playing = 1 /\ s.chip = Read(u).chip
      BY <1>1, <2>4 DEF Trades, PlayerKept
    <3> QED BY <2>1, <2>2, <3>1 DEF Staked, ComesTo
  <2> QED BY <2>3, <2>4
<1> QED BY <1>1, <1>2, <1>3, <1>4, <1>5, <1>6 DEF CopyInv, Rec

LEMMA BotStep ==
    ASSUME TypeOK, NextIsNew, CopyInv, [BotNext]_botVars
    PROVE  TypeOK' /\ NextIsNew' /\ CopyInv'
<1>1. CASE Trade
  BY <1>1, TradeStep
<1>2. CASE ~Trade
  <2>1. [Next]_vars
    BY <1>2 DEF BotNext, Play, BotPerform, BotCrash, botVars, Next
  <2>2. OneGamePerUser /\ FlagsSet
    BY CopyWhenIdle DEF CopyInv
  <2> QED BY <2>1, <2>2, TypeStep, IdsStep, FileStep, CopyStep
<1> QED BY <1>1, <1>2

\* While a game runs, the chips in its player's file are those it was started
\* with, and the flag is up, with the bank's commands between and within the
\* handlers of the games: EndGame, which writes its own count of them, loses none.
THEOREM TheBankLeavesPlayersTheirChips == BotSpec => []GameChipsFresh
<1>1. BotInit => TypeOK /\ NextIsNew /\ CopyInv
  <2>1. Init => NextIsNew /\ CopyInv
    BY DEF Init, NextIsNew, CopyInv, OneGamePerUser, LiveGames, Vector
  <2> QED BY <2>1, TypeInit DEF BotInit
<1>2. TypeOK /\ NextIsNew /\ CopyInv /\ [BotNext]_botVars
        => (TypeOK /\ NextIsNew /\ CopyInv)'
  BY BotStep
<1>3. TypeOK /\ CopyInv => GameChipsFresh
  BY ChipWhenIdle
<1> QED BY <1>1, <1>2, <1>3, PTL DEF BotSpec
====
