---- MODULE DiceRound ----
(***************************************************************************)
(* A round of dice bet: DiceBet::Process of QasinoBot.cpp.  The player     *)
(* chooses what to bet on, and with every won roll the table grows: the    *)
(* more so, the more rolls there were.  Stopping pays the table.           *)
(*                                                                         *)
(* The text of a choice, such as "101010.5", lists the winning faces and   *)
(* ends with the rate.  Choosing again, by a press that was on its way,    *)
(* starts from the first table but keeps the count of rolls.               *)
(***************************************************************************)
EXTENDS Integers, Sequences

CONSTANTS
    Stakes,     \* the bets the round may begin with
    MaxRolls,   \* bound: rolls of a round
    MaxPress    \* bound: presses of one kind in flight

ASSUME DiceAssumption ==
    /\ Stakes \subseteq {n \in Nat : n >= 10}
    /\ MaxRolls \in Nat
    /\ MaxPress \in Nat

Choices == {"odd", "even", "prime", "oneorsix", "notonenorsix", "imperfect"}

Faces(c) ==
    CASE c = "odd"          -> {1, 3, 5}
      [] c = "even"         -> {2, 4, 6}
      [] c = "prime"        -> {2, 3, 5}
      [] c = "oneorsix"     -> {1, 6}
      [] c = "notonenorsix" -> {2, 3, 4, 5}
      [] OTHER              -> {1, 2, 3, 4, 5}

\* Mutant: the digit is counted from '1' and then 2 is added.
RateFromOne(c) ==
    CASE c = "oneorsix"     -> 8
      [] c = "notonenorsix" -> 3
      [] c = "imperfect"    -> 2
      [] OTHER              -> 6

Rate(c) ==
    CASE c = "oneorsix"     -> 7
      [] c = "notonenorsix" -> 2
      [] c = "imperfect"    -> 1
      [] OTHER              -> 5

\* What may be on its way: a choice of the menu, or one of two buttons.
Presses == Choices \cup {"go", "stop"}

VARIABLES
    bet,        \* _betting
    choice,     \* _bet, "none" before the first choice
    count,      \* _count
    table,      \* _table, which is unset until the first choice
    forecast,   \* the field "ifgo" of the message
    shown,      \* what can be pressed on the message
    clicks,     \* presses on their way
    settled     \* history: what the calls of EndGame added to the chips

vars == <<bet, choice, count, table, forecast, shown, clicks, settled>>

---------------------------------------------------------------------------
Base == (bet * 7) \div 10

\* Mutant: a growth below 1 is dropped.
IncreaseTruncated(p, n, m) == (p \div 10) * n

\* The growth in whole numbers, p being rate times table: n tenths of it, and 1
\* if the growth is nothing.  The last term divides a number of its own, and the
\* handler and the message multiply it by different counts.
Increase(p, n, m) ==
    (p \div 10) * n + (IF ((p * 2 - 1) \div 20) * m = 0 THEN 1 ELSE 0)

Grown(c, t, n) == t + Increase(Rate(c) * t, n, n)

\* Mutant: the message forgets that the count goes up by one.
ForecastNow(c, t, n) == t + Increase(Rate(c) * t, n, n)

\* Success(): what the message promises for the next roll.
Forecast(c, t, n) == t + Increase(Rate(c) * t, n + 1, n)

---------------------------------------------------------------------------
\* Process(start) posts the menu.
Init ==
    /\ bet \in Stakes
    /\ choice = "none"
    /\ count = 0
    /\ table = 0
    /\ forecast = 0
    /\ shown = Choices
    /\ clicks = [p \in Presses |-> 0]
    /\ settled = << >>

Press(p) ==
    /\ p \in shown
    /\ clicks[p] < MaxPress
    /\ clicks' = [clicks EXCEPT ![p] = @ + 1]
    /\ UNCHANGED <<bet, choice, count, table, forecast, shown, settled>>

\* A press arrives while the game can still be found.
Deliver(p) ==
    /\ clicks[p] > 0
    /\ settled = << >>
    /\ clicks' = [clicks EXCEPT ![p] = @ - 1]
    /\ UNCHANGED bet

\* Mutant: a lost roll takes the table from the player.
LostTable(t) ==
    /\ table' = t
    /\ shown' = {}
    /\ settled' = << 0 - t >>
    /\ UNCHANGED forecast

\* The table stays, the message shows "gameover", the stake is lost.
Lost(t) ==
    /\ table' = t
    /\ shown' = {}
    /\ settled' = << 0 - bet >>
    /\ UNCHANGED forecast

Won(c, t) ==
    /\ table' = Grown(c, t, count')
    /\ forecast' = Forecast(c, table', count')
    /\ shown' = {"go", "stop"}
    /\ UNCHANGED settled

\* The branch "go", with the choice c and the table t: one more roll.
Roll(c, t) ==
    /\ count < MaxRolls
    /\ count' = count + 1
    /\ \E result \in 1..6 : IF result \in Faces(c) THEN Won(c, t) ELSE Lost(t)

\* Mutant: the first table is set only after the roll.
StartLate(c) ==
    /\ Deliver(c)
    /\ choice' = c
    /\ count < MaxRolls
    /\ count' = count + 1
    /\ table' = Base
    /\ forecast' = Forecast(c, Base, count')
    /\ shown' = {"go", "stop"}
    /\ UNCHANGED settled

\* A choice sets the table and falls through to "go".
Start(c) ==
    /\ Deliver(c)
    /\ choice' = c
    /\ Roll(c, Base)

Go ==
    /\ Deliver("go")
    /\ UNCHANGED choice
    /\ Roll(choice, table)

Stop ==
    /\ Deliver("stop")
    /\ shown' = {}
    /\ settled' = << table - bet >>
    /\ UNCHANGED <<choice, count, table, forecast>>

Process == Go \/ Stop \/ \E c \in Choices : Start(c)

Next == Process \/ \E p \in Presses : Press(p)

Spec == Init /\ [][Next]_vars

---------------------------------------------------------------------------
(* Properties *)

\* Types; before the first choice no roll is made.
TypeOK ==
    /\ bet \in Stakes
    /\ count \in 0..MaxRolls
    /\ choice \in Choices \/ (choice = "none" /\ count = 0)
    /\ table \in Nat
    /\ forecast \in Nat
    /\ shown \in SUBSET Presses
    /\ clicks \in [Presses -> 0..MaxPress]
    /\ settled \in Seq(Int)

\* The handler of a "go" that goes on.
WonGo == clicks'["go"] < clicks["go"] /\ settled' = << >>

\* The field "ifgo" is what the next won roll makes of the table, although the
\* message computes it with another count in its last term.
ForecastKept == [][WonGo => table' = forecast]_vars

\* A won roll adds to the table, however small the bet and the rate: the last
\* term covers exactly the divisions that give 0.
WinsGrow == [][WonGo => table' > table]_vars

\* Once there was a choice the table is above seven tenths of the bet, also when
\* late presses choose again: so is what "stop" pays.
FloorKept == count > 0 /\ settled = << >> => table > Base

\* The next roll overflows no int: the largest product of its handler, twice the
\* highest rate times the table it leads to, is below 2^31.  This holds for bets
\* up to 4000 and eight rolls; the code has no limit of either.
FitsInt == forecast <= 2147483647 \div (2 * 7)

Round == INSTANCE SoloRound WITH
    Kind  <- "dice",
    Chips <- 0,
    stake <- bet,
    gain  <- IF settled = << >> THEN 0 ELSE settled[1],
    over  <- settled # << >>

\* Whatever the presses and their order, the round does to the session what
\* SoloSession lets it do: it goes on, or ends once, with the stake lost or with
\* a prize that is not negative.
RoundRefinement == Round!RoundSpec
====
