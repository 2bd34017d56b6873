---- MODULE Games_proofs ----
(***************************************************************************)
(* Theorems about the games that MCGames instantiates.  Dice bet, for      *)
(* every bet from 10 on and any number of rolls: types, the floor of the   *)
(* table, the promise of the message, the growth.  The guessing game, for  *)
(* answers of every length over every set of digits: the results are those *)
(* of the rules, and the guess that is all strikes wins.  Both are rounds  *)
(* as SoloRound has them.  The up-down games, for every number and every   *)
(* text that is typed: the verdict is that of exact arithmetic.            *)
(***************************************************************************)
EXTENDS DiceRound, AacRound, UpDown, FiniteSetTheorems, FunctionTheorems, SequenceTheorems,
        WellFoundedInduction, TLAPS


---------------------------------------------------------------------------
(* Dice bet *)

\* The last term of the growth makes up for a division that gives 0.
LEMMA IncreasePositive ==
    ASSUME NEW p \in Nat, p >= 1, NEW n \in Nat, n >= 1, NEW m \in Nat, m >= 1
    PROVE  Increase(p, n, m) \in Nat /\ Increase(p, n, m) >= 1
<1> DEFINE a == p \div 10
           b == (p * 2 - 1) \div 20
<1>1. a \in Nat /\ b \in Nat /\ (a = 0 => b = 0)
  BY SMT
<1> HIDE DEF a, b
<1>2. a * n \in Nat /\ b * m \in Nat
  BY <1>1, SMT
<1>3. CASE a = 0
  <2>1. a * n = 0 /\ b * m = 0
    BY <1>1, <1>3, SMT
  <2> QED BY <2>1 DEF Increase, a, b
<1>4. CASE a # 0
  <2>1. a * n >= 1
    BY <1>1, <1>4, SMT
  <2> QED BY <1>2, <2>1 DEF Increase, a, b
<1> QED BY <1>3, <1>4

\* Whether the last term is 0 does not depend on a count that is not 0.
LEMMA IncreaseAnyCount ==
    ASSUME NEW p \in Nat, NEW n \in Nat,
           NEW m \in Nat, m >= 1, NEW k \in Nat, k >= 1, p >= 1
    PROVE  Increase(p, n, m) = Increase(p, n, k)
<1> DEFINE b == (p * 2 - 1) \div 20
<1>1. b \in Nat
  BY SMT
<1> HIDE DEF b
<1>2. (b * m = 0) <=> (b * k = 0)
  BY <1>1, SMT
<1> QED BY <1>2 DEF Increase, b

LEMMA RateType == ASSUME NEW c PROVE Rate(c) \in Nat /\ Rate(c) >= 1
  BY DEF Rate

\* A won roll from a table above 0 leads to a higher one.
LEMMA GrownAbove ==
    ASSUME NEW c, NEW t \in Nat, t >= 1, NEW n \in Nat, n >= 1
    PROVE  /\ Grown(c, t, n) \in Nat
           /\ Grown(c, t, n) > t
           /\ Forecast(c, t, n) \in Nat
           /\ Forecast(c, t, n) = Grown(c, t, n + 1)
<1> DEFINE p == Rate(c) * t
<1>1. p \in Nat /\ p >= 1
  BY RateType, SMT
<1> HIDE DEF p
<1>2. Increase(p, n, n) \in Nat /\ Increase(p, n, n) >= 1
  BY <1>1, IncreasePositive
<1>3. Increase(p, n + 1, n) \in Nat
  BY <1>1, IncreasePositive
<1>4. Increase(p, n + 1, n) = Increase(p, n + 1, n + 1)
  BY <1>1, IncreaseAnyCount
<1> QED BY <1>2, <1>3, <1>4 DEF Grown, Forecast, p

LEMMA BaseType == bet \in Stakes => Base \in Nat /\ Base >= 1
  BY DiceAssumption, SMT DEF Base

---------------------------------------------------------------------------
\* Until the first choice there is nothing but the menu to press.
MenuFirst ==
    count = 0 => /\ clicks["go"] = 0
                 /\ clicks["stop"] = 0
                 /\ shown = Choices
                 /\ settled = << >>

\* While a round runs, its table is above the floor and its message promises
\* what the next won roll will make of it.
Promised ==
    count > 0 /\ settled = << >> => /\ table > Base
                                    /\ forecast = Grown(choice, table, count + 1)

Inv == TypeOK /\ MenuFirst /\ Promised

LEMMA InitInv == Init => Inv
<1> SUFFICES ASSUME Init PROVE Inv
  OBVIOUS
<1> USE DiceAssumption DEF Init
<1>1. TypeOK
  BY DEF TypeOK, Presses
<1>2. MenuFirst /\ Promised
  BY DEF MenuFirst, Promised, Presses, Choices
<1> QED BY <1>1, <1>2 DEF Inv

\* A roll from a table that is not below the floor.
LEMMA RollInv ==
    ASSUME Inv, NEW c \in Choices, NEW t \in Nat, t >= Base,
           bet' = bet, choice' = c, clicks' \in [Presses -> 0..MaxPress],
           settled = << >>, Roll(c, t)
    PROVE  Inv'
<1>1. count' \in 1..MaxRolls /\ count' = count + 1
  BY DiceAssumption DEF Inv, TypeOK, Roll
<1>2. Base' = Base /\ Base \in Nat /\ Base >= 1
  BY BaseType DEF Inv, TypeOK, Base
<1>3. CASE Won(c, t)
  <2>1. table' \in Nat /\ table' > t
    BY <1>1, <1>2, <1>3, GrownAbove DEF Won
  <2>2. forecast' \in Nat /\ forecast' = Grown(c, table', count' + 1)
    BY <1>1, <1>2, <1>3, <2>1, GrownAbove DEF Won
  <2>3. TypeOK'
    BY <1>1, <1>3, <2>1, <2>2 DEF Inv, TypeOK, Won, Presses
  <2>4. Promised'
    BY <1>2, <2>1, <2>2 DEF Promised
  <2> QED BY <1>1, <2>3, <2>4 DEF Inv, MenuFirst
<1>4. CASE Lost(t)
  <2>1. TypeOK'
    BY <1>1, <1>4, DiceAssumption DEF Inv, TypeOK, Lost
  <2>2. settled' # << >>
    BY <1>4 DEF Lost
  <2> QED BY <1>1, <2>1, <2>2 DEF Inv, MenuFirst, Promised
<1> QED BY <1>3, <1>4 DEF Roll

LEMMA DeliverType ==
    ASSUME TypeOK, NEW p \in Presses, Deliver(p)
    PROVE  clicks' \in [Presses -> 0..MaxPress] /\ bet' = bet /\ settled = << >>
  BY DiceAssumption DEF TypeOK, Deliver

LEMMA NextInv == Inv /\ [Next]_vars => Inv'
<1> SUFFICES ASSUME Inv, [Next]_vars PROVE Inv'
  OBVIOUS
<1> USE DEF Inv
<1>1. ASSUME NEW p \in Presses, Press(p) PROVE Inv'
  <2>1. TypeOK'
    BY <1>1, DiceAssumption DEF Press, TypeOK
  <2>2. MenuFirst'
    BY <1>1 DEF Press, TypeOK, MenuFirst, Presses, Choices
  <2>3. Promised'
    BY <1>1 DEF Press, Promised, Base
  <2> QED BY <2>1, <2>2, <2>3
<1>2. CASE Go
  <2>1. "go" \in Presses
    BY DEF Presses
  <2>2. count > 0
    BY <1>2, DiceAssumption DEF Go, Deliver, MenuFirst, TypeOK
  <2>3. choice \in Choices /\ table \in Nat
    BY <2>2 DEF TypeOK
  <2>4. clicks' \in [Presses -> 0..MaxPress] /\ bet' = bet /\ settled = << >>
    BY <1>2, <2>1, DeliverType DEF Go
  <2>5. table >= Base
    BY <2>2, <2>4, BaseType DEF Promised, TypeOK
  <2> QED BY <1>2, <2>3, <2>4, <2>5, RollInv DEF Go
<1>3. CASE Stop
  <2>1. "stop" \in Presses
    BY DEF Presses
  <2>2. clicks' \in [Presses -> 0..MaxPress] /\ bet' = bet
    BY <1>3, <2>1, DeliverType DEF Stop
  <2>3. TypeOK'
    BY <1>3, <2>2, DiceAssumption DEF Stop, TypeOK
  <2>4. count > 0
    BY <1>3, DiceAssumption DEF Stop, Deliver, MenuFirst, TypeOK
  <2>5. count' > 0 /\ settled' # << >>
    BY <1>3, <2>4 DEF Stop
  <2> QED BY <2>3, <2>5 DEF MenuFirst, Promised
<1>4. ASSUME NEW c \in Choices, Start(c) PROVE Inv'
  <2>1. c \in Presses
    BY DEF Presses
  <2>2. clicks' \in [Presses -> 0..MaxPress] /\ bet' = bet /\ settled = << >>
    BY <1>4, <2>1, DeliverType DEF Start
  <2>3. Base \in Nat
    BY BaseType DEF TypeOK
  <2>4. Base >= Base
    BY <2>3
  <2> QED BY <1>4, <2>2, <2>3, <2>4, RollInv DEF Start
<1>5. CASE UNCHANGED vars
  BY <1>5 DEF vars, TypeOK, MenuFirst, Promised, Base
<1> QED BY <1>1, <1>2, <1>3, <1>4, <1>5 DEF Next, Process

LEMMA InvHolds == Spec => []Inv
  BY InitInv, NextInv, PTL DEF Spec

---------------------------------------------------------------------------
\* The round keeps its types: no count, table or promise leaves the integers
\* from 0 on.
THEOREM TypeCorrect == Spec => []TypeOK
<1>1. Inv => TypeOK
  BY DEF Inv
<1> QED BY <1>1, InvHolds, PTL

\* The table of a running round is above seven tenths of the bet.
THEOREM TableAboveFloor == Spec => []FloorKept
<1>1. Inv => FloorKept
  BY DEF Inv, Promised, FloorKept
<1> QED BY <1>1, InvHolds, PTL

\* What a "go" that goes on does to the table.
LEMMA WonGoStep ==
    ASSUME Inv, [Next]_vars, WonGo
    PROVE  table' = forecast /\ table' > table
<1>1. Go
  <2>1. ASSUME NEW p \in Presses, Press(p) PROVE FALSE
    BY <2>1 DEF Press, WonGo, Inv, TypeOK, Presses
  <2>2. ASSUME NEW c \in Choices, Start(c) PROVE FALSE
    <3>1. c # "go" /\ "go" \in Presses
      BY DEF Choices, Presses
    <3> QED BY <2>2, <3>1 DEF Start, Deliver, WonGo, Inv, TypeOK
  <2>3. ~Stop
    BY DEF Stop, WonGo
  <2>4. ~UNCHANGED vars
    BY DEF vars, WonGo, Inv, TypeOK, Presses
  <2> QED BY <2>1, <2>2, <2>3, <2>4 DEF Next, Process
<1>2. count > 0 /\ settled = << >>
  BY <1>1, DiceAssumption DEF Go, Deliver, Inv, MenuFirst, TypeOK
<1>3. table > Base /\ forecast = Grown(choice, table, count + 1)
  BY <1>2 DEF Inv, Promised
<1>4. table \in Nat /\ table >= 1 /\ count + 1 \in Nat /\ count + 1 >= 1
  BY <1>2, <1>3, BaseType, DiceAssumption DEF Inv, TypeOK
<1>5. Grown(choice, table, count + 1) > table
  BY <1>4, GrownAbove
<1>6. table' = Grown(choice, table, count + 1)
  BY <1>1 DEF Go, Roll, Won, Lost, WonGo
<1> QED BY <1>3, <1>5, <1>6

\* The message's promise is kept by the next won roll.
THEOREM PromiseKept == Spec => ForecastKept
<1>1. Inv /\ [Next]_vars => [WonGo => table' = forecast]_vars
  BY WonGoStep
<1> QED BY <1>1, InvHolds, PTL DEF Spec, ForecastKept

\* Every won roll pays, for all bets, rates and counts.
THEOREM EveryWinGrows == Spec => WinsGrow
<1>1. Inv /\ [Next]_vars => [WonGo => table' > table]_vars
  BY WonGoStep
<1> QED BY <1>1, InvHolds, PTL DEF Spec, WinsGrow

---------------------------------------------------------------------------
\* The most that a table holds after n won rolls of seven, when the bet is 4000 at most.
Most(n) ==
    CASE n = 0 -> 2800
      [] n = 1 -> 4761
      [] n = 2 -> 11426
      [] n = 3 -> 35421
      [] n = 4 -> 134598
      [] n = 5 -> 605689
      [] n = 6 -> 3149582
      [] n = 7 -> 18582532
      [] OTHER -> 122644709

WithinMost ==
    /\ forecast <= Most(8)
    /\ settled = << >> => table <= Most(count)

\* A term of the growth, from a table that is not above the most.
LEMMA IncreaseMost ==
    ASSUME NEW p \in Nat, NEW q \in Nat, p <= q, NEW n \in Nat, NEW m \in Nat
    PROVE  Increase(p, n, m) <= (q \div 10) * n + 1
<1> DEFINE a == p \div 10
           b == q \div 10
<1>1. a \in Nat /\ b \in Nat /\ a <= b
  BY SMT
<1> HIDE DEF a, b
<1>2. a * n <= b * n /\ a * n \in Nat /\ b * n \in Nat
  BY <1>1, SMT
<1> QED BY <1>2 DEF Increase, a, b

LEMMA GrownMost ==
    ASSUME NEW c, NEW n \in 1..8, NEW t \in Nat, t <= Most(n - 1), NEW m \in Nat
    PROVE  t + Increase(Rate(c) * t, n, m) <= Most(n)
<1> DEFINE s == Most(n - 1)
<1>1. s \in Nat
  BY DEF Most
<1> HIDE DEF s
<1>2. Rate(c) * t \in Nat /\ Rate(c) * t <= 7 * s
  <2>1. Rate(c) \in {1, 2, 5, 7} BY DEF Rate
  <2> QED BY <1>1, <2>1 DEF s
<1>3. Increase(Rate(c) * t, n, m) <= ((7 * s) \div 10) * n + 1
  BY <1>1, <1>2, IncreaseMost
<1>4. Increase(Rate(c) * t, n, m) \in Int
  BY <1>2 DEF Increase
<1>5. s + ((7 * s) \div 10) * n + 1 <= Most(n)
  BY DEF s, Most
<1>6. ((7 * s) \div 10) * n \in Int /\ Most(n) \in Int
  BY <1>1 DEF Most
<1> QED BY <1>1, <1>3, <1>4, <1>5, <1>6 DEF s

LEMMA GrownNat ==
    ASSUME NEW c, NEW t \in Nat, NEW n \in Nat, NEW m \in Nat
    PROVE  t + Increase(Rate(c) * t, n, m) \in Nat
<1> DEFINE p == Rate(c) * t
           a == p \div 10
           b == (p * 2 - 1) \div 20
<1>1. p \in Nat
  BY RateType
<1> HIDE DEF p
<1>2. a \in Nat /\ b \in Int
  BY <1>1
<1> HIDE DEF a, b
<1>3. a * n \in Nat
  BY <1>2
<1> QED BY <1>3 DEF Increase, a, b, p

LEMMA MostGrows == ASSUME NEW n \in 0..8 PROVE 2800 <= Most(n) /\ Most(n) <= Most(8)
BY DEF Most

LEMMA RollMost ==
    ASSUME Inv, WithinMost, NEW c, NEW t \in Nat, t <= Most(count), MaxRolls <= 7, Roll(c, t)
    PROVE  WithinMost'
<1>1. PICK n \in 1..7 : n = count' /\ n - 1 = count
  BY DiceAssumption DEF Roll, Inv, TypeOK
<1>2. n \in Nat /\ n + 1 \in 1..8 /\ (n + 1) - 1 = n
  OBVIOUS
<1>3. CASE Won(c, t)
  <2>1. table' = t + Increase(Rate(c) * t, n, n)
    BY <1>1, <1>3 DEF Won, Grown
  <2>2. table' <= Most(n)
    BY <1>1, <1>2, <2>1, GrownMost
  <2>3. table' \in Nat
    BY <1>2, <2>1, GrownNat
  <2>4. forecast' = table' + Increase(Rate(c) * table', n + 1, n)
    BY <1>1, <1>3 DEF Won, Forecast
  <2>5. forecast' <= Most(n + 1)
    BY <1>2, <2>2, <2>3, <2>4, GrownMost
  <2>6. forecast' \in Int /\ Most(n + 1) \in Int /\ Most(8) \in Int
    <3>1. forecast' \in Nat
      BY <1>2, <2>3, <2>4, GrownNat
    <3>2. Most(n + 1) \in Int /\ Most(8) \in Int
      BY DEF Most
    <3> QED BY <3>1, <3>2
  <2>7. forecast' <= Most(8)
    BY <1>2, <2>5, <2>6, MostGrows
  <2> QED BY <1>1, <2>2, <2>7 DEF WithinMost
<1>4. CASE Lost(t)
  BY <1>4 DEF Lost, WithinMost
<1> QED BY <1>3, <1>4 DEF Roll

\* With bets of 4000 at most and seven rolls, no product of the handler of the next
\* roll leaves the int of 32 bits.
THEOREM RollsFitTheInt ==
    ASSUME MaxRolls <= 7, \A s \in Stakes : s <= 4000
    PROVE  Spec => []FitsInt
<1>1. Init => WithinMost
  BY DEF Init, WithinMost, Most
<1>2. Inv /\ WithinMost /\ [Next]_vars => WithinMost'
  <2> SUFFICES ASSUME Inv, WithinMost, [Next]_vars PROVE WithinMost'
    OBVIOUS
  <2>1. CASE UNCHANGED <<forecast, count, table, settled>>
    BY <2>1 DEF WithinMost
  <2>2. ASSUME NEW p \in Presses, Press(p) PROVE WithinMost'
    BY <2>1, <2>2 DEF Press
  <2>3. CASE Stop
    BY <2>3 DEF Stop, WithinMost
  <2>4. CASE Go
    <3>1. count > 0 /\ settled = << >>
      BY <2>4, DiceAssumption DEF Go, Deliver, Inv, MenuFirst, TypeOK
    <3>2. table \in Nat /\ table <= Most(count)
      BY <3>1 DEF Inv, TypeOK, WithinMost
    <3> QED BY <2>4, <3>2, RollMost DEF Go
  <2>5. ASSUME NEW c \in Choices, Start(c) PROVE WithinMost'
    <3>1. Base \in Nat /\ Base <= 2800
      BY DiceAssumption DEF Inv, TypeOK, Base
    <3>2. count \in 0..8
      BY DiceAssumption DEF Inv, TypeOK
    <3>3. Most(count) \in Int
      BY <3>2 DEF Most
    <3>4. Base <= Most(count)
      BY <3>1, <3>2, <3>3, MostGrows
    <3> QED BY <2>5, <3>1, <3>4, RollMost DEF Start
  <2> QED BY <2>1, <2>2, <2>3, <2>4, <2>5 DEF Next, Process, vars
<1>3. Inv /\ WithinMost => FitsInt
  BY DEF Inv, TypeOK, WithinMost, Most, FitsInt
<1> QED BY <1>1, <1>2, <1>3, InvHolds, InitInv, NextInv, PTL DEF Spec

---------------------------------------------------------------------------
\* A round that ends does so as SoloRound says: the stake lost, or a prize.
LEMMA RoundStep ==
    ASSUME Inv, [Next]_vars
    PROVE  [Round!RoundNext]_<<bet, IF settled = << >> THEN 0 ELSE settled[1], settled # << >> >>
<1> DEFINE gain == IF settled = << >> THEN 0 ELSE settled[1]
           over == settled # << >>
<1>1. CASE UNCHANGED <<bet, settled>>
  BY <1>1
<1>2. ASSUME NEW t, Lost(t), settled = << >>, bet' = bet PROVE Round!Lose
  BY <1>2 DEF Lost, Round!Lose, Round!End
<1>3. ASSUME NEW c, NEW t, Roll(c, t), settled = << >>, bet' = bet
      PROVE  UNCHANGED <<bet, settled>> \/ Round!Lose
  BY <1>2, <1>3 DEF Roll, Won
<1>4. CASE Stop
  <2>1. gain' = table - bet /\ settled = << >> /\ bet' = bet /\ settled' # << >>
    BY <1>4 DEF Stop, Deliver
  <2>2. gain' + bet >= 0
    BY <2>1, DiceAssumption DEF Inv, TypeOK
  <2> QED BY <2>1, <2>2 DEF Round!RoundNext, Round!Win, Round!End
<1>5. CASE Go
  BY <1>1, <1>3, <1>5 DEF Go, Deliver, Round!RoundNext
<1>6. ASSUME NEW c \in Choices, Start(c) PROVE UNCHANGED <<bet, settled>> \/ Round!Lose
  BY <1>3, <1>6 DEF Start, Deliver
<1>7. ASSUME NEW p \in Presses, Press(p) PROVE UNCHANGED <<bet, settled>>
  BY <1>7 DEF Press
<1>8. CASE UNCHANGED vars
  BY <1>1, <1>8 DEF vars
<1> QED BY <1>1, <1>4, <1>5, <1>6, <1>7, <1>8 DEF Next, Process, Round!RoundNext

\* The round does to the session what SoloSession lets it do.
THEOREM RoundImplementsSoloRound == Spec => RoundRefinement
<1>1. Init => Round!RoundInit
  BY DEF Init, Round!RoundInit
<1> QED BY <1>1, RoundStep, InvHolds, PTL DEF Spec, RoundRefinement, Round!RoundSpec

---------------------------------------------------------------------------
(* The guessing game *)

LEMMA DifType == Dif \in Nat /\ Dif >= 1
<1>1. Cardinality(Digits) \in Nat BY AacAssumption, FS_CardinalityType
<1> QED BY <1>1, AacAssumption

LEMMA Places == IsFiniteSet(1..Dif) /\ Cardinality(1..Dif) = Dif
BY DifType, FS_Interval

\* What is counted as strikes is what the rules call so.
LEMMA StrikesAreRight ==
    ASSUME NEW v PROVE Strikes(v) = {k \in 1..Dif : v[k] = answer[k]}
BY DEF Strikes, Visited

LEMMA PartsAreFinite ==
    ASSUME NEW v
    PROVE  /\ IsFiniteSet(Strikes(v)) /\ Cardinality(Strikes(v)) \in Nat
           /\ IsFiniteSet(Balls(v)) /\ Cardinality(Balls(v)) \in Nat
           /\ IsFiniteSet(Outs(v)) /\ Cardinality(Outs(v)) \in Nat
<1>1. Strikes(v) \subseteq 1..Dif /\ Balls(v) \subseteq 1..Dif /\ Outs(v) \subseteq 1..Dif
  BY DEF Strikes, Balls, Outs
<1>2. IsFiniteSet(Strikes(v)) /\ IsFiniteSet(Balls(v)) /\ IsFiniteSet(Outs(v))
  BY <1>1, Places, FS_Subset
<1> QED BY <1>2, FS_CardinalityType

\* All strikes is the answer.
LEMMA AllStrikes ==
    ASSUME NEW v \in Texts, answer \in Texts PROVE (Result(v).str = Dif) <=> (v = answer)
<1>1. Result(v).str = Cardinality(Strikes(v)) BY DEF Result
<1>2. ASSUME v = answer PROVE Result(v).str = Dif
  <2>1. Strikes(v) = 1..Dif BY <1>2, StrikesAreRight
  <2> QED BY <1>1, <2>1, Places
<1>3. ASSUME Result(v).str = Dif PROVE v = answer
  <2>1. Strikes(v) \subseteq 1..Dif BY DEF Strikes
  <2>2. Cardinality(Strikes(v)) = Cardinality(1..Dif) BY <1>1, <1>3, Places
  <2>3. Strikes(v) = 1..Dif BY <2>1, <2>2, Places, FS_Subset
  <2>4. \A k \in 1..Dif : v[k] = answer[k]
    <3> TAKE k \in 1..Dif
    <3>1. k \in Strikes(v) BY <2>3
    <3> QED BY <3>1, StrikesAreRight
  <2>5. v = [k \in 1..Dif |-> v[k]] /\ answer = [k \in 1..Dif |-> answer[k]] BY DEF Texts
  <2> QED BY <2>4, <2>5, Zenon
<1> QED BY <1>2, <1>3

\* Of two texts without a digit twice, each common digit is a strike or a ball.
LEMMA CommonDigits ==
    ASSUME NEW v \in Texts, Distinct(v), answer \in Texts
    PROVE  Cardinality(Strikes(v)) + Cardinality(Balls(v))
               = Cardinality({d \in Digits : d \in Visited /\ \E k \in 1..Dif : v[k] = d})
<1> DEFINE common == {d \in Digits : d \in Visited /\ \E k \in 1..Dif : v[k] = d}
           hits == {i \in 1..Dif : v[i] \in Visited}
           f == [i \in hits |-> v[i]]
<1>1. hits = Strikes(v) \cup Balls(v) /\ Strikes(v) \cap Balls(v) = {}
  <2>1. \A i \in 1..Dif : v[i] = answer[i] => v[i] \in Visited BY DEF Visited
  <2> QED BY <2>1 DEF Strikes, Balls
<1>2. IsFiniteSet(hits) /\ Cardinality(hits) = Cardinality(Strikes(v)) + Cardinality(Balls(v))
  <2>1. Cardinality(Strikes(v) \cap Balls(v)) = 0 BY <1>1, FS_EmptySet
  <2>2. /\ IsFiniteSet(Strikes(v) \cup Balls(v))
        /\ Cardinality(Strikes(v) \cup Balls(v))
              = Cardinality(Strikes(v)) + Cardinality(Balls(v)) - Cardinality(Strikes(v) \cap Balls(v))
    BY PartsAreFinite, FS_Union
  <2> QED BY <1>1, <2>1, <2>2, PartsAreFinite
<1>3. f \in Bijection(hits, common)
  <2>1. \A i \in hits : v[i] \in common BY DEF Texts
  <2>2. f \in [hits -> common] BY <2>1
  <2>3. \A i, j \in hits : f[i] = f[j] => i = j BY DEF Distinct, Texts
  <2>4. \A d \in common : \E i \in hits : f[i] = d OBVIOUS
  <2> QED BY <2>2, <2>3, <2>4, Fun_IsBij
<1>4. ExistsBijection(hits, common) BY <1>3, Fun_ExistsBij
<1> HIDE DEF hits, common
<1>5. Cardinality(common) = Cardinality(hits) BY <1>2, <1>4, FS_Bijection
<1> QED BY <1>2, <1>5 DEF common

\* Every place is a strike, a ball or an out.
LEMMA PartsAreAll ==
    ASSUME NEW v PROVE Cardinality(Strikes(v)) + Cardinality(Balls(v)) + Cardinality(Outs(v)) = Dif
<1> DEFINE S == Strikes(v)
           B == Balls(v)
           O == Outs(v)
<1>1. S \cap B = {} /\ (S \cup B) \cap O = {} /\ (S \cup B) \cup O = 1..Dif
  BY DEF Strikes, Balls, Outs
<1>2. /\ IsFiniteSet(S) /\ Cardinality(S) \in Nat
      /\ IsFiniteSet(B) /\ Cardinality(B) \in Nat
      /\ IsFiniteSet(O) /\ Cardinality(O) \in Nat
  BY PartsAreFinite
<1> HIDE DEF S, B, O
<1>3. Cardinality(S \cap B) = 0 /\ Cardinality((S \cup B) \cap O) = 0
  BY <1>1, FS_EmptySet
<1>4. IsFiniteSet(S \cup B) /\ Cardinality(S \cup B) = Cardinality(S) + Cardinality(B) - Cardinality(S \cap B)
  BY <1>2, FS_Union
<1>5. Cardinality((S \cup B) \cup O) = Cardinality(S \cup B) + Cardinality(O) - Cardinality((S \cup B) \cap O)
  BY <1>2, <1>4, FS_Union
<1>6. Cardinality(S \cup B) = Cardinality(S) + Cardinality(B) BY <1>2, <1>3, <1>4
<1>7. Cardinality((S \cup B) \cup O) = Cardinality(S) + Cardinality(B) + Cardinality(O)
  BY <1>2, <1>3, <1>5, <1>6
<1>8. Cardinality((S \cup B) \cup O) = Dif BY <1>1, Places
<1>9. Cardinality(S) + Cardinality(B) + Cardinality(O) = Dif BY <1>7, <1>8
<1> QED BY <1>9 DEF S, B, O

---------------------------------------------------------------------------
LEMMA PrizeType ==
    ASSUME betting \in AacBets, NEW turn \in 1..MaxTurns PROVE Prize(turn) \in Nat
<1> DEFINE rate == PayRate[turn]
<1>1. rate \in Nat /\ betting \in Nat BY AacAssumption
<1> HIDE DEF rate
<1>2. betting * rate \in Nat BY <1>1, SMT
<1> DEFINE product == betting * rate
<1>3. product \in Nat BY <1>2
<1> HIDE DEF product
<1>4. product \div 1000 \in Nat BY <1>3, SMT
<1> QED BY <1>4 DEF Prize, product, rate

LEMMA AacInitType == AacInit => AacTypeOK
<1> SUFFICES ASSUME AacInit PROVE AacTypeOK
  OBVIOUS
<1>1. history \in Seq({v \in Texts : Distinct(v)}) /\ Len(history) = 0
  BY EmptySeq DEF AacInit
<1>2. aacSettled \in Seq(Int)
  BY EmptySeq DEF AacInit
<1>3. answer \in Texts /\ Distinct(answer) /\ betting \in AacBets BY DEF AacInit
<1> QED BY <1>1, <1>2, <1>3, AacAssumption DEF AacTypeOK

\* What a guess does: its text is the last of the history, and its prize the last
\* of what was settled.
LEMMA GuessDoes ==
    ASSUME AacTypeOK, NEW v \in Texts, Guess(v)
    PROVE  /\ history' \in Seq({u \in Texts : Distinct(u)})
           /\ Len(history') = Len(history) + 1
           /\ Len(history') \in 1..MaxTurns
           /\ history'[Len(history')] = v
           /\ betting \in Int
           /\ Prize(Len(history')) \in Nat
           /\ aacSettled' = IF v = answer THEN Append(aacSettled, Prize(Len(history')) - betting)
                            ELSE aacSettled
<1> DEFINE Good == {u \in Texts : Distinct(u)}
<1>1. v \in Good /\ history \in Seq(Good) /\ history' = Append(history, v)
  BY DEF AacTypeOK, Guess, Accepted
<1> HIDE DEF Good
<1>2. history' \in Seq(Good) /\ Len(history') = Len(history) + 1 /\ history'[Len(history) + 1] = v
  BY <1>1, AppendProperties
<1>3. Len(history) \in Nat BY <1>1, LenProperties
<1>4. Len(history') \in 1..MaxTurns
  <2>1. Len(history) < MaxTurns /\ MaxTurns \in Nat BY AacAssumption DEF Guess
  <2> QED BY <1>2, <1>3, <2>1
<1>5. betting \in Int /\ Prize(Len(history')) \in Nat
  <2>1. betting \in AacBets /\ betting \in Int BY AacAssumption DEF AacTypeOK
  <2> QED BY <1>4, <2>1, PrizeType
<1>6. aacSettled' = IF v = answer THEN Append(aacSettled, Prize(Len(history')) - betting)
                    ELSE aacSettled
  BY DEF Guess, IsRight
<1> QED BY <1>2, <1>4, <1>5, <1>6 DEF Good

LEMMA GuessType == ASSUME AacTypeOK, NEW v \in Texts, Guess(v) PROVE AacTypeOK'
<1> DEFINE Good == {u \in Texts : Distinct(u)}
           won == Prize(Len(history')) - betting
<1>1. history' \in Seq(Good) /\ Len(history') <= MaxTurns
  BY GuessDoes, AacAssumption
<1>2. won \in Int
  <2>1. Prize(Len(history')) \in Nat /\ betting \in Int BY GuessDoes
  <2> QED BY <2>1
<1>3. aacSettled' \in {aacSettled, Append(aacSettled, won)}
  BY GuessDoes
<1> HIDE DEF won, Good
<1>4. aacSettled' \in Seq(Int)
  <2>1. aacSettled \in Seq(Int) BY DEF AacTypeOK
  <2>2. Append(aacSettled, won) \in Seq(Int) BY <1>2, <2>1, AppendProperties
  <2> QED BY <1>3, <2>1, <2>2
<1>5. betting' = betting /\ answer' = answer BY DEF Guess
<1> QED BY <1>1, <1>4, <1>5 DEF AacTypeOK, Good

LEMMA QuitType == ASSUME AacTypeOK, Quit PROVE AacTypeOK'
<1>1. betting \in Int BY AacAssumption DEF AacTypeOK
<1>2. << 0 - betting >> \in Seq(Int) BY <1>1
<1> QED BY <1>2 DEF Quit, AacTypeOK

\* The round keeps its types, and what is drawn and accepted has no digit twice.
THEOREM AacTypeCorrect == AacSpec => []AacTypeOK
<1>1. AacTypeOK /\ [AacNext]_aacVars => AacTypeOK'
  <2>1. ASSUME AacTypeOK, UNCHANGED aacVars PROVE AacTypeOK'
    BY <2>1 DEF AacTypeOK, aacVars
  <2> QED BY <2>1, GuessType, QuitType DEF AacNext
<1> QED BY <1>1, AacInitType, PTL DEF AacSpec

\* The results that are shown are those of the rules, for every length of the
\* answer and every set of digits.
THEOREM ResultsAreRules == AacSpec => []ResultIsRules
<1>1. ASSUME AacTypeOK PROVE ResultIsRules
  <2> SUFFICES ASSUME NEW i \in 1..Len(history)
               PROVE  LET v == history[i]
                          common == {d \in Digits : d \in Visited /\ \E k \in 1..Dif : v[k] = d}
                      IN  /\ Result(v).str = Cardinality({k \in 1..Dif : v[k] = answer[k]})
                          /\ Result(v).str + Result(v).bll = Cardinality(common)
                          /\ Result(v).str + Result(v).bll + Result(v).out = Dif
    BY DEF ResultIsRules
  <2> DEFINE v == history[i]
  <2>1. v \in Texts /\ Distinct(v) /\ answer \in Texts
    <3>1. v \in {u \in Texts : Distinct(u)}
      BY <1>1, ElementOfSeq DEF AacTypeOK
    <3> QED BY <1>1, <3>1 DEF AacTypeOK
  <2> HIDE DEF v
  <2>2. /\ Result(v).str = Cardinality(Strikes(v))
        /\ Result(v).bll = Cardinality(Balls(v))
        /\ Result(v).out = Cardinality(Outs(v))
    BY DEF Result
  <2>3. Result(v).str = Cardinality({k \in 1..Dif : v[k] = answer[k]})
    BY <2>2, StrikesAreRight
  <2>4. Result(v).str + Result(v).bll
          = Cardinality({d \in Digits : d \in Visited /\ \E k \in 1..Dif : v[k] = d})
    BY <2>1, <2>2, CommonDigits
  <2>5. Result(v).str + Result(v).bll + Result(v).out = Dif
    BY <2>2, PartsAreAll
  <2> QED BY <2>3, <2>4, <2>5 DEF v
<1> QED BY <1>1, AacTypeCorrect, PTL

\* What a step does to the game: a guess, the end by the button, or nothing.
LEMMA AacSteps ==
    ASSUME AacTypeOK, [AacNext]_aacVars
    PROVE  \/ \E v \in Texts : Guess(v)
           \/ Quit
           \/ UNCHANGED aacVars
BY DEF AacNext

\* A guess is paid, with the prize of its turn, if and only if it is shown as all strikes,
\* before the end of the round and after it.
THEOREM StrikesWin == AacSpec => AllStrikesWin
<1> DEFINE Paid ==
        LET turn == Len(history')
        IN  IF history' # history
            THEN aacSettled' = IF Result(history'[turn]).str = Dif
                               THEN Append(aacSettled, Prize(turn) - betting)
                               ELSE aacSettled
            ELSE aacSettled' # aacSettled =>
                     aacSettled = << >> /\ aacSettled' = << 0 - betting >>
<1>1. ASSUME AacTypeOK, [AacNext]_aacVars PROVE [Paid]_aacVars
  <2>1. ASSUME NEW v \in Texts, Guess(v) PROVE Paid
    <3>1. /\ Len(history') = Len(history) + 1 /\ history'[Len(history')] = v
          /\ aacSettled' = IF v = answer THEN Append(aacSettled, Prize(Len(history')) - betting)
                           ELSE aacSettled
      BY <1>1, <2>1, GuessDoes
    <3>2. (Result(v).str = Dif) <=> (v = answer)
      BY <1>1, AllStrikes DEF AacTypeOK
    <3>3. history' # history
      <4>1. Len(history) \in Nat BY <1>1, LenProperties DEF AacTypeOK
      <4> QED BY <3>1, <4>1
    <3> QED BY <3>1, <3>2, <3>3
  <2>2. ASSUME Quit PROVE Paid
    BY <2>2 DEF Quit, Playing
  <2> QED BY <1>1, <2>1, <2>2, AacSteps
<1>2. AacTypeOK /\ [AacNext]_aacVars => [Paid]_aacVars
  BY <1>1
<1> QED BY <1>2, AacTypeCorrect, PTL DEF AacSpec, AllStrikesWin

LEMMA AacRoundStep ==
    ASSUME AacTypeOK, [AacNext]_aacVars
    PROVE  [AacAsRound!RoundNext]_<<betting,
                IF aacSettled = << >> THEN 0 ELSE aacSettled[Len(aacSettled)],
                aacSettled # << >> >>
<1> DEFINE gain == IF aacSettled = << >> THEN 0 ELSE aacSettled[Len(aacSettled)]
<1>1. CASE UNCHANGED <<betting, aacSettled>>
  BY <1>1
<1>2. CASE Quit
  <2>1. aacSettled = << >> /\ aacSettled' = << 0 - betting >> /\ betting' = betting
    BY <1>2 DEF Quit, Playing
  <2>2. aacSettled' # << >> /\ gain' = 0 - betting BY <2>1
  <2> QED BY <2>1, <2>2 DEF AacAsRound!RoundNext, AacAsRound!Lose, AacAsRound!End
<1>3. ASSUME NEW v \in Texts, Guess(v)
      PROVE  UNCHANGED <<betting, aacSettled>> \/ AacAsRound!Win \/ AacAsRound!WinAgain
  <2> DEFINE prize == Prize(Len(history'))
  <2>1. betting' = betting /\ betting \in Int /\ prize \in Nat
        /\ (aacSettled' = aacSettled \/ aacSettled' = Append(aacSettled, prize - betting))
    <3>1. betting' = betting BY <1>3 DEF Guess
    <3> QED BY <1>3, <3>1, GuessDoes
  <2> HIDE DEF prize
  <2>2. CASE aacSettled' = aacSettled BY <2>1, <2>2
  <2>3. CASE aacSettled' = Append(aacSettled, prize - betting)
    <3>1. aacSettled \in Seq(Int) BY DEF AacTypeOK
    <3>2. prize - betting \in Int BY <2>1
    <3>3. /\ Len(aacSettled') = Len(aacSettled) + 1
          /\ aacSettled'[Len(aacSettled) + 1] = prize - betting
          /\ Len(aacSettled) \in Nat
      BY <2>3, <3>1, <3>2, AppendProperties, LenProperties
    <3>4. aacSettled' # << >>
      <4>1. Len(aacSettled') # 0 BY <3>3
      <4> QED BY <4>1, EmptySeq
    <3>5. gain' = prize - betting BY <3>3, <3>4
    <3>6. gain' + betting >= 0 BY <2>1, <3>5
    <3>7. CASE aacSettled = << >>
      BY <2>1, <3>4, <3>6, <3>7 DEF AacAsRound!Win, AacAsRound!End
    <3>8. CASE aacSettled # << >>
      BY <2>1, <3>4, <3>6, <3>8 DEF AacAsRound!WinAgain
    <3> QED BY <3>7, <3>8
  <2> QED BY <2>1, <2>2, <2>3
<1>4. CASE UNCHANGED aacVars
  BY <1>1, <1>4 DEF aacVars
<1> QED BY <1>1, <1>2, <1>3, <1>4, AacSteps DEF AacAsRound!RoundNext

\* A round of the guessing game is a round as SoloSession takes it: it ends with the stake
\* lost or with a prize, and when it is over it can only be won once more.
THEOREM AacImplementsSoloRound == AacSpec => AacRefinement
<1>1. AacInit => AacAsRound!RoundInit
  BY DEF AacInit, AacAsRound!RoundInit
<1> QED BY <1>1, AacRoundStep, AacTypeCorrect, PTL DEF AacSpec, AacRefinement, AacAsRound!RoundSpec

---------------------------------------------------------------------------
(* The up-down games *)

\* A set of numbers that is not empty has a least member.
LEMMA LeastNat ==
    ASSUME NEW S \in SUBSET Nat, S # {}
    PROVE  \E n \in S : \A m \in S : n <= m
<1>1. PICK n \in S : \A m \in S : ~ (<< m, n >> \in OpToRel(<, Nat))
  BY NatLessThanWellFounded, WFMin
<1>2. \A m \in S : ~ (m < n)
  BY <1>1 DEF OpToRel
<1> QED BY <1>2

\* f is n with the digits of c behind it, one more at each place up to k.
Writes(f, n, c, k) ==
    /\ f \in [0..k -> Nat]
    /\ f[0] = n
    /\ \A i \in 1..k : f[i] = 10 * f[i - 1] + c[i]

LEMMA WritesExists ==
    ASSUME NEW n \in Nat, NEW len \in Nat, NEW c \in [1..len -> 0..9]
    PROVE  \E f : Writes(f, n, c, len)
<1> DEFINE P(k) == \E f : Writes(f, n, c, k)
           Bad == {k \in 0..len : ~P(k)}
<1>1. P(0)
  <2> DEFINE f == [k \in 0..0 |-> n]
  <2>1. f \in [0..0 -> Nat] /\ f[0] = n /\ 1..0 = {}
    OBVIOUS
  <2> HIDE DEF f
  <2> QED BY <2>1 DEF Writes
<1>2. ASSUME NEW k \in 0..len, k # 0, P(k - 1) PROVE P(k)
  <2>1. PICK f : Writes(f, n, c, k - 1)
    BY <1>2
  <2> DEFINE g == [i \in 0..k |-> IF i = k THEN 10 * f[k - 1] + c[k] ELSE f[i]]
  <2>2. f \in [0..(k - 1) -> Nat] /\ f[0] = n
        /\ \A i \in 1..(k - 1) : f[i] = 10 * f[i - 1] + c[i]
    BY <2>1 DEF Writes
  <2>3. k - 1 \in 0..(k - 1) /\ k \in 1..len
    BY <1>2
  <2>4. f[k - 1] \in Nat /\ c[k] \in Nat
    <3>1. f[k - 1] \in Nat BY <2>2, <2>3
    <3>2. c[k] \in 0..9 BY <2>3
    <3> QED BY <3>1, <3>2
  <2>5. g \in [0..k -> Nat]
    BY <1>2, <2>2, <2>4
  <2>6. g[0] = n /\ \A i \in 1..k : g[i] = 10 * g[i - 1] + c[i]
    BY <1>2, <2>2
  <2> HIDE DEF g
  <2> QED BY <2>5, <2>6 DEF Writes
<1>3. Bad = {}
  <2> SUFFICES ASSUME Bad # {} PROVE FALSE
    OBVIOUS
  <2>1. Bad \in SUBSET Nat
    OBVIOUS
  <2> HIDE DEF P
  <2>2. PICK k \in Bad : \A m \in Bad : k <= m
    BY <2>1, LeastNat
  <2>3. k \in 0..len /\ k # 0 /\ k - 1 \in 0..len /\ ~(k <= k - 1)
    BY <1>1, <2>2
  <2>4. P(k - 1)
    BY <2>2, <2>3
  <2> QED BY <1>2, <2>2, <2>3, <2>4
<1>4. P(len)
  <2>1. len \in 0..len
    OBVIOUS
  <2> HIDE DEF P
  <2> QED BY <1>3, <2>1
<1> QED BY <1>4

\* What is written is the same as long as the digits are.
LEMMA WritesSame ==
    ASSUME NEW n \in Nat, NEW k \in Nat, NEW c, NEW f, NEW d, NEW g,
           NEW len \in Nat, Writes(f, n, c, len), NEW size \in Nat, Writes(g, n, d, size),
           k <= len, k <= size, \A i \in 1..k : c[i] = d[i]
    PROVE  f[k] = g[k]
<1> DEFINE Bad == {l \in 0..k : f[l] # g[l]}
<1>1. Bad = {}
  <2> SUFFICES ASSUME Bad # {} PROVE FALSE
    OBVIOUS
  <2>1. PICK l \in Bad : \A m \in Bad : l <= m
    <3>1. Bad \in SUBSET Nat OBVIOUS
    <3> QED BY <3>1, LeastNat
  <2>2. l \in 1..k /\ l \in 1..len /\ l \in 1..size /\ l - 1 \in 0..k /\ ~(l <= l - 1)
    BY <2>1 DEF Writes
  <2>3. f[l - 1] = g[l - 1]
    BY <2>1, <2>2
  <2> QED BY <2>1, <2>2, <2>3 DEF Writes
<1> QED BY <1>1

\* The recursion of Written is well founded.
LEMMA WrittenIs ==
    ASSUME NEW n \in Nat, NEW text \in Seq(0..9)
    PROVE  \E f : Writes(f, n, text, Len(text)) /\ Written(n, text) = f[Len(text)]
<1> DEFINE len == Len(text)
           Step(f) == [k \in 0..len |-> IF k = 0 THEN n ELSE 10 * f[k - 1] + text[k]]
           upTo == CHOOSE f : f = Step(f)
<1>1. len \in Nat /\ text \in [1..len -> 0..9]
  OBVIOUS
<1>2. PICK s : Writes(s, n, text, len)
  BY <1>1, WritesExists
<1>3. s = Step(s)
  BY <1>1, <1>2 DEF Writes
<1>4. upTo = Step(upTo)
  BY <1>3
<1>5. Written(n, text) = upTo[len]
  BY DEF Written
<1> HIDE DEF upTo
<1>6. /\ upTo[0] = n
      /\ \A k \in 1..len : upTo[k] = 10 * upTo[k - 1] + text[k]
      /\ upTo = [k \in 0..len |-> upTo[k]]
  BY <1>1, <1>4
<1> DEFINE Bad == {k \in 0..len : upTo[k] \notin Nat}
<1>7. Bad = {}
  <2> SUFFICES ASSUME Bad # {} PROVE FALSE
    OBVIOUS
  <2>1. Bad \in SUBSET Nat
    BY <1>1
  <2>2. PICK k \in Bad : \A m \in Bad : k <= m
    BY <2>1, LeastNat
  <2>3. k \in 1..len /\ k - 1 \in 0..len /\ ~(k <= k - 1)
    BY <1>1, <1>6, <2>2
  <2>4. upTo[k - 1] \in Nat
    BY <2>2, <2>3
  <2>5. text[k] \in Nat
    BY <1>1, <2>3
  <2>6. upTo[k] \in Nat
    BY <1>6, <2>3, <2>4, <2>5
  <2> QED BY <2>2, <2>6
<1>8. upTo \in [0..len -> Nat]
  BY <1>6, <1>7
<1> QED BY <1>5, <1>6, <1>8 DEF Writes

\* Powers of ten are not 0.
LEMMA TensArePositive ==
    ASSUME NEW len \in Nat, NEW c, NEW p, Writes(p, 1, c, len), \A k \in 1..len : c[k] = 0
    PROVE  \A k \in 0..len : p[k] \in Nat \ {0}
<1> DEFINE Bad == {k \in 0..len : p[k] \notin Nat \ {0}}
<1> SUFFICES ASSUME Bad # {} PROVE FALSE
  OBVIOUS
<1>1. PICK k \in Bad : \A m \in Bad : k <= m
  <2>1. Bad \in SUBSET Nat OBVIOUS
  <2> QED BY <2>1, LeastNat
<1>2. k \in 1..len /\ k - 1 \in 0..len
  BY <1>1 DEF Writes
<1>3. p[k - 1] \in Nat \ {0}
  BY <1>1, <1>2
<1>4. p[k] = 10 * p[k - 1] + 0
  BY <1>2 DEF Writes
<1>5. p[k] \in Nat \ {0}
  BY <1>3, <1>4
<1> QED BY <1>1, <1>5

---------------------------------------------------------------------------
\* The long division of 31 by 7: each rest, ten times as much, is seven times the
\* next digit and the next rest.
Rest91(k) == <<3, 2, 6, 4, 5, 1>>[(k % 6) + 1]

Digit91(i) == <<4, 2, 8, 5, 7, 1>>[((i - 1) % 6) + 1]

LEMMA Division91 ==
    ASSUME NEW i \in Nat \ {0}
    PROVE  /\ Digit91(i) \in 0..9
           /\ Rest91(i) \in 1..6
           /\ 10 * Rest91(i - 1) = 7 * Digit91(i) + Rest91(i)
<1>1. (i - 1) % 6 \in 0..5 /\ i % 6 = IF (i - 1) % 6 = 5 THEN 0 ELSE ((i - 1) % 6) + 1
  OBVIOUS
<1> QED BY <1>1 DEF Digit91, Rest91

\* The first place in which two texts differ.
FirstDiffers(text, i) ==
    /\ i \in 1..Len(text)
    /\ text[i] # SecretDigit(i)
    /\ \A j \in 1..(i - 1) : text[j] = SecretDigit(j)

LEMMA DecimalVerdictIs ==
    ASSUME NEW text \in Seq(0..9)
    PROVE  /\ (\A j \in 1..Len(text) : text[j] = SecretDigit(j)) => DecimalVerdict(text) = "up"
           /\ \A i : FirstDiffers(text, i) =>
                 DecimalVerdict(text) = Compare(text[i], SecretDigit(i))
<1> DEFINE Differ == {i \in 1..Len(text) : text[i] # SecretDigit(i)}
<1>1. ASSUME \A j \in 1..Len(text) : text[j] = SecretDigit(j)
      PROVE  DecimalVerdict(text) = "up"
  <2>1. Differ = {} BY <1>1
  <2> QED BY <2>1 DEF DecimalVerdict
<1>2. ASSUME NEW i, FirstDiffers(text, i)
      PROVE  DecimalVerdict(text) = Compare(text[i], SecretDigit(i))
  <2> DEFINE first == CHOOSE k \in Differ : \A j \in Differ : k <= j
  <2>1. i \in Differ /\ \A j \in Differ : i <= j
    <3>1. i \in Differ BY <1>2 DEF FirstDiffers
    <3>2. ASSUME NEW j \in Differ PROVE i <= j
      <4>1. j \in Nat /\ i \in Nat /\ j \notin 1..(i - 1)
        BY <1>2, <3>2 DEF FirstDiffers
      <4>2. j >= 1
        BY <3>2
      <4> QED BY <4>1, <4>2
    <3> QED BY <3>1, <3>2
  <2>2. Differ \subseteq Nat
    OBVIOUS
  <2> HIDE DEF Differ
  <2>3. first \in Differ /\ \A j \in Differ : first <= j
    BY <2>1
  <2>4. first = i
    <3>1. first <= i /\ i <= first /\ first \in Nat /\ i \in Nat
      BY <2>1, <2>2, <2>3
    <3> HIDE DEF first
    <3> QED BY <3>1
  <2>5. DecimalVerdict(text) = Compare(text[first], SecretDigit(first))
    BY <2>1 DEF DecimalVerdict, Differ
  <2> QED BY <2>4, <2>5
<1> QED BY <1>1, <1>2

\* 31 against 7 times the number, in the units of the k-th place, when the first k
\* digits of a decimal are read.
Gap(p, v, k) == 31 * p[k] - 7 * v[k]

\* What is known by then: the digits are those of the secret so far, or the first
\* one that is not has decided, or the whole part has.
Weighed(n, text, p, v, k) ==
    \/ /\ n = 4
       /\ \A j \in 1..k : text[j] = SecretDigit(j)
       /\ Gap(p, v, k) = Rest91(k)
    \/ /\ n < 4 \/ (n = 4 /\ \E i \in 1..k : FirstDiffers(text, i) /\ text[i] < SecretDigit(i))
       /\ Gap(p, v, k) >= 8
    \/ /\ n > 4 \/ (n = 4 /\ \E i \in 1..k : FirstDiffers(text, i) /\ text[i] > SecretDigit(i))
       /\ Gap(p, v, k) <= 0 - 1

LEMMA WeighStep ==
    ASSUME asked.game = "91", NEW n \in Nat, NEW text \in Seq(0..9), NEW p, NEW v,
           Writes(p, 1, Zeros(text), Len(text)), Writes(v, n, text, Len(text)),
           NEW k \in 1..Len(text), Weighed(n, text, p, v, k - 1)
    PROVE  Weighed(n, text, p, v, k)
<1>1. /\ k - 1 \in 0..Len(text) /\ k \in Nat \ {0} /\ Len(text) \in Nat
      /\ p[k - 1] \in Nat /\ p[k] = 10 * p[k - 1]
      /\ v[k - 1] \in Nat /\ v[k] = 10 * v[k - 1] + text[k]
      /\ text[k] \in 0..9
  <2>1. Zeros(text)[k] = 0 BY DEF Zeros
  <2>2. k - 1 \in 0..Len(text) /\ k \in Nat \ {0} /\ text[k] \in 0..9 /\ Len(text) \in Nat
    OBVIOUS
  <2>3. p[k - 1] \in Nat /\ p[k] = 10 * p[k - 1] + 0
    BY <2>1, <2>2 DEF Writes
  <2>4. v[k - 1] \in Nat /\ v[k] = 10 * v[k - 1] + text[k]
    BY <2>2 DEF Writes
  <2> QED BY <2>2, <2>3, <2>4
<1>2. PICK t \in 0..9 : t = text[k]
  BY <1>1
<1>3. PICK g \in Int : g = Gap(p, v, k - 1) /\ Gap(p, v, k) = 10 * g - 7 * t
  <2>1. \A a, b \in Int : 31 * a - 7 * b \in Int
                          /\ 31 * (10 * a) - 7 * (10 * b + t) = 10 * (31 * a - 7 * b) - 7 * t
    OBVIOUS
  <2>2. PICK a, b \in Int : a = p[k - 1] /\ b = v[k - 1]
    BY <1>1
  <2>3. Gap(p, v, k - 1) = 31 * a - 7 * b /\ Gap(p, v, k) = 31 * (10 * a) - 7 * (10 * b + t)
    BY <1>1, <1>2, <2>2 DEF Gap
  <2> QED BY <2>1, <2>3
<1>4. PICK d \in 0..9, e \in 1..6 :
          SecretDigit(k) = d /\ Rest91(k) = e /\ 10 * Rest91(k - 1) = 7 * d + e
  <2>1. SecretDigit(k) = Digit91(k)
    BY DEF SecretDigit, Digit91
  <2> QED BY <1>1, <2>1, Division91
<1>5. CASE n = 4 /\ (\A j \in 1..(k - 1) : text[j] = SecretDigit(j)) /\ g = Rest91(k - 1)
  <2>1. Gap(p, v, k) = 7 * d + e - 7 * t
    BY <1>3, <1>4, <1>5
  <2>2. k \in 1..k /\ k \in 1..Len(text)
    BY <1>1
  <2>3. CASE t = d
    <3>1. \A j \in 1..k : text[j] = SecretDigit(j)
      <4>1. \A j \in 1..k : j \in 1..(k - 1) \/ j = k
        BY <1>1
      <4> QED BY <1>2, <1>4, <1>5, <2>3, <4>1
    <3>2. Gap(p, v, k) = Rest91(k)
      BY <1>4, <2>1, <2>3
    <3> QED BY <1>5, <3>1, <3>2 DEF Weighed
  <2>4. CASE t < d
    <3>1. FirstDiffers(text, k)
      BY <1>2, <1>4, <1>5, <2>2, <2>4 DEF FirstDiffers
    <3>2. 7 * d + e - 7 * t >= 8
      BY <2>4
    <3> QED BY <1>2, <1>4, <1>5, <2>1, <2>2, <2>4, <3>1, <3>2 DEF Weighed
  <2>5. CASE t > d
    <3>1. FirstDiffers(text, k)
      BY <1>2, <1>4, <1>5, <2>2, <2>5 DEF FirstDiffers
    <3>2. 7 * d + e - 7 * t <= 0 - 1
      BY <2>5
    <3> QED BY <1>2, <1>4, <1>5, <2>1, <2>2, <2>5, <3>1, <3>2 DEF Weighed
  <2> QED BY <2>3, <2>4, <2>5
<1>6. \A i \in 1..(k - 1) : i \in 1..k
  BY <1>1
<1>7. ASSUME g >= 8,
             n < 4 \/ (n = 4 /\ \E i \in 1..(k - 1) : FirstDiffers(text, i) /\ text[i] < SecretDigit(i))
      PROVE  Weighed(n, text, p, v, k)
  <2>1. Gap(p, v, k) >= 8
    BY <1>3, <1>7
  <2> QED BY <1>6, <1>7, <2>1 DEF Weighed
<1>8. ASSUME g <= 0 - 1,
             n > 4 \/ (n = 4 /\ \E i \in 1..(k - 1) : FirstDiffers(text, i) /\ text[i] > SecretDigit(i))
      PROVE  Weighed(n, text, p, v, k)
  <2>1. Gap(p, v, k) <= 0 - 1
    BY <1>3, <1>8
  <2> QED BY <1>6, <1>8, <2>1 DEF Weighed
<1> QED BY <1>3, <1>5, <1>7, <1>8 DEF Weighed

LEMMA WeighedAll ==
    ASSUME asked.game = "91", NEW n \in Nat, NEW text \in Seq(0..9), NEW p, NEW v,
           Writes(p, 1, Zeros(text), Len(text)), Writes(v, n, text, Len(text))
    PROVE  Weighed(n, text, p, v, Len(text))
<1> DEFINE Bad == {k \in 0..Len(text) : ~Weighed(n, text, p, v, k)}
<1>1. Weighed(n, text, p, v, 0)
  <2>1. p[0] = 1 /\ v[0] = n
    BY DEF Writes
  <2>2. Gap(p, v, 0) = 31 - 7 * n /\ Rest91(0) = 3
    BY <2>1 DEF Gap, Rest91
  <2> QED BY <2>2 DEF Weighed
<1>2. Bad = {}
  <2> SUFFICES ASSUME Bad # {} PROVE FALSE
    OBVIOUS
  <2>1. PICK k \in Bad : \A m \in Bad : k <= m
    <3>1. Bad \in SUBSET Nat OBVIOUS
    <3> QED BY <3>1, LeastNat
  <2>2. k \in 1..Len(text) /\ k - 1 \in 0..Len(text) /\ ~(k <= k - 1)
    BY <1>1, <2>1
  <2>3. Weighed(n, text, p, v, k - 1)
    BY <2>1, <2>2
  <2> QED BY <2>1, <2>2, <2>3, WeighStep
<1>3. Len(text) \in 0..Len(text)
  OBVIOUS
<1> QED BY <1>2, <1>3

\* What the first game says of a decimal.
LEMMA Decimal91 ==
    ASSUME asked.game = "91", NEW n \in Nat, NEW text \in Seq(0..9)
    PROVE  (IF n = 4 THEN DecimalVerdict(text) ELSE Compare(n, 4))
               = Compare(7 * Written(n, text), 31 * Written(1, Zeros(text)))
<1>1. Zeros(text) \in Seq(0..9) /\ Len(Zeros(text)) = Len(text)
  <2>1. Zeros(text) \in [1..Len(text) -> 0..9] /\ Len(text) \in Nat
    BY DEF Zeros
  <2> QED BY <2>1, SeqDef, LenProperties
<1>2. PICK v : Writes(v, n, text, Len(text)) /\ Written(n, text) = v[Len(text)]
  BY WrittenIs
<1>3. PICK p : Writes(p, 1, Zeros(text), Len(text)) /\ Written(1, Zeros(text)) = p[Len(text)]
  BY <1>1, WrittenIs
<1> DEFINE g == Gap(p, v, Len(text))
           V == Written(n, text)
           P == Written(1, Zeros(text))
<1>4. g = 31 * P - 7 * V /\ V \in Nat /\ P \in Nat
  BY <1>2, <1>3 DEF Gap, Writes
<1>5. /\ g > 0 => Compare(7 * V, 31 * P) = "up"
      /\ g < 0 => Compare(7 * V, 31 * P) = "down"
  <2> HIDE DEF g, V, P
  <2> QED BY <1>4 DEF Compare
<1>6. Weighed(n, text, p, v, Len(text))
  BY <1>2, <1>3, WeighedAll
<1>7. \A i \in 1..Len(text) : text[i] \in Int /\ SecretDigit(i) \in Int
  <2> TAKE i \in 1..Len(text)
  <2>1. SecretDigit(i) = Digit91(i) BY DEF SecretDigit, Digit91
  <2>2. Digit91(i) \in 0..9 BY Division91
  <2>3. text[i] \in 0..9 OBVIOUS
  <2> QED BY <2>1, <2>2, <2>3
<1>8. CASE n = 4 /\ (\A j \in 1..Len(text) : text[j] = SecretDigit(j)) /\ g = Rest91(Len(text))
  <2>1. Rest91(Len(text)) \in 1..6
    <3>1. Len(text) = 0 \/ Len(text) \in Nat \ {0} OBVIOUS
    <3>2. Rest91(0) = 3 BY DEF Rest91
    <3> QED BY <3>1, <3>2, Division91
  <2>2. DecimalVerdict(text) = "up"
    BY <1>8, DecimalVerdictIs
  <2> QED BY <1>5, <1>8, <2>1, <2>2
<1>9. CASE n < 4 /\ g >= 8
  <2>1. Compare(n, 4) = "up" BY <1>9 DEF Compare
  <2>2. g \in Int /\ g > 0 BY <1>4, <1>9
  <2> HIDE DEF g, V, P
  <2> QED BY <1>5, <1>9, <2>1, <2>2 DEF V, P
<1>10. CASE n > 4 /\ g <= 0 - 1
  <2>1. Compare(n, 4) = "down" BY <1>10 DEF Compare
  <2>2. g \in Int /\ g < 0 BY <1>4, <1>10
  <2> HIDE DEF g, V, P
  <2> QED BY <1>5, <1>10, <2>1, <2>2 DEF V, P
<1>11. ASSUME n = 4, g >= 8, NEW i \in 1..Len(text), FirstDiffers(text, i), text[i] < SecretDigit(i)
       PROVE  DecimalVerdict(text) = Compare(7 * V, 31 * P)
  <2>1. DecimalVerdict(text) = Compare(text[i], SecretDigit(i))
    BY <1>11, DecimalVerdictIs
  <2>2. Compare(text[i], SecretDigit(i)) = "up"
    BY <1>7, <1>11 DEF Compare
  <2>3. g \in Int /\ g > 0 BY <1>4, <1>11
  <2> HIDE DEF g, V, P
  <2> QED BY <1>5, <2>1, <2>2, <2>3
<1>12. ASSUME n = 4, g <= 0 - 1, NEW i \in 1..Len(text), FirstDiffers(text, i), text[i] > SecretDigit(i)
       PROVE  DecimalVerdict(text) = Compare(7 * V, 31 * P)
  <2>1. DecimalVerdict(text) = Compare(text[i], SecretDigit(i))
    BY <1>12, DecimalVerdictIs
  <2>2. Compare(text[i], SecretDigit(i)) = "down"
    BY <1>7, <1>12 DEF Compare
  <2>3. g \in Int /\ g < 0 BY <1>4, <1>12
  <2> HIDE DEF g, V, P
  <2> QED BY <1>5, <2>1, <2>2, <2>3
<1> QED BY <1>6, <1>8, <1>9, <1>10, <1>11, <1>12 DEF Weighed

---------------------------------------------------------------------------
\* The root of 2.

LEMMA ProductGrows ==
    \A a, b, c \in Nat : a <= b => a * c <= b * c
OBVIOUS

LEMMA ProductGrowsMore ==
    \A a, b, c \in Nat : a < b /\ c > 0 => a * c < b * c
OBVIOUS

LEMMA SquareOfProduct ==
    \A a, b \in Nat : (a * b) * (a * b) = (a * a) * (b * b)
OBVIOUS

\* A number a / b that is not above r / c is below the root if r / c is, and the same
\* above it.
LEMMA BelowRoot ==
    ASSUME NEW a \in Nat, NEW b \in Nat, NEW r \in Nat, NEW c \in Nat, b > 0,
           a * c <= r * b, r * r < 2 * c * c
    PROVE  a * a < 2 * b * b
<1> DEFINE A == a * a
           B == b * b
           C == c * c
           R == r * r
<1>1. A \in Nat /\ B \in Nat /\ C \in Nat /\ R \in Nat /\ B > 0
  <2>1. b * b > 0 OBVIOUS
  <2> QED BY <2>1
<1>2. A * C <= R * B
  <2> DEFINE x == a * c
             y == r * b
  <2>1. x \in Nat /\ y \in Nat /\ x <= y
    OBVIOUS
  <2> HIDE DEF x, y
  <2>2. x * x <= y * x /\ y * x <= y * y
    <3>1. x * x <= y * x BY <2>1, ProductGrows
    <3>2. x * y <= y * y BY <2>1, ProductGrows
    <3>3. x * y = y * x BY <2>1
    <3> QED BY <3>1, <3>2, <3>3
  <2>3. x * x = A * C
    BY SquareOfProduct DEF x
  <2>4. y * y = R * B
    BY SquareOfProduct DEF y
  <2>5. x * x \in Int /\ y * x \in Int /\ y * y \in Int
    BY <2>1
  <2> QED BY <2>2, <2>3, <2>4, <2>5
<1>3. R < 2 * C /\ 2 * b * b = 2 * B
  <2>1. 2 * c * c = 2 * (c * c) /\ 2 * b * b = 2 * (b * b) OBVIOUS
  <2> QED BY <2>1
<1> HIDE DEF A, B, C, R
<1>4. R * B < (2 * C) * B
  <2>1. 2 * C \in Nat BY <1>1
  <2> QED BY <1>1, <1>3, <2>1, ProductGrowsMore
<1>5. ASSUME 2 * B <= A PROVE FALSE
  <2>1. (2 * B) * C <= A * C
    <3>1. 2 * B \in Nat BY <1>1
    <3> QED BY <1>1, <1>5, <3>1, ProductGrows
  <2>2. (2 * B) * C = (2 * C) * B
    BY <1>1
  <2>3. A * C \in Int /\ R * B \in Int /\ (2 * C) * B \in Int
    BY <1>1
  <2> QED BY <1>2, <1>4, <2>1, <2>2, <2>3
<1>6. A < 2 * B
  BY <1>1, <1>5
<1> QED BY <1>3, <1>6 DEF A

LEMMA AboveRoot ==
    ASSUME NEW a \in Nat, NEW b \in Nat, NEW r \in Nat, NEW c \in Nat, b > 0,
           a * c >= r * b, r * r > 2 * c * c
    PROVE  a * a > 2 * b * b
<1> DEFINE A == a * a
           B == b * b
           C == c * c
           R == r * r
<1>1. A \in Nat /\ B \in Nat /\ C \in Nat /\ R \in Nat /\ B > 0
  <2>1. b * b > 0 OBVIOUS
  <2> QED BY <2>1
<1>2. R * B <= A * C
  <2> DEFINE x == a * c
             y == r * b
  <2>1. x \in Nat /\ y \in Nat /\ y <= x
    OBVIOUS
  <2> HIDE DEF x, y
  <2>2. y * y <= x * y /\ x * y <= x * x
    <3>1. y * y <= x * y BY <2>1, ProductGrows
    <3>2. y * x <= x * x BY <2>1, ProductGrows
    <3>3. x * y = y * x BY <2>1
    <3> QED BY <3>1, <3>2, <3>3
  <2>3. x * x = A * C
    BY SquareOfProduct DEF x
  <2>4. y * y = R * B
    BY SquareOfProduct DEF y
  <2>5. x * x \in Int /\ x * y \in Int /\ y * y \in Int
    BY <2>1
  <2> QED BY <2>2, <2>3, <2>4, <2>5
<1>3. 2 * C < R /\ 2 * b * b = 2 * B
  <2>1. 2 * c * c = 2 * (c * c) /\ 2 * b * b = 2 * (b * b) OBVIOUS
  <2> QED BY <2>1
<1> HIDE DEF A, B, C, R
<1>4. (2 * C) * B < R * B
  <2>1. 2 * C \in Nat BY <1>1
  <2> QED BY <1>1, <1>3, <2>1, ProductGrowsMore
<1>5. ASSUME A <= 2 * B PROVE FALSE
  <2>1. A * C <= (2 * B) * C
    <3>1. 2 * B \in Nat BY <1>1
    <3> QED BY <1>1, <1>5, <3>1, ProductGrows
  <2>2. (2 * B) * C = (2 * C) * B
    BY <1>1
  <2>3. A * C \in Int /\ R * B \in Int /\ (2 * C) * B \in Int
    BY <1>1
  <2> QED BY <1>2, <1>4, <2>1, <2>2, <2>3
<1>6. A > 2 * B
  BY <1>1, <1>5
<1> QED BY <1>3, <1>6 DEF A

\* No fraction is the root: its numerator would be even, and half of it would be the
\* denominator of another one.
LEMMA RootIsIrrational ==
    ASSUME NEW a \in Nat, NEW b \in Nat \ {0}
    PROVE  a * a # 2 * b * b
<1> DEFINE Bad == {d \in Nat \ {0} : \E n \in Nat : n * n = 2 * d * d}
<1> SUFFICES ASSUME a * a = 2 * b * b PROVE FALSE
  OBVIOUS
<1>1. b \in Bad
  OBVIOUS
<1>2. PICK d \in Bad : \A m \in Bad : d <= m
  <2>1. Bad \in SUBSET Nat OBVIOUS
  <2> QED BY <1>1, <2>1, LeastNat
<1>3. PICK n \in Nat : n * n = 2 * d * d
  OBVIOUS
<1>4. PICK h \in Nat : n = 2 * h \/ n = 2 * h + 1
  <2>1. n \div 2 \in Nat /\ (n = 2 * (n \div 2) \/ n = 2 * (n \div 2) + 1)
    OBVIOUS
  <2> QED BY <2>1
<1>5. d \in Nat \ {0}
  OBVIOUS
<1> HIDE DEF Bad
<1> DEFINE D == d * d
           H == h * h
<1>6. D \in Nat /\ H \in Nat /\ D > 0 /\ 2 * d * d = 2 * D /\ 2 * h * h = 2 * H
  <2>1. d * d > 0 BY <1>5
  <2>2. 2 * d * d = 2 * (d * d) /\ 2 * h * h = 2 * (h * h) BY <1>5
  <2> QED BY <1>5, <2>1, <2>2
<1>7. /\ (2 * h) * (2 * h) = 4 * H
      /\ (2 * h + 1) * (2 * h + 1) = 4 * H + 4 * h + 1
  OBVIOUS
<1> HIDE DEF D, H
<1>8. n = 2 * h
  <2>1. ASSUME 2 * D = 4 * H + 4 * h + 1 PROVE FALSE
    BY <1>6, <2>1
  <2> QED BY <1>3, <1>4, <1>6, <1>7, <2>1
<1>9. D = 2 * H
  BY <1>3, <1>6, <1>7, <1>8
<1>10. h > 0
  BY <1>6, <1>9 DEF H
<1>11. h \in Bad
  BY <1>5, <1>6, <1>9, <1>10 DEF Bad, D
<1>12. h >= d
  BY <1>2, <1>11
<1>13. h * h >= d * d
  <2>1. d * d <= h * d BY <1>5, <1>12, ProductGrows
  <2>2. d * h <= h * h BY <1>5, <1>12, ProductGrows
  <2>3. d * h = h * d /\ d * h \in Int /\ d * d \in Int /\ h * h \in Int BY <1>5
  <2> QED BY <2>1, <2>2, <2>3
<1> QED BY <1>6, <1>9, <1>13 DEF D, H

\* r are the first digits of the root and p the powers of ten: in the units of the k-th
\* place the root is between r[k] and r[k] + 1.
RootIsRoot(r, p) ==
    /\ Writes(r, 1, Root, Len(Root))
    /\ Writes(p, 1, Zeros(Root), Len(Root))
    /\ \A k \in 0..Len(Root) :
          r[k] * r[k] < 2 * p[k] * p[k] /\ 2 * p[k] * p[k] < (r[k] + 1) * (r[k] + 1)

\* The digits of the root do not run out while text is compared with them.
Decided(text) == Len(text) > Len(Root) => \E i \in 1..Len(Root) : text[i] # Root[i]

\* There are enough digits to decide every decimal, and to tell the root from every
\* fraction: twice as many as a denominator has, and one more.
RootIsLong(p) ==
    /\ \A text \in Decimals : Decided(text)
    /\ \A d \in Numbers : 3 * d * d <= p[Len(Root) - 1]

\* However the digits go on, the number stays in the unit of the place i.
LEMMA DigitsGoOn ==
    ASSUME NEW n \in Nat, NEW text \in Seq(0..9), NEW v, NEW q,
           Writes(v, n, text, Len(text)), Writes(q, 1, Zeros(text), Len(text)),
           NEW i \in 0..Len(text), NEW m \in Nat
    PROVE  /\ v[i] >= m => v[Len(text)] * q[i] >= m * q[Len(text)]
           /\ v[i] + 1 <= m => (v[Len(text)] + 1) * q[i] <= m * q[Len(text)]
<1> DEFINE len == Len(text)
           P(k) == /\ v[i] >= m => v[k] * q[i] >= m * q[k]
                   /\ v[i] + 1 <= m => (v[k] + 1) * q[i] <= m * q[k]
           Bad == {k \in i..len : ~P(k)}
<1>1. len \in Nat /\ v[i] \in Nat /\ q[i] \in Nat
  BY DEF Writes
<1>2. P(i)
  <2>1. PICK a, b \in Nat : a = v[i] /\ b = q[i]
    BY <1>1
  <2>2. a >= m => a * b >= m * b
    BY ProductGrows
  <2>3. a + 1 <= m => (a + 1) * b <= m * b
    BY ProductGrows
  <2> QED BY <2>1, <2>2, <2>3
<1>3. ASSUME NEW k \in (i + 1)..len, P(k - 1) PROVE P(k)
  <2>1. k \in 1..len /\ k - 1 \in 0..len /\ Zeros(text)[k] = 0
    <3>1. k \in 1..len /\ k - 1 \in 0..len BY <1>1
    <3> QED BY <3>1 DEF Zeros
  <2>2. PICK a \in Nat : a = v[k - 1]
    BY <2>1 DEF Writes
  <2>3. PICK b \in Nat : b = q[k - 1]
    BY <2>1 DEF Writes
  <2>4. PICK c \in Nat : c = q[i]
    BY <1>1
  <2>5. PICK t \in 0..9 : t = text[k]
    BY <2>1
  <2>6. v[k] = 10 * a + t
    BY <2>1, <2>2, <2>5 DEF Writes
  <2>7. q[k] = 10 * b
    <3>1. q[k] = 10 * b + 0 BY <2>1, <2>3 DEF Writes
    <3> QED BY <3>1
  <2>8. ASSUME a * c >= m * b
        PROVE  (10 * a + t) * c >= m * (10 * b)
    <3>1. (10 * a + t) * c = 10 * (a * c) + t * c /\ m * (10 * b) = 10 * (m * b)
      OBVIOUS
    <3>2. t * c \in Nat /\ a * c \in Nat /\ m * b \in Nat
      OBVIOUS
    <3> QED BY <2>8, <3>1, <3>2
  <2>9. ASSUME (a + 1) * c <= m * b
        PROVE  (10 * a + t + 1) * c <= m * (10 * b)
    <3>1. (10 * a + t + 1) * c <= (10 * (a + 1)) * c
      <4>1. 10 * a + t + 1 \in Nat /\ 10 * (a + 1) \in Nat /\ 10 * a + t + 1 <= 10 * (a + 1)
        <5>1. \A x \in Nat, y \in 0..9 : 10 * x + y + 1 <= 10 * (x + 1)
          OBVIOUS
        <5> QED BY <5>1
      <4> QED BY <4>1, ProductGrows
    <3>2. (10 * (a + 1)) * c = 10 * ((a + 1) * c) /\ m * (10 * b) = 10 * (m * b)
      OBVIOUS
    <3>3. (a + 1) * c \in Nat /\ m * b \in Nat /\ (10 * a + t + 1) * c \in Nat
      OBVIOUS
    <3> QED BY <2>9, <3>1, <3>2, <3>3
  <2> QED BY <1>3, <2>2, <2>3, <2>4, <2>6, <2>7, <2>8, <2>9
<1>4. Bad = {}
  <2> SUFFICES ASSUME Bad # {} PROVE FALSE
    OBVIOUS
  <2> HIDE DEF P
  <2>1. PICK k \in Bad : \A l \in Bad : k <= l
    <3>1. Bad \in SUBSET Nat BY <1>1
    <3> QED BY <3>1, LeastNat
  <2>2. k \in i..len /\ ~P(k) /\ k # i
    BY <1>2, <2>1
  <2>3. k \in (i + 1)..len /\ k - 1 \in i..len /\ ~(k <= k - 1)
    BY <1>1, <2>2
  <2>4. P(k - 1)
    BY <2>1, <2>3
  <2> QED BY <1>3, <2>2, <2>3, <2>4
<1>5. P(len)
  <2>1. len \in i..len BY <1>1
  <2> HIDE DEF P
  <2> QED BY <1>4, <2>1
<1> QED BY <1>5

LEMMA CompareIs ==
    \A x, y \in Int :
        /\ x > y => Compare(x, y) = "down"
        /\ x < y => Compare(x, y) = "up"
        /\ x = y => Compare(x, y) = "correct"
BY DEF Compare

\* What the second game says of a decimal.
LEMMA Decimal14 ==
    ASSUME asked.game = "14", NEW n \in Nat, NEW text \in Seq(0..9), Decided(text),
           NEW r, NEW p, RootIsRoot(r, p)
    PROVE  (IF n = 1 THEN DecimalVerdict(text) ELSE Compare(n, 1))
               = Compare(Written(n, text) * Written(n, text),
                         2 * Written(1, Zeros(text)) * Written(1, Zeros(text)))
<1> DEFINE len == Len(text)
<1>1. Zeros(text) \in Seq(0..9) /\ Len(Zeros(text)) = len /\ len \in Nat
  <2>1. Zeros(text) \in [1..Len(text) -> 0..9] /\ Len(text) \in Nat
    BY DEF Zeros
  <2> QED BY <2>1, SeqDef, LenProperties
<1>2. PICK v : Writes(v, n, text, len) /\ Written(n, text) = v[len]
  BY WrittenIs
<1>3. PICK q : Writes(q, 1, Zeros(text), len) /\ Written(1, Zeros(text)) = q[len]
  BY <1>1, WrittenIs
<1>4. Len(Root) \in Nat /\ \A i \in 1..Len(Root) : Root[i] \in 0..9
  BY UpDownAssumption
<1>5. \A k \in 0..len : q[k] \in Nat \ {0}
  <2>1. \A k \in 1..len : Zeros(text)[k] = 0 BY DEF Zeros
  <2> QED BY <1>1, <1>3, <2>1, TensArePositive
<1>6. \A k \in 0..len : k <= Len(Root) => p[k] = q[k]
  <2>1. ASSUME NEW k \in 0..len, k <= Len(Root) PROVE p[k] = q[k]
    <3>1. k \in Nat /\ k <= len
      BY <1>1
    <3>2. \A i \in 1..k : Zeros(Root)[i] = Zeros(text)[i]
      BY <1>1, <1>4, <2>1, <3>1 DEF Zeros
    <3> QED BY <1>1, <1>3, <1>4, <2>1, <3>1, <3>2, WritesSame DEF RootIsRoot
  <2> QED BY <2>1
<1>7. PICK V, P \in Nat : V = v[len] /\ P = q[len] /\ P > 0
  <2>1. len \in 0..len BY <1>1
  <2>2. v[len] \in Nat BY <2>1, <1>2 DEF Writes
  <2> QED BY <1>5, <2>1, <2>2
<1>8. /\ V * V > 2 * P * P => Compare(V * V, 2 * P * P) = "down"
      /\ V * V < 2 * P * P => Compare(V * V, 2 * P * P) = "up"
  <2>1. V * V \in Int /\ 2 * P * P \in Int OBVIOUS
  <2> QED BY <2>1, CompareIs
<1>9. q[0] = 1 /\ v[0] = n /\ 0 \in 0..len
  BY <1>1, <1>2, <1>3 DEF Writes
<1>10. CASE n > 1
  <2>1. V * 1 >= n * P
    <3>1. v[len] * q[0] >= n * q[len]
      BY <1>2, <1>3, <1>9, DigitsGoOn
    <3> QED BY <1>7, <1>9, <3>1
  <2>2. n * n > 2 * 1 * 1
    <3>1. 2 * n <= n * n BY <1>10, ProductGrows
    <3> QED BY <1>10, <3>1
  <2>3. V * V > 2 * P * P
    BY <1>7, <2>1, <2>2, AboveRoot
  <2>4. Compare(n, 1) = "down"
    BY <1>10 DEF Compare
  <2> QED BY <1>2, <1>3, <1>7, <1>8, <1>10, <2>3, <2>4
<1>11. CASE n = 0
  <2>1. (V + 1) * 1 <= 1 * P
    <3>1. (v[len] + 1) * q[0] <= 1 * q[len]
      BY <1>2, <1>3, <1>9, <1>11, DigitsGoOn
    <3> QED BY <1>7, <1>9, <3>1
  <2>2. V * 1 <= 1 * P
    BY <2>1
  <2>3. V * V < 2 * P * P
    <3>1. 1 * 1 < 2 * 1 * 1 OBVIOUS
    <3> QED BY <1>7, <2>2, <3>1, BelowRoot
  <2>4. Compare(n, 1) = "up"
    BY <1>11 DEF Compare
  <2> QED BY <1>2, <1>3, <1>7, <1>8, <1>11, <2>3, <2>4
<1>12. ASSUME n = 1, NEW k \in 0..len, k <= Len(Root), \A i \in 1..k : text[i] = Root[i]
       PROVE  v[k] = r[k]
  <2>1. k \in Nat /\ k <= len /\ k <= Len(Root)
    BY <1>1, <1>4, <1>12
  <2> QED BY <1>1, <1>2, <1>4, <1>12, <2>1, WritesSame DEF RootIsRoot
<1>13. \A i : SecretDigit(i) = Root[i]
  BY DEF SecretDigit
<1>14. CASE n = 1 /\ \A i \in 1..len : text[i] = Root[i]
  <2>0. len <= Len(Root)
    <3>1. len > Len(Root) => \A i \in 1..Len(Root) : i \in 1..len
      BY <1>1, <1>4
    <3> QED BY <1>1, <1>4, <1>14, <3>1 DEF Decided
  <2>1. v[len] = r[len] /\ len \in 0..Len(Root) /\ p[len] = q[len]
    BY <1>1, <1>4, <1>6, <1>12, <1>14, <2>0
  <2>2. V * V < 2 * P * P
    <3>1. r[len] * r[len] < 2 * p[len] * p[len]
      BY <2>1 DEF RootIsRoot
    <3>2. r[len] = V /\ p[len] = P
      BY <1>7, <2>1
    <3> QED BY <3>1, <3>2
  <2>3. DecimalVerdict(text) = "up"
    BY <1>13, <1>14, DecimalVerdictIs
  <2> QED BY <1>2, <1>3, <1>7, <1>8, <1>14, <2>2, <2>3
<1>15. ASSUME n = 1, NEW i \in 1..len, FirstDiffers(text, i)
       PROVE  DecimalVerdict(text) = Compare(V * V, 2 * P * P)
  <2>1. DecimalVerdict(text) = Compare(text[i], Root[i]) /\ text[i] # Root[i]
    BY <1>13, <1>15, DecimalVerdictIs DEF FirstDiffers
  <2>0. i <= Len(Root)
    <3>1. CASE len > Len(Root)
      <4>1. PICK j \in 1..Len(Root) : text[j] # Root[j]
        BY <3>1 DEF Decided
      <4>2. j \notin 1..(i - 1)
        BY <1>13, <1>15, <4>1 DEF FirstDiffers
      <4> QED BY <1>4, <4>2
    <3> QED BY <1>1, <1>4, <3>1
  <2>2. i \in 0..len /\ i - 1 \in 0..len /\ i \in 1..Len(Root) /\ i \in 0..Len(Root)
        /\ i - 1 <= Len(Root)
    BY <1>1, <1>4, <2>0
  <2>3. v[i - 1] = r[i - 1]
    <3>1. \A j \in 1..(i - 1) : text[j] = Root[j]
      BY <1>13, <1>15 DEF FirstDiffers
    <3> QED BY <1>12, <1>15, <2>2, <3>1
  <2>4. PICK a \in Nat : a = r[i]
    BY <2>2 DEF RootIsRoot, Writes
  <2>5. PICK b \in Nat : b = q[i] /\ b > 0
    BY <1>5, <2>2
  <2>6. PICK t \in 0..9 : t = text[i]
    OBVIOUS
  <2>7. PICK d \in 0..9 : d = Root[i]
    BY <1>4, <2>2
  <2>8. v[i] \in Nat /\ v[i] + d = a + t
    <3>1. PICK e \in Nat : e = v[i - 1]
      BY <1>2, <2>2 DEF Writes
    <3>2. v[i] = 10 * e + t
      BY <1>2, <2>2, <2>6, <3>1 DEF Writes
    <3>3. a = 10 * e + d
      BY <2>2, <2>3, <2>4, <2>7, <3>1 DEF RootIsRoot, Writes
    <3> QED BY <3>2, <3>3
  <2>9. a * a < 2 * b * b /\ 2 * b * b < (a + 1) * (a + 1)
    <3>1. p[i] = b BY <1>6, <2>2, <2>5
    <3> QED BY <2>2, <2>4, <2>5, <3>1 DEF RootIsRoot
  <2>10. CASE t < d
    <3>1. v[i] + 1 <= a BY <2>8, <2>10
    <3>2. (V + 1) * b <= a * P
      BY <1>2, <1>3, <1>7, <2>2, <2>5, <3>1, DigitsGoOn
    <3>3. V * b <= a * P
      <4>1. (V + 1) * b = V * b + b /\ V * b \in Int /\ a * P \in Int OBVIOUS
      <4> QED BY <3>2, <4>1
    <3>4. V * V < 2 * P * P
      BY <1>7, <2>9, <3>3, BelowRoot
    <3>5. Compare(t, d) = "up" BY <2>10, CompareIs
    <3> QED BY <1>8, <2>1, <2>6, <2>7, <3>4, <3>5
  <2>11. CASE t > d
    <3>1. v[i] >= a + 1 /\ a + 1 \in Nat
      BY <2>8, <2>11
    <3>2. V * b >= (a + 1) * P
      BY <1>2, <1>3, <1>7, <2>2, <2>5, <3>1, DigitsGoOn
    <3>3. (a + 1) * (a + 1) > 2 * b * b
      <4>1. 2 * b * b \in Int /\ (a + 1) * (a + 1) \in Int OBVIOUS
      <4> QED BY <2>9, <4>1
    <3>4. V * V > 2 * P * P
      BY <1>7, <3>1, <3>2, <3>3, AboveRoot
    <3>5. Compare(t, d) = "down" BY <2>11, CompareIs
    <3> QED BY <1>8, <2>1, <2>6, <2>7, <3>4, <3>5
  <2> QED BY <2>1, <2>6, <2>7, <2>10, <2>11
<1>16. ASSUME ~ \A i \in 1..len : text[i] = Root[i]
       PROVE  \E i \in 1..len : FirstDiffers(text, i)
  <2> DEFINE Differ == {i \in 1..len : text[i] # Root[i]}
  <2>1. PICK i \in Differ : \A j \in Differ : i <= j
    <3>1. Differ \in SUBSET Nat /\ Differ # {}
      BY <1>16
    <3> HIDE DEF Differ
    <3> QED BY <3>1, LeastNat
  <2>2. \A j \in 1..(i - 1) : j \in 1..len /\ ~(i <= j)
    BY <1>1
  <2>3. \A j \in 1..(i - 1) : text[j] = Root[j]
    BY <2>1, <2>2
  <2> QED BY <1>13, <2>3 DEF FirstDiffers
<1>17. n > 1 \/ n = 0 \/ n = 1
  OBVIOUS
<1> QED BY <1>2, <1>3, <1>7, <1>10, <1>11, <1>14, <1>15, <1>16, <1>17

---------------------------------------------------------------------------
\* The long division.

LEMMA WrapRange == ASSUME NEW n \in Int PROVE Wrap(n) \in -Half..(Half - 1)
BY HalfAssumption DEF Wrap

LEMMA WrapKeeps == ASSUME NEW n \in -Half..(Half - 1) PROVE Wrap(n) = n
<1>1. (n + Half) % (2 * Half) = n + Half
  BY HalfAssumption
<1> QED BY <1>1, HalfAssumption DEF Wrap

\* Whole division leaves a rest below the divisor.
LEMMA WholeDivision ==
    ASSUME NEW f \in Nat, NEW d \in Nat \ {0}
    PROVE  \E m \in 0..(d - 1) : f \div d \in Nat /\ f = (f \div d) * d + m
<1>1. f \div d \in Nat /\ f % d \in 0..(d - 1) /\ f = d * (f \div d) + (f % d)
  OBVIOUS
<1> QED BY <1>1

\* R are the first digits of n / d, in the units of P, up to the digit c, for which f / d
\* stands.
Divided(n, d, P, R, c, f) ==
    /\ n \in Nat /\ d \in Nat \ {0} /\ P \in Nat /\ R \in Nat /\ c \in Nat /\ f \in Nat
    /\ n * P + c * d = R * d + f

\* What the digit a in the place of c says.
DigitSays(n, d, P, R, c, f, a) ==
    /\ a > c => n * P >= (R + 1) * d
    /\ a < c => n * P <= R * d
    /\ a = c => /\ f - a * d \in 0..(d - 1)
                /\ n * P = R * d + (f - a * d)

LEMMA DivisionRound ==
    ASSUME NEW n, NEW d, NEW P, NEW R, NEW c, NEW f, NEW a,
           Divided(n, d, P, R, c, f), a = f \div d
    PROVE  DigitSays(n, d, P, R, c, f, a)
<1>0. /\ n \in Nat /\ d \in Nat \ {0} /\ P \in Nat /\ R \in Nat /\ c \in Nat /\ f \in Nat
      /\ n * P + c * d = R * d + f
  BY DEF Divided
<1>1. PICK m \in 0..(d - 1) : a \in Nat /\ f = a * d + m
  BY <1>0, WholeDivision
<1>2. n * P \in Nat /\ R * d \in Nat /\ c * d \in Nat /\ a * d \in Nat /\ (R + 1) * d = R * d + d
  BY <1>0, <1>1
<1>3. ASSUME a > c PROVE n * P >= (R + 1) * d
  <2>1. (c + 1) * d <= a * d /\ (c + 1) * d = c * d + d
    BY <1>0, <1>1, <1>3, ProductGrows
  <2> QED BY <1>0, <1>1, <1>2, <2>1
<1>4. ASSUME a < c PROVE n * P <= R * d
  <2>1. (a + 1) * d <= c * d /\ (a + 1) * d = a * d + d
    BY <1>0, <1>1, <1>4, ProductGrows
  <2> QED BY <1>0, <1>1, <1>2, <2>1
<1>5. ASSUME a = c PROVE f - a * d \in 0..(d - 1) /\ n * P = R * d + (f - a * d)
  <2>1. PICK x, y, z \in Nat : x = n * P /\ y = R * d /\ z = a * d
    BY <1>2
  <2>2. x + z = y + f /\ f = z + m
    BY <1>0, <1>1, <1>5, <2>1
  <2>3. f - z = m /\ x = y + (f - z)
    BY <1>0, <2>2
  <2> QED BY <2>1, <2>3
<1> QED BY <1>3, <1>4, <1>5 DEF DigitSays

\* So many digits tell the root from every fraction.
LEMMA DigitsDecide ==
    ASSUME NEW n \in Nat, NEW d \in Nat \ {0}, NEW P \in Nat \ {0}, NEW R \in Nat,
           R * R < 2 * P * P, 2 * P * P < (R + 1) * (R + 1),
           R * d <= n * P, n * P < (R + 1) * d, 3 * d * d <= P
    PROVE  FALSE
<1> DEFINE A == n * n
           B == d * d
           Q == P * P
           S == R * R
           T == (R + 1) * (R + 1)
<1>1. A \in Nat /\ B \in Nat /\ Q \in Nat /\ S \in Nat /\ T \in Nat /\ B > 0 /\ Q > 0
  <2>1. d * d > 0 /\ P * P > 0 OBVIOUS
  <2> QED BY <2>1
<1>2. /\ S < 2 * Q /\ 2 * Q < T
      /\ T = S + (2 * R + 1)
      /\ 3 * B <= P
      /\ A # 2 * B
  <2>1. 2 * P * P = 2 * (P * P) /\ 3 * d * d = 3 * (d * d) /\ 2 * d * d = 2 * (d * d)
        /\ (R + 1) * (R + 1) = R * R + (2 * R + 1)
    OBVIOUS
  <2>2. n * n # 2 * d * d BY RootIsIrrational
  <2> QED BY <2>1, <2>2
<1>3. S * B <= A * Q /\ A * Q < T * B
  <2> DEFINE x == n * P
             y == R * d
             z == (R + 1) * d
  <2>1. x \in Nat /\ y \in Nat /\ z \in Nat /\ y <= x /\ x < z
    OBVIOUS
  <2>2. x * x = A * Q /\ y * y = S * B /\ z * z = T * B
    BY SquareOfProduct
  <2> HIDE DEF x, y, z, A, Q, S, B, T
  <2>3. y * y <= x * y /\ y * x <= x * x /\ x * y = y * x
    BY <2>1, ProductGrows
  <2>4. x * x <= z * x /\ x * z < z * z /\ x * z = z * x
    BY <2>1, ProductGrows, ProductGrowsMore
  <2>5. y * y \in Int /\ x * y \in Int /\ x * x \in Int /\ x * z \in Int /\ z * z \in Int
    BY <2>1
  <2> QED BY <2>2, <2>3, <2>4, <2>5
<1>4. 2 * R + 1 <= 3 * P
  <2>1. ASSUME 2 * R >= 3 * P PROVE FALSE
    <3>1. (3 * P) * (3 * P) <= (2 * R) * (2 * R)
      <4>1. 3 * P \in Nat /\ 2 * R \in Nat OBVIOUS
      <4>2. (3 * P) * (3 * P) <= (2 * R) * (3 * P) BY <2>1, <4>1, ProductGrows
      <4>3. (3 * P) * (2 * R) <= (2 * R) * (2 * R) BY <2>1, <4>1, ProductGrows
      <4>4. (3 * P) * (2 * R) = (2 * R) * (3 * P) OBVIOUS
      <4>5. (3 * P) * (3 * P) \in Int /\ (2 * R) * (3 * P) \in Int /\ (2 * R) * (2 * R) \in Int
        OBVIOUS
      <4> QED BY <4>2, <4>3, <4>4, <4>5
    <3>2. (3 * P) * (3 * P) = 9 * Q /\ (2 * R) * (2 * R) = 4 * S
      OBVIOUS
    <3> HIDE DEF Q, S
    <3> QED BY <1>1, <1>2, <3>1, <3>2
  <2> QED BY <2>1
<1> HIDE DEF A, B, Q, S, T
<1>5. /\ S * B < (2 * Q) * B
      /\ (2 * Q) * B < T * B
      /\ T * B = S * B + (2 * R + 1) * B
      /\ S * B \in Nat /\ A * Q \in Nat /\ T * B \in Nat /\ (2 * R + 1) * B \in Nat
      /\ (2 * Q) * B = (2 * B) * Q
  <2>1. 2 * Q \in Nat BY <1>1
  <2>2. S * B < (2 * Q) * B /\ (2 * Q) * B < T * B
    BY <1>1, <1>2, <2>1, ProductGrowsMore
  <2>3. T * B = S * B + (2 * R + 1) * B
    <3>1. PICK t \in Nat : t = 2 * R + 1 OBVIOUS
    <3>2. T = S + t BY <1>2, <3>1
    <3>3. (S + t) * B = S * B + t * B BY <1>1
    <3> QED BY <3>1, <3>2, <3>3
  <2>4. (2 * Q) * B = (2 * B) * Q BY <1>1
  <2>5. S * B \in Nat /\ A * Q \in Nat /\ T * B \in Nat /\ (2 * R + 1) * B \in Nat
    BY <1>1
  <2> QED BY <2>2, <2>3, <2>4, <2>5
<1>6. Q < (2 * R + 1) * B
  <2>1. CASE A > 2 * B
    <3>1. (2 * B + 1) * Q <= A * Q
      <4>1. 2 * B + 1 \in Nat /\ 2 * B + 1 <= A BY <1>1, <2>1
      <4> QED BY <1>1, <4>1, ProductGrows
    <3>2. (2 * B + 1) * Q = (2 * B) * Q + Q BY <1>1
    <3>3. (2 * B) * Q \in Nat BY <1>1
    <3> QED BY <1>1, <1>3, <1>5, <3>1, <3>2, <3>3
  <2>2. CASE A < 2 * B
    <3>1. (A + 1) * Q <= (2 * B) * Q
      <4>1. A + 1 \in Nat /\ 2 * B \in Nat /\ A + 1 <= 2 * B BY <1>1, <2>2
      <4> QED BY <1>1, <4>1, ProductGrows
    <3>2. (A + 1) * Q = A * Q + Q BY <1>1
    <3>3. (2 * B) * Q \in Nat BY <1>1
    <3> QED BY <1>1, <1>3, <1>5, <3>1, <3>2, <3>3
  <2> QED BY <1>1, <1>2, <2>1, <2>2
<1>7. (2 * R + 1) * B <= (3 * B) * P
  <2>1. (2 * R + 1) * B <= (3 * P) * B
    <3>1. 2 * R + 1 \in Nat /\ 3 * P \in Nat OBVIOUS
    <3> QED BY <1>1, <1>4, <3>1, ProductGrows
  <2>2. (3 * P) * B = (3 * B) * P BY <1>1
  <2> QED BY <2>1, <2>2
<1>8. (3 * B) * P <= Q
  <2>1. 3 * B \in Nat BY <1>1
  <2> QED BY <1>2, <2>1, ProductGrows DEF Q
<1> QED BY <1>1, <1>3, <1>5, <1>6, <1>7, <1>8

---------------------------------------------------------------------------
\* What is answered is what exact arithmetic says.
Exact ==
    Denominator > 0 /\ InRange =>
        verdict = IF asked.game = "91" THEN Compare(7 * Numerator, 31 * Denominator)
                  ELSE Compare(Numerator * Numerator, 2 * Denominator * Denominator)

\* While the division goes on, its quotient has the digits of the root so far, and f is
\* what is left, ten times as much.
DivisionInv(r, p) ==
    place > 0 =>
        /\ asked.form = "fraction"
        /\ asked.game = "14"
        /\ verdict = "none" /\ asked.den > 0 /\ InRange =>
              \E m \in 0..(asked.den - 1) :
                  /\ rest = m * 10
                  /\ asked.num * p[place - 1] = r[place - 1] * asked.den + m

UpDownInv(r, p) ==
    /\ UpDownTypeOK
    /\ DivisionInv(r, p)
    /\ verdict # "none" => Exact

\* The parts of a message.
LEMMA AskedParts ==
    ASSUME asked \in Asked
    PROVE  /\ asked.game \in Games
           /\ asked.form \in {"whole", "decimal", "fraction"}
           /\ asked.num \in Numbers
           /\ asked.num \in Nat
           /\ asked.form = "decimal" => asked.text \in Decimals /\ asked.text \in Seq(0..9)
           /\ asked.form = "fraction" =>
                 asked.den \in Numbers /\ asked.den \in Nat /\ asked.den \in 0..(Half - 1)
<1>1. asked.num \in Numbers /\ asked.game \in Games
      /\ asked.form \in {"whole", "decimal", "fraction"}
      /\ (asked.form = "decimal" => asked.text \in Decimals)
      /\ (asked.form = "fraction" => asked.den \in Numbers)
  BY DEF Asked
<1>2. \A x \in Numbers : x \in Nat /\ x \in 0..(Half - 1)
  BY UpDownAssumption, HalfAssumption
<1>3. \A t \in Decimals : t \in Seq(0..9)
  BY UpDownAssumption
<1> QED BY <1>1, <1>2, <1>3

LEMMA CompareType == \A x, y : Compare(x, y) \in {"up", "down", "correct"}
BY Zenon DEF Compare

LEMMA DecimalVerdictType ==
    ASSUME NEW text PROVE DecimalVerdict(text) \in {"up", "down", "correct"}
BY CompareType, Zenon DEF DecimalVerdict

\* The types are kept.
LEMMA TypeKept ==
    ASSUME UpDownTypeOK, [UpDownNext]_upDownVars PROVE UpDownTypeOK'
<1>1. Len(Root) \in Nat
  BY UpDownAssumption
<1>2. CASE Whole
  BY <1>2 DEF Whole, UpDownTypeOK
<1>3. CASE Decimal
  <2>1. verdict' \in {"up", "down", "correct"}
    BY <1>3, CompareType, DecimalVerdictType, Zenon DEF Decimal
  <2> QED BY <1>3, <2>1 DEF Decimal, UpDownTypeOK
<1>4. CASE MultiplyAcross
  <2>1. verdict' \in {"up", "down", "correct"}
    BY <1>4, CompareType, Zenon DEF MultiplyAcross
  <2> QED BY <1>4, <2>1 DEF MultiplyAcross, UpDownTypeOK
<1>5. CASE Divide
  <2> DEFINE f == IF place = 0 THEN asked.num ELSE rest
             a == Quot(f, asked.den)
             c == IF place = 0 THEN 1 ELSE Root[place]
  <2>1. asked' = asked /\ place' \in 0..Len(Root) /\ asked.form = "fraction"
    BY <1>1, <1>5 DEF Divide, UpDownTypeOK
  <2>2. CASE asked.den = 0
    BY <1>5, <2>1, <2>2 DEF Divide, UpDownTypeOK
  <2>3. CASE asked.den # 0
    <3>1. /\ verdict' = IF a = c THEN "none" ELSE Compare(a, c)
          /\ rest' = NextRest(f, a)
      BY <1>5, <2>3 DEF Divide
    <3>2. verdict' \in {"none", "up", "down", "correct"}
      BY <3>1, CompareType, Zenon
    <3>3. NextRest(f, a) \in -Half..(Half - 1)
      <4>1. asked.num \in Nat /\ asked.den \in Nat \ {0} /\ rest \in Int
        BY <2>1, <2>3, AskedParts, HalfAssumption DEF UpDownTypeOK
      <4>2. f \in Int
        BY <4>1
      <4> HIDE DEF f
      <4>3. a \in Int
        BY <4>1, <4>2 DEF Quot
      <4> HIDE DEF a
      <4>4. Wrap(a * asked.den) \in Int
        BY <4>1, <4>3, WrapRange, HalfAssumption
      <4>5. Wrap(f - Wrap(a * asked.den)) \in Int
        BY <4>2, <4>4, WrapRange, HalfAssumption
      <4> QED BY <4>5, WrapRange DEF NextRest
    <3> QED BY <2>1, <3>1, <3>2, <3>3 DEF UpDownTypeOK
  <2> QED BY <2>2, <2>3
<1>6. CASE UNCHANGED upDownVars
  BY <1>6 DEF upDownVars, UpDownTypeOK
<1> QED BY <1>2, <1>3, <1>4, <1>5, <1>6 DEF UpDownNext

\* A whole number is above the secret or below it.
LEMMA WholeIsExact ==
    ASSUME UpDownTypeOK, Whole PROVE Exact'
<1>1. /\ asked' = asked /\ asked.form = "whole" /\ asked.num \in Nat /\ asked.game \in Games
      /\ verdict' = IF asked.num <= WholePart THEN "up" ELSE "down"
  BY AskedParts DEF Whole, UpDownTypeOK
<1>2. Denominator' = 1 /\ Numerator' = asked.num
  BY <1>1 DEF Denominator, Numerator
<1>3. PICK n \in Nat : n = asked.num
  BY <1>1
<1>4. CASE asked.game = "91"
  <2>1. verdict' = Compare(7 * n, 31 * 1)
    <3>1. n <= 4 \/ n > 4 OBVIOUS
    <3>2. n <= 4 => 7 * n < 31 * 1 OBVIOUS
    <3>3. n > 4 => 7 * n > 31 * 1 OBVIOUS
    <3>4. 7 * n \in Int /\ 31 * 1 \in Int OBVIOUS
    <3> QED BY <1>1, <1>3, <1>4, <3>1, <3>2, <3>3, <3>4, CompareIs DEF WholePart
  <2> QED BY <1>1, <1>2, <1>3, <1>4, <2>1 DEF Exact
<1>5. CASE asked.game = "14"
  <2>1. verdict' = Compare(n * n, 2 * 1 * 1)
    <3>1. n = 0 \/ n = 1 \/ n >= 2 OBVIOUS
    <3>2. n >= 2 => n * n > 2 * 1 * 1
      <4>1. n >= 2 => 2 * n <= n * n BY ProductGrows
      <4> QED BY <4>1
    <3>3. n <= 1 => n * n < 2 * 1 * 1
      BY <3>1
    <3>4. n * n \in Int /\ 2 * 1 * 1 \in Int OBVIOUS
    <3> QED BY <1>1, <1>3, <1>5, <3>1, <3>2, <3>3, <3>4, CompareIs DEF WholePart
  <2> QED BY <1>1, <1>2, <1>3, <1>5, <2>1 DEF Exact
<1> QED BY <1>1, <1>4, <1>5 DEF Games

LEMMA DecimalIsExact ==
    ASSUME UpDownTypeOK, Decimal, NEW r, NEW p, RootIsRoot(r, p), RootIsLong(p)
    PROVE  Exact'
<1>1. /\ asked' = asked /\ asked.form = "decimal" /\ asked.num \in Nat /\ asked.game \in Games
      /\ asked.text \in Seq(0..9) /\ Decided(asked.text)
      /\ verdict' = IF asked.num = WholePart THEN DecimalVerdict(asked.text)
                    ELSE Compare(asked.num, WholePart)
  BY AskedParts DEF Decimal, UpDownTypeOK, RootIsLong
<1>2. Denominator' = Written(1, Zeros(asked.text)) /\ Numerator' = Written(asked.num, asked.text)
  BY <1>1 DEF Denominator, Numerator
<1>3. CASE asked.game = "91"
  <2>1. WholePart = 4 BY <1>3 DEF WholePart
  <2>2. verdict' = Compare(7 * Written(asked.num, asked.text), 31 * Written(1, Zeros(asked.text)))
    BY <1>1, <1>3, <2>1, Decimal91
  <2> QED BY <1>1, <1>2, <1>3, <2>2 DEF Exact
<1>4. CASE asked.game = "14"
  <2>1. WholePart = 1 BY <1>4 DEF WholePart
  <2>2. verdict' = Compare(Written(asked.num, asked.text) * Written(asked.num, asked.text),
                           2 * Written(1, Zeros(asked.text)) * Written(1, Zeros(asked.text)))
    BY <1>1, <1>4, <2>1, Decimal14
  <2> QED BY <1>1, <1>2, <1>4, <2>2 DEF Exact
<1> QED BY <1>1, <1>3, <1>4 DEF Games

LEMMA ProductIsExact ==
    ASSUME UpDownTypeOK, MultiplyAcross PROVE Exact'
<1>1. /\ asked' = asked /\ asked.form = "fraction" /\ asked.game = "91"
      /\ asked.num \in Nat /\ asked.den \in Nat
      /\ verdict' = Compare(Wrap(asked.num * 7), Wrap(asked.den * 31))
  BY AskedParts DEF MultiplyAcross, UpDownTypeOK
<1>2. Denominator' = asked.den /\ Numerator' = asked.num
  BY <1>1 DEF Denominator, Numerator
<1>3. ASSUME InRange' PROVE verdict' = Compare(7 * asked.num, 31 * asked.den)
  <2>1. Wrap(asked.num * 7) = asked.num * 7 /\ Wrap(asked.den * 31) = asked.den * 31
    BY <1>1, <1>3 DEF InRange, Fits
  <2>2. \A x \in Nat : x * 7 = 7 * x /\ x * 31 = 31 * x
    OBVIOUS
  <2> QED BY <1>1, <2>1, <2>2
<1> QED BY <1>1, <1>2, <1>3 DEF Exact

\* A round of the division in ints: what wraps does not, where the products fit.
LEMMA RestIs ==
    ASSUME NEW a \in Nat, NEW f \in Nat, asked.den \in Nat \ {0}, Fits(asked.den * 10), a <= 9,
           f - a * asked.den \in 0..(asked.den - 1)
    PROVE  NextRest(f, a) = (f - a * asked.den) * 10
<1>1. PICK d \in Nat \ {0} : d = asked.den
  OBVIOUS
<1>2. PICK x \in Nat : x = a * d
  <2>1. \A y, z \in Nat : y * z \in Nat OBVIOUS
  <2> QED BY <2>1
<1>3. d * 10 \in -Half..(Half - 1)
  <2>1. d * 10 \in Int BY <1>1
  <2> QED BY <1>1, <2>1, WrapRange DEF Fits
<1>4. x <= 9 * d
  BY <1>1, <1>2, ProductGrows
<1>5. PICK m \in 0..(d - 1) : m = f - x
  BY <1>1, <1>2
<1>6. x \in -Half..(Half - 1) /\ m \in -Half..(Half - 1) /\ m * 10 \in -Half..(Half - 1)
  BY <1>3, <1>4, HalfAssumption
<1>7. Wrap(x) = x /\ Wrap(m) = m /\ Wrap(m * 10) = m * 10
  BY <1>6, WrapKeeps
<1> QED BY <1>1, <1>2, <1>5, <1>7 DEF NextRest

LEMMA DivideKeeps ==
    ASSUME Divide, NEW r, NEW p, RootIsRoot(r, p), RootIsLong(p), UpDownInv(r, p)
    PROVE  DivisionInv(r, p)' /\ (verdict' # "none" => Exact')
<1> DEFINE n == asked.num
           d == asked.den
           k == place
           f == IF place = 0 THEN asked.num ELSE rest
           a == Quot(f, asked.den)
           c == IF place = 0 THEN 1 ELSE Root[place]
<1>1. /\ asked' = asked /\ asked.form = "fraction" /\ asked.game = "14" /\ verdict = "none"
      /\ n \in Nat /\ d \in Nat
      /\ k \in Nat /\ k < Len(Root) /\ place' = k + 1
      /\ Len(Root) \in Nat
  BY AskedParts, UpDownAssumption DEF Divide, UpDownInv, UpDownTypeOK
<1>2. /\ Denominator' = d /\ Numerator' = n /\ Denominator = d /\ Numerator = n
      /\ (InRange' <=> InRange) /\ (InRange <=> Fits(d * 10))
  <2>1. InRange' <=> InRange
    BY <1>1 DEF InRange
  <2>2. InRange <=> Fits(d * 10)
    BY <1>1 DEF InRange
  <2> QED BY <1>1, <2>1, <2>2 DEF Denominator, Numerator
<1>3. ASSUME ~(d > 0 /\ InRange) PROVE DivisionInv(r, p)' /\ (verdict' # "none" => Exact')
  BY <1>1, <1>2, <1>3 DEF DivisionInv, Exact
<1>4. ASSUME d > 0, InRange PROVE DivisionInv(r, p)' /\ (verdict' # "none" => Exact')
  <2>1. d \in Nat \ {0} /\ Fits(d * 10)
    BY <1>1, <1>2, <1>4
  <2>2. /\ verdict' = IF a = c THEN "none" ELSE Compare(a, c)
        /\ rest' = NextRest(f, a)
    BY <2>1 DEF Divide
  <2>3. k \in 0..Len(Root) /\ c \in 0..9
    <3>1. k # 0 => k \in 1..Len(Root) BY <1>1
    <3>2. \A i \in 1..Len(Root) : Root[i] \in 0..9 BY UpDownAssumption
    <3> QED BY <1>1, <3>1, <3>2
  <2>4. PICK P \in Nat : P = p[k]
    BY <2>3 DEF RootIsRoot, Writes
  <2>5. PICK R \in Nat : R = r[k]
    BY <2>3 DEF RootIsRoot, Writes
  <2>6. f \in Nat /\ n * P + c * d = R * d + f
    <3>1. CASE k = 0
      <4>1. P = 1 /\ R = 1 BY <2>4, <2>5, <3>1 DEF RootIsRoot, Writes
      <4>2. \A x, y \in Nat : x * 1 + 1 * y = 1 * y + x OBVIOUS
      <4> QED BY <1>1, <3>1, <4>1, <4>2
    <3>2. CASE k # 0
      <4>1. PICK m \in 0..(d - 1) : rest = m * 10 /\ n * p[k - 1] = r[k - 1] * d + m
        BY <1>1, <1>4, <3>2 DEF UpDownInv, DivisionInv
      <4>2. k \in 1..Len(Root) /\ k - 1 \in 0..Len(Root) /\ Zeros(Root)[k] = 0
        <5>1. k \in 1..Len(Root) /\ k - 1 \in 0..Len(Root) BY <1>1, <3>2
        <5> QED BY <5>1 DEF Zeros
      <4>3. PICK x \in Nat : x = p[k - 1]
        BY <4>2 DEF RootIsRoot, Writes
      <4>4. PICK y \in Nat : y = r[k - 1]
        BY <4>2 DEF RootIsRoot, Writes
      <4>5. PICK t \in 0..9 : t = c /\ t = Root[k]
        BY <2>3, <3>2
      <4>6. P = 10 * x
        <5>1. p[k] = 10 * p[k - 1] + Zeros(Root)[k] BY <4>2 DEF RootIsRoot, Writes
        <5> QED BY <2>4, <4>2, <4>3, <5>1
      <4>7. R = 10 * y + t
        BY <2>5, <4>2, <4>4, <4>5 DEF RootIsRoot, Writes
      <4>8. n * x = y * d + m
        BY <4>1, <4>3, <4>4
      <4>9. n * (10 * x) + t * d = (10 * y + t) * d + m * 10
        <5>1. n * (10 * x) = 10 * (n * x) /\ (10 * y + t) * d = 10 * (y * d) + t * d
          <6>1. \A i, j \in Nat : i * (10 * j) = 10 * (i * j)
            OBVIOUS
          <6>2. \A i, j, l \in Nat : (10 * i + l) * j = 10 * (i * j) + l * j
            OBVIOUS
          <6>3. t \in Nat OBVIOUS
          <6> HIDE DEF n, d
          <6> QED BY <1>1, <6>1, <6>2, <6>3
        <5>2. PICK g, h \in Nat : g = y * d /\ h = t * d
          BY <1>1
        <5>3. 10 * (g + m) + h = 10 * g + h + m * 10
          OBVIOUS
        <5> QED BY <4>8, <5>1, <5>2, <5>3
      <4>10. f = m * 10
        BY <3>2, <4>1
      <4> QED BY <4>5, <4>6, <4>7, <4>9, <4>10
    <3> QED BY <3>1, <3>2
  <2>7. R * R < 2 * P * P /\ 2 * P * P < (R + 1) * (R + 1)
    BY <2>3, <2>4, <2>5 DEF RootIsRoot
  <2> HIDE DEF f, c
  <2>8. a = f \div d /\ c \in Nat
    <3>1. c \in Nat BY <2>3
    <3>2. ~(f < 0) BY <2>6
    <3> QED BY <3>1, <3>2 DEF Quot
  <2> HIDE DEF a
  <2>9. a \in Nat
    BY <2>1, <2>6, <2>8, WholeDivision
  <2>10. ASSUME f - a * d \in 0..(d - 1), a <= 9
         PROVE  NextRest(f, a) = (f - a * d) * 10
    BY <2>1, <2>6, <2>9, <2>10, RestIs
  <2> HIDE DEF n, d
  <2>11. Divided(n, d, P, R, c, f)
    BY <1>1, <2>1, <2>6, <2>8 DEF Divided
  <2>12. /\ a > c => n * P >= (R + 1) * d
         /\ a < c => n * P <= R * d
         /\ a = c => /\ f - a * d \in 0..(d - 1)
                     /\ n * P = R * d + (f - a * d)
    <3>1. DigitSays(n, d, P, R, c, f, a)
      BY <2>8, <2>11, DivisionRound, Zenon
    <3> QED BY <3>1, Zenon DEF DigitSays
  <2>13. CASE a = c
    <3>1. PICK m \in 0..(d - 1) : m = f - a * d
      BY <2>12, <2>13
    <3>2. rest' = m * 10
      <4>1. a <= 9 BY <2>3, <2>9, <2>13
      <4>2. f - a * d \in 0..(d - 1) BY <3>1
      <4>3. NextRest(f, a) = (f - a * d) * 10 BY <2>10, <4>1, <4>2
      <4> QED BY <2>2, <3>1, <4>3
    <3>3. n * p[k] = r[k] * d + m
      BY <2>4, <2>5, <2>12, <2>13, <3>1
    <3>4. place' - 1 = k
      BY <1>1
    <3>5. verdict' = "none"
      BY <2>2, <2>13
    <3> QED BY <1>1, <3>2, <3>3, <3>4, <3>5 DEF DivisionInv, n, d
  <2>14. CASE a > c
    <3>1. n * n > 2 * d * d
      <4>1. R + 1 \in Nat /\ (R + 1) * (R + 1) > 2 * P * P
        <5>1. (R + 1) * (R + 1) \in Int /\ 2 * P * P \in Int OBVIOUS
        <5> QED BY <2>7, <5>1
      <4> QED BY <1>1, <2>1, <2>12, <2>14, <4>1, AboveRoot
    <3>2. verdict' = "down"
      BY <2>2, <2>8, <2>9, <2>14, CompareIs
    <3>3. Compare(n * n, 2 * d * d) = "down"
      <4>1. n * n \in Int /\ 2 * d * d \in Int BY <1>1
      <4> QED BY <3>1, <4>1, CompareIs
    <3> QED BY <1>1, <1>2, <3>2, <3>3 DEF DivisionInv, Exact
  <2>15. CASE a < c
    <3>1. n * n < 2 * d * d
      BY <1>1, <2>1, <2>7, <2>12, <2>15, BelowRoot
    <3>2. verdict' = "up"
      BY <2>2, <2>8, <2>9, <2>15, CompareIs
    <3>3. Compare(n * n, 2 * d * d) = "up"
      <4>1. n * n \in Int /\ 2 * d * d \in Int BY <1>1
      <4> QED BY <3>1, <4>1, CompareIs
    <3> QED BY <1>1, <1>2, <3>2, <3>3 DEF DivisionInv, Exact
  <2> QED BY <2>8, <2>9, <2>13, <2>14, <2>15
<1> QED BY <1>3, <1>4

\* When all digits were compared, the verdict is there.
LEMMA DigitsSuffice ==
    ASSUME NEW r, NEW p, RootIsRoot(r, p), RootIsLong(p), UpDownInv(r, p)
    PROVE  VerdictIsExact
<1>1. Len(Root) \in Nat /\ Len(Root) > 0 /\ asked \in Asked
  BY UpDownAssumption DEF UpDownInv, UpDownTypeOK
<1>2. ASSUME verdict = "none", place = Len(Root), Denominator > 0, InRange
      PROVE  FALSE
  <2>1. asked.form = "fraction" /\ asked.game = "14" /\ Denominator = asked.den
    BY <1>1, <1>2 DEF UpDownInv, DivisionInv, Denominator
  <2>2. asked.num \in Nat /\ asked.den \in Numbers /\ asked.den \in Nat \ {0}
    BY <1>1, <1>2, <2>1, AskedParts
  <2>3. PICK m \in 0..(asked.den - 1) :
            asked.num * p[place - 1] = r[place - 1] * asked.den + m
    BY <1>1, <1>2, <2>1 DEF UpDownInv, DivisionInv
  <2>4. place - 1 \in 0..Len(Root)
    BY <1>1, <1>2
  <2>5. PICK P \in Nat \ {0} : P = p[place - 1]
    <3>1. \A i \in 1..Len(Root) : Zeros(Root)[i] = 0 BY DEF Zeros
    <3> QED BY <1>1, <2>4, <3>1, TensArePositive DEF RootIsRoot
  <2>6. PICK R \in Nat : R = r[place - 1]
    BY <2>4 DEF RootIsRoot, Writes
  <2>7. PICK d \in Nat \ {0} : d = asked.den
    BY <2>2
  <2>8. PICK n \in Nat : n = asked.num
    BY <2>2
  <2>9. R * R < 2 * P * P /\ 2 * P * P < (R + 1) * (R + 1) /\ 3 * d * d <= P
    BY <1>2, <2>2, <2>4, <2>5, <2>6, <2>7 DEF RootIsRoot, RootIsLong
  <2>10. R * d <= n * P /\ n * P < (R + 1) * d
    <3>1. n * P = R * d + m /\ m \in 0..(d - 1)
      BY <2>3, <2>5, <2>6, <2>7, <2>8
    <3>2. R * d \in Nat /\ (R + 1) * d = R * d + d
      OBVIOUS
    <3> QED BY <3>1, <3>2
  <2> QED BY <2>9, <2>10, DigitsDecide
<1> QED BY <1>2 DEF VerdictIsExact, UpDownInv, Exact

\* A step keeps the invariant.
LEMMA UpDownStep ==
    ASSUME NEW r, NEW p, RootIsRoot(r, p), RootIsLong(p), UpDownInv(r, p),
           [UpDownNext]_upDownVars
    PROVE  UpDownInv(r, p)'
<1>1. UpDownTypeOK'
  BY TypeKept DEF UpDownInv
<1>2. CASE Whole
  <2>1. asked' = asked /\ place' = place /\ asked.form = "whole"
    BY <1>2 DEF Whole
  <2>2. Exact' /\ ~(place > 0)
    BY <1>2, <2>1, WholeIsExact DEF UpDownInv, DivisionInv
  <2> QED BY <1>1, <2>1, <2>2 DEF UpDownInv, DivisionInv
<1>3. CASE Decimal
  <2>1. asked' = asked /\ place' = place /\ asked.form = "decimal"
    BY <1>3 DEF Decimal
  <2>2. Exact' /\ ~(place > 0)
    BY <1>3, <2>1, DecimalIsExact DEF UpDownInv, DivisionInv
  <2> QED BY <1>1, <2>1, <2>2 DEF UpDownInv, DivisionInv
<1>4. CASE MultiplyAcross
  <2>1. asked' = asked /\ place' = place /\ asked.game = "91"
    BY <1>4 DEF MultiplyAcross
  <2>2. Exact' /\ ~(place > 0)
    BY <1>4, <2>1, ProductIsExact DEF UpDownInv, DivisionInv
  <2> QED BY <1>1, <2>1, <2>2 DEF UpDownInv, DivisionInv
<1>5. CASE Divide
  BY <1>1, <1>5, DivideKeeps DEF UpDownInv
<1>6. CASE UNCHANGED upDownVars
  <2>1. DivisionInv(r, p)'
    BY <1>6 DEF upDownVars, UpDownInv, DivisionInv, InRange
  <2>2. verdict' # "none" => Exact'
    BY <1>6 DEF upDownVars, UpDownInv, Exact, InRange, Denominator, Numerator
  <2> QED BY <1>1, <2>1, <2>2 DEF UpDownInv
<1> QED BY <1>2, <1>3, <1>4, <1>5, <1>6 DEF UpDownNext

\* The types hold for every root, whatever is typed: the rest of the division stays an
\* int, and the place within the digits.
THEOREM UpDownTypeCorrect == UpDownSpec => []UpDownTypeOK
<1>1. UpDownInit => UpDownTypeOK
  BY UpDownAssumption, HalfAssumption DEF UpDownInit, UpDownTypeOK
<1>2. UpDownTypeOK /\ [UpDownNext]_upDownVars => UpDownTypeOK'
  BY TypeKept
<1> QED BY <1>1, <1>2, PTL DEF UpDownSpec

\* The verdict on a number is that of exact arithmetic, for every number and decimal
\* that is typed: of ".91updown" always, of ".14updown" if the digits the code holds are
\* those of the root, and enough to decide every decimal and to tell every fraction from it.
THEOREM VerdictsAreExact ==
    ASSUME NEW r, NEW p, RootIsRoot(r, p), RootIsLong(p)
    PROVE  UpDownSpec => []VerdictIsExact
<1>1. UpDownInit => UpDownInv(r, p)
  BY UpDownAssumption, HalfAssumption
     DEF UpDownInit, UpDownInv, UpDownTypeOK, DivisionInv
<1>2. UpDownInv(r, p) /\ [UpDownNext]_upDownVars => UpDownInv(r, p)'
  BY UpDownStep
<1>3. UpDownInv(r, p) => VerdictIsExact
  BY DigitsSuffice
<1> QED BY <1>1, <1>2, <1>3, PTL DEF UpDownSpec
====
