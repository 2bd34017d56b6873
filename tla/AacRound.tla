---- MODULE AacRound ----
(***************************************************************************)
(* A round of anticipation and confirmation, the guessing game: Process,   *)
(* Result and AACEmbed of AnticipationAndConfirmation in QasinoBot.cpp.    *)
(* The bot draws an answer of different digits; each guess of /gc is shown *)
(* with its strikes, balls and outs, and the right one pays the more, the  *)
(* earlier it comes.                                                       *)
(***************************************************************************)
EXTENDS Integers, Sequences, FiniteSets

CONSTANTS
    Digits,     \* 0..9
    Dif,        \* _dif, the length of the answer
    AacBets,    \* the bets a round may begin with
    PayRate,    \* pow(_rew + turn / 4, _nor - turn - 0.7) in thousandths
    MaxTurns    \* bound: guesses of a round

ASSUME AacAssumption ==
    /\ IsFiniteSet(Digits)
    /\ Dif \in 1..Cardinality(Digits)
    /\ AacBets \subseteq Nat
    /\ MaxTurns \in Nat
    /\ PayRate \in [1..MaxTurns -> Nat]

VARIABLES
    betting,    \* _betting
    answer,     \* _answer
    history,    \* _history, whose length is _turn
    aacSettled  \* history: what the calls of EndGame added to the chips

aacVars == <<betting, answer, history, aacSettled>>

Texts == [1..Dif -> Digits]

Distinct(s) == \A i, j \in DOMAIN s : i # j => s[i] # s[j]

---------------------------------------------------------------------------
\* visit[] marks the digits of the answer.
Visited == {answer[i] : i \in 1..Dif}

Strikes(v) == {i \in 1..Dif : v[i] \in Visited /\ v[i] = answer[i]}

Balls(v) == {i \in 1..Dif : v[i] \in Visited /\ v[i] # answer[i]}

Outs(v) == {i \in 1..Dif : v[i] \notin Visited}

Result(v) == [str |-> Cardinality(Strikes(v)),
              bll |-> Cardinality(Balls(v)),
              out |-> Cardinality(Outs(v))]

\* Mutant: repeated digits are let through.
AnyText(v) == v \in Texts

\* The checks of a guess: its length, its digits, and none of them twice.
Accepted(v) == v \in Texts /\ Distinct(v)

\* Mutant: a guess of the same digits wins.
SameDigits(v) == Outs(v) = {}

IsRight(v) == v = answer

\* Mutant: the bet is taken off here, and again by EndGame.
PrizeNet(turn) == (betting * PayRate[turn]) \div 1000 - betting

\* The prize is cut to an int.
Prize(turn) == (betting * PayRate[turn]) \div 1000

---------------------------------------------------------------------------
\* Process(start) draws until each digit differs from those before it.
AacInit ==
    /\ betting \in AacBets
    /\ answer \in {a \in Texts : Distinct(a)}
    /\ history = << >>
    /\ aacSettled = << >>

\* A press finds its game by the ID, which EndGame takes away.
Playing == aacSettled = << >>

\* /gc.  Process does not ask whether the game is over, and the handler may come
\* to one that is: where its scan finds no game of the member, the flag "init"
\* was never assigned.  A text that is not accepted changes nothing.
Guess(v) ==
    /\ Accepted(v)
    /\ Len(history) < MaxTurns
    /\ history' = Append(history, v)
    /\ aacSettled' = IF IsRight(v) THEN Append(aacSettled, Prize(Len(history')) - betting)
                     ELSE aacSettled
    /\ UNCHANGED <<betting, answer>>

\* The button "quit", the only one there is: EndGame(0, 0).
Quit ==
    /\ Playing
    /\ aacSettled' = << 0 - betting >>
    /\ UNCHANGED <<betting, answer, history>>

AacNext == Quit \/ \E v \in Texts : Guess(v)

AacSpec == AacInit /\ [][AacNext]_aacVars

---------------------------------------------------------------------------
(* Properties *)

\* Types; what is drawn and what is accepted has no digit twice.
AacTypeOK ==
    /\ betting \in AacBets
    /\ answer \in Texts /\ Distinct(answer)
    /\ history \in Seq({v \in Texts : Distinct(v)})
    /\ Len(history) <= MaxTurns
    /\ aacSettled \in Seq(Int)

\* The result that is shown is the one of the game's rules: strikes are right
\* digits in their place, and each digit that both texts hold counts once, as
\* a strike or as a ball.  One array of marks is enough for this only because no
\* digit is there twice.
ResultIsRules ==
    \A i \in 1..Len(history) :
        LET v == history[i]
            common == {d \in Digits : d \in Visited /\ \E k \in 1..Dif : v[k] = d}
        IN  /\ Result(v).str = Cardinality({k \in 1..Dif : v[k] = answer[k]})
            /\ Result(v).str + Result(v).bll = Cardinality(common)
            /\ Result(v).str + Result(v).bll + Result(v).out = Dif

\* A guess is paid, with the prize of its turn, if it is shown as all strikes,
\* and else not; that it comes after the end of the round makes no difference.
\* Nothing but the first end of the round pays nothing.
AllStrikesWin ==
    [][LET turn == Len(history')
       IN  IF history' # history
           THEN aacSettled' = IF Result(history'[turn]).str = Dif
                              THEN Append(aacSettled, Prize(turn) - betting)
                              ELSE aacSettled
           ELSE aacSettled' # aacSettled =>
                    aacSettled = << >> /\ aacSettled' = << 0 - betting >>]_aacVars

AacAsRound == INSTANCE SoloRound WITH
    Kind   <- "aac",
    Chips  <- 0,
    Stakes <- AacBets,
    stake  <- betting,
    gain   <- IF aacSettled = << >> THEN 0 ELSE aacSettled[Len(aacSettled)],
    over   <- aacSettled # << >>

\* The round does to the session what SoloSession lets it do: it ends with the
\* stake lost, or with a prize which may be below the stake but is not negative,
\* and when it is over it can only be won, by a guess that comes too late.
AacRefinement == AacAsRound!RoundSpec
====
