---- MODULE SoloRound ----
(***************************************************************************)
(* What a round owes the session: what SoloSession takes for granted of    *)
(* the Process of each game.  A round has a stake, which only a blackjack  *)
(* round may double, and only against chips; it ends with the stake lost   *)
(* or with a prize, which at blackjack is twice the stake.  It ends once,  *)
(* but for the guessing game, which a guess may win again when it is over. *)
(* BlackJackRound, DiceRound and AacRound implement it.                    *)
(***************************************************************************)
EXTENDS Integers

CONSTANTS
    Kind,       \* "dice", "blackjack" or "aac"
    Chips,      \* the chips of the player when the round began
    Stakes      \* the stakes a round may begin with

VARIABLES
    stake,
    gain,       \* what the last end of the round added to the chips
    over

RoundInit ==
    /\ stake \in Stakes
    /\ gain = 0
    /\ over = FALSE

Double ==
    /\ Kind = "blackjack"
    /\ ~over
    /\ Chips >= stake
    /\ stake' = 2 * stake
    /\ UNCHANGED <<gain, over>>

End(g) ==
    /\ ~over
    /\ over' = TRUE
    /\ gain' = g
    /\ UNCHANGED stake

Lose == End(0 - stake)

Win == IF Kind = "blackjack" THEN End(stake)
       ELSE gain' + stake >= 0 /\ End(gain')

\* /gc reaches a guessing game that is over by a flag it has not assigned.
WinAgain ==
    /\ Kind = "aac"
    /\ over
    /\ gain' + stake >= 0
    /\ UNCHANGED <<stake, over>>

RoundNext == Double \/ Lose \/ Win \/ WinAgain

RoundSpec == RoundInit /\ [][RoundNext]_<<stake, gain, over>>
====
