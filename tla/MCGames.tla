---- MODULE MCGames ----
(***************************************************************************)
(* Instances for TLC of the games that are played alone with the bot: dice *)
(* bet, the guessing game, and Labyrinth's up-down games.  They share      *)
(* nothing; a behaviour plays one of them.                                 *)
(***************************************************************************)
EXTENDS DiceRound, AacRound, UpDown

VARIABLE played

allVars == <<played, vars, aacVars, upDownVars>>

\* The least bet, one that leaves a remainder, and a high one.
MCStakes == {10, 33, 4000}

\* Three digits are enough for strikes, balls and outs of two places.
MCAacBets == {20}
MCPayRate == <<112621, 37540, 12513, 6062, 1515, 378>>

MCNumbers == 0..40
MCDecimals == UNION {[1..n -> {0, 1, 2, 4, 5, 8}] : n \in 1..3}
MCRoot == <<4, 1, 4, 2, 1, 3, 5, 6>>

\* The games that are not played keep one of their initial states.
SomeDice == Init /\ bet = 10
SomeAac == AacInit /\ answer = <<0, 1>>
SomeUpDown == UpDownInit /\ asked = [game |-> "91", form |-> "whole", num |-> 0]

GamesInit ==
    \/ played = "dice" /\ Init /\ SomeAac /\ SomeUpDown
    \/ played = "aac" /\ SomeDice /\ AacInit /\ SomeUpDown
    \/ played = "updown" /\ SomeDice /\ SomeAac /\ UpDownInit

GamesNext ==
    \/ played = "dice" /\ Next /\ UNCHANGED <<played, aacVars, upDownVars>>
    \/ played = "aac" /\ AacNext /\ UNCHANGED <<played, vars, upDownVars>>
    \/ played = "updown" /\ UpDownNext /\ UNCHANGED <<played, vars, aacVars>>

GamesSpec == GamesInit /\ [][GamesNext]_allVars
====
