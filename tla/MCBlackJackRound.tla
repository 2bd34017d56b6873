---- MODULE MCBlackJackRound ----
(***************************************************************************)
(* Instance of BlackJackRound for TLC.                                     *)
(***************************************************************************)
EXTENDS BlackJackRound

\* An ace, a seven, a ten: a natural, a bust with three cards, a dealer who is
\* done with two, three or four.
MCRanks == {0, 6, 9}
====
