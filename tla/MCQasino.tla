---- MODULE MCQasino ----
(***************************************************************************)
(* Instances of Qasino for TLC.                                            *)
(***************************************************************************)
EXTENDS Qasino, TLC

CONSTANTS u1, u2

\* Users are alike; used for the invariant only.
Alike == Permutations(Users)

\* A player with chips for one bet of 20 and money to send or to exchange.
MCInitRecs == {[money |-> 1000, chip |-> 20, playing |-> 0]}
====
