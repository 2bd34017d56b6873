---- MODULE MCBank ----
(***************************************************************************)
(* Instances of Bank for TLC.                                              *)
(***************************************************************************)
EXTENDS Bank

CONSTANTS u1, u2

\* No file yet, a player of a running game, and a qambler with three chips.
MCInitRecs == {NoRec,
               [money |-> 1000, chip |-> 0, playing |-> 1],
               [money |-> 0, chip |-> 3, playing |-> 0]}
\* For the limits of the int also a qambler whose money is the largest int.
MCWideRecs == {[money |-> 1000, chip |-> 0, playing |-> 0],
               [money |-> Half - 1, chip |-> 3, playing |-> 0]} \cup MCInitRecs
\* The product of the price and the last count is a negative int.
MCCounts == {-2, 1, 3, 132}
\* The administrator may set any sum; a user may type any.
MCAmounts == {-1000, 1000}
====
