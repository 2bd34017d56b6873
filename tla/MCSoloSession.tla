---- MODULE MCSoloSession ----
(***************************************************************************)
(* Instances of SoloSession for TLC.                                       *)
(***************************************************************************)
EXTENDS SoloSession, TLC

CONSTANTS u1, u2, c1, c2

\* Users and channels are alike; used for invariants only.
Alike == Permutations(Users) \cup Permutations(Channels)

\* Players with chips for one bet of 20; crashes make newcomers of them.
MCInitRecs == {[money |-> 0, chip |-> 20, playing |-> 0]}
====
