---- MODULE LabyrinthServer ----
(***************************************************************************)
(* What the stores of one server of LabyrinthBot have in common: its       *)
(* channels, the text that stands for what is not set, and the state of a  *)
(* file that does not exist.                                               *)
(***************************************************************************)

CONSTANTS
    Channels,
    inv,        \* the text "=invalid="
    NoFile
====
