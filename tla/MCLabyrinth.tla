---- MODULE MCLabyrinth ----
(***************************************************************************)
(* Instance of LabyrinthQuestions and HintCooldown for TLC.  They share no *)
(* file; a behaviour has the owner's commands and the answers of one, or   *)
(* the settings and the hints of the other.                                *)
(***************************************************************************)
EXTENDS LabyrinthQuestions, HintCooldown

VARIABLE store

allVars == <<store, vars, hintVars>>

\* A line, and the line that it makes with a second one, "b", without the break
\* between them; and names.
MCWords == {"a", "ab"}
MCQuestions == {"q1", "q2"}
MCLines == MCWords \cup MCQuestions \cup {"b", "c1", "r1", "=invalid=", "KICKTHISUSER"}
MCAnswers == {<<"a">>, <<"a", "b">>}
MCLeads == {<<"q1">>, <<"q2">>}
MCHints == {<<"b">>}
MCGlue(t) == IF Len(t) = 1 THEN t[1] ELSE "ab"

\* A wait of nothing, the number that means no change, a longer wait, and one whose
\* seconds do not fit the int.
MCSettings == {-1, 0, 2, 3}

LabyrinthInit ==
    \/ store = "questions" /\ Init /\ HintInit
    \/ store = "hints" /\ HintInit /\ Init
       /\ file = [q \in Questions |-> IF q \in Traps THEN Trap("a", inv) ELSE NoFile]
       /\ roles = [m \in Solvers |-> {}]

LabyrinthNext ==
    \/ store = "questions" /\ Next /\ UNCHANGED <<store, hintVars>>
    \/ store = "hints" /\ HintNext /\ UNCHANGED <<store, vars>>

LabyrinthSpec == LabyrinthInit /\ [][LabyrinthNext]_allVars
====
