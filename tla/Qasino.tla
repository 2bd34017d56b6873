---- MODULE Qasino ----
(***************************************************************************)
(* The bot as a whole, as far as it is modelled: the sessions of           *)
(* SoloSession and the commands of Bank, over the same files, in the same  *)
(* thread and the same process.                                            *)
(***************************************************************************)
EXTENDS SoloSession, CInt

CONSTANTS Amounts, Counts, MaxServed    \* of Bank

ASSUME BotAssumption ==
    /\ Amounts \subseteq Int
    /\ Counts \subseteq Int
    /\ MaxServed \in Nat

VARIABLES served, job, opening          \* of Bank

Desk == INSTANCE Bank

deskVars == <<served, job, opening>>
gameVars == <<solo, nextId, msg, clicks, paid, wild, stray>>
botVars  == <<vars, deskVars>>

BotInit == Init /\ Desk!Init

\* A handler of the games starts, or someone presses a button; the bank's
\* histories note that the files change hands.
Play ==
    /\ Session
    /\ UNCHANGED served
    /\ IF queue' = queue THEN UNCHANGED <<job, opening>>
       ELSE /\ job' = [job EXCEPT !.cmd = "other"]
            /\ opening' = file

Trade == Desk!Banking /\ UNCHANGED gameVars

BotPerform == Perform /\ UNCHANGED deskVars

BotCrash == Crash /\ UNCHANGED deskVars

BotNext == Play \/ Trade \/ BotPerform \/ BotCrash

BotSpec == BotInit /\ [][BotNext]_botVars

---------------------------------------------------------------------------
(* Properties *)

\* The chips a running game was staked on stay in its player's file, whatever
\* the bank does meanwhile: /chip is closed to a player by the flag, and a
\* transfer writes back the chips it has read.  So the end of the game, which
\* writes its own copy of them, loses none.
GameChipsFresh ==
    Idle => \A g \in LiveGames :
        solo[g].owner \notin stray =>
            /\ Read(solo[g].owner).chip = solo[g].cache.chip
            /\ Read(solo[g].owner).playing = 1

\* README.md says that games are played with chips and that /send gives money
\* to another qambler: the handler that ends a game leaves the money alone.
GamesLeaveMoney ==
    [][Desk!Finishes /\ job.cmd = "other" =>
          \A u \in Users :
              Desk!RecordIn(file', u).money = Desk!RecordIn(opening, u).money]_botVars
====
