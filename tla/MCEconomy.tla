---- MODULE MCEconomy ----
(***************************************************************************)
(* Instances for TLC of the two parts of Qasino that timers drive, the     *)
(* beggars and the stock market.  They touch different state; a behaviour  *)
(* runs one of them.                                                       *)
(***************************************************************************)
EXTENDS BeggarGate, Market

VARIABLE scene

\* A dear and a cheap count; the third overflows the price of a share or two.
MCShareCounts == {-1, 12, 2667}
MCDev == <<1, 0>>
\* A file that was cut short may leave any number.
MCGarbage == {-2, 9}

\* The name on Discord has room for a mark, the one that is given has not.
MCRoom == [n \in Names \cup {Username} |-> IF n = Username THEN 1 ELSE 0]

economyVars == <<scene, vars, marketVars>>

\* The part that does not run keeps one of its initial states.
SomeBeggars == Init /\ file = [m \in Members |-> NoRec]
SomeMarket == MarketInit /\ quoted = [n \in Listed |-> 0]

EconomyInit ==
    \/ scene = "beggars" /\ Init /\ SomeMarket
    \/ scene = "market" /\ SomeBeggars /\ MarketInit

EconomyNext ==
    \/ scene = "beggars" /\ Next /\ UNCHANGED <<scene, marketVars>>
    \/ scene = "market" /\ MarketNext /\ UNCHANGED <<scene, vars>>

\* BeggarGate's Fairness, of the behaviours with beggars.
EconomyFairness ==
    /\ WF_vars(scene = "beggars" /\ PerformWrite)
    /\ SF_vars(scene = "beggars" /\ Tick)
    /\ \A m \in Members : SF_vars(scene = "beggars" /\ \E t \in timers : t.who = m /\ Fire(t))

EconomySpec == EconomyInit /\ [][EconomyNext]_economyVars /\ EconomyFairness
====
