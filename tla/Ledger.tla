---- MODULE Ledger ----
(***************************************************************************)
(* What the bank commands promise about the accounts: each account holds   *)
(* money and chips, and between two commands the accounts have changed by  *)
(* one whole operation.  A process that dies may lose money that was on    *)
(* its way, or reset an account, but never credits what was not debited.   *)
(* Sums are those of an int: what leaves it wraps around.                  *)
(* Bank implements this ledger (LedgerRefinement there).                   *)
(***************************************************************************)
EXTENDS CInt

CONSTANTS
    Users,
    Amounts,    \* the sums of money that are sent or set
    Counts,     \* the numbers of chips that are exchanged
    Opening     \* the account of a newcomer

VARIABLE account    \* [Users -> [money: Int, chip: Int]]

\* An account with n more or less money, which the account covers if it is less.
Gain(a, n) == [money |-> Wrap(a.money + n), chip |-> a.chip]
Pay(a, n)  == [money |-> a.money - n, chip |-> a.chip]

\* An account with dm more money and dc more chips.
Exchanged(a, dm, dc) == [money |-> Wrap(a.money + dm), chip |-> Wrap(a.chip + dc)]

Covers(u, n) == n > 0 /\ account[u].money >= n

Transfer(u, v, n) ==
    /\ u # v
    /\ Covers(u, n)
    /\ account' = [account EXCEPT ![u] = Pay(@, n), ![v] = Gain(@, n)]

\* A transfer to oneself credits without debiting.
SelfSend(u, n) ==
    /\ Covers(u, n)
    /\ account' = [account EXCEPT ![u] = Gain(@, n)]

Buy(u, k) ==
    /\ account[u].money >= Wrap(1000 * k)
    /\ account' = [account EXCEPT ![u] = Exchanged(@, 0 - 1000 * k, k)]

Sell(u, k) ==
    /\ account[u].chip >= k
    /\ account' = [account EXCEPT ![u] = Exchanged(@, 950 * k, 0 - k)]

Grant(u, n) == account' = [account EXCEPT ![u] = [money |-> n, chip |-> @.chip]]

\* The process dies.
Lose(u, n) ==
    /\ Covers(u, n)
    /\ account' = [account EXCEPT ![u] = Pay(@, n)]

Reset(u) == account' = [account EXCEPT ![u] = Opening]

LoseAndReset(u, v, n) ==
    /\ Covers(u, n)
    /\ account' = [account EXCEPT ![u] = Pay(@, n), ![v] = Opening]

LedgerInit == account \in [Users -> [money: Int, chip: Int]]

LedgerNext ==
    \/ \E u, v \in Users, n \in Amounts :
          Transfer(u, v, n) \/ LoseAndReset(u, v, n)
    \/ \E u \in Users, n \in Amounts : SelfSend(u, n) \/ Grant(u, n) \/ Lose(u, n)
    \/ \E u \in Users, k \in Counts : Buy(u, k) \/ Sell(u, k)
    \/ \E u \in Users : Reset(u)

LedgerSpec == LedgerInit /\ [][LedgerNext]_account
====
