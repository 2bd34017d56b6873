---- MODULE CInt ----
(***************************************************************************)
(* The int of the builds: Half values from 0 up and as many below.  A      *)
(* result that does not fit is undefined in C++; the builds wrap around.   *)
(***************************************************************************)
EXTENDS Integers

CONSTANT Half       \* 2^31

ASSUME HalfAssumption == Half \in Nat \ {0}

Wrap(n) == ((n + Half) % (2 * Half)) - Half

Fits(n) == n = Wrap(n)

\* Division is towards 0.
Quot(a, b) == IF a < 0 THEN 0 - ((0 - a) \div b) ELSE a \div b
====
