---- MODULE Bank ----
(***************************************************************************)
(* The commands that move money: /send, /chip and /nick of onInteraction,  *)
(* and the administrator's ||money of onMessage, in QasinoBot.cpp.  Each   *)
(* reads the records it needs up front and writes them back whole, one     *)
(* file after the other.  Products and sums are those of the code's int.    *)
(***************************************************************************)
EXTENDS QamblerStore, CInt

CONSTANTS
    Amounts,    \* the sums of money users and the administrator type
    Counts,     \* the numbers of chips users type; the code takes any sign
    MaxServed,  \* bound: how many commands may move money
    MaxCrash    \* bound: how often the process dies

ASSUME BankAssumption ==
    /\ Amounts \subseteq Int
    /\ Counts \subseteq Int
    /\ MaxServed \in Nat
    /\ MaxCrash \in Nat

NickPrice == 100000
BuyPrice  == 1000
SellPrice == 950

Commands == {"none", "other", "send", "buy", "sell", "nick", "grant"}
Job == [cmd: Commands, who: Users, to: Users, n: Int]

VARIABLES
    crashes,
    served,     \* how many commands that may move money were handled
    job,        \* history: the command that is running, or ran last
    opening     \* history: the files as that command found them

bankVars == <<crashes, served, job, opening>>
vars == <<file, queue, bankVars>>

---------------------------------------------------------------------------
\* The sums are ints.  A debit needs no Wrap: the money covers it.
Credit(r, n) == [r EXCEPT !.money = Wrap(@ + n)]
Debit(r, n)  == [r EXCEPT !.money = @ - n]

\* The member u of a command has a readable file by the time it reads others.
CreateOther(u, v) == IF v = u THEN << >> ELSE Create(v)

\* A handler starts: its effects are queued, and the histories are kept.
Handle(cmd, u, v, n, effects) ==
    /\ Idle
    /\ queue' = effects
    /\ job' = [cmd |-> cmd, who |-> u, to |-> v, n |-> n]
    /\ opening' = file
    /\ UNCHANGED <<file, crashes>>

\* Mutant: without the PL_X check.
CommandUnchecked(cmd, u, v, n, effects) ==
    /\ served < MaxServed
    /\ served' = served + 1
    /\ Handle(cmd, u, v, n, << Stamp(u) >> \o effects)

\* A slash command that passes the PL_X check.
Command(cmd, u, v, n, effects) ==
    /\ served < MaxServed
    /\ served' = served + 1
    /\ Read(u).playing = 0
    /\ Handle(cmd, u, v, n, << Stamp(u) >> \o effects)

Init ==
    /\ StoreInit
    /\ crashes = 0
    /\ served = 0
    /\ job \in [cmd: {"none"}, who: Users, to: Users, n: {0}]
    /\ opening = file

---------------------------------------------------------------------------
\* /send: both records are read before either is written, the sender's file is
\* written first.  Nothing keeps the two from being the same.
CanSend(u, n) == Read(u).money >= n /\ n > 0

\* Mutant: the receiver's file is written first.
SendCreditFirst(u, v, n) ==
    /\ CanSend(u, n)
    /\ Command("send", u, v, n,
               CreateOther(u, v) \o << Write(v, Credit(Read(v), n)),
                               Write(u, Debit(Read(u), n)) >>)

Send(u, v, n) ==
    /\ CanSend(u, n)
    /\ Command("send", u, v, n,
               CreateOther(u, v) \o << Write(u, Debit(Read(u), n)),
                               Write(v, Credit(Read(v), n)) >>)

SendRefused(u, v, n) ==
    /\ ~CanSend(u, n)
    /\ Command("other", u, v, n, CreateOther(u, v))

\* What /chip makes of a record.  A sum of a wrapped product wraps to what the
\* wrapped sum does.
Bought(r, k) == [r EXCEPT !.money = Wrap(@ - k * BuyPrice), !.chip = Wrap(@ + k)]
Sold(r, k)   == [r EXCEPT !.money = Wrap(@ + k * SellPrice), !.chip = Wrap(@ - k)]

\* Mutant: the money is compared with the price of one chip.
CoversOne(r, k) == r.money >= BuyPrice

\* The product is an int before it is compared.
CoversChips(r, k) == r.money >= Wrap(k * BuyPrice)

\* /chip buy and /chip sell: no check of the sign of the count.
Buy(u, k) ==
    /\ CoversChips(Read(u), k)
    /\ Command("buy", u, u, k, << Write(u, Bought(Read(u), k)) >>)

Sell(u, k) ==
    /\ Read(u).chip >= k
    /\ Command("sell", u, u, k, << Write(u, Sold(Read(u), k)) >>)

\* /nick: the money is compared with the price and nothing is deducted.  The
\* record UpdNick writes is that of the command's own ID, which is no user.
Nick(u) ==
    /\ Read(u).money >= NickPrice
    /\ Command("nick", u, u, 0, << >>)

\* A command that PL_X or its own check turns away, or that is no business of
\* the bank's.
Other(u) ==
    /\ Handle("other", u, u, 0, << Stamp(u) >>)
    /\ UNCHANGED served

\* ||money, from the administrator's message: not gated by anything.
Grant(v, n) ==
    /\ served < MaxServed
    /\ served' = served + 1
    /\ Handle("grant", v, v, n, SetMoney(v, n))

Perform == PerformWrite /\ UNCHANGED bankVars

Crash ==
    /\ crashes < MaxCrash
    /\ StoreCrash
    /\ crashes' = crashes + 1
    /\ UNCHANGED <<served, job, opening>>

Banking ==
    \/ \E u, v \in Users, n \in Amounts : Send(u, v, n) \/ SendRefused(u, v, n)
    \/ \E u \in Users, k \in Counts : Buy(u, k) \/ Sell(u, k)
    \/ \E u \in Users : Nick(u) \/ Other(u)
    \/ \E v \in Users, n \in Amounts : Grant(v, n)

Next ==
    \/ Banking
    \/ Perform
    \/ Crash

Spec == Init /\ [][Next]_vars

---------------------------------------------------------------------------
(* Properties *)

\* Types of the bank's state.
TypeOK ==
    /\ file \in [Users -> Rec \cup {NoRec}]
    /\ queue \in Seq(WriteEffect)
    /\ crashes \in 0..MaxCrash
    /\ served \in 0..MaxServed
    /\ job \in Job
    /\ opening \in [Users -> Rec \cup {NoRec}]

\* The accounts between handlers: while one runs, as it found them.
RecordIn(f, u) == IF f[u] = NoRec THEN Fresh ELSE f[u]

Account == [u \in Users |->
    LET r == RecordIn(IF Idle THEN file ELSE opening, u)
    IN  [money |-> r.money, chip |-> r.chip]]

Book == INSTANCE Ledger WITH
    account <- Account,
    Opening <- [money |-> Fresh.money, chip |-> Fresh.chip]

\* Every command, and every death of the process in the middle of one, is one
\* whole operation of the ledger: since the sender's file is written before
\* the receiver's, no crash leaves a credit without its debit.
LedgerRefinement == Book!LedgerSpec

\* The handler has performed its last effect.
Finishes == ~Idle /\ Idle' /\ crashes' = crashes

\* A product or a sum of the command is more than an int holds.
LeavesInt ==
    LET m == RecordIn(opening, job.to).money
    IN  \/ job.cmd = "send" /\ ~Fits(m + job.n)
        \/ job.cmd = "buy" /\ ~(Fits(job.n * BuyPrice) /\ Fits(m - job.n * BuyPrice))
        \/ job.cmd = "sell" /\ ~Fits(m + job.n * SellPrice)

\* Nobody gets into debt by a command that compares money or chips with what
\* it takes, wherever the process dies in it.  The ways there are: the sale of a
\* negative number of chips, which compares chips and takes money; a product or
\* a sum that leaves the int, as /chip buy compares the product after that; and
\* the administrator.
DebtHasCause ==
    [][\A u \in Users :
          Account[u].money >= 0 /\ Account'[u].money < 0 =>
              \/ job.cmd = "sell" /\ job.n < 0
              \/ LeavesInt
              \/ job.cmd = "grant"]_vars

SumMoney(f) == LET Add[S \in SUBSET Users] ==
                     IF S = {} THEN 0
                     ELSE LET u == CHOOSE u \in S : TRUE
                          IN  RecordIn(f, u).money + Add[S \ {u}]
               IN  Add[Users]

\* README.md says of /send that it sends money to another qambler: a completed
\* transfer leaves as much money as there was.
SendConserves ==
    [][Finishes /\ job.cmd = "send" => SumMoney(file') = SumMoney(opening)]_vars

\* README.md says of /nick that it pays 100000Q$ to change one's nick.
NickIsPaid ==
    [][Finishes /\ job.cmd = "nick" =>
          RecordIn(file', job.who).money = RecordIn(opening, job.who).money - NickPrice]_vars
====
