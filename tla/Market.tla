---- MODULE Market ----
(***************************************************************************)
(* The stock market: the prices that UpdStk moves and writes to files, and *)
(* the trades of /stock at these prices.  QasinoBot.cpp and the stock of   *)
(* QasinoHeader.h.                                                         *)
(*                                                                         *)
(* Of the hundred values of a stock only the last, the price, is kept: the *)
(* others are the chart's.  Each READY of the library appends all stocks   *)
(* to the vector again, which then share their files in pairs, and starts  *)
(* one more timer.  Stocks are numbers; the stock 2 mirrors the stock 1.   *)
(* The arithmetic of a trade is that of the code's int.                    *)
(***************************************************************************)
EXTENDS CInt, Sequences

CONSTANTS
    StockCount, \* 4
    Dev,        \* the largest move of each stock
    Ceiling,    \* 10000, what a stock and its mirror add up to
    Openings,   \* the prices that refresh() ends with when there is no file
    Garbage,    \* what an int without a value may hold
    ShareCounts,    \* the counts a trader may type
    Capital,    \* the trader's money at the beginning
    Missing, Torn,  \* a file that is not there, or cut short
    MaxUpdates, MaxTrades, MaxDeaths    \* bounds

ASSUME MarketAssumption ==
    /\ StockCount \in Nat \ {0, 1}
    /\ Dev \in [1..StockCount -> Nat]
    /\ Ceiling \in Int
    /\ Openings \subseteq Nat
    /\ Garbage \subseteq Int
    /\ ShareCounts \subseteq Int
    /\ Capital \in Nat
    /\ Missing \notin Int
    /\ Torn \notin Int
    /\ {MaxUpdates, MaxTrades, MaxDeaths} \subseteq Nat

Listed == 1..StockCount

VARIABLES
    quotes,     \* stocks, of each the price value[99]
    board,      \* the price that each file ends with
    pending,    \* the files that the running UpdStk has still to write
    purse,      \* the trader's money and shares
    updates, trades, deaths,    \* how often each happened
    quoted,     \* history: the price last shown of each stock
    odd         \* history: a trade left the int, or sold at a negative price

marketVars == <<quotes, board, pending, purse, updates, trades, deaths, quoted, odd>>

---------------------------------------------------------------------------
Abs(n) == IF n < 0 THEN 0 - n ELSE n

\* The stock in a place of the vector.
Stock(k) == ((k - 1) % StockCount) + 1

---------------------------------------------------------------------------
MarketInit ==
    /\ quotes = << >>
    /\ \/ /\ board = [n \in Listed |-> Missing]
          /\ quoted = [n \in Listed |-> 0]
       \/ \E p \in Openings :
             /\ board = [n \in Listed |-> IF n = 2 THEN Ceiling - p ELSE p]
             /\ quoted = board
    /\ pending = << >>
    /\ purse = [money |-> Capital, held |-> [n \in Listed |-> 0]]
    /\ updates = 0 /\ trades = 0 /\ deaths = 0
    /\ odd = FALSE

Open == pending = << >>

\* readStock of a place.  What a torn file does not set has no value: a file is
\* torn by the death of the process, so it is read into a new stock.
ReadStock(n, opening, garbage) ==
    CASE board[n] = Missing -> opening
      [] board[n] = Torn    -> garbage
      [] OTHER              -> board[n]

Moves(count) ==
    {c \in [1..count -> UNION {0 - Dev[n]..Dev[n] : n \in Listed}] :
        \A k \in 1..count : Abs(c[k]) <= Dev[Stock(k)]}

\* Mutant: what update() returns, the move made twice, is taken for the price.
MovedTwice(p, c) == Abs(Abs(p + c) + c)

\* stock::update
Moved(p, c) == Abs(p + c)

\* Only stocks[1] mirrors; a second listing of it walks like the others.
Mirrored(walked) == [walked EXCEPT ![2] = Ceiling - walked[1]]

\* UpdStk on a vector of the given length: all files are read, all prices move,
\* and then all files are written in the order of the vector.
UpdStk(count) ==
    /\ updates < MaxUpdates
    /\ updates' = updates + 1
    /\ \E c \in Moves(count), opening \in Openings, garbage \in Garbage :
          quotes' = Mirrored([k \in 1..count |->
                        Moved(ReadStock(Stock(k), opening, garbage), c[k])])
    /\ pending' = [k \in 1..count |-> [stock |-> Stock(k), price |-> quotes'[k]]]
    /\ quoted' = [n \in Listed |-> quotes'[n]]
    /\ UNCHANGED <<board, purse, trades, deaths, odd>>

\* onReady, also of a session that is opened anew while the process lives.
OnReady ==
    /\ Open
    /\ UpdStk(Len(quotes) + StockCount)

TimerTick ==
    /\ Open
    /\ quotes # << >>
    /\ UpdStk(Len(quotes))

WriteStock ==
    /\ ~Open
    /\ board' = [board EXCEPT ![Head(pending).stock] = Head(pending).price]
    /\ pending' = Tail(pending)
    /\ UNCHANGED <<quotes, purse, updates, trades, deaths, quoted, odd>>

\* The process dies, at any write.
Die ==
    /\ quotes # << >>
    /\ deaths < MaxDeaths
    /\ deaths' = deaths + 1
    /\ quotes' = << >>
    /\ pending' = << >>
    /\ \/ UNCHANGED board
       \/ ~Open /\ board' = [board EXCEPT ![Head(pending).stock] = Torn]
    /\ UNCHANGED <<purse, updates, trades, quoted, odd>>

---------------------------------------------------------------------------
\* A trade of count shares of the stock n, which finds the first listing of it.
TradeOf(n, money, held, regular) ==
    /\ Open
    /\ quotes # << >>
    /\ trades < MaxTrades
    /\ trades' = trades + 1
    /\ purse' = [money |-> Wrap(money), held |-> [purse.held EXCEPT ![n] = Wrap(held)]]
    /\ odd' = (odd \/ ~regular \/ ~Fits(money) \/ ~Fits(held))
    /\ UNCHANGED <<quotes, board, pending, updates, deaths, quoted>>

MayBuy(count, rest) == Wrap(rest) >= 0 /\ count > 0

Buy(n, count) ==
    LET price == count * quotes[n]
        rest  == purse.money - Wrap(price)
    IN  /\ quotes # << >>
        /\ MayBuy(count, rest)
        /\ TradeOf(n, rest, purse.held[n] + count, Fits(price) /\ Fits(0 - price))

\* Mutant: the fee is added.
ProceedsRaised(price) == Quot(Wrap(Wrap(price) * 103), 100)

\* A sale brings 97 parts of 100, multiplied out before the division.
Proceeds(price) == Quot(Wrap(Wrap(price) * 97), 100)

\* Mutant: only the first comparison is there.
MaySellAny(n, count) == purse.held[n] - count >= 0

MaySell(n, count) == purse.held[n] - count >= 0 /\ count > 0

Sell(n, count) ==
    LET price == count * quotes[n]
    IN  /\ quotes # << >>
        /\ MaySell(n, count)
        /\ TradeOf(n, purse.money + Proceeds(price), purse.held[n] - count,
                   quotes[n] >= 0 /\ Fits(price * 97))

MarketNext ==
    \/ OnReady \/ TimerTick \/ WriteStock \/ Die
    \/ \E n \in Listed, count \in ShareCounts : Buy(n, count) \/ Sell(n, count)

MarketSpec == MarketInit /\ [][MarketNext]_marketVars

---------------------------------------------------------------------------
(* Properties *)

\* Types.  No price is negative but that of the one mirror: a second listing of
\* it is a stock like the others, and shares the file.
MarketTypeOK ==
    /\ quotes \in Seq(Int)
    /\ \A k \in 1..Len(quotes) : k # 2 => quotes[k] >= 0
    /\ board \in [Listed -> Int \cup {Missing, Torn}]
    /\ pending \in Seq([stock: Listed, price: Int])
    /\ purse \in [money: Int, held: [Listed -> Int]]
    /\ quoted \in [Listed -> Int]
    /\ odd \in BOOLEAN

\* The stock whose file decides on the price of n.
Source(n) == IF n = 2 THEN 1 ELSE n

\* With one listing the price on offer moves by Dev at most, tick by tick.  Once
\* the vector holds a second listing, which overwrites the file from which the
\* first one goes on, or after a restart, it is three times as much at most.
JumpsBounded ==
    [][quotes' # << >> =>
          \A n \in Listed :
             LET d == Dev[Source(n)]
             IN  board[Source(n)] \in Int =>
                    Abs(quoted'[n] - quoted[n]) <= (IF Len(quotes) = StockCount THEN d ELSE 3 * d)
      ]_marketVars

\* A trader's money and shares are never below 0 unless a product has left the
\* int, or shares of the mirror were sold at a negative price.
Solvent == ~odd => purse.money >= 0 /\ \A n \in Listed : purse.held[n] >= 0

\* No trade makes its trader richer at the prices of the moment, with the same
\* two exceptions.
TradesGainNothing ==
    [][trades' # trades /\ ~odd' =>
          \E n \in Listed :
             /\ \A j \in Listed \ {n} : purse'.held[j] = purse.held[j]
             /\ purse'.money + purse'.held[n] * quotes[n]
                    <= purse.money + purse.held[n] * quotes[n]]_marketVars
====
