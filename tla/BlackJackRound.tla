---- MODULE BlackJackRound ----
(***************************************************************************)
(* A round of blackjack: BlackJack::Process of QasinoBot.cpp.              *)
(*                                                                         *)
(* The handler acts on whatever button is pressed, also on one that its    *)
(* message no longer shows: a press travels while the message is edited.   *)
(* Drawing a card is a choice; the deck of 52 and its refill are left out. *)
(***************************************************************************)
EXTENDS Integers, Sequences, FiniteSets

CONSTANTS
    Ranks,      \* the ranks in play, from 0, the ace, to 12, the king
    Chips,      \* the chips in the game's copy of the player's record
    Stakes,     \* the bets the round may begin with
    MaxCards,   \* bound: the cards of either hand
    MaxPress,   \* bound: presses of one button in flight
    MaxFlight   \* bound: presses in flight, of all buttons

ASSUME RoundAssumption ==
    /\ Ranks \subseteq 0..12
    /\ Chips \in Int
    /\ Stakes \subseteq 1..Chips
    /\ MaxCards \in Nat
    /\ MaxPress \in Nat
    /\ MaxFlight \in Nat

Buttons == {"hit", "stand", "doubledown", "next", "aceyes", "aceno"}

\* The mark of a card: 0 as dealt, 1 an ace that counts 11, 2 one that counts 1.
Card == [rank: Ranks, mark: 0..2]
Dealt(r) == [rank |-> r, mark |-> 0]

VARIABLES
    hand,       \* _playerPacket
    dealer,     \* _dealerPacket
    stand,      \* _stand
    doubledown, \* _doubledown
    bet,        \* _betting
    shown,      \* the enabled buttons of the message
    clicks,     \* presses on their way, per button
    settled     \* history: what the calls of EndGame added to the chips

vars == <<hand, dealer, stand, doubledown, bet, shown, clicks, settled>>

---------------------------------------------------------------------------
CardToScore(c) ==
    CASE c.rank = 0 /\ c.mark = 1 -> 11
      [] c.rank >= 9 -> 10
      [] OTHER -> c.rank + 1

Score(h) ==
    LET upTo[n \in 0..Len(h)] == IF n = 0 THEN 0 ELSE upTo[n - 1] + CardToScore(h[n])
    IN  upTo[Len(h)]

Back(h) == h[Len(h)]

\* The last card is an ace that has not been called 1 or 11: the handler asks,
\* and looks at nothing else before the answer.
AsksAce(h) == Back(h).rank = 0 /\ Back(h).mark = 0

\* Mutant: 21 is a natural with any number of cards.
NaturalAnyLength(h) == Score(h) = 21

Natural(h) == Score(h) = 21 /\ Len(h) = 2

\* Mutant: the dealer draws on 17.
DealerDoneLate(d) == Score(d) > 17

DealerDone(d) == Score(d) >= 17

PlayerBeats(h, d) == Score(d) > 21 \/ (DealerDone(d) /\ Score(h) > Score(d))
DealerBeats(h, d) == DealerDone(d) /\ Score(h) <= Score(d)

\* The calls of EndGame in one handler, as the chips they add.  A bust returns;
\* a natural does not, and goes on to the comparison of those who stand.
Endings(h, d, st, b) ==
    IF Score(h) > 21 THEN << 0 - b >>
    ELSE (IF Natural(h) THEN << b >> ELSE << >>)
         \o (IF st /\ PlayerBeats(h, d) THEN << b >>
             ELSE IF st /\ DealerBeats(h, d) THEN << 0 - b >>
             ELSE << >>)

\* The buttons of the message after a handler that has not ended the round.
Offered(st, dd) == IF st \/ dd THEN {"next"} ELSE {"hit", "stand", "doubledown"}

\* The part of Process that every press comes to.  A round that has ended shows
\* "gameover".  (The edit after a natural would name the ID that Clear has just
\* reset, which is no valid text: it is taken to be refused.)
Table(h, d, st, dd, b) ==
    /\ hand' = h
    /\ dealer' = d
    /\ stand' = st
    /\ doubledown' = dd
    /\ bet' = b
    /\ IF AsksAce(h)
       THEN shown' = {"aceyes", "aceno"} /\ UNCHANGED settled
       ELSE LET e == Endings(h, d, st, b)
            IN  /\ settled' = settled \o e
                /\ shown' = IF e = << >> THEN Offered(st, dd) ELSE {}

---------------------------------------------------------------------------
\* Process(start): two cards for the player, one for the dealer.  As dealt an
\* ace counts 1, so this cannot end the round.
Init ==
    /\ \E r, s \in Ranks : hand = << Dealt(r), Dealt(s) >>
    /\ \E r \in Ranks : dealer = << Dealt(r) >>
    /\ stand = FALSE
    /\ doubledown = FALSE
    /\ bet \in Stakes
    /\ shown = IF AsksAce(hand) THEN {"aceyes", "aceno"} ELSE Offered(FALSE, FALSE)
    /\ clicks = [b \in Buttons |-> 0]
    /\ settled = << >>

\* The player presses a button that the message shows.
Press(b) ==
    /\ b \in shown
    /\ clicks[b] < MaxPress
    /\ Cardinality({p \in Buttons \X (1..MaxPress) : p[2] <= clicks[p[1]]}) < MaxFlight
    /\ clicks' = [clicks EXCEPT ![b] = @ + 1]
    /\ UNCHANGED <<hand, dealer, stand, doubledown, bet, shown, settled>>

\* A press arrives while the game can still be found.
Deliver(b) ==
    /\ clicks[b] > 0
    /\ settled = << >>
    /\ clicks' = [clicks EXCEPT ![b] = @ - 1]

Hit ==
    /\ Deliver("hit")
    /\ Len(hand) < MaxCards
    /\ \E r \in Ranks : Table(Append(hand, Dealt(r)), dealer, stand, doubledown, bet)

Stand ==
    /\ Deliver("stand")
    /\ Table(hand, dealer, TRUE, doubledown, bet)

\* Mutant: the chips are not looked at.
DoubleDownFree ==
    /\ Deliver("doubledown")
    /\ Table(hand, dealer, stand, TRUE, 2 * bet)

DoubleDown ==
    /\ Deliver("doubledown")
    /\ Chips >= bet
    /\ Table(hand, dealer, stand, TRUE, 2 * bet)

\* Too few chips: a reply, and the handler returns.
DoubleRefused ==
    /\ Deliver("doubledown")
    /\ Chips < bet
    /\ UNCHANGED <<hand, dealer, stand, doubledown, bet, shown, settled>>

\* Mutant: the doubled hand has its card and does not stand.
NextForPlayerOpen ==
    /\ Deliver("next")
    /\ doubledown
    /\ Len(hand) < MaxCards
    /\ \E r \in Ranks : Table(Append(hand, Dealt(r)), dealer, stand, FALSE, bet)

\* "next" after doubling deals the player's one card.
NextForPlayer ==
    /\ Deliver("next")
    /\ doubledown
    /\ Len(hand) < MaxCards
    /\ \E r \in Ranks : Table(Append(hand, Dealt(r)), dealer, TRUE, FALSE, bet)

\* Otherwise it deals to the dealer.  The code means to call the dealer's ace
\* 11 while that helps, but compares where it should assign: the mark stays 0.
NextForDealer ==
    /\ Deliver("next")
    /\ ~doubledown
    /\ Len(dealer) < MaxCards
    /\ \E r \in Ranks : Table(hand, Append(dealer, Dealt(r)), stand, doubledown, bet)

\* The answer marks the last card, whatever the card is by then.
Marked(m) == [hand EXCEPT ![Len(hand)].mark = m]

AceYes ==
    /\ Deliver("aceyes")
    /\ Table(Marked(1), dealer, stand, doubledown, bet)

AceNo ==
    /\ Deliver("aceno")
    /\ Table(Marked(2), dealer, stand, doubledown, bet)

Process ==
    \/ Hit
    \/ Stand
    \/ DoubleDown
    \/ DoubleRefused
    \/ NextForPlayer
    \/ NextForDealer
    \/ AceYes
    \/ AceNo

Next == Process \/ \E b \in Buttons : Press(b)

Spec == Init /\ [][Next]_vars

---------------------------------------------------------------------------
(* Properties *)

\* Types of the round's state.
TypeOK ==
    /\ hand \in Seq(Card)
    /\ dealer \in Seq(Card)
    /\ stand \in BOOLEAN
    /\ doubledown \in BOOLEAN
    /\ bet \in Nat
    /\ shown \subseteq Buttons
    /\ clicks \in [Buttons -> 0..MaxPress]
    /\ settled \in Seq(Int)

\* EndGame is called once, although the code after a natural falls through to
\* the comparison of those who stand and could call it again in one handler:
\* that takes an ace answered so late that the dealer is done, in a first hand.
RoundSettledOnce == Len(settled) <= 1

\* The dealer draws below 17 only.  While the player is asked about an ace the
\* handler looks at nothing else, so a "next" that was on its way still deals.
DealerStands ==
    [][dealer' # dealer => Score(dealer) < 17 \/ AsksAce(hand)]_vars

\* A "next" on its way finds the player standing or doubling: it never deals
\* to the dealer of a player who may still draw.
NextMeansStanding == clicks["next"] > 0 => stand \/ doubledown

Round == INSTANCE SoloRound WITH
    Kind  <- "blackjack",
    stake <- bet,
    gain  <- IF settled = << >> THEN 0 ELSE settled[1],
    over  <- settled # << >>

\* Whatever the presses and their order, the round does to the session what
\* SoloSession lets it do: it goes on, doubles against chips, or ends once; and
\* a doubling never ends it in the same handler.
RoundRefinement == Round!RoundSpec
====
