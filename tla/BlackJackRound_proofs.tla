---- MODULE BlackJackRound_proofs ----
(***************************************************************************)
(* Theorems about BlackJackRound, for every value of the constants.        *)
(***************************************************************************)
EXTENDS BlackJackRound, SequenceTheorems, WellFoundedInduction, TLAPS

---------------------------------------------------------------------------
\* The score of a hand.

LEMMA CardScore ==
    ASSUME NEW c \in Card
    PROVE  CardToScore(c) \in Int
BY RoundAssumption DEF CardToScore, Card

\* f sums the cards of h up to each position.
Sums(f, h) ==
    /\ f \in [0..Len(h) -> Int]
    /\ f[0] = 0
    /\ \A n \in 1..Len(h) : f[n] = f[n - 1] + CardToScore(h[n])

\* A set of numbers that is not empty has a least member.
LEMMA LeastNat ==
    ASSUME NEW S \in SUBSET Nat, S # {}
    PROVE  \E n \in S : \A m \in S : n <= m
<1>1. PICK n \in S : \A m \in S : ~ (<< m, n >> \in OpToRel(<, Nat))
  BY NatLessThanWellFounded, WFMin
<1>2. \A m \in S : ~ (m < n)
  BY <1>1 DEF OpToRel
<1> QED BY <1>2

LEMMA SumsExist ==
    ASSUME NEW h \in Seq(Card)
    PROVE  \E f : Sums(f, h)
<1> DEFINE c == [n \in 1..Len(h) |-> CardToScore(h[n])]
           P(n) == \E f \in [0..n -> Int] :
                      f[0] = 0 /\ \A k \in 1..n : f[k] = f[k - 1] + c[k]
           Bad == {n \in 0..Len(h) : ~P(n)}
<1>1. Len(h) \in Nat /\ c \in [1..Len(h) -> Int]
  BY CardScore, ElementOfSeq
<1> HIDE DEF c
<1>2. P(0)
  <2> DEFINE f == [k \in 0..0 |-> 0]
  <2>1. f \in [0..0 -> Int] /\ f[0] = 0 /\ 1..0 = {}
    OBVIOUS
  <2> HIDE DEF f
  <2> QED BY <2>1
<1>3. ASSUME NEW n \in 0..Len(h), n # 0, P(n - 1) PROVE P(n)
  <2>1. PICK f \in [0..(n - 1) -> Int] :
           f[0] = 0 /\ \A k \in 1..(n - 1) : f[k] = f[k - 1] + c[k]
    BY <1>3
  <2> DEFINE g == [k \in 0..n |-> IF k = n THEN f[n - 1] + c[n] ELSE f[k]]
  <2>2. n - 1 \in 0..(n - 1) /\ n \in 1..Len(h)
    BY <1>1, <1>3
  <2>3. f[n - 1] + c[n] \in Int
    BY <1>1, <2>2
  <2>4. g \in [0..n -> Int]
    BY <1>1, <1>3, <2>3
  <2>5. g[0] = 0 /\ \A k \in 1..n : g[k] = g[k - 1] + c[k]
    BY <1>1, <1>3, <2>1
  <2> QED BY <2>4, <2>5
<1>4. Bad = {}
  <2> SUFFICES ASSUME Bad # {} PROVE FALSE
    OBVIOUS
  <2>1. Bad \in SUBSET Nat
    BY <1>1
  <2> HIDE DEF P
  <2>2. PICK n \in Bad : \A m \in Bad : n <= m
    BY <2>1, LeastNat
  <2>3. n \in 0..Len(h) /\ n # 0 /\ n - 1 \in 0..Len(h) /\ ~(n <= n - 1)
    BY <1>1, <1>2, <2>2
  <2>4. P(n - 1)
    BY <2>2, <2>3
  <2> QED BY <1>3, <2>2, <2>3, <2>4
<1>5. P(Len(h))
  <2>1. Len(h) \in 0..Len(h)
    BY <1>1
  <2> HIDE DEF P
  <2> QED BY <1>4, <2>1
<1> QED BY <1>1, <1>5 DEF Sums, c

\* The recursion of Score is well founded: the score is the last of the sums.
LEMMA ScoreIsSum ==
    ASSUME NEW h \in Seq(Card)
    PROVE  \E f : Sums(f, h) /\ Score(h) = f[Len(h)]
<1> DEFINE Step(f) == [n \in 0..Len(h) |-> IF n = 0 THEN 0 ELSE f[n - 1] + CardToScore(h[n])]
           upTo == CHOOSE f : f = Step(f)
<1>1. Len(h) \in Nat
  OBVIOUS
<1>2. PICK s : Sums(s, h)
  BY SumsExist
<1>3. s = Step(s)
  BY <1>1, <1>2 DEF Sums
<1>4. upTo = Step(upTo)
  BY <1>3
<1>5. Score(h) = upTo[Len(h)]
  BY DEF Score
<1> HIDE DEF upTo
<1>6. /\ upTo[0] = 0
      /\ \A n \in 1..Len(h) : upTo[n] = upTo[n - 1] + CardToScore(h[n])
      /\ DOMAIN upTo = 0..Len(h)
      /\ upTo = [n \in 0..Len(h) |-> upTo[n]]
  BY <1>1, <1>4
<1> DEFINE Bad == {n \in 0..Len(h) : upTo[n] \notin Int}
<1>7. Bad = {}
  <2> SUFFICES ASSUME Bad # {} PROVE FALSE
    OBVIOUS
  <2>1. Bad \in SUBSET Nat
    BY <1>1
  <2>2. PICK n \in Bad : \A m \in Bad : n <= m
    BY <2>1, LeastNat
  <2>3. n \in 1..Len(h) /\ n - 1 \in 0..Len(h) /\ ~(n <= n - 1)
    BY <1>1, <1>6, <2>2
  <2>4. upTo[n - 1] \in Int
    BY <2>2, <2>3
  <2>5. CardToScore(h[n]) \in Int
    BY <2>3, CardScore, ElementOfSeq
  <2>6. upTo[n] \in Int
    BY <1>6, <2>3, <2>4, <2>5
  <2> QED BY <2>2, <2>6
<1>8. upTo \in [0..Len(h) -> Int]
  BY <1>6, <1>7
<1> QED BY <1>5, <1>6, <1>8 DEF Sums

LEMMA ScoreType ==
    ASSUME NEW h \in Seq(Card)
    PROVE  Score(h) \in Int
BY ScoreIsSum DEF Sums

\* As dealt, one card makes 10 at most and two make 20.
LEMMA DealtScore ==
    ASSUME NEW r \in Ranks, NEW s \in Ranks
    PROVE  Score(<< Dealt(r) >>) <= 10 /\ Score(<< Dealt(r), Dealt(s) >>) <= 20
<1>1. /\ Dealt(r) \in Card /\ CardToScore(Dealt(r)) \in 1..10
      /\ Dealt(s) \in Card /\ CardToScore(Dealt(s)) \in 1..10
  BY RoundAssumption DEF Dealt, Card, CardToScore
<1>2. Score(<< Dealt(r) >>) <= 10
  <2> DEFINE h == << Dealt(r) >>
  <2>1. h \in Seq(Card) /\ Len(h) = 1 /\ h[1] = Dealt(r)
    BY <1>1
  <2> HIDE DEF h
  <2>2. PICK f : Sums(f, h) /\ Score(h) = f[Len(h)]
    BY <2>1, ScoreIsSum
  <2>3. f[0] = 0 /\ f[1] = f[0] + CardToScore(h[1])
    BY <2>1, <2>2 DEF Sums
  <2> QED BY <1>1, <2>1, <2>2, <2>3 DEF h
<1>3. Score(<< Dealt(r), Dealt(s) >>) <= 20
  <2> DEFINE h == << Dealt(r), Dealt(s) >>
  <2>1. h \in Seq(Card) /\ Len(h) = 2 /\ h[1] = Dealt(r) /\ h[2] = Dealt(s)
    BY <1>1
  <2> HIDE DEF h
  <2>2. PICK f : Sums(f, h) /\ Score(h) = f[Len(h)]
    BY <2>1, ScoreIsSum
  <2>3. f[0] = 0 /\ f[1] = f[0] + CardToScore(h[1]) /\ f[2] = f[1] + CardToScore(h[2])
    BY <2>1, <2>2 DEF Sums
  <2> QED BY <1>1, <2>1, <2>2, <2>3 DEF h
<1> QED BY <1>2, <1>3
---------------------------------------------------------------------------
\* What the handlers keep.

Aces == {"aceyes", "aceno"}

\* NextMeansStanding made inductive: "next" is shown to who stands or doubles.
NextInv ==
    /\ clicks["next"] > 0 => stand \/ doubledown
    /\ "next" \in shown => stand \/ doubledown

\* The player has two cards at least.  While the ace among the first two is in
\* question the player has not stood, and no other answer is on its way.
FirstAce ==
    /\ Len(hand) >= 2
    /\ Len(hand) = 2 /\ AsksAce(hand) =>
          /\ shown = Aces
          /\ ~stand
          /\ \A b \in Buttons \ Aces : clicks[b] = 0

\* The dealer of a player who may still draw is not done.
DealerWaits == ~stand => ~DealerDone(dealer)

\* As long as the round goes on and no ace is in question nothing is left to settle.
NothingDue(h, d, st) ==
    /\ Score(h) <= 21
    /\ ~Natural(h)
    /\ ~(st /\ DealerDone(d))

OpenInv == settled = << >> /\ ~AsksAce(hand) => NothingDue(hand, dealer, stand)

RoundInv ==
    /\ TypeOK
    /\ NextInv
    /\ FirstAce
    /\ DealerWaits
    /\ OpenInv
    /\ RoundSettledOnce

\* What a handler hands to the common part of Process, for which it ends the round
\* at most once.
Fair(h, d, st) == AsksAce(h) \/ ~(Natural(h) /\ st /\ DealerDone(d))

LEMMA EndingsOnce ==
    ASSUME NEW h \in Seq(Card), NEW d \in Seq(Card), NEW st \in BOOLEAN, NEW b \in Nat,
           ~(Natural(h) /\ st /\ DealerDone(d))
    PROVE  /\ Endings(h, d, st, b) \in {<< >>, << b >>, << 0 - b >>}
           /\ Endings(h, d, st, b) = << >> <=> NothingDue(h, d, st)
<1>1. Score(h) \in Int /\ Score(d) \in Int
  BY ScoreType
<1>2. /\ PlayerBeats(h, d) \/ DealerBeats(h, d) <=> DealerDone(d)
  BY <1>1 DEF PlayerBeats, DealerBeats, DealerDone
<1>e. \A s \in {<< >>, << b >>, << 0 - b >>} : << >> \o s = s /\ s \o << >> = s
  BY ConcatEmptySeq
<1>3. CASE Score(h) > 21
  <2>1. ~(Score(h) <= 21)
    BY <1>1, <1>3
  <2>2. Endings(h, d, st, b) = << 0 - b >>
    BY <1>3 DEF Endings
  <2> QED BY <2>1, <2>2 DEF NothingDue
<1>4. CASE ~(Score(h) > 21) /\ Natural(h)
  <2>1. ~(st /\ PlayerBeats(h, d)) /\ ~(st /\ DealerBeats(h, d))
    BY <1>2, <1>4
  <2>2. Endings(h, d, st, b) = << b >> \o << >>
    BY <1>4, <2>1 DEF Endings
  <2>3. Endings(h, d, st, b) = << b >>
    BY <1>e, <2>2
  <2> QED BY <1>4, <2>3 DEF NothingDue
<1>5. CASE ~(Score(h) > 21) /\ ~Natural(h)
  <2>1. Endings(h, d, st, b) = << >> \o (IF st /\ PlayerBeats(h, d) THEN << b >>
                                         ELSE IF st /\ DealerBeats(h, d) THEN << 0 - b >>
                                         ELSE << >>)
    BY <1>5 DEF Endings
  <2>2. Endings(h, d, st, b) = IF st /\ PlayerBeats(h, d) THEN << b >>
                               ELSE IF st /\ DealerBeats(h, d) THEN << 0 - b >>
                               ELSE << >>
    BY <1>e, <2>1
  <2>3. Score(h) <= 21
    BY <1>1, <1>5
  <2>4. << b >> # << >> /\ << 0 - b >> # << >>
    OBVIOUS
  <2> QED BY <1>2, <1>5, <2>2, <2>3, <2>4 DEF NothingDue
<1> QED BY <1>3, <1>4, <1>5

\* The common part of Process, on what a handler may hand to it.
LEMMA TableStep ==
    ASSUME NEW h \in Seq(Card), NEW d \in Seq(Card), NEW st \in BOOLEAN,
           NEW dd \in BOOLEAN, NEW b \in Nat,
           settled = << >>, Fair(h, d, st), Table(h, d, st, dd, b)
    PROVE  /\ hand' = h /\ dealer' = d /\ stand' = st /\ doubledown' = dd /\ bet' = b
           /\ settled' \in {<< >>, << b >>, << 0 - b >>}
           /\ settled' \in Seq(Int)
           /\ shown' \subseteq Buttons
           /\ "next" \in shown' => st \/ dd
           /\ settled' = << >> <=> AsksAce(h) \/ NothingDue(h, d, st)
<1>1. hand' = h /\ dealer' = d /\ stand' = st /\ doubledown' = dd /\ bet' = b
  BY DEF Table
<1>2. CASE AsksAce(h)
  <2>1. shown' = {"aceyes", "aceno"} /\ settled' = << >>
    BY <1>2 DEF Table
  <2> QED BY <1>1, <1>2, <2>1 DEF Buttons
<1>3. CASE ~AsksAce(h)
  <2>1. ~(Natural(h) /\ st /\ DealerDone(d))
    BY <1>3 DEF Fair
  <2>2. /\ Endings(h, d, st, b) \in {<< >>, << b >>, << 0 - b >>}
        /\ Endings(h, d, st, b) = << >> <=> NothingDue(h, d, st)
    BY <2>1, EndingsOnce
  <2>3. settled' = << >> \o Endings(h, d, st, b)
    BY <1>3 DEF Table
  <2>s. << >> \in Seq(Int) /\ << b >> \in Seq(Int) /\ << 0 - b >> \in Seq(Int)
    OBVIOUS
  <2>4. \A s \in {<< >>, << b >>, << 0 - b >>} : << >> \o s = s /\ s \in Seq(Int)
    BY <2>s, ConcatEmptySeq
  <2>5. settled' = Endings(h, d, st, b)
    BY <2>2, <2>3, <2>4
  <2>6. shown' = IF Endings(h, d, st, b) = << >> THEN Offered(st, dd) ELSE {}
    BY <1>3 DEF Table
  <2>7. shown' \subseteq Buttons /\ ("next" \in shown' => st \/ dd)
    BY <2>6 DEF Offered, Buttons
  <2> QED BY <1>1, <1>3, <2>2, <2>4, <2>5, <2>7
<1> QED BY <1>2, <1>3

LEMMA RoundInit == Init => RoundInv
<1> SUFFICES ASSUME Init PROVE RoundInv
  OBVIOUS
<1>1. PICK r \in Ranks, s \in Ranks : hand = << Dealt(r), Dealt(s) >>
  BY DEF Init
<1>2. PICK t \in Ranks : dealer = << Dealt(t) >>
  BY DEF Init
<1>3. Dealt(r) \in Card /\ Dealt(s) \in Card /\ Dealt(t) \in Card
  BY DEF Dealt, Card
<1>4. hand \in Seq(Card) /\ dealer \in Seq(Card) /\ Len(hand) = 2
  BY <1>1, <1>2, <1>3
<1>5. Score(hand) <= 20 /\ Score(dealer) <= 10 /\ Score(hand) \in Int /\ Score(dealer) \in Int
  BY <1>1, <1>2, <1>4, DealtScore, ScoreType
<1>6. TypeOK
  <2>1. bet \in Nat
    BY RoundAssumption DEF Init
  <2>2. clicks \in [Buttons -> 0..MaxPress]
    BY RoundAssumption DEF Init
  <2>3. shown \subseteq Buttons
    BY DEF Init, Offered, Buttons
  <2>4. stand = FALSE /\ doubledown = FALSE /\ settled \in Seq(Int)
    BY DEF Init
  <2> QED BY <1>4, <2>1, <2>2, <2>3, <2>4 DEF TypeOK
<1>7. NextInv
  BY DEF NextInv, Init, Offered, Buttons
<1>8. FirstAce
  <2>1. AsksAce(hand) => shown = Aces
    BY DEF Init, Aces
  <2>2. ~stand /\ \A b \in Buttons : clicks[b] = 0
    BY DEF Init
  <2> QED BY <1>4, <2>1, <2>2 DEF FirstAce
<1>9. DealerWaits /\ OpenInv
  BY <1>5 DEF DealerWaits, OpenInv, NothingDue, DealerDone, Natural, Init
<1> QED BY <1>6, <1>7, <1>8, <1>9 DEF RoundInv, RoundSettledOnce, Init

\* A press only adds to the presses on their way.
LEMMA PressStep ==
    ASSUME RoundInv, NEW b \in Buttons, Press(b)
    PROVE  RoundInv'
<1>1. clicks' \in [Buttons -> 0..MaxPress] /\ \A x \in Buttons \ {b} : clicks'[x] = clicks[x]
  <2>1. clicks[b] + 1 \in 0..MaxPress
    BY RoundAssumption DEF RoundInv, TypeOK, Press
  <2> QED BY <2>1 DEF RoundInv, TypeOK, Press
<1>2. UNCHANGED <<hand, dealer, stand, doubledown, bet, shown, settled>> /\ b \in shown
  BY DEF Press
<1>3. NextInv'
  BY <1>1, <1>2 DEF RoundInv, NextInv, Buttons
<1>4. FirstAce'
  <2>1. ASSUME Len(hand) = 2, AsksAce(hand), NEW x \in Buttons \ Aces
        PROVE  clicks'[x] = 0
    BY <1>1, <1>2, <2>1 DEF RoundInv, FirstAce
  <2> QED BY <1>2, <2>1 DEF RoundInv, FirstAce, AsksAce, Back
<1> QED
  BY <1>1, <1>2, <1>3, <1>4
  DEF RoundInv, TypeOK, DealerWaits, OpenInv, RoundSettledOnce, AsksAce, Back

\* What the delivery of a press leaves to show of a handler.
LEMMA DeliverStep ==
    ASSUME RoundInv, NEW b \in Buttons, Deliver(b)
    PROVE  /\ settled = << >>
           /\ clicks' \in [Buttons -> 0..MaxPress]
           /\ \A x \in Buttons : clicks'[x] > 0 => clicks[x] > 0
           /\ b \notin Aces => ~(Len(hand) = 2 /\ AsksAce(hand))
           /\ b = "next" => stand \/ doubledown
<1>1. clicks \in [Buttons -> 0..MaxPress] /\ clicks[b] > 0 /\ clicks' = [clicks EXCEPT ![b] = @ - 1]
  BY DEF RoundInv, TypeOK, Deliver
<1>2. clicks[b] - 1 \in 0..MaxPress
  BY <1>1, RoundAssumption
<1>3. clicks' \in [Buttons -> 0..MaxPress] /\ \A x \in Buttons : clicks'[x] > 0 => clicks[x] > 0
  BY <1>1, <1>2
<1>4. b \notin Aces => ~(Len(hand) = 2 /\ AsksAce(hand))
  BY <1>1 DEF RoundInv, FirstAce
<1> QED BY <1>1, <1>3, <1>4 DEF RoundInv, NextInv, Deliver

\* What a handler does to the bet and to the chips.
Outcome ==
    /\ settled = << >>
    /\ \/ bet' = bet /\ settled' \in {<< >>, << bet >>, << 0 - bet >>}
       \/ Chips >= bet /\ bet' = 2 * bet /\ settled' = << >>

\* The common part of Process keeps the invariant, on what a handler may hand to it.
LEMMA HandlerStep ==
    ASSUME RoundInv, NEW b \in Buttons, Deliver(b),
           NEW h \in Seq(Card), NEW d \in Seq(Card), NEW st \in BOOLEAN,
           NEW dd \in BOOLEAN, NEW n \in Nat,
           Table(h, d, st, dd, n),
           Fair(h, d, st),
           Len(h) >= 2, ~(Len(h) = 2 /\ AsksAce(h)),
           stand \/ doubledown => st \/ dd,
           ~st => ~DealerDone(d)
    PROVE  /\ RoundInv'
           /\ n = bet => Outcome
           /\ (AsksAce(h) \/ NothingDue(h, d, st)) /\ n = 2 * bet /\ Chips >= bet => Outcome
<1>1. /\ settled = << >>
      /\ clicks' \in [Buttons -> 0..MaxPress]
      /\ \A x \in Buttons : clicks'[x] > 0 => clicks[x] > 0
  BY DeliverStep
<1>2. /\ hand' = h /\ dealer' = d /\ stand' = st /\ doubledown' = dd /\ bet' = n
      /\ settled' \in {<< >>, << n >>, << 0 - n >>}
      /\ settled' \in Seq(Int)
      /\ shown' \subseteq Buttons
      /\ "next" \in shown' => st \/ dd
      /\ settled' = << >> <=> AsksAce(h) \/ NothingDue(h, d, st)
  BY <1>1, TableStep
<1>3. TypeOK'
  BY <1>1, <1>2 DEF TypeOK
<1>4. NextInv'
  <2>1. clicks'["next"] > 0 => stand \/ doubledown
    BY <1>1 DEF RoundInv, NextInv, Buttons
  <2> QED BY <1>2, <2>1 DEF NextInv
<1>5. FirstAce' /\ DealerWaits' /\ OpenInv'
  BY <1>2 DEF FirstAce, DealerWaits, OpenInv, AsksAce, Back
<1>6. RoundSettledOnce'
  <2>1. Len(<< >>) <= 1 /\ Len(<< n >>) <= 1 /\ Len(<< 0 - n >>) <= 1
    OBVIOUS
  <2> QED BY <1>2, <2>1 DEF RoundSettledOnce
<1> QED BY <1>1, <1>2, <1>3, <1>4, <1>5, <1>6 DEF RoundInv, Outcome

\* Every handler hands it that.
LEMMA ProcessStep ==
    ASSUME RoundInv, Process
    PROVE  RoundInv' /\ Outcome
<1>t. /\ hand \in Seq(Card) /\ dealer \in Seq(Card) /\ Len(hand) >= 2
      /\ stand \in BOOLEAN /\ doubledown \in BOOLEAN /\ bet \in Nat /\ 2 * bet \in Nat
  BY DEF RoundInv, TypeOK, FirstAce
<1>b. {"hit", "stand", "doubledown", "next", "aceyes", "aceno"} = Buttons
      /\ {"hit", "stand", "doubledown", "next"} \cap Aces = {}
  BY DEF Buttons, Aces
<1>w. ~stand => ~DealerDone(dealer)
  BY DEF RoundInv, DealerWaits
<1>f. settled = << >> =>
         /\ AsksAce(hand) \/ ~Natural(hand)
         /\ AsksAce(hand) \/ NothingDue(hand, dealer, stand)
  BY DEF RoundInv, OpenInv, NothingDue
<1>h. ASSUME NEW r \in Ranks
      PROVE  /\ Append(hand, Dealt(r)) \in Seq(Card)
             /\ Len(Append(hand, Dealt(r))) > 2
             /\ ~Natural(Append(hand, Dealt(r)))
             /\ Append(dealer, Dealt(r)) \in Seq(Card)
  <2>1. Dealt(r) \in Card
    BY DEF Dealt, Card
  <2>2. Len(Append(hand, Dealt(r))) = Len(hand) + 1 /\ Len(hand) \in Nat
    BY <1>t, <2>1
  <2> QED BY <1>t, <2>1, <2>2 DEF Natural
<1>1. CASE Hit
  <2>1. PICK r \in Ranks : Table(Append(hand, Dealt(r)), dealer, stand, doubledown, bet)
    BY <1>1 DEF Hit
  <2> DEFINE h == Append(hand, Dealt(r))
  <2>2. h \in Seq(Card) /\ Len(h) >= 2 /\ Len(h) # 2 /\ ~Natural(h)
    BY <1>h
  <2> HIDE DEF h
  <2>3. Deliver("hit") /\ "hit" \in Buttons /\ Table(h, dealer, stand, doubledown, bet)
    BY <1>1, <1>b, <2>1 DEF Hit, h
  <2>4. Fair(h, dealer, stand)
    BY <2>2 DEF Fair
  <2> QED BY <1>t, <1>w, <2>2, <2>3, <2>4, HandlerStep
<1>2. CASE Stand
  <2>1. Deliver("stand") /\ Table(hand, dealer, TRUE, doubledown, bet) /\ "stand" \in Buttons \ Aces
    BY <1>2, <1>b DEF Stand
  <2>2. settled = << >> /\ ~(Len(hand) = 2 /\ AsksAce(hand))
    BY <2>1, DeliverStep
  <2>3. Fair(hand, dealer, TRUE)
    BY <1>f, <2>2 DEF Fair
  <2> QED BY <1>t, <2>1, <2>2, <2>3, HandlerStep
<1>3. CASE DoubleDown
  <2>1. /\ Deliver("doubledown") /\ Table(hand, dealer, stand, TRUE, 2 * bet)
        /\ Chips >= bet
        /\ "doubledown" \in Buttons \ Aces
    BY <1>3, <1>b DEF DoubleDown
  <2>2. settled = << >> /\ ~(Len(hand) = 2 /\ AsksAce(hand))
    BY <2>1, DeliverStep
  <2>3. Fair(hand, dealer, stand)
    BY <1>f, <2>2 DEF Fair
  <2> QED BY <1>t, <1>w, <1>f, <2>1, <2>2, <2>3, HandlerStep
<1>4. CASE DoubleRefused
  <2>1. Deliver("doubledown") /\ "doubledown" \in Buttons
    BY <1>4, <1>b DEF DoubleRefused
  <2>2. /\ clicks' \in [Buttons -> 0..MaxPress]
        /\ \A x \in Buttons : clicks'[x] > 0 => clicks[x] > 0
    BY <2>1, DeliverStep
  <2>3. /\ UNCHANGED <<hand, dealer, stand, doubledown, bet, shown, settled>>
        /\ settled = << >>
    BY <1>4 DEF DoubleRefused, Deliver
  <2>4. NextInv'
    BY <1>b, <2>2, <2>3 DEF RoundInv, NextInv
  <2>5. FirstAce'
    <3>1. ASSUME Len(hand) = 2, AsksAce(hand), NEW x \in Buttons \ Aces
          PROVE  clicks'[x] = 0
      <4>1. clicks[x] = 0
        BY <3>1 DEF RoundInv, FirstAce
      <4>2. ~(clicks'[x] > 0) /\ clicks'[x] \in 0..MaxPress
        BY <2>2, <4>1, RoundAssumption
      <4> QED BY <4>2, RoundAssumption
    <3> QED BY <2>3, <3>1 DEF RoundInv, FirstAce, AsksAce, Back
  <2> QED
    BY <2>2, <2>3, <2>4, <2>5
    DEF RoundInv, TypeOK, DealerWaits, OpenInv, RoundSettledOnce, AsksAce, Back, Outcome
<1>5. CASE NextForPlayer
  <2>1. PICK r \in Ranks : Table(Append(hand, Dealt(r)), dealer, TRUE, FALSE, bet)
    BY <1>5 DEF NextForPlayer
  <2> DEFINE h == Append(hand, Dealt(r))
  <2>2. h \in Seq(Card) /\ Len(h) >= 2 /\ Len(h) # 2 /\ ~Natural(h)
    BY <1>h
  <2> HIDE DEF h
  <2>3. Deliver("next") /\ "next" \in Buttons /\ Table(h, dealer, TRUE, FALSE, bet)
    BY <1>5, <1>b, <2>1 DEF NextForPlayer, h
  <2>4. Fair(h, dealer, TRUE)
    BY <2>2 DEF Fair
  <2> QED BY <1>t, <2>2, <2>3, <2>4, HandlerStep
<1>6. CASE NextForDealer
  <2>1. PICK r \in Ranks : Table(hand, Append(dealer, Dealt(r)), stand, doubledown, bet)
    BY <1>6 DEF NextForDealer
  <2> DEFINE d == Append(dealer, Dealt(r))
  <2>2. d \in Seq(Card)
    BY <1>h
  <2> HIDE DEF d
  <2>3. /\ Deliver("next") /\ "next" \in Buttons \ Aces
        /\ Table(hand, d, stand, doubledown, bet) /\ ~doubledown
    BY <1>6, <1>b, <2>1 DEF NextForDealer, d
  <2>4. settled = << >> /\ stand /\ ~(Len(hand) = 2 /\ AsksAce(hand))
    BY <2>3, DeliverStep
  <2>5. Fair(hand, d, stand)
    BY <1>f, <2>4 DEF Fair
  <2> QED BY <1>t, <2>2, <2>3, <2>4, <2>5, HandlerStep
<1>7. ASSUME NEW m \in {1, 2}, NEW b \in Aces, Deliver(b),
             Table(Marked(m), dealer, stand, doubledown, bet)
      PROVE  RoundInv' /\ Outcome
  <2> DEFINE h == Marked(m)
  <2>1. h \in Seq(Card) /\ Len(h) = Len(hand) /\ h[Len(h)].mark = m
    <3> DEFINE i == Len(hand)
               c == [hand[i] EXCEPT !.mark = m]
    <3>1. i \in 1..Len(hand) /\ hand[i] \in Card
      BY <1>t
    <3>2. c \in Card /\ c.mark = m
      BY <3>1 DEF Card
    <3>3. h = [hand EXCEPT ![i] = c]
      BY DEF Marked
    <3> HIDE DEF c, i, h
    <3>4. h \in Seq(Card) /\ Len(h) = Len(hand) /\ h[i] = c
      BY <1>t, <3>1, <3>2, <3>3
    <3> QED BY <3>2, <3>4 DEF i
  <2> HIDE DEF h
  <2>2. ~AsksAce(h)
    BY <2>1 DEF AsksAce, Back
  <2>3. settled = << >> /\ b \in Buttons
    BY <1>7, <1>b DEF Deliver, Aces
  <2>4. Fair(h, dealer, stand)
    <3>1. CASE AsksAce(hand)
      BY <2>1, <3>1 DEF Fair, Natural, RoundInv, FirstAce
    <3>2. CASE ~AsksAce(hand)
      BY <2>3, <3>2 DEF Fair, RoundInv, OpenInv, NothingDue
    <3> QED BY <3>1, <3>2
  <2> QED BY <1>t, <1>w, <1>7, <2>1, <2>2, <2>3, <2>4, HandlerStep DEF h
<1>8. CASE AceYes \/ AceNo
  BY <1>7, <1>8 DEF AceYes, AceNo, Aces
<1> QED BY <1>1, <1>2, <1>3, <1>4, <1>5, <1>6, <1>8 DEF Process

\* The invariant holds throughout.
LEMMA RoundKept == Spec => []RoundInv
<1>1. RoundInv /\ [Next]_vars => RoundInv'
  <2> SUFFICES ASSUME RoundInv, [Next]_vars PROVE RoundInv'
    OBVIOUS
  <2>1. CASE UNCHANGED vars
    BY <2>1
    DEF vars, RoundInv, TypeOK, NextInv, FirstAce, DealerWaits, OpenInv, RoundSettledOnce, AsksAce, Back
  <2> QED BY <2>1, PressStep, ProcessStep DEF Next
<1> QED BY <1>1, RoundInit, PTL DEF Spec

\* The types of the round's state.
THEOREM RoundTypeCorrect == Spec => []TypeOK
<1>1. RoundInv => TypeOK
  BY DEF RoundInv
<1> QED BY <1>1, RoundKept, PTL

\* EndGame is called once in a round, whatever buttons of old messages are pressed:
\* the second call that the code after a natural allows needs an ace of the first two
\* cards in question while the player stands, which FirstAce excludes.
THEOREM RoundsAreSettledOnce == Spec => []RoundSettledOnce
<1>1. RoundInv => RoundSettledOnce
  BY DEF RoundInv
<1> QED BY <1>1, RoundKept, PTL

\* A "next" on its way finds the player standing or doubling.
THEOREM NextFindsStanding == Spec => []NextMeansStanding
<1>1. RoundInv => NextMeansStanding
  BY DEF RoundInv, NextInv, NextMeansStanding
<1> QED BY <1>1, RoundKept, PTL

\* The dealer draws below 17 only, or while an ace of the player is in question.
THEOREM DealerDrawsBelow17 == Spec => DealerStands
<1>1. ASSUME RoundInv, [Next]_vars, dealer' # dealer
      PROVE  Score(dealer) < 17 \/ AsksAce(hand)
  <2>1. NextForDealer
    BY <1>1
    DEF Next, vars, Press, Process, Table,
        Hit, Stand, DoubleDown, DoubleRefused, NextForPlayer, AceYes, AceNo
  <2>2. Deliver("next") /\ "next" \in Buttons /\ ~doubledown
    BY <2>1 DEF NextForDealer, Buttons
  <2>3. settled = << >> /\ stand
    BY <1>1, <2>2, DeliverStep
  <2>4. Score(dealer) \in Int
    BY <1>1, ScoreType DEF RoundInv, TypeOK
  <2> QED BY <1>1, <2>3, <2>4 DEF RoundInv, OpenInv, NothingDue, DealerDone
<1>2. RoundInv /\ [Next]_vars
        => [dealer' # dealer => Score(dealer) < 17 \/ AsksAce(hand)]_vars
  BY <1>1
<1> QED BY <1>2, RoundKept, PTL DEF Spec, DealerStands

\* The round does to its session what SoloSession takes for granted: it doubles
\* against chips and without ending, and ends once, with the bet lost or doubled.
THEOREM BlackJackImplementsSoloRound == Spec => RoundRefinement
<1>1. Init => Round!RoundInit
  BY DEF Init, Round!RoundInit
<1>2. ASSUME RoundInv, [Next]_vars
      PROVE  [Round!RoundNext]_<<bet, IF settled = << >> THEN 0 ELSE settled[1],
                                 settled # << >> >>
  <2>1. CASE Process
    <3>1. Outcome
      BY <1>2, <2>1, ProcessStep
    <3>2. CASE bet' = bet /\ settled' = << >>
      BY <3>1, <3>2 DEF Outcome
    <3>3. CASE bet' = bet /\ settled' = << bet >>
      BY <3>1, <3>3 DEF Outcome, Round!RoundNext, Round!Win, Round!End
    <3>4. CASE bet' = bet /\ settled' = << 0 - bet >>
      BY <3>1, <3>4 DEF Outcome, Round!RoundNext, Round!Lose, Round!End
    <3>5. CASE Chips >= bet /\ bet' = 2 * bet /\ settled' = << >>
      BY <3>1, <3>5 DEF Outcome, Round!RoundNext, Round!Double
    <3> QED BY <3>1, <3>2, <3>3, <3>4, <3>5 DEF Outcome
  <2>2. CASE ~Process
    <3>1. UNCHANGED <<bet, settled>>
      BY <1>2, <2>2 DEF Next, Press, vars
    <3> QED BY <3>1
  <2> QED BY <2>1, <2>2
<1> QED BY <1>1, <1>2, RoundKept, PTL DEF Spec, RoundRefinement, Round!RoundSpec
====
