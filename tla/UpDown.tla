---- MODULE UpDown ----
(***************************************************************************)
(* Labyrinth's up-down games in direct messages: the member types a number *)
(* and is told whether the secret one is above or below.  ".91updown" has  *)
(* the secret 31/7, ".14updown" the square root of 2.  onMessage of        *)
(* LabyrinthBot.cpp.                                                       *)
(*                                                                         *)
(* A number is whole, a decimal or a fraction.  Fractions are compared in  *)
(* ints: by multiplying across in the first game, by a long division in    *)
(* the second, one digit of the root at a time.                            *)
(***************************************************************************)
EXTENDS CInt, Sequences

CONSTANTS
    Numbers,    \* the naturals that are typed, within the int
    Decimals,   \* the texts typed behind a point: not empty, of digits
    Root        \* r2, the decimals of the root; 1000 in the code

ASSUME UpDownAssumption ==
    /\ Numbers \subseteq 0..(Half - 1)
    /\ Decimals \subseteq Seq(0..9) \ {<< >>}
    /\ Root \in Seq(0..9)
    /\ Root # << >>

Games == {"91", "14"}

Asked ==
    [game: Games, form: {"whole"}, num: Numbers]
    \cup [game: Games, form: {"decimal"}, num: Numbers, text: Decimals]
    \cup [game: Games, form: {"fraction"}, num: Numbers, den: Numbers]

VARIABLES
    asked,      \* the message
    rest,       \* f of the division
    place,      \* how many digits were compared
    verdict     \* updown: "none", or what is answered; "dies" if the process does

upDownVars == <<asked, rest, place, verdict>>

---------------------------------------------------------------------------
UpDownInit ==
    /\ asked \in Asked
    /\ rest = 0
    /\ place = 0
    /\ verdict = "none"

Compare(mine, secret) ==
    CASE mine > secret -> "down"
      [] mine < secret -> "up"
      [] OTHER         -> "correct"

\* The whole part of the secret, which is above it.
WholePart == IF asked.game = "91" THEN 4 ELSE 1

\* c[i % 6] or r2[i], the i-th digit behind the point.
SecretDigit(i) ==
    IF asked.game = "91" THEN <<4, 2, 8, 5, 7, 1>>[((i - 1) % 6) + 1] ELSE Root[i]

\* The first digit that differs decides; a text that the secret begins with is below.
DecimalVerdict(text) ==
    LET Differ == {i \in 1..Len(text) : text[i] # SecretDigit(i)}
    IN  IF Differ = {} THEN "up"
        ELSE LET first == CHOOSE i \in Differ : \A j \in Differ : i <= j
             IN  Compare(text[first], SecretDigit(first))

Whole ==
    /\ asked.form = "whole"
    /\ verdict = "none"
    /\ verdict' = IF asked.num <= WholePart THEN "up" ELSE "down"
    /\ UNCHANGED <<asked, rest, place>>

Decimal ==
    /\ asked.form = "decimal"
    /\ verdict = "none"
    /\ verdict' = IF asked.num = WholePart THEN DecimalVerdict(asked.text)
                  ELSE Compare(asked.num, WholePart)
    /\ UNCHANGED <<asked, rest, place>>

\* Case 2 of ".91updown": f * 7 against l * 31.
MultiplyAcross ==
    /\ asked.form = "fraction"
    /\ asked.game = "91"
    /\ verdict = "none"
    /\ verdict' = Compare(Wrap(asked.num * 7), Wrap(asked.den * 31))
    /\ UNCHANGED <<asked, rest, place>>

\* Mutant: the rest is not made ten times as much.
NextRestKept(f, a) == Wrap(f - Wrap(a * asked.den))

NextRest(f, a) == Wrap(Wrap(f - Wrap(a * asked.den)) * 10)

\* The i-th round of the loop of ".14updown": a digit of the quotient against one
\* of the root.  A denominator of 0 ends the process.
Divide ==
    /\ asked.form = "fraction"
    /\ asked.game = "14"
    /\ verdict = "none"
    /\ place < Len(Root)
    /\ place' = place + 1
    /\ IF asked.den = 0
       THEN verdict' = "dies" /\ UNCHANGED rest
       ELSE LET f == IF place = 0 THEN asked.num ELSE rest
                a == Quot(f, asked.den)
                c == IF place = 0 THEN 1 ELSE Root[place]
            IN  /\ verdict' = IF a = c THEN "none" ELSE Compare(a, c)
                /\ rest' = NextRest(f, a)
    /\ UNCHANGED asked

UpDownNext == Whole \/ Decimal \/ MultiplyAcross \/ Divide

UpDownSpec == UpDownInit /\ [][UpDownNext]_upDownVars

---------------------------------------------------------------------------
(* Properties *)

\* Types.
UpDownTypeOK ==
    /\ asked \in Asked
    /\ place \in 0..Len(Root)
    /\ verdict \in {"none", "up", "down", "correct", "dies"}
    /\ rest \in -Half..(Half - 1)

\* The number that is written n and then digits.
Written(n, digits) ==
    LET upTo[k \in 0..Len(digits)] == IF k = 0 THEN n ELSE 10 * upTo[k - 1] + digits[k]
    IN  upTo[Len(digits)]

Zeros(text) == [i \in 1..Len(text) |-> 0]

\* The number typed, as a numerator over a denominator.
Denominator ==
    CASE asked.form = "whole"    -> 1
      [] asked.form = "decimal"  -> Written(1, Zeros(asked.text))
      [] asked.form = "fraction" -> asked.den

Numerator == IF asked.form = "decimal" THEN Written(asked.num, asked.text) ELSE asked.num

\* The products of the comparison are ints.
InRange ==
    asked.form = "fraction" =>
        IF asked.game = "91" THEN Fits(asked.num * 7) /\ Fits(asked.den * 31)
        ELSE Fits(asked.den * 10)

\* The verdict is that of exact arithmetic: on 31/7 by the products, on the root by
\* the squares.  The division comes to it before the digits of the root are used up,
\* and no number is told to be the root.
VerdictIsExact ==
    (verdict # "none" \/ place = Len(Root)) /\ Denominator > 0 /\ InRange =>
        verdict = IF asked.game = "91" THEN Compare(7 * Numerator, 31 * Denominator)
                  ELSE Compare(Numerator * Numerator, 2 * Denominator * Denominator)
====
