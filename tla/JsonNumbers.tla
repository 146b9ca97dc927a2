------------------------------ MODULE JsonNumbers ------------------------------
(* A number of a JSON text: GenericReader::ParseNumber character by character, *)
(* and the constructor of GenericValue that its event calls.                  *)
(*                                                                            *)
(* The widths are scaled so that a short text meets every limit: 32 bits are  *)
(* 5, 64 bits are 9, the 53 bits of a significand are 7, its 17 digits are 3, *)
(* the largest double 1.7976e308 is 1.7976e4, and the exponent at which the   *)
(* reader stops counting is 12.  A double is kept exactly: what its own       *)
(* rounding loses is left out.                                                *)
EXTENDS Integers, Sequences, SequencesExt

CONSTANT MaxNumber    \* bound: characters of a number

VARIABLES
    peek,       \* s.Peek(): a digit, one of - + . e, or 0 for any other
    taken,      \* the characters taken
    at,         \* the place in ParseNumber
    n,          \* i, i64 or d
    width,      \* which of the three: use64bit, useDouble
    significandDigit, expFrac, exp, minus, expMinus,
    result      \* the value given to the handler, or the error

numberVars == <<peek, taken, at, n, width, significandDigit, expFrac, exp, minus, expMinus,
                result>>

Bits32 == 32
Bits64 == 512
Significand == 127
Significant == 3
MaxExponent == 4
ExponentLimit == 12
MaxDouble == 17976    \* the largest double

\* Characters are their codes; of the digits those that the limits tell apart.
Zero == 48
Digits == {Zero + d : d \in {0, 1, 2, 3, 5, 6, 7}}
Plus == 43
Minus == 45
Point == 46
E == 101
Other == 0
IsDigit(c) == c \in Zero..Zero + 9
Digit == peek - Zero

\* Past the integer fewer digits are enough, and elsewhere a sign is any other character.  As a
\* single digit of an exponent is below the 308 of the code, one of the model's is below MaxExponent.
Chosen ==
    IF Len(taken) + 1 > MaxNumber THEN {Other}
    ELSE {Point, E, Other}
           \union CASE at \in {"start", "int", "digits", "digits64"} -> Digits
                    [] at = "exponent" -> {Plus, Minus} \union {Zero, Zero + 1, Zero + 3}
                    [] at \in {"expSign", "expFirst", "expDigits"} -> {Zero, Zero + 1, Zero + 3}
                    [] OTHER -> {Zero, Zero + 7}

Init ==
    /\ at = "start" /\ n = 0 /\ peek \in Digits \union {Minus, Plus, Point, E, Other}
    /\ taken = <<>> /\ width = "i" /\ significandDigit = 0 /\ expFrac = 0 /\ exp = 0
    /\ minus = FALSE /\ expMinus = FALSE /\ result = [is |-> "nothing"]

-----------------------------------------------------------------------------
Take == taken' = Append(taken, peek) /\ peek' \in Chosen
Leave == UNCHANGED <<peek, taken>>
Goto(place) == at' = place /\ UNCHANGED result
Fail(e) == result' = [is |-> e] /\ at' = "done"

\* Minus, and the first digit.
ParseMinus ==
    /\ at = "start" /\ Goto("int") /\ minus' = (peek = Minus)
    /\ IF peek = Minus THEN Take ELSE Leave
    /\ UNCHANGED <<n, width, significandDigit, expFrac, exp, expMinus>>

ParseFirst ==
    /\ at = "int"
    /\ IF IsDigit(peek)
       THEN n' = Digit /\ Goto(IF Digit = 0 THEN "point" ELSE "digits") /\ Take
       ELSE Fail("ValueInvalid") /\ Leave /\ UNCHANGED n
    /\ UNCHANGED <<width, significandDigit, expFrac, exp, minus, expMinus>>

\* Whether another digit would leave the 32 or the 64 bits.
Overflows(bits) ==
    LET limit == IF minus THEN bits \div 2 ELSE bits - 1
    IN  n >= limit \div 10 /\ (n # limit \div 10 \/ Digit > limit % 10)

ParseDigits(place, bits, next, wider) ==
    /\ at = place
    /\ IF ~IsDigit(peek)
       THEN Goto("point") /\ Leave /\ UNCHANGED <<n, width, significandDigit>>
       ELSE IF Overflows(bits)
       THEN Goto(next) /\ width' = wider /\ Leave /\ UNCHANGED <<n, significandDigit>>
       ELSE /\ Goto(place) /\ n' = n * 10 + Digit /\ significandDigit' = significandDigit + 1
            /\ Take /\ UNCHANGED width
    /\ UNCHANGED <<expFrac, exp, minus, expMinus>>
ParseDigits32 == ParseDigits("digits", Bits32, "digits64", "i64")
ParseDigits64 == ParseDigits("digits64", Bits64, "big", "d")

\* Force double for big integer.
ParseBig ==
    /\ at = "big"
    /\ CASE ~IsDigit(peek) -> Goto("point") /\ Leave /\ UNCHANGED n
         [] IsDigit(peek) /\ n * 10 >= MaxDouble -> Fail("NumberTooBig") /\ Leave /\ UNCHANGED n
         [] OTHER -> Goto("big") /\ n' = n * 10 + Digit /\ Take
    /\ UNCHANGED <<width, significandDigit, expFrac, exp, minus, expMinus>>

\* The decimal point.
ParsePoint ==
    /\ at = "point"
    /\ IF peek = Point THEN Goto("fracFirst") /\ Take ELSE Goto("exponent") /\ Leave
    /\ UNCHANGED <<n, width, significandDigit, expFrac, exp, minus, expMinus>>

ParseFracFirst ==
    /\ at = "fracFirst" /\ Leave
    /\ IF ~IsDigit(peek) THEN Fail("NumberMissFraction")
       ELSE Goto(IF width = "d" THEN "fracDouble" ELSE "frac")
    /\ UNCHANGED <<n, width, significandDigit, expFrac, exp, minus, expMinus>>

\* The significand stays in i64 while it has no more than 53 bits.
ParseFrac ==
    /\ at = "frac"
    /\ IF IsDigit(peek) /\ n <= Significand
       THEN /\ n' = n * 10 + Digit /\ expFrac' = expFrac - 1
            /\ significandDigit' = significandDigit + (IF n' # 0 THEN 1 ELSE 0)
            /\ Goto("frac") /\ Take /\ UNCHANGED width
       ELSE width' = "d" /\ Goto("fracDouble") /\ Leave /\ UNCHANGED <<n, expFrac, significandDigit>>
    /\ UNCHANGED <<exp, minus, expMinus>>

ParseFracDouble ==
    /\ at = "fracDouble"
    /\ IF ~IsDigit(peek) THEN Goto("exponent") /\ Leave /\ UNCHANGED <<n, expFrac, significandDigit>>
       ELSE /\ Goto("fracDouble") /\ Take
            /\ IF significandDigit >= Significant THEN UNCHANGED <<n, expFrac, significandDigit>>
               ELSE /\ n' = n * 10 + Digit /\ expFrac' = expFrac - 1
                    /\ significandDigit' = significandDigit + (IF n' > 0 THEN 1 ELSE 0)
    /\ UNCHANGED <<width, exp, minus, expMinus>>

\* The exponent: its letter, its sign, its first digit.
ParseExponent ==
    /\ \/ /\ at = "exponent"
          /\ IF peek = E THEN width' = "d" /\ Goto("expSign") /\ Take
             ELSE Goto("finish") /\ Leave /\ UNCHANGED width
          /\ UNCHANGED <<exp, expMinus>>
       \/ /\ at = "expSign" /\ Goto("expFirst") /\ expMinus' = (peek = Minus)
          /\ IF peek \in {Plus, Minus} THEN Take ELSE Leave
          /\ UNCHANGED <<exp, width>>
       \/ /\ at = "expFirst"
          /\ IF IsDigit(peek) THEN exp' = Digit /\ Goto("expDigits") /\ Take
             ELSE Fail("NumberMissExponent") /\ Leave /\ UNCHANGED exp
          /\ UNCHANGED <<width, expMinus>>
    /\ UNCHANGED <<n, significandDigit, expFrac, minus>>

\* Its other digits: a positive one is refused, a negative one no longer counted at its limit.
ParseExpDigits ==
    /\ at = "expDigits"
    /\ LET more == exp * 10 + Digit
           counts == ~(expMinus /\ exp >= ExponentLimit)
       IN  CASE ~IsDigit(peek) -> Goto("finish") /\ Leave /\ UNCHANGED exp
             [] IsDigit(peek) /\ ~expMinus /\ more > MaxExponent - expFrac ->
                    Fail("NumberTooBig") /\ Take /\ exp' = more
             [] OTHER -> Goto("expDigits") /\ Take /\ exp' = IF counts THEN more ELSE exp
    /\ UNCHANGED <<n, width, significandDigit, expFrac, minus, expMinus>>

-----------------------------------------------------------------------------
(* The event, and the flags of the value.                                  *)

IntValue(i) ==
    [is |-> "integer", value |-> i,
     flags |-> {"Int", "Int64"} \union IF i >= 0 THEN {"Uint", "Uint64"} ELSE {}]
UintValue(u) ==
    [is |-> "integer", value |-> u,
     flags |-> {"Uint", "Uint64", "Int64"} \union IF u >= Bits32 \div 2 THEN {} ELSE {"Int"}]
Int64Value(i64) ==
    [is |-> "integer", value |-> i64,
     flags |-> {"Int64"}
        \union (IF i64 >= 0 THEN {"Uint64"} ELSE {})
        \union (IF i64 >= 0 /\ i64 < Bits32 THEN {"Uint"} ELSE {})
        \union (IF i64 >= -(Bits32 \div 2) /\ i64 < Bits32 \div 2 THEN {"Int"} ELSE {})]
Uint64Value(u64) ==
    [is |-> "integer", value |-> u64,
     flags |-> {"Uint64"}
        \union (IF u64 < Bits64 \div 2 THEN {"Int64"} ELSE {})
        \union (IF u64 < Bits32 THEN {"Uint"} ELSE {})
        \union (IF u64 < Bits32 \div 2 THEN {"Int"} ELSE {})]

\* StrtodNormalPrecision: Pow10 of an exponent below twice the least one is zero.
DoubleValue ==
    LET p == (IF expMinus THEN -exp ELSE exp) + expFrac
    IN  [is |-> "double", significand |-> IF p < -2 * MaxExponent THEN 0 ELSE n, p |-> p,
         flags |-> {"Double"}]

Finish ==
    /\ at = "finish" /\ at' = "done"
    /\ result' = CASE width = "d" -> DoubleValue
                   [] width = "i64" -> IF minus THEN Int64Value(-n) ELSE Uint64Value(n)
                   [] width = "i" -> IF minus THEN IntValue(-n) ELSE UintValue(n)
    /\ Leave /\ UNCHANGED <<n, width, significandDigit, expFrac, exp, minus, expMinus>>

Next ==
    \/ ParseMinus \/ ParseFirst \/ ParseDigits32 \/ ParseDigits64 \/ ParseBig
    \/ ParsePoint \/ ParseFracFirst \/ ParseFrac \/ ParseFracDouble
    \/ ParseExponent \/ ParseExpDigits \/ Finish
Spec == Init /\ [][Next]_numberVars

-----------------------------------------------------------------------------
(* What a number is.                                                       *)

NumberOf(digits) == FoldLeft(LAMBDA v, d : v * 10 + d - Zero, 0, digits)
\* Where a character stands in what was taken, past the end when it is not there.
PlaceOf(c) ==
    LET places == {i \in DOMAIN taken : taken[i] = c}
    IN  IF places = {} THEN Len(taken) + 1 ELSE CHOOSE i \in places : \A j \in places : i <= j
Sign == IF taken # <<>> /\ taken[1] = Minus THEN 1 ELSE 0
PointAt == IF PlaceOf(Point) < PlaceOf(E) THEN PlaceOf(Point) ELSE PlaceOf(E)
WholePart == SubSeq(taken, Sign + 1, PointAt - 1)
FractionPart == SubSeq(taken, PointAt + 1, PlaceOf(E) - 1)
AfterE == SubSeq(taken, PlaceOf(E) + 1, Len(taken))
ExponentPart == IF AfterE # <<>> /\ AfterE[1] \in {Plus, Minus} THEN Tail(AfterE) ELSE AfterE

AreDigits(s) == s # <<>> /\ \A i \in DOMAIN s : IsDigit(s[i])
IsNumber ==
    /\ AreDigits(WholePart) /\ (WholePart[1] = Zero => Len(WholePart) = 1)
    /\ PlaceOf(Point) < PlaceOf(E) => AreDigits(FractionPart)
    /\ PlaceOf(E) <= Len(taken) => AreDigits(ExponentPart)

Mantissa == NumberOf(WholePart \o FractionPart)
Plain == FractionPart = <<>> /\ AfterE = <<>>
Signed == IF Sign = 1 THEN -NumberOf(WholePart) ELSE NumberOf(WholePart)

\* An integer is exact and its flags name every type that holds it; a double has the digits
\* that were written but those of a fraction past the significant ones, and the exponent that
\* goes with them; what is refused is no number, or one larger than a double may be - or zero
\* with an exponent.
NumberIsTrue ==
    /\ result.is = "integer" =>
          /\ IsNumber /\ Plain /\ result.value = Signed
          /\ result.flags =
                {f \in {"Int", "Uint", "Int64", "Uint64"} :
                    CASE f = "Int" -> Signed \in -(Bits32 \div 2)..(Bits32 \div 2 - 1)
                      [] f = "Uint" -> Signed \in 0..(Bits32 - 1)
                      [] f = "Int64" -> Signed \in -(Bits64 \div 2)..(Bits64 \div 2 - 1)
                      [] f = "Uint64" -> Signed \in 0..(Bits64 - 1)}
    /\ result.is = "double" =>
          LET dropped == Len(FractionPart) + expFrac
          IN  /\ IsNumber /\ dropped >= 0
              /\ Plain => Signed \notin -(Bits64 \div 2)..(Bits64 - 1)
              /\ dropped > 0 => significandDigit >= Significant
              /\ n = Mantissa \div 10^dropped
              /\ \/ exp = NumberOf(ExponentPart)
                 \/ expMinus /\ exp >= ExponentLimit /\ result.significand = 0
              /\ expMinus = (AfterE # <<>> /\ AfterE[1] = Minus)
              /\ result.significand # n => result.p < -2 * MaxExponent
    /\ result.is = "NumberTooBig" =>
          \/ PlaceOf(E) > Len(taken) /\ n * 10 >= MaxDouble
          \/ exp + expFrac > MaxExponent
    /\ result.is \in {"ValueInvalid", "NumberMissFraction", "NumberMissExponent"} => ~IsNumber
    /\ exp <= ExponentLimit * 10 + 9
=============================================================================
