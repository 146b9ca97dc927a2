------------------------------ MODULE JsonWriter ------------------------------
(* The digits that the writer of a JSON text puts for a number: u32toa and     *)
(* u64toa for the integers, and for a double DigitGen, which ends as soon as   *)
(* its digits tell the number from its neighbours, and Prettify.               *)
(*                                                                             *)
(* An integer is its limbs of eight digits, the highest first.  Of a double    *)
(* stand the upper boundary Mp, the distance wp_w from it to the number, and   *)
(* the one to the lower boundary, with 6 bits of fraction for up to 60; what   *)
(* the multiplication by a cached power of ten loses is left out.              *)
EXTENDS Integers, SequencesExt

CONSTANTS
    Writable,     \* what is written, records as in WriterInit
    OneF          \* the fraction's unit, one.f

VARIABLES
    number,
    p1, p2, delta, kappa, \* DigitGen: the whole part, the fraction, and where it is
    digits, exponent,     \* buffer and K
    stage, put            \* the text

writerVars == <<number, p1, p2, delta, kappa, digits, exponent, stage, put>>

Zero == 48
Minus == 45
Point == 46
E == 101
Ten8 == 100000000
MaxDigits == 17     \* of a double
Chars(ds) == [i \in 1..Len(ds) |-> Zero + ds[i]]
Zeros(k) == [i \in 1..k |-> Zero]

-----------------------------------------------------------------------------
(* itoa.h.                                                                 *)

\* GetDigitsLut: the two digits of every number below 100.
Lut(i) == Zero + (IF i % 2 = 0 THEN i \div 20 ELSE (i \div 2) % 10)
Two(v) == <<Lut(2 * v), Lut(2 * v + 1)>>
Four(v) == Two(v \div 100) \o Two(v % 100)
Eight(v) == Four(v \div 10000) \o Four(v % 10000)
\* The last digits of a text, from the first that v reaches.
Reached(v, chars) ==
    LET places == CHOOSE k \in 1..Len(chars) : (k = 1 \/ v >= 10^(k - 1)) /\ (k = Len(chars) \/ v < 10^k)
    IN  SubSeq(chars, Len(chars) - places + 1, Len(chars))

\* u32toa: four digits, or eight, or the one or two before them.
U32toa(limbs) ==
    LET a == limbs[1]    v == limbs[2] IN
    CASE a = 0 /\ v < 10000 -> Reached(v, Four(v))
      [] a = 0 /\ v >= 10000 -> Reached(v, Eight(v))
      [] a \in 1..9 -> <<Zero + a>> \o Eight(v)
      [] OTHER -> Two(a) \o Eight(v)

\* u64toa: below 10^8, below 10^16, and from there to 1844 * 10^16.
FromTen16(a) ==
    CASE a < 10 -> <<Zero + a>>
      [] a \in 10..99 -> Two(a)
      [] a \in 100..999 -> <<Zero + a \div 100>> \o Two(a % 100)
      [] OTHER -> Two(a \div 100) \o Two(a % 100)
U64toa(limbs) ==
    LET a == limbs[1]    v0 == limbs[2]    v1 == limbs[3] IN
    CASE a = 0 /\ v0 = 0 -> U32toa(<<0, v1>>)
      [] a = 0 /\ v0 > 0 -> Reached(v0, Eight(v0)) \o Eight(v1)
      [] OTHER -> FromTen16(a) \o Eight(v0) \o Eight(v1)

I32toa(neg, limbs) == IF neg THEN <<Minus>> \o U32toa(limbs) ELSE U32toa(limbs)
I64toa(neg, limbs) == IF neg THEN <<Minus>> \o U64toa(limbs) ELSE U64toa(limbs)

-----------------------------------------------------------------------------
(* dtoa.h.                                                                 *)

WriteExponent(k) ==
    LET m == IF k < 0 THEN -k ELSE k
    IN  (IF k < 0 THEN <<Minus>> ELSE <<>>)
          \o CASE m >= 100 -> <<Zero + m \div 100>> \o Two(m % 100)
               [] m >= 10 /\ m < 100 -> Two(m)
               [] OTHER -> <<Zero + m>>

\* Nothing is cut: the 324 decimal places are more than a double has.
Prettify(ds, k) ==
    LET kk == Len(ds) + k
        cs == Chars(ds)
    IN  CASE k >= 0 /\ kk <= 21 -> cs \o Zeros(k) \o <<Point, Zero>>
          [] k < 0 /\ kk > 0 /\ kk <= 21 -> SubSeq(cs, 1, kk) \o <<Point>> \o SubSeq(cs, kk + 1, Len(cs))
          [] kk > -6 /\ kk <= 0 -> <<Zero, Point>> \o Zeros(-kk) \o cs
          [] (kk > 21 \/ kk <= -6) /\ Len(ds) = 1 -> cs \o <<E>> \o WriteExponent(kk - 1)
          [] OTHER -> <<cs[1], Point>> \o Tail(cs) \o <<E>> \o WriteExponent(kk - 1)

CountDecimalDigit32(v) == CHOOSE k \in 1..9 : v < 10^k /\ (k = 1 \/ v >= 10^(k - 1))

WriterInit ==
    /\ number \in Writable
    /\ stage = number.is /\ put = <<>>
    /\ CASE number.is = "grisu" ->
              /\ p1 = number.mp \div OneF /\ p2 = number.mp % OneF /\ delta = number.delta
              /\ kappa = CountDecimalDigit32(p1) /\ digits = <<>> /\ exponent = 0
         [] number.is = "prettify" ->
              /\ p1 = 0 /\ p2 = 0 /\ delta = 0 /\ kappa = 0
              /\ digits = number.digits /\ exponent = number.k
         [] OTHER -> p1 = 0 /\ p2 = 0 /\ delta = 0 /\ kappa = 0 /\ digits = <<>> /\ exponent = 0

WithDigit(d) == IF d # 0 \/ digits # <<>> THEN Append(digits, d) ELSE digits

\* GrisuRound: the last digit goes down while that comes closer to the number.
GrisuRound(ds, distance, rest, tenKappa, toNumber) ==
    LET At(i) == rest + i * tenKappa
        goes[i \in 0..9] ==
            /\ IF i = 0 THEN TRUE ELSE goes[i - 1]
            /\ At(i) < toNumber /\ distance - At(i) >= tenKappa
            /\ At(i + 1) < toNumber \/ toNumber - At(i) > At(i + 1) - toNumber
        rounds == CHOOSE i \in 0..10 : (i = 0 \/ goes[i - 1]) /\ (i = 10 \/ ~goes[i])
    IN  [ds EXCEPT ![Len(ds)] = @ - rounds]

\* One digit of the whole part.
WholeDigit ==
    LET ten == 10^(kappa - 1)
        ds == WithDigit(p1 \div ten)
        rest == (p1 % ten) * OneF + p2
    IN  /\ stage = "grisu" /\ kappa > 0
        /\ p1' = p1 % ten /\ kappa' = kappa - 1
        /\ IF rest <= delta
             THEN /\ digits' = GrisuRound(ds, delta, rest, ten * OneF, number.toNumber)
                  /\ exponent' = exponent + kappa' /\ stage' = "prettify"
             ELSE digits' = ds /\ UNCHANGED <<exponent, stage>>
        /\ UNCHANGED <<number, p2, delta, put>>

\* One digit of the fraction.
FractionDigit ==
    LET ds == WithDigit((p2 * 10) \div OneF)
        rest == (p2 * 10) % OneF
    IN  /\ stage = "grisu" /\ kappa <= 0
        /\ p2' = rest /\ delta' = delta * 10 /\ kappa' = kappa - 1
        /\ IF rest < delta'
             THEN /\ digits' = GrisuRound(ds, delta', rest, OneF, number.toNumber * 10^(-kappa'))
                  /\ exponent' = exponent + kappa' /\ stage' = "prettify"
             ELSE digits' = ds /\ UNCHANGED <<exponent, stage>>
        /\ UNCHANGED <<number, p1, put>>

-----------------------------------------------------------------------------
(* writer.h: the text is put, or refused.                                  *)

Puts(is, chars) ==
    /\ stage = is /\ stage' = "written" /\ put' = chars
    /\ UNCHANGED <<number, p1, p2, delta, kappa, digits, exponent>>

WriteInt == Puts("int", I32toa(number.neg, number.limbs))
WriteUint == Puts("uint", U32toa(number.limbs))
WriteInt64 == Puts("int64", I64toa(number.neg, number.limbs))
WriteUint64 == Puts("uint64", U64toa(number.limbs))

\* dtoa: a zero keeps its sign.
SignOf(neg) == IF neg THEN <<Minus>> ELSE <<>>
WriteZero == Puts("zero", SignOf(number.neg) \o <<Zero, Point, Zero>>)
WriteDouble == Puts("prettify", SignOf(number.neg) \o Prettify(digits, exponent))
\* Infinity is no JSON.
RefuseInfinity ==
    /\ stage = "infinite" /\ stage' = "refused"
    /\ UNCHANGED <<number, p1, p2, delta, kappa, digits, exponent, put>>

WriterNext ==
    \/ WholeDigit \/ FractionDigit
    \/ WriteInt \/ WriteUint \/ WriteInt64 \/ WriteUint64
    \/ WriteZero \/ WriteDouble \/ RefuseInfinity
WriterSpec == WriterInit /\ [][WriterNext]_writerVars

-----------------------------------------------------------------------------
ValueOf(chars) == FoldLeft(LAMBDA v, c : v * 10 + c - Zero, 0, chars)
IsDigit(c) == c \in Zero..Zero + 9
Unsigned(chars) == IF chars # <<>> /\ Head(chars) = Minus THEN Tail(chars) ELSE chars

\* The text of an integer has its limbs, no leading zero, its sign and room in its buffer.
BufferOf == [int |-> 11, uint |-> 10, int64 |-> 21, uint64 |-> 20]
IntegerIsTrue ==
    number.is \in DOMAIN BufferOf /\ stage = "written" =>
        LET text == Unsigned(put)
            width == 8 * Len(number.limbs)
            padded == Zeros(width - Len(text)) \o text
        IN  /\ \A i \in DOMAIN number.limbs : ValueOf(SubSeq(padded, 8 * i - 7, 8 * i)) = number.limbs[i]
            /\ text[1] = Zero => Len(text) = 1
            /\ (Head(put) = Minus) = (number.is \in {"int", "int64"} /\ number.neg)
            /\ Len(put) <= BufferOf[number.is]

\* The digits of a double lie between its boundaries, no shorter ones do, and none of the same
\* length are closer to the number.
DigitsAreShortest ==
    number.is = "grisu" /\ stage # "grisu" =>
        LET scale == IF exponent < 0 THEN 10^(-exponent) ELSE 1
            unit == OneF * (IF exponent < 0 THEN 1 ELSE 10^exponent)
            value == FoldLeft(LAMBDA v, d : v * 10 + d, 0, digits) * unit
            top == number.mp * scale
            bottom == (number.mp - number.delta) * scale
            exact == (number.mp - number.toNumber) * scale
            Off(v) == IF v < exact THEN exact - v ELSE v - exact
        IN  /\ \A i \in DOMAIN digits : digits[i] \in 0..9
            /\ bottom <= value /\ value <= top
            /\ ~\E v \in (bottom + 1)..(top - 1) : v % (10 * unit) = 0
            /\ \A v \in {value - unit, value + unit} : bottom < v /\ v <= top => Off(value) <= Off(v)

\* The text of a double denotes its digits times its power of ten, cannot be taken for an integer
\* when it is read again, and has room in its buffer.
TextDenotes ==
    number.is \in {"grisu", "prettify"} /\ stage = "written" =>
        LET text == Unsigned(put)
            e == IF E \in ToSet(text) THEN CHOOSE i \in DOMAIN text : text[i] = E ELSE Len(text) + 1
            point == IF Point \in ToSet(text) THEN CHOOSE i \in DOMAIN text : text[i] = Point ELSE e
            mantissa == SelectSeq(SubSeq(text, 1, e - 1), IsDigit)
            power == SubSeq(text, e + 1, Len(text))
            tens == (IF power # <<>> /\ Head(power) = Minus THEN -1 ELSE 1) * ValueOf(Unsigned(power))
            places == IF point < e THEN e - 1 - point ELSE 0
            \* The digits without the zeros around them, and the power of ten of the last one.
            Bare(cs, k) ==
                LET nonzero == {i \in DOMAIN cs : cs[i] # Zero}
                    from == CHOOSE i \in nonzero : \A j \in nonzero : i <= j
                    to == CHOOSE i \in nonzero : \A j \in nonzero : i >= j
                IN  <<SubSeq(cs, from, to), k + Len(cs) - to>>
        IN  /\ Bare(mantissa, tens - places) = Bare(Chars(digits), exponent)
            /\ {Point, E} \intersect ToSet(text) # {}
            /\ (Head(put) = Minus) = number.neg /\ Len(put) <= 25
WrittenIsTrue == IntegerIsTrue /\ DigitsAreShortest /\ TextDenotes
=============================================================================
