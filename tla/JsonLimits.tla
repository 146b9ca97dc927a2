------------------------------- MODULE JsonLimits -------------------------------
(* The bounds of the JSON conversions, and the characters that they are shown. *)
EXTENDS Integers

CONSTANTS
    MaxString,    \* bound: tokens of a string
    MaxSize,      \* ShortString::MaxSize, scaled: 21 bytes in the code
    Bytes,        \* the bytes of a string's text
    Hexas         \* the numbers of an escape's four digits

NotHexa == -1

ASSUME StringAssumption ==
    /\ MaxString \in Nat /\ MaxSize \in Nat
    /\ Bytes \subseteq 0..255
    /\ \A h \in Hexas : h = NotHexa \/ (h \in Nat /\ h < 65536)
=============================================================================
