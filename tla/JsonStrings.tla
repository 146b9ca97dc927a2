------------------------------ MODULE JsonStrings ------------------------------
(* A string of a JSON text: GenericReader::ParseStringToStream takes it byte   *)
(* by byte, SetStringRaw stores it, inside the value when it is short, the     *)
(* daemon reads it or Writer::WriteString writes it, and what was written is   *)
(* parsed again.  The writer takes a step for each byte.                      *)
(*                                                                            *)
(* The four hexadecimal digits of an escape are one token, their number, or   *)
(* NotHexa when they are not four such digits.                                *)
EXTENDS JsonLimits, Sequences

VARIABLES
    peek, rest,     \* is.Peek(), and what follows it in a text that was written; os_ of the writer
    scanned,        \* is.Tell() of the writer
    count,          \* tokens taken from a text that is being chosen
    at,             \* the place in ParseStringToStream
    codepoint,      \* of an escape; the first of a pair
    codes,          \* history: the code points of the escapes
    bytes,          \* what StackStream has
    error,          \* parseResult_
    stored,         \* Data of the value: flags, length and str
    first           \* the string that the chosen text was

stringVars == <<peek, rest, scanned, count, at, codepoint, codes, bytes, error, stored, first>>

Quote == 34
Backslash == 92
Slash == 47
U == 117
Nul == 0

Data(flags, length, str) == [flags |-> flags, length |-> length, str |-> str]
Null == Data("null", 0, <<>>)

StringInit ==
    /\ peek \in Bytes /\ rest = <<>> /\ scanned = 0 /\ count = 0
    /\ at = "string" /\ codepoint = 0 /\ codes = <<>> /\ bytes = <<>> /\ error = "None"
    /\ stored = Null /\ first = <<>>

-----------------------------------------------------------------------------
(* The stream.                                                             *)

IsWritten == stored # Null
Take(next) ==
    /\ at' = next
    /\ IF IsWritten THEN peek' = Head(rest) /\ rest' = Tail(rest) /\ UNCHANGED count
       ELSE /\ count' = count + 1 /\ rest' = rest
            /\ peek' \in CASE next \in {"hex", "hex2"} -> Hexas
                           [] next \notin {"hex", "hex2"} /\ count' < MaxString -> Bytes
                           [] OTHER -> {Quote, Nul}
Fail(e) ==
    /\ error' = e /\ at' = "done"
    /\ UNCHANGED <<peek, rest, count, codepoint, codes, bytes>>
PutBytes(s) == bytes' = bytes \o s

-----------------------------------------------------------------------------
(* Parsing.                                                                *)

\* escape[e] of the reader: 0 when the letter is no escape.
Unescaped(e) ==
    CASE e \in {Quote, Slash, Backslash} -> e
      [] e = 98 -> 8 [] e = 102 -> 12 [] e = 110 -> 10 [] e = 114 -> 13 [] e = 116 -> 9
      [] OTHER -> 0

\* UTF8::Encode.
Trail(c, unit) == 128 + ((c \div unit) % 64)
Encode(c) ==
    CASE c <= 127 -> <<c>>
      [] c > 127 /\ c <= 2047 -> <<192 + c \div 64, Trail(c, 1)>>
      [] c > 2047 /\ c <= 65535 -> <<224 + c \div 4096, Trail(c, 64), Trail(c, 1)>>
      [] OTHER -> <<240 + c \div 262144, Trail(c, 4096), Trail(c, 64), Trail(c, 1)>>

ParseByte ==
    /\ at = "string"
    /\ CASE peek = Backslash -> Take("escape") /\ UNCHANGED <<bytes, codepoint, codes, error>>
         [] peek = Quote -> /\ at' = "closed" /\ PutBytes(<<Nul>>)
                            /\ UNCHANGED <<peek, rest, count, codepoint, codes, error>>
         [] peek = Nul -> Fail("StringMissQuotationMark")
         [] peek \in 1..31 -> Fail("StringEscapeInvalid")
         [] OTHER -> Take("string") /\ PutBytes(<<peek>>) /\ UNCHANGED <<codepoint, codes, error>>
    /\ UNCHANGED <<scanned, stored, first>>

ParseEscape ==
    /\ at = "escape"
    /\ CASE Unescaped(peek) # 0 ->
              Take("string") /\ PutBytes(<<Unescaped(peek)>>) /\ UNCHANGED <<codepoint, codes, error>>
         [] peek = U -> Take("hex") /\ UNCHANGED <<bytes, codepoint, codes, error>>
         [] OTHER -> Fail("StringEscapeInvalid")
    /\ UNCHANGED <<scanned, stored, first>>

Encoded(c) == PutBytes(Encode(c)) /\ codes' = Append(codes, c) /\ UNCHANGED error

\* The halves of a surrogate pair.
HighHalf(c) == 55296 <= c /\ c <= 56319
LowHalf(c) == 56320 <= c /\ c <= 57343

\* ParseHex4, and the first half of a surrogate pair.
ParseHex ==
    /\ at = "hex"
    /\ CASE peek = NotHexa -> Fail("StringUnicodeEscapeInvalidHex")
         [] HighHalf(peek) ->
              codepoint' = peek /\ Take("pair") /\ UNCHANGED <<bytes, codes, error>>
         [] OTHER -> codepoint' = peek /\ Take("string") /\ Encoded(peek)
    /\ UNCHANGED <<scanned, stored, first>>

\* The second half: another escape, of a low surrogate.
ParsePair ==
    /\ \/ /\ at \in {"pair", "pairU"}
          /\ IF peek = (IF at = "pair" THEN Backslash ELSE U)
             THEN /\ Take(IF at = "pair" THEN "pairU" ELSE "hex2")
                  /\ UNCHANGED <<bytes, codepoint, codes, error>>
             ELSE Fail("StringUnicodeSurrogateInvalid")
       \/ /\ at = "hex2"
          /\ CASE peek = NotHexa -> Fail("StringUnicodeEscapeInvalidHex")
               [] peek # NotHexa /\ ~LowHalf(peek) -> Fail("StringUnicodeSurrogateInvalid")
               [] OTHER -> LET c == (codepoint - 55296) * 1024 + (peek - 56320) + 65536
                           IN  codepoint' = c /\ Take("string") /\ Encoded(c)
    /\ UNCHANGED <<scanned, stored, first>>

-----------------------------------------------------------------------------
(* The value.                                                              *)

\* SetStringRaw: a short string is in the value, with what its length lacks in the last byte.
Stored(s) ==
    LET length == Len(s)
        cells == [i \in 1..MaxSize + 1 |->
                    CASE i <= length -> s[i] [] i = length + 1 -> Nul
                      [] i > length + 1 /\ i = MaxSize + 1 -> MaxSize - length [] OTHER -> 255]
    IN  IF length <= MaxSize THEN Data("short", 0, cells)
        ELSE Data("copy", length, Append(s, Nul))

StringLength(v) == IF v.flags = "short" THEN MaxSize - v.str[MaxSize + 1] ELSE v.length
Text(v) == SubSeq(v.str, 1, StringLength(v))
\* std::string(GetString()), as JsonUtils takes it: up to the first zero.
StdString(v) ==
    LET zeros == {i \in DOMAIN v.str : v.str[i] = Nul}
    IN  SubSeq(v.str, 1, (CHOOSE i \in zeros : \A j \in zeros : i <= j) - 1)

\* escape[c] of the writer.
Escaped(c) ==
    CASE c = Quote -> <<Backslash, Quote>>
      [] c = Backslash -> <<Backslash, Backslash>>
      [] c = 8 -> <<Backslash, 98>> [] c = 12 -> <<Backslash, 102>> [] c = 10 -> <<Backslash, 110>>
      [] c = 13 -> <<Backslash, 114>> [] c = 9 -> <<Backslash, 116>>
      [] c < 32 /\ c \notin {8, 9, 10, 12, 13} -> <<Backslash, U, c>>
      [] OTHER -> <<c>>

WriteByte ==
    /\ at = "writing" /\ scanned < StringLength(stored)
    /\ rest' = rest \o Escaped(stored.str[scanned + 1]) /\ scanned' = scanned + 1
    /\ UNCHANGED <<peek, count, at, codepoint, codes, bytes, error, stored, first>>

\* The closing quote; the text is read from its first byte.
WriteEnd ==
    /\ at = "writing" /\ scanned = StringLength(stored) /\ at' = "string"
    /\ LET out == rest \o <<Quote, Nul>> IN peek' = Head(out) /\ rest' = Tail(out)
    /\ UNCHANGED <<scanned, count, codepoint, codes, bytes, error, stored, first>>

\* The handler's String: the string is stored, without its terminator, and written.
Close ==
    /\ at = "closed"
    /\ IF IsWritten THEN at' = "done" /\ UNCHANGED <<codes, bytes, stored, first>>
       ELSE LET s == SubSeq(bytes, 1, Len(bytes) - 1)
            IN  first' = s /\ stored' = Stored(s) /\ at' = "writing" /\ bytes' = <<>> /\ codes' = <<>>
    /\ UNCHANGED <<peek, rest, scanned, count, codepoint, error>>

StringNext == ParseByte \/ ParseEscape \/ ParseHex \/ ParsePair \/ WriteByte \/ WriteEnd \/ Close
StringSpec == StringInit /\ [][StringNext]_stringVars

-----------------------------------------------------------------------------
(* What a string is.                                                       *)

\* The code point that a sequence of UTF-8 bytes stands for.
Decoded(s) ==
    CASE Len(s) = 1 -> s[1]
      [] Len(s) = 2 -> (s[1] - 192) * 64 + (s[2] - 128)
      [] Len(s) = 3 -> ((s[1] - 224) * 64 + (s[2] - 128)) * 64 + (s[3] - 128)
      [] OTHER -> (((s[1] - 240) * 64 + (s[2] - 128)) * 64 + (s[3] - 128)) * 64 + (s[4] - 128)

\* Each escape is the UTF-8 of its code point, never of half a pair's first half; what is stored
\* has its length and its bytes, and the daemon reads them up to a zero; what is written has
\* nothing that must be escaped and reads back the same.
StringIsTrue ==
    /\ \A i \in DOMAIN codes : Decoded(Encode(codes[i])) = codes[i] /\ ~HighHalf(codes[i])
    /\ IsWritten =>
          /\ error = "None" /\ Text(stored) = first
          /\ (\A i \in DOMAIN first : first[i] # 0) => StdString(stored) = first
          /\ stored.str[Len(first) + 1] = Nul
          /\ at = "string" => peek \notin 1..31
    /\ IsWritten /\ at = "done" => bytes = Append(first, Nul)
=============================================================================
