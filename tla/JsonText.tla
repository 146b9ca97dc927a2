------------------------------- MODULE JsonText -------------------------------
(* A JSON text on its way through the parser of rapidjson that the daemon     *)
(* carries: GenericReader takes the tokens one by one, GenericDocument builds *)
(* the values on its stack, PrettyWriter writes the root as the Scheduler     *)
(* writes the message of a planned task, and what was written is parsed       *)
(* again, as the JsonSerializer parses that message.                          *)
(*                                                                            *)
(* A string, a number or a literal is one token (JsonStrings and JsonNumbers  *)
(* tell what is in them); "garbage" is any character that begins no token,    *)
(* "end" the '\0' after the text.  The next token is chosen when the reader   *)
(* looks at it.                                                               *)
EXTENDS Naturals, Sequences, SequencesExt

CONSTANT MaxText    \* bound: tokens of a text

VARIABLES
    peek,       \* is.Peek()
    taken,      \* the tokens taken so far, of a text that is being chosen
    rest,       \* the tokens still to come, of a text that was written
    frames,     \* the calls of ParseObject and ParseArray that have not returned
    stack,      \* stack_ of the document: the values that have no parent yet
    error,      \* parseResult_ of the document, "None" when it has parsed
    root,       \* the documents: the one that parsed the text, the one that parsed it again
    pass        \* "text", "written" or "done"

textVars == <<peek, taken, rest, frames, stack, error, root, pass>>

\* A literal goes the way of a number.
Scalars == {"string", "number"}
Tokens == Scalars \union {"{", "}", "[", "]", ":", ",", "blank", "garbage"}

Item(kind, items) == [kind |-> kind, items |-> items]
Frame(in, place) == [in |-> in, at |-> place, count |-> 0]

Started ==
    /\ frames = <<Frame("document", "first")>> /\ stack = <<>> /\ error = "running"

TextInit ==
    /\ peek \in Tokens \union {"end"} /\ taken = <<>> /\ rest = <<>>
    /\ Started /\ root = <<>> /\ pass = "text"

-----------------------------------------------------------------------------
(* The stream.                                                             *)

\* A second blank would be passed over as the first is.
Chosen ==
    IF Len(taken) + 1 >= MaxText THEN {"end"}
    ELSE IF peek = "blank" THEN (Tokens \ {"blank"}) \union {"end"}
    ELSE Tokens \union {"end"}

Take ==
    IF pass = "text"
    THEN taken' = Append(taken, peek) /\ peek' \in Chosen /\ rest' = rest
    ELSE /\ peek' = IF rest = <<>> THEN "end" ELSE Head(rest)
         /\ rest' = IF rest = <<>> THEN rest ELSE Tail(rest)
         /\ UNCHANGED taken
Stay == UNCHANGED <<peek, taken, rest>>

-----------------------------------------------------------------------------
(* The document as the handler of the reader.                              *)

Push(kind) == stack' = Append(stack, Item(kind, <<>>))

\* SetObjectRaw, SetArrayRaw: the last n values become the items of the one below.
EndContainer(n) ==
    LET below == Len(stack) - n
    IN  stack' = Append(SubSeq(stack, 1, below - 1),
                        Item(stack[below].kind, SubSeq(stack, below + 1, Len(stack))))

-----------------------------------------------------------------------------
(* The reader.                                                             *)

Reading == error = "running"
top == Last(frames)
At(in, place) == Reading /\ top.in = in /\ top.at = place /\ peek # "blank"
Goto(place) == frames' = Front(frames) \o <<[top EXCEPT !.at = place]>>
Counted == [top EXCEPT !.count = @ + 1]
Fail(e) == error' = e /\ Stay /\ UNCHANGED <<frames, stack>>
Return == frames' = Front(frames)

\* SkipWhitespaceAndComments: kParseCommentsFlag is off, and it comes before every look.
SkipWhitespace ==
    /\ Reading /\ peek = "blank"
    /\ Take /\ UNCHANGED <<frames, stack, error>>

\* Parse, before the value.
ParseStart ==
    /\ At("document", "first")
    /\ IF peek = "end" THEN Fail("DocumentEmpty")
       ELSE Goto("value") /\ Stay /\ UNCHANGED <<stack, error>>

\* Parse, after the value.
ParseRest ==
    /\ At("document", "after")
    /\ error' = IF peek = "end" THEN "None" ELSE "DocumentRootNotSingular"
    /\ Stay /\ UNCHANGED <<frames, stack>>

\* ParseString, ParseNumber, ParseNull, ParseTrue and ParseFalse.
ParseScalar ==
    /\ peek \in Scalars
    /\ Push(peek) /\ Goto("after") /\ Take /\ UNCHANGED error

\* What has no other first character is parsed as a number.
ParseValue ==
    /\ Reading /\ top.at = "value" /\ peek # "blank"
    /\ \/ ParseScalar
       \/ /\ peek \in {"{", "["}
          /\ LET in == IF peek = "{" THEN "object" ELSE "array"
             IN  /\ Push(in)
                 /\ frames' = Front(frames) \o <<[top EXCEPT !.at = "after"], Frame(in, "first")>>
          /\ Take /\ UNCHANGED error
       \/ peek \notin Scalars \union {"{", "["} /\ Fail("ValueInvalid")

\* ParseObject, up to the colon.
ParseName ==
    \/ /\ At("object", "first") /\ peek = "}"
       /\ EndContainer(0) /\ Return /\ Take /\ UNCHANGED error
    \/ /\ At("object", "first") /\ peek # "}"
       /\ Goto("name") /\ Stay /\ UNCHANGED <<stack, error>>
    \/ /\ At("object", "name")
       /\ IF peek # "string" THEN Fail("ObjectMissName")
          ELSE Push("string") /\ Goto("colon") /\ Take /\ UNCHANGED error
    \/ /\ At("object", "colon")
       /\ IF peek # ":" THEN Fail("ObjectMissColon")
          ELSE Goto("value") /\ Take /\ UNCHANGED <<stack, error>>

\* Mutant: after a comma the object may end.
MutantParseMemberEnd ==
    /\ At("object", "after")
    /\ CASE peek = "," -> /\ frames' = Front(frames) \o <<[Counted EXCEPT !.at = "first"]>>
                          /\ Take /\ UNCHANGED <<stack, error>>
         [] peek = "}" -> EndContainer(2 * Counted.count) /\ Return /\ Take /\ UNCHANGED error
         [] OTHER -> Fail("ObjectMissCommaOrCurlyBracket")

\* ParseObject, after the value.
ParseMemberEnd ==
    /\ At("object", "after")
    /\ CASE peek = "," -> /\ frames' = Front(frames) \o <<[Counted EXCEPT !.at = "name"]>>
                          /\ Take /\ UNCHANGED <<stack, error>>
         [] peek = "}" -> EndContainer(2 * Counted.count) /\ Return /\ Take /\ UNCHANGED error
         [] OTHER -> Fail("ObjectMissCommaOrCurlyBracket")

ParseArray ==
    \/ /\ At("array", "first") /\ peek = "]"
       /\ EndContainer(0) /\ Return /\ Take /\ UNCHANGED error
    \/ /\ At("array", "first") /\ peek # "]"
       /\ Goto("value") /\ Stay /\ UNCHANGED <<stack, error>>
    \/ /\ At("array", "after")
       /\ CASE peek = "," -> /\ frames' = Front(frames) \o <<[Counted EXCEPT !.at = "value"]>>
                             /\ Take /\ UNCHANGED <<stack, error>>
            [] peek = "]" -> EndContainer(Counted.count) /\ Return /\ Take /\ UNCHANGED error
            [] OTHER -> Fail("ArrayMissCommaOrSquareBracket")

ReadToken ==
    /\ SkipWhitespace \/ ParseStart \/ ParseRest \/ ParseValue
         \/ ParseName \/ ParseMemberEnd \/ ParseArray
    /\ UNCHANGED <<root, pass>>

-----------------------------------------------------------------------------
(* PrettyWriter.  A level is [inArray, valueCount]; newlines and indents    *)
(* are blanks.                                                             *)

\* Accept: the calls of the handler, in their order.
RECURSIVE Accept(_)
Accept(v) ==
    IF v.kind \in Scalars THEN <<v.kind>>
    ELSE LET around == IF v.kind = "object" THEN <<"{", "}">> ELSE <<"[", "]">>
         IN  <<around[1]>> \o FlattenSeq([i \in DOMAIN v.items |-> Accept(v.items[i])])
               \o <<around[2]>>

\* PrettyPrefix: what stands before a value at this level.
Prefix(level) ==
    LET comma == IF level.valueCount > 0 THEN <<",", "blank">> ELSE <<"blank">>
    IN  IF level.inArray \/ level.valueCount % 2 = 0 THEN comma ELSE <<":", "blank">>

\* One call of the handler.
Handle(w, call) ==
    LET levels == w.levels
        inside == levels # <<>>
        prefix == IF inside THEN Prefix(Last(levels)) ELSE <<>>
        counted == IF ~inside THEN <<>>
                   ELSE Front(levels) \o <<[Last(levels) EXCEPT !.valueCount = @ + 1]>>
        level == [inArray |-> call = "[", valueCount |-> 0]
    IN  IF call \in {"}", "]"}
        THEN [levels |-> Front(levels),
              out |-> w.out \o (IF Last(levels).valueCount = 0 THEN <<>> ELSE <<"blank">>) \o <<call>>]
        ELSE [levels |-> IF call \in {"{", "["} THEN Append(counted, level) ELSE counted,
              out |-> w.out \o prefix \o <<call>>]

Written(v) == FoldLeft(Handle, [levels |-> <<>>, out |-> <<>>], Accept(v)).out

-----------------------------------------------------------------------------
(* The documents.                                                          *)

\* ParseStream: the root is the value on the stack; it is written and parsed again.
Parsed ==
    /\ error = "None" /\ pass # "done"
    /\ root' = Append(root, Last(stack))
    /\ IF pass = "text"
       THEN LET out == Written(Last(stack))
            IN  /\ pass' = "written" /\ peek' = Head(out) /\ rest' = Tail(out)
                /\ frames' = <<Frame("document", "first")>> /\ error' = "running"
       ELSE pass' = "done" /\ UNCHANGED <<peek, rest, frames, error>>
    /\ stack' = <<>>
    /\ UNCHANGED taken

\* jutils throws; ClearStack.
Refused ==
    /\ ~Reading /\ error # "None" /\ pass # "done"
    /\ stack' = <<>> /\ pass' = "done"
    /\ UNCHANGED <<peek, taken, rest, frames, error, root>>

TextNext == ReadToken \/ Parsed \/ Refused
TextSpec == TextInit /\ [][TextNext]_textVars

-----------------------------------------------------------------------------
(* What a JSON text is.                                                    *)

Compact(s) == SelectSeq(s, LAMBDA t : t # "blank")

RECURSIVE TextOf(_)
TextOf(v) ==
    LET items == [i \in DOMAIN v.items |-> TextOf(v.items[i])]
        sep(i) == IF i = Len(items) THEN <<>>
                  ELSE IF v.kind = "object" /\ i % 2 = 1 THEN <<":">> ELSE <<",">>
        inner == FlattenSeq([i \in DOMAIN items |-> items[i] \o sep(i)])
    IN  CASE v.kind = "object" -> <<"{">> \o inner \o <<"}">>
          [] v.kind = "array" -> <<"[">> \o inner \o <<"]">>
          [] OTHER -> <<v.kind>>

\* The texts of at most size tokens: Inner are values, or pairs, between commas.
RECURSIVE TextsUpTo(_), Inner(_, _)
TextsUpTo(size) ==
    IF size < 1 THEN {}
    ELSE {<<s>> : s \in Scalars}
           \union {<<"[">> \o i \o <<"]">> : i \in Inner(FALSE, size - 2)}
           \union {<<"{">> \o i \o <<"}">> : i \in Inner(TRUE, size - 2)}
           \union (IF size < 2 THEN {} ELSE {<<"[", "]">>, <<"{", "}">>})
Inner(pairs, size) ==
    LET name == IF pairs THEN <<"string", ":">> ELSE <<>>
        one == {name \o t : t \in TextsUpTo(size - Len(name))}
    IN  one \union UNION {{f \o <<",">> \o i : i \in Inner(pairs, size - Len(f) - 1)} : f \in one}

Texts == TextsUpTo(MaxText + 2)
Beginnings == UNION {{SubSeq(t, 1, i) : i \in 0..Len(t)} : t \in Texts}

\* What is accepted is a text of its root; what is refused begins no text; what is written
\* reads back as what was written; and one value is left on the stack.
TextIsTrue ==
    /\ error = "None" /\ pass # "done" => Len(stack) = 1
    /\ root # <<>> => Compact(taken) = TextOf(root[1])
    /\ error \notin {"running", "None"} =>
          Compact(taken) \o (IF peek = "end" THEN <<>> ELSE <<peek>>) \notin
              (IF peek = "end" THEN Texts ELSE Beginnings)
    /\ pass = "written" => error \in {"running", "None"}
    /\ pass = "done" /\ Len(root) > 0 => Len(root) = 2 /\ root[2] = root[1]
=============================================================================
