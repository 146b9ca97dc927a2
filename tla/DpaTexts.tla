------------------------------ MODULE DpaTexts ------------------------------
(***************************************************************************)
(* What JsonSerializer and SimpleSerializer make of a DPA request and of   *)
(* its end, or of an asynchronous message: which texts become a request,   *)
(* of which bytes, and what the answer tells, member by member. Numbers    *)
(* stand for themselves, every other content for where it comes from.      *)
(***************************************************************************)
EXTENDS DpaWords, SequencesExt

CONSTANTS
    Inputs,    \* the texts that may come
    MaxBuffer  \* MAX_DPA_BUFFER, and DPA_MAX_DATA_LENGTH

\* A text is [form |-> "json", type, has, cmd, timeout, bytes], with the members it has,
\* the command (its class' first if it has none) and the numbers of its request, rdata or
\* user_data; or [form |-> "words", type, words]; or [form |-> "async", type], a DPA
\* message by its direction.

VARIABLES
    text,
    stage,   \* "come", "refused", "parsed", "answered"
    data,    \* m_request's bytes, of raw-hdp those of PData
    timeout, \* DpaTask's timeout, negative for none
    ended,   \* what came: "nothing", "confirmation", "response", "both"
    answer   \* sequence of members or words: [name, from]
vars == <<text, stage, data, timeout, ended, answer>>

-----------------------------------------------------------------------------
(* Parsing.                                                                *)

Min2(a, b) == IF a < b THEN a ELSE b

Byte(n) == n % 256

\* parseBinary reads no further than the buffer, so nothing beyond is refused.
Readable(bytes) == \A i \in 1..Min2(Len(bytes), MaxBuffer) : bytes[i] # NotHexa
ParseBinary(bytes) == [i \in 1..Min2(Len(bytes), MaxBuffer) |-> Byte(bytes[i])]

\* The members that a type cannot do without, in one of these sets.
RawNeeds == {{"request"}}
HdpNeeds == {{"pnum", "pcmd", "hwpid"}}
FrcNeeds == {{"frc_cmd"}, {"frc_type", "frc_user"}}
IoNeeds(cmd) ==
    {CASE cmd = "GET" -> {"port", "bit"}
       [] cmd = "SET" -> {"port", "bit", "val"}
       [] OTHER -> {"port", "bit", "inp"}}
Needs(t) ==
    CASE t.type = "raw" -> RawNeeds [] t.type = "raw-hdp" -> HdpNeeds
      [] t.type = "FRC" -> FrcNeeds [] t.type = "IO" -> IoNeeds(t.cmd) [] OTHER -> {{}}

JsonParses(t) ==
    /\ \E members \in Needs(t) : members \subseteq t.has
    /\ "cmd" \in t.has => t.cmd # "unknown"
    /\ Readable(t.bytes)

\* Mutant: "timeout" is taken out of the words without its value.
MutantTake(taken, word) ==
    CASE word.kind = "TIMEOUT=n" -> [taken EXCEPT !.timeout = word.value]
      [] word.kind = "timeout" -> taken
      [] OTHER -> [taken EXCEPT !.words = Append(taken.words, word)]

\* parseTokens: the words that say a timeout or a client are taken out; "timeout" is
\* followed by its value, if by anything.
Take(taken, word) ==
    IF taken.awaits
      THEN [taken EXCEPT !.awaits = FALSE, !.ok = word.kind = "number" /\ taken.ok,
                         !.timeout = IF word.kind = "number" THEN word.bytes[1] ELSE @]
      ELSE CASE word.kind = "TIMEOUT=n" -> [taken EXCEPT !.timeout = word.value]
             [] word.kind = "timeout" -> [taken EXCEPT !.awaits = TRUE]
             [] word.kind = "CLID=x" -> [taken EXCEPT !.clid = TRUE]
             [] word.kind \in {"TIMEOUT=", "CLID="} -> [taken EXCEPT !.ok = FALSE]
             [] OTHER -> [taken EXCEPT !.words = Append(taken.words, word)]
ParseTokens(words) ==
    FoldLeft(Take, [ok |-> TRUE, words |-> <<>>, timeout |-> -1, clid |-> FALSE, awaits |-> FALSE], words)

\* PrfRawSimple: the dots of a single word are blanks; of one of several words stoi
\* reads what is before the first dot.
RawNumbers(words) ==
    LET FirstNumber(w) == IF w.kind = "number" THEN w.bytes[1] ELSE NotHexa
    IN  IF Len(words) = 1 /\ words[1].kind = "number" THEN words[1].bytes
        ELSE [i \in 1..Len(words) |-> FirstNumber(words[i])]

\* parseRequestSimple wants an address and a command.
SimpleParses(t) ==
    LET taken == ParseTokens(t.words) IN
    /\ taken.ok
    /\ IF t.type = "raw" THEN Readable(RawNumbers(taken.words))
       ELSE Len(taken.words) > 1 /\ taken.words[1].kind = "number" /\ taken.words[2].kind = "command"

-----------------------------------------------------------------------------
(* The answer.                                                             *)

Responded(end) == end \in {"response", "both"}
Confirmed(end) == end \in {"confirmation", "both"}

\* What a member says. Without a response the members that name the node are emptied.
Source(name, end) ==
    CASE name \in {"nadr", "cmd", "hwpid"} -> IF Responded(end) THEN "echo" ELSE "empty"
      [] name \in {"rcode", "dpaval", "rdata", "response", "response_ts", "pnum", "pcmd"} ->
            IF Responded(end) THEN "response" ELSE "empty"
      [] name \in {"confirmation", "confirmation_ts"} -> IF Confirmed(end) THEN "confirmation" ELSE "empty"
      [] name \in {"request", "request_ts"} -> "request"
      [] name \in {"temperature", "frc_data", "input", "led_state"} -> "memory"
      [] OTHER -> "echo"

\* The members that are there if the request had them, in the order of the answer.
Prio1 == <<"ctype", "type", "msgid", "timeout", "nadr">>
Prio2 == <<"cmd", "hwpid">>
Final == <<"rcode", "dpaval", "rdata", "request", "request_ts", "confirmation",
           "confirmation_ts", "response", "response_ts">>

\* The flags m_has_...; no type but raw-hdp sets that of rdata.
Has(t) ==
    (t.has \intersect (ToSet(Prio1 \o Prio2 \o Final) \ {"rdata"})) \union
    CASE t.type = "raw" -> {"response"}
      [] t.type = "raw-hdp" -> {"hwpid", "rcode", "rdata", "dpaval"}
      [] OTHER -> {}

\* What a peripheral adds in the middle; a LED its state, if the task knows it.
LedValues(known) == IF known THEN <<"led_state">> ELSE <<>>
FrcValues(t) ==
    (IF "frc_cmd" \in t.has THEN <<"frc_cmd">> ELSE <<"frc_type", "frc_user">>) \o <<"frc_data">>
IoValues(cmd) ==
    <<"port", "bit", CASE cmd = "GET" -> "input" [] cmd = "SET" -> "val" [] OTHER -> "inp">>
Values(t, known) ==
    CASE t.type = "LedR" -> LedValues(known) [] t.type = "Thermometer" -> <<"temperature">>
      [] t.type = "FRC" -> FrcValues(t) [] t.type = "IO" -> IoValues(t.cmd) [] OTHER -> <<>>

\* raw-hdp adds the header of the response earlier.
HdpValues(t) == IF t.type = "raw-hdp" THEN <<"pnum", "pcmd">> ELSE <<>>

\* encodeResponse and its three parts.
JsonMembers(t, known) ==
    LET Given(names) == SelectSeq(names, LAMBDA name : name \in Has(t)) IN
    Given(Prio1) \o HdpValues(t)
      \o Given(Prio2) \o Values(t, known) \o Given(Final) \o <<"status">>

\* encodeAsyncAsDpaRaw: a message of neither direction has an empty response.
AsyncMembers(direction) ==
    <<"ctype", "type">>
      \o (CASE direction = "request" -> <<"request", "request_ts">>
            [] direction = "response" -> <<"response", "response_ts">>
            [] OTHER -> <<"response">>)
      \o <<"status">>

\* encodeResponse and encodeTokens of the words' serializer.
SimpleMembers(t) ==
    (CASE t.type = "raw" -> <<"type", "response">>
       [] t.type = "Thermometer" -> <<"type", "address", "command", "temperature">>
       [] OTHER -> <<"type", "address", "command", "led_state">>)
      \o (IF timeout >= 0 THEN <<"timeout">> ELSE <<>>)
      \o (IF ParseTokens(t.words).clid THEN <<"clid">> ELSE <<>>) \o <<"status">>

-----------------------------------------------------------------------------
Init ==
    /\ text \in Inputs /\ stage = "come"
    /\ data = <<>> /\ timeout = -1 /\ ended = "nothing" /\ answer = <<>>

\* A negative timeout is not set from JSON.
ParseJson ==
    /\ stage = "come" /\ text.form = "json"
    /\ stage' = IF JsonParses(text) THEN "parsed" ELSE "refused"
    /\ data' = IF JsonParses(text) THEN ParseBinary(text.bytes) ELSE <<>>
    /\ timeout' = IF "timeout" \in text.has /\ text.timeout >= 0 THEN text.timeout ELSE -1
    /\ UNCHANGED <<text, ended, answer>>

ParseWords ==
    /\ stage = "come" /\ text.form = "words"
    /\ LET taken == ParseTokens(text.words) IN
       /\ stage' = IF SimpleParses(text) THEN "parsed" ELSE "refused"
       /\ data' = IF SimpleParses(text) /\ text.type = "raw" THEN ParseBinary(RawNumbers(taken.words))
                  ELSE <<>>
       /\ timeout' = taken.timeout
    /\ UNCHANGED <<text, ended, answer>>

\* The transaction ends and its task is encoded.
Encode ==
    /\ stage = "parsed" /\ stage' = "answered"
    /\ ended' \in {"nothing", "confirmation", "response", "both"}
    /\ \E known \in BOOLEAN :
          answer' = LET names == IF text.form = "json" THEN JsonMembers(text, known) ELSE SimpleMembers(text)
                    IN  [i \in 1..Len(names) |-> [name |-> names[i], from |-> Source(names[i], ended')]]
    /\ UNCHANGED <<text, data, timeout>>

\* An asynchronous message is encoded by the first serializer; the words' says nothing.
EncodeAsync ==
    /\ stage = "come" /\ text.form = "async" /\ stage' = "answered"
    /\ ended' = IF text.type = "response" THEN "response" ELSE "nothing"
    /\ answer' = LET names == AsyncMembers(text.type)
                 IN  [i \in 1..Len(names) |-> [name |-> names[i], from |-> Source(names[i], ended')]]
    /\ UNCHANGED <<text, data, timeout>>

Next == ParseJson \/ ParseWords \/ Encode \/ EncodeAsync

-----------------------------------------------------------------------------
TypeOK ==
    /\ text \in Inputs /\ stage \in {"come", "refused", "parsed", "answered"}
    /\ Len(data) <= MaxBuffer /\ (\A i \in DOMAIN data : data[i] \in 0..255) /\ timeout \in Int
    /\ ended \in {"nothing", "confirmation", "response", "both"}
    /\ \A i \in DOMAIN answer :
          answer[i].from \in {"echo", "empty", "request", "response", "confirmation", "memory"}

\* The bytes of a raw request are those that were written, up to the buffer, each as the
\* byte that it is modulo 256, whatever words of a timeout or a client stand between
\* them. Only a word with dots among other words gives no more than its first byte.
RequestAsWritten ==
    stage = "parsed" /\ text.type = "raw" =>
        LET own == IF text.form = "json" THEN {}
                   ELSE {i \in DOMAIN text.words : text.words[i].kind = "number"
                            /\ (i = 1 \/ text.words[i - 1].kind # "timeout")}
            written == IF text.form = "json" THEN text.bytes
                       ELSE FlattenSeq([i \in DOMAIN text.words |->
                                           IF i \in own THEN text.words[i].bytes ELSE <<>>])
            dotted == Cardinality(own) > 1 /\ \E i \in own : Len(text.words[i].bytes) > 1
        IN  dotted \/ data = [i \in 1..Min2(Len(written), MaxBuffer) |-> written[i] % 256]

\* An answer in JSON has every member once: those the request had, what the type always
\* tells, and the status. An asynchronous message tells exactly itself.
AnswerAsAsked ==
    stage = "answered" =>
        LET names == [i \in DOMAIN answer |-> answer[i].name]
            common == {"ctype", "type", "msgid", "timeout", "nadr", "cmd", "hwpid", "rcode", "dpaval",
                       "request", "request_ts", "confirmation", "confirmation_ts", "response", "response_ts"}
        IN  /\ IsInjective(names) /\ Last(names) = "status"
            /\ text.form = "json" => text.has \intersect common \subseteq ToSet(names)
            /\ text.form = "json" /\ text.type = "raw" => "response" \in ToSet(names)
            /\ text.form = "json" /\ text.type = "raw-hdp" =>
                  {"pnum", "pcmd", "hwpid", "rdata", "rcode", "dpaval"} \subseteq ToSet(names)
            /\ text.form = "async" /\ text.type \in {"request", "response"} =>
                  {i \in DOMAIN answer : answer[i].from \notin {"echo", "empty"}}
                     = {i \in DOMAIN answer : names[i] \in {text.type, text.type \o "_ts"}}

\* Where no response came, no member tells of one: they are empty. What the peripherals
\* decode from the response's memory is told all the same.
SilenceIsEmpty ==
    stage = "answered" /\ ended \in {"nothing", "confirmation"} =>
        \A i \in DOMAIN answer :
            /\ answer[i].from # "response"
            /\ answer[i].from = "memory" => answer[i].name \in {"temperature", "frc_data", "input", "led_state"}
            /\ answer[i].name \in {"nadr", "hwpid", "cmd"} => answer[i].from = "empty"

\* An answer has what was asked for, once, and tells nothing that did not happen.
AnswerIsTrue == TypeOK /\ AnswerAsAsked /\ SilenceIsEmpty

\* The texts of both serializers, on both ways.
TextsAreTrue == RequestAsWritten /\ AnswerIsTrue
=============================================================================
