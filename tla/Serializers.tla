---------------------------- MODULE Serializers ----------------------------
(***************************************************************************)
(* What the serializers of a BaseService make of a message, and which of   *)
(* them gets it. A message is known by its form, a JSON object or words,   *)
(* by the category it names ("none" if it names none), and by whether the  *)
(* rest of it is complete and of known types.                              *)
(***************************************************************************)
EXTENDS SequencesExt

Lists == {<<"JsonSerializer">>, <<"SimpleSerializer">>, <<"JsonSerializer", "SimpleSerializer">>,
          <<"SimpleSerializer", "JsonSerializer">>}

\* "conf <word>" is complete even without the word, which then is "unknown".
Texts ==
    [form : {"json"}, category : {"dpa", "conf", "other", "none"}, good : BOOLEAN]
        \union [form : {"words"}, category : {"raw", "json", "conf"}, good : BOOLEAN]

\* JsonSerializer: the ctype of an object.
JsonCategory(text) == IF text.form = "json" THEN text.category ELSE "none"

\* SimpleSerializer: whatever is not conf is dpa.
SimpleCategory(text) == IF text.form = "words" /\ text.category = "conf" THEN "conf" ELSE "dpa"

ParseCategory(serializer, text) ==
    IF serializer = "JsonSerializer" THEN JsonCategory(text) ELSE SimpleCategory(text)

\* parseRequest or parseConfig make something of it: a type that is registered, a mode.
JsonParses(text) == text.form = "json" /\ text.good

\* No peripheral is called "json" or by what a JSON object begins with.
SimpleParses(text) ==
    /\ text.form = "words"
    /\ text.category = "conf" \/ (text.category = "raw" /\ text.good)

Parses(serializer, text) ==
    IF serializer = "JsonSerializer" THEN JsonParses(text) ELSE SimpleParses(text)

\* The loop of handleMsgFromMessaging: the first to name a category has the last word.
Chosen(list, text) ==
    SelectInSeq(list, LAMBDA serializer : ParseCategory(serializer, text) \in {"dpa", "conf"})

Accepts(list, text) == LET i == Chosen(list, text) IN i > 0 /\ Parses(list[i], text)
=============================================================================
