----------------------------- MODULE MCTaskQueue -----------------------------
(* What every part stands on: TaskQueue with two clients, of which one can    *)
(* notify while the other is in the middle of a call, and two tasks, so that  *)
(* an overtaking would show; or a JSON document on its way from its text to   *)
(* memory and back; or a part that reads its configuration.                   *)
EXTENDS TaskQueue, JsonText, JsonLimits, JsonMemory, Configuration

CONSTANTS
    MaxNumber, Writable, OneF

VARIABLES
    subject,
    at,
    n, width, significandDigit, expFrac, exp, minus, expMinus, result,
    number, p1, p2, delta, kappa, digits, exponent, stage, put,
    scanned, count, codepoint, codes, bytes, stored, first

Numbers == INSTANCE JsonNumbers
Writer == INSTANCE JsonWriter
Strings == INSTANCE JsonStrings

\* Of the bytes each that is special, a letter that is an escape, one that is none, a byte of UTF-8; of
\* the escapes the ends of what the encoding and the pairs tell apart.
SomeBytes == {0, 1, 10, 34, 47, 65, 92, 110, 117, 195}
SomeHexas == {-1, 0, 10, 31, 127, 128, 2047, 2048, 55295, 55296, 56319, 56320, 57343, 57344, 65535}

\* Limbs at the ends of every branch, and doubles of three digits before the point.
Limbs == {0, 5, 10, 907, 9999, 10000, 70080, 123456, 1000000, 9999999, 10000000, 99999999}
SomeNumbers ==
    [is : {"int"}, neg : BOOLEAN, limbs : {0, 7, 21} \X Limbs]
      \union [is : {"uint"}, limbs : {0, 7, 42} \X Limbs]
      \union [is : {"int64"}, neg : BOOLEAN, limbs : {0, 7, 42, 907} \X Limbs \X Limbs]
      \union [is : {"uint64"}, limbs : {0, 7, 42, 907, 1844} \X Limbs \X Limbs]
      \union [is : {"zero"}, neg : BOOLEAN] \union [is : {"infinite"}, neg : {FALSE}]
      \union [is : {"prettify"}, neg : BOOLEAN, k : -323..308, digits : {<<7>>, <<1, 0, 5, 7>>}]
      \union [is : {"prettify"}, neg : BOOLEAN, k : -323..291,
              digits : {<<1, 7, 9, 7, 6, 9, 3, 1, 3, 4, 8, 6, 2, 3, 1, 5, 7>>}]
      \union {d \in [is : {"grisu"}, neg : {FALSE},
                     mp : {64 * whole + fraction : whole \in {1, 9, 95, 100, 999}, fraction \in 0..63},
                     delta : {2, 3, 9, 20}, toNumber : 1..10] : d.toNumber < d.delta}

AllParts ==
    {"MqttMessaging", "UdpMessaging", "MqMessaging", "BaseService", "PulseMeters", "ProtocolBridges",
     "Thermometers", "messaging", "service", "DaemonController", "IqrfInterface", "TracerFile", "iqrfapp"}

\* A configuration file with everything as it should be, or with one member another way; what
\* need not be there is, or is not.
AnInt(i) == Value("int", i)
Absent == Value("absent", "nothing")
Single(read) ==
    CASE read.type = "int" -> AnInt(5)
      [] read.type = "bool" -> Value("bool", TRUE)
      [] read.type = "object" -> Value("object", "members")
      [] OTHER -> Value("string", IF read.member = "Configuration" THEN "v1.0" ELSE "inf")
Proper(read) ==
    CASE read.how = "vector" ->
            Value("array", IF read.type = "int" THEN <<AnInt(2), AnInt(1), AnInt(2)>> ELSE <<Value("string", "json")>>)
      [] read.how = "components" -> Value("array", <<Value("component", TRUE), Value("component", FALSE)>>)
      [] OTHER -> Single(read)
Others ==
    {Absent, Value("null", "null"), AnInt(5), AnInt(0), AnInt(-1), Value("number", "large"), Value("bool", TRUE),
     Value("bool", FALSE), Value("string", "other"), Value("object", "members"), Value("array", <<>>),
     Value("array", <<AnInt(3), Value("string", "json")>>),
     Value("array", <<Value("component", TRUE), Value("object", "members"), Value("component", FALSE)>>)}
Full(p) == [m \in MembersOf(p) |-> Proper(ReadsOf(p)[CHOOSE i \in DOMAIN ReadsOf(p) : ReadsOf(p)[i].member = m])]
Least(p) ==
    [m \in MembersOf(p) |->
       IF \E i \in DOMAIN ReadsOf(p) : ReadsOf(p)[i].member = m /\ ReadsOf(p)[i].how = "possible"
       THEN Absent ELSE Full(p)[m]]
SomeFiles ==
    [p \in AllParts |-> {[written EXCEPT ![m] = other] :
                           written \in {Full(p), Least(p)}, m \in MembersOf(p), other \in Others}]

-----------------------------------------------------------------------------
\* The variables of each subject that are its own, and those that some of them share.
ofText == <<frames, stack, root, pass>>
ofNumber == <<n, width, significandDigit, expFrac, exp, minus, expMinus, result>>
ofWriter == <<number, p1, p2, delta, kappa, digits, exponent, stage, put>>
ofString == <<scanned, count, codepoint, codes, bytes, stored, first>>
ofSettings == <<part, file, settings, step, list, nodes, ended>>
shared == <<peek, taken, rest, at, error>>
standingVars == <<vars, subject, shared, ofText, ofNumber, ofWriter, ofString, memoryVars, ofSettings>>

NoText == frames = <<>> /\ stack = <<>> /\ root = <<>> /\ pass = "done"
NoNumber ==
    /\ n = 0 /\ width = "i" /\ significandDigit = 0 /\ expFrac = 0 /\ exp = 0
    /\ minus = FALSE /\ expMinus = FALSE /\ result = [is |-> "nothing"]
NoWriter ==
    /\ number = [is |-> "nothing"] /\ p1 = 0 /\ p2 = 0 /\ delta = 0 /\ kappa = 0
    /\ digits = <<>> /\ exponent = 0 /\ stage = "nothing" /\ put = <<>>
NoString == scanned = 0 /\ count = 0 /\ codepoint = 0 /\ codes = <<>> /\ bytes = <<>> /\ stored = <<>> /\ first = <<>>
NoMemory ==
    /\ of = "nothing" /\ chunks = <<>> /\ object = <<>> /\ array = <<>> /\ members = <<>>
    /\ elements = <<>> /\ buffer = <<>> /\ text = <<>> /\ calls = 0
NoSettings ==
    part = "none" /\ file = <<>> /\ settings = <<>> /\ step = 0 /\ list = <<>> /\ nodes = <<>> /\ ended = "nothing"

StandingInit ==
    /\ Init
    /\ \/ subject = "text" /\ TextInit /\ at = "nowhere" /\ NoNumber /\ NoWriter /\ NoString /\ NoMemory /\ NoSettings
       \/ subject = "number" /\ Numbers!Init /\ rest = <<>> /\ error = "None"
            /\ NoText /\ NoWriter /\ NoString /\ NoMemory /\ NoSettings
       \/ subject = "string" /\ Strings!StringInit /\ taken = <<>>
            /\ NoText /\ NoNumber /\ NoWriter /\ NoMemory /\ NoSettings
       \/ /\ peek = 0 /\ taken = <<>> /\ rest = <<>> /\ at = "nowhere" /\ error = "None"
          /\ NoText /\ NoNumber /\ NoString
          /\ \/ subject = "TaskQueue" /\ NoWriter /\ NoMemory /\ NoSettings
             \/ subject = "writer" /\ Writer!WriterInit /\ NoMemory /\ NoSettings
             \/ subject = "memory" /\ MemoryInit /\ NoWriter /\ NoSettings
             \/ subject = "configuration" /\ NoWriter /\ NoMemory /\ ConfigurationInit

Queue(A) ==
    subject = "TaskQueue" /\ A
      /\ UNCHANGED <<subject, shared, ofText, ofNumber, ofWriter, ofString, memoryVars, ofSettings>>
StandingNext ==
    \/ Queue(Next)
    \/ /\ UNCHANGED <<subject, vars>>
       /\ \/ /\ subject = "text" /\ TextNext
             /\ UNCHANGED <<at, ofNumber, ofWriter, ofString, memoryVars, ofSettings>>
          \/ /\ subject = "number" /\ Numbers!Next
             /\ UNCHANGED <<rest, error, ofText, ofWriter, ofString, memoryVars, ofSettings>>
          \/ /\ subject = "writer" /\ Writer!WriterNext
             /\ UNCHANGED <<shared, ofText, ofNumber, ofString, memoryVars, ofSettings>>
          \/ /\ subject = "string" /\ Strings!StringNext
             /\ UNCHANGED <<taken, ofText, ofNumber, ofWriter, memoryVars, ofSettings>>
          \/ /\ subject = "memory" /\ MemoryNext
             /\ UNCHANGED <<shared, ofText, ofNumber, ofWriter, ofString, ofSettings>>
          \/ /\ subject = "configuration" /\ ConfigurationNext
             /\ UNCHANGED <<shared, ofText, ofNumber, ofWriter, ofString, memoryVars>>

\* The fairness of the queue; a document needs none, as nothing is asked of its end.
StandingSpec == StandingInit /\ [][StandingNext]_standingVars /\ Fairness

\* A document, its numbers, its strings and its memory are what was written, and the
\* settings that a part keeps are those that its file gives it.
DocumentsAreTrue ==
    CASE subject = "text" -> TextIsTrue
      [] subject = "number" -> Numbers!NumberIsTrue
      [] subject = "writer" -> Writer!WrittenIsTrue
      [] subject = "string" -> Strings!StringIsTrue
      [] subject = "memory" -> MemoryIsTrue
      [] subject = "configuration" -> SettingsAreAsWritten
      [] OTHER -> TRUE
=============================================================================
