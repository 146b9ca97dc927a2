---------------------------- MODULE MeterFrames ----------------------------
(***************************************************************************)
(* One object of class ProtocolBridgeJson or PrfPulseMeterJson over some   *)
(* transactions: a command fills the request, a response is parsed into    *)
(* the structure of the command, and that structure is encoded.            *)
(*                                                                         *)
(* A value taken from a response is modelled by the number of the response *)
(* and the places in PData of the bytes it is made of, the high byte       *)
(* first. Number 0 stands for what is there before any response: the       *)
(* structures of ProtocolBridge are not initialised. Scaling a value is    *)
(* left out.                                                               *)
(***************************************************************************)
EXTENDS MeterRequests, PacketHeaders

CONSTANTS
    MaxRounds,   \* bound of the transactions
    Values,      \* what commands are given: 16 bits, but for a counter
    FrameLens    \* first byte of a response with a packet

ASSUME MeterFramesAssumption ==
    /\ MaxRounds \in Nat /\ FrameLens \subseteq 0..255
    /\ Values \subseteq Nat /\ \A v \in Values : v \div 65536 < 65536

VARIABLES
    prf,      \* class of the object
    cmd,      \* m_cmd
    request,  \* peripheral's command and PData of m_request
    wish,     \* history: what was asked for: a command and its value
    frame,    \* number of the last response
    came,     \* history: the transaction of this round has brought a response
    parsed,   \* of each structure, the response it was parsed from and its length
    shown,    \* history: members of the last encoded answer
    title,    \* history: the command that this answer names
    stage, rounds

frameVars == <<prf, cmd, request, wish, frame, came, parsed, shown, title, stage, rounds>>

Settings == {"SET_SLEEP_INTERVAL", "SET_WM_TIMEOUT", "SET_WM_ALL_READED_TIMEOUT",
             "SET_NODE_TIMEOUT", "SET_ANY_PACKET_MODE"}
Listings == {"GET_NEW_VISIBLE", "GET_NEW_INVISIBLE", "GET_ALL_VISIBLE", "GET_NEW_DATA_INFO"}
Packets == {"GET_COMPACT_PACKET", "GET_FULL_PACKET"}
Confirmations == {"GET_VISIBLE_CONFIRMATION", "GET_INVISIBLE_CONFIRMATION"}
Checked == Settings \union {"SLEEP_NOW", "DELETE_ID", "DELETE_ALL"}

Cmd == [ProtocolBridge |-> {"SYSINFO"} \union Listings \union Packets \union Confirmations \union Checked,
        Pulsemeter |-> {"READ_COUNTERS", "STORE_COUNTER", "DISABLE_AUTO_SLEEP"}]

\* Commands that take no value.
Plain == {"SYSINFO", "DELETE_ALL"} \union Listings

-----------------------------------------------------------------------------
(* The fields of the structures, with the places of PData they are parsed  *)
(* from, and the members that they are encoded as.                         *)

At(a, b) == [i \in 1..(b - a + 1) |-> a + i - 1]
LowFirst(a, b) == [i \in 1..(b - a + 1) |-> b - i + 1]

SysinfoFields == [
    serialNumber |-> At(1, 12), visibleMetersNum |-> At(13, 14), readedMetersNum |-> At(15, 16),
    temperature |-> At(17, 18), powerVoltage |-> At(19, 20), firmwareVersion |-> At(21, 25),
    sleepCount |-> At(26, 27), wmbTimeout |-> At(28, 29), wmbAllReaedTimeout |-> At(30, 31),
    nodeTimeout |-> At(32, 33), anyPacketNode |-> At(34, 34), countToInvisible |-> At(35, 35),
    checksum |-> At(36, 36)]
SysinfoMembers == [
    SerialNumber |-> "serialNumber", VisibleMetersNum |-> "visibleMetersNum",
    ReadedMetersNum |-> "readedMetersNum", Temperature |-> "temperature",
    PowerVoltage |-> "powerVoltage", FirmwareVersion |-> "firmwareVersion",
    SleepCount |-> "sleepCount", WmbTimeout |-> "wmbTimeout",
    wmbAllReaedTimeout |-> "wmbAllReaedTimeout", NodeTimeout |-> "nodeTimeout",
    AnyPacketNode |-> "anyPacketNode", CountToInvisible |-> "countToInvisible",
    Checksum |-> "checksum"]

ReportFields == [metersNum |-> At(2, 3), bitmap |-> At(4, 41)]
ReportMembers == [MetersNum |-> "metersNum", Bitmap |-> "bitmap"]

\* The message is copied from place 3, where the low byte of the index is.
PacketFields(len) ==
    LET n == Byte(len - 7)
    IN  [msgLen |-> At(0, 0), meterIndex |-> At(2, 3), vmbusMsg |-> At(3, 2 + n), rssi |-> At(3 + n, 3 + n),
         crc |-> At(4 + n, 4 + n), afterReceiptWmbusChecksum |-> At(5 + n, 5 + n),
         countedWmbusChecksum |-> At(6 + n, 6 + n)]
PacketMembers == [
    MeterIndex |-> "meterIndex", VmbusMsg |-> "vmbusMsg", MsgLen |-> "msgLen", Rssi |-> "rssi", Crc |-> "crc",
    AfterReceiptWmbusChecksum |-> "afterReceiptWmbusChecksum", CountedWmbusChecksum |-> "countedWmbusChecksum"]

ConfirmationFields == [confirmedNum |-> At(3, 3), actionResult |-> At(4, 4)]
ConfirmationMembers == [ConfirmedNum |-> "confirmedNum", ActionResult |-> "actionResult"]

\* The commands that change the bridge.
ChangeFields(c) ==
    CASE c = "SLEEP_NOW" -> [requestValue |-> At(3, 4)]
      [] c = "DELETE_ID" -> [meterIndex |-> At(3, 4)]
      [] c = "DELETE_ALL" -> [actionResult |-> At(3, 3)]
      [] c \in {"SET_NODE_TIMEOUT", "SET_ANY_PACKET_MODE"} ->
            [requestValue |-> At(3, 4), actionResult |-> At(5, 5)]
ChangeMembers(c) ==
    CASE c = "SLEEP_NOW" -> [RequestValue |-> "requestValue"]
      [] c = "DELETE_ID" -> [MeterIndex |-> "meterIndex"]
      [] c = "DELETE_ALL" -> [ActionResult |-> "actionResult"]
      [] c \in {"SET_NODE_TIMEOUT", "SET_ANY_PACKET_MODE"} ->
            [RequestValue |-> "requestValue", ActionResult |-> "actionResult"]

\* The two sums stand for whether they are those of the other bytes.
PulseFields(c) ==
    CASE c = "READ_COUNTERS" -> [
            thermometerType |-> At(0, 0), temperature |-> At(1, 2), powerVoltageType |-> At(3, 3),
            powerVoltage |-> At(4, 5), iqrfSuplyVoltage |-> At(6, 6), rssi |-> At(7, 7),
            cntlen |-> At(8, 8), cnts |-> At(9, 9), cnt1 |-> LowFirst(10, 13), cnt2 |-> LowFirst(14, 17),
            cntsum |-> At(18, 18), datasum |-> At(19, 19)]
      [] c = "STORE_COUNTER" -> [storeCounterResult |-> At(0, 0)]
      [] c = "DISABLE_AUTO_SLEEP" -> [disableAutosleepResult |-> At(0, 0)]
PulseMembers(c) ==
    CASE c = "READ_COUNTERS" -> [
            ThermometerType |-> "thermometerType", Temperature |-> "temperature",
            PowerVoltageType |-> "powerVoltageType", PowerVoltage |-> "powerVoltage",
            SupplyVoltage |-> "iqrfSuplyVoltage", Rssi |-> "rssi", CountersNum |-> "cnts",
            Counter1 |-> "cnt1", Counter2 |-> "cnt2", CountersCheckSum |-> "cntsum",
            DataCheckSum |-> "datasum"]
      [] c = "STORE_COUNTER" -> [StoreCounterResult |-> "storeCounterResult"]
      [] c = "DISABLE_AUTO_SLEEP" -> [DisableAutosleepResult |-> "disableAutosleepResult"]

\* The structure of a command, and how parseResponse finds it.
FieldsOf(c, len) ==
    CASE c = "SYSINFO" -> SysinfoFields
      [] c \in Listings -> ReportFields
      [] c \in Packets -> PacketFields(len)
      [] c \in Confirmations -> ConfirmationFields
      [] c \in Cmd.Pulsemeter -> PulseFields(c)
      [] OTHER -> ChangeFields(c)
Members(c) ==
    CASE c = "SYSINFO" -> SysinfoMembers
      [] c \in Listings -> ReportMembers
      [] c \in Packets -> PacketMembers
      [] c \in Confirmations -> ConfirmationMembers
      [] c \in Cmd.Pulsemeter -> PulseMembers(c)
      [] OTHER -> ChangeMembers(c)

\* The other commands run into the default of parseResponse and of encodeResponse.
Lacking == {"SET_SLEEP_INTERVAL", "SET_WM_TIMEOUT", "SET_WM_ALL_READED_TIMEOUT"}

-----------------------------------------------------------------------------
Pcmd(c) ==
    CASE c \in {"SYSINFO", "READ_COUNTERS"} -> 0
      [] c \in Confirmations -> 3
      [] c = "STORE_COUNTER" -> 1
      [] c = "DISABLE_AUTO_SLEEP" -> 2
      [] OTHER -> Command[c][1]

\* The name of a command in texts.
EncodeCommand(c) == IF c = "READ_COUNTERS" THEN "PULSE_READ" ELSE c

\* What a command's method fills in. A value given to a method that takes a bool
\* or a byte is taken for one; ten times its low byte stands for a bitmap.
Filled(c, v) ==
    CASE c = "SYSINFO" -> <<0, <<>>>>
      [] c \in Confirmations -> ConfirmationRequest(c, High(v), [i \in 1..10 |-> Byte(v)])
      [] c = "READ_COUNTERS" -> ReadCountersRequest(v)
      [] c = "STORE_COUNTER" -> StoreCounterRequest(1, v)
      [] c = "DISABLE_AUTO_SLEEP" -> DisableAutosleepRequest(v # 0)
      [] c = "SET_ANY_PACKET_MODE" -> Request(c, IF v # 0 THEN 1 ELSE 0)
      [] c \in Plain \ {"SYSINFO"} -> Request(c, 0)
      [] OTHER -> Request(c, v)

\* One structure for each command, none of them parsed from a response.
Structures(class) == [c \in Cmd[class] |-> <<0, 7>>]

FrameInit ==
    /\ prf \in DOMAIN Cmd
    /\ cmd = IF prf = "ProtocolBridge" THEN "SYSINFO" ELSE "READ_COUNTERS"
    /\ request = <<0, <<>>>> /\ wish = [cmd |-> cmd, value |-> 0]
    /\ frame = 0 /\ came = FALSE
    /\ parsed = Structures(prf)
    /\ shown = {} /\ title = EncodeCommand(cmd) /\ stage = "idle" /\ rounds = 0

\* A command's method. commandSetAnyPacketMode names another command.
Order ==
    /\ stage = "idle" /\ rounds < MaxRounds
    /\ \E c \in Cmd[prf], v \in Values :
          /\ c \in Plain => v = 0
          /\ c # "STORE_COUNTER" => v < 65536
          /\ cmd' = IF c = "SET_ANY_PACKET_MODE" THEN "SET_WM_ALL_READED_TIMEOUT" ELSE c
          /\ request' = Filled(c, v) /\ wish' = [cmd |-> c, value |-> v]
    /\ stage' = "sent" /\ came' = FALSE /\ rounds' = rounds + 1
    /\ UNCHANGED <<prf, frame, parsed, shown, title>>

\* A request in JSON names its command: PData and the length are as they were.
ParseCommand ==
    /\ stage = "idle" /\ rounds < MaxRounds
    /\ \E command \in {EncodeCommand(c) : c \in Cmd[prf]} :
          /\ cmd' = CHOOSE c \in Cmd[prf] : EncodeCommand(c) = command
          /\ request' = <<Pcmd(cmd'), request[2]>> /\ wish' = [cmd |-> cmd', value |-> -1]
    /\ stage' = "sent" /\ came' = FALSE /\ rounds' = rounds + 1
    /\ UNCHANGED <<prf, frame, parsed, shown, title>>

\* Mutant: what was parsed before is kept.
MutantParseResponse ==
    /\ stage = "sent" /\ frame' = frame + 1 /\ came' = TRUE
    /\ \/ /\ cmd \notin Lacking /\ stage' = "answered"
          /\ \E len \in IF cmd \in Packets THEN FrameLens ELSE {7} :
                parsed' = IF parsed[cmd][1] = 0 THEN [parsed EXCEPT ![cmd] = <<frame', len>>] ELSE parsed
       \/ cmd \in Lacking /\ stage' = "refused" /\ UNCHANGED parsed
    /\ UNCHANGED <<prf, cmd, request, wish, shown, title, rounds>>

ParseResponse ==
    /\ stage = "sent" /\ frame' = frame + 1 /\ came' = TRUE
    /\ \/ /\ cmd \notin Lacking /\ stage' = "answered"
          /\ \E len \in IF cmd \in Packets THEN FrameLens ELSE {7} :
                parsed' = [parsed EXCEPT ![cmd] = <<frame', len>>]
       \/ cmd \in Lacking /\ stage' = "refused" /\ UNCHANGED parsed
    /\ UNCHANGED <<prf, cmd, request, wish, shown, title, rounds>>

\* The transaction fails: the structures are as they were.
NoResponse ==
    /\ stage = "sent" /\ stage' = "answered"
    /\ UNCHANGED <<prf, cmd, request, wish, frame, came, parsed, shown, title, rounds>>

\* The command's structure is shown, whichever response it was parsed from.
EncodeResponse ==
    /\ stage = "answered"
    /\ \/ /\ cmd \notin Lacking /\ stage' = "idle"
          /\ shown' = {[member |-> m, of |-> parsed[cmd][1],
                        bytes |-> FieldsOf(cmd, parsed[cmd][2])[Members(cmd)[m]]] : m \in DOMAIN Members(cmd)}
          /\ title' = EncodeCommand(cmd)
       \/ cmd \in Lacking /\ stage' = "refused" /\ UNCHANGED <<shown, title>>
    /\ UNCHANGED <<prf, cmd, request, wish, frame, came, parsed, rounds>>

FrameNext == Order \/ ParseCommand \/ ParseResponse \/ NoResponse \/ EncodeResponse

FrameSpec == FrameInit /\ [][FrameNext]_frameVars

-----------------------------------------------------------------------------
FrameTypeOK ==
    /\ prf \in DOMAIN Cmd /\ cmd \in Cmd[prf] /\ wish.cmd \in Cmd[prf]
    /\ request[1] \in 0..4 /\ request[2] \in Seq(0..255)
    /\ frame \in 0..MaxRounds /\ came \in BOOLEAN
    /\ \A c \in DOMAIN parsed : parsed[c][1] \in 0..frame
    /\ stage \in {"idle", "sent", "answered", "refused"}

\* What the device reads in a request is the value that the method was given.
ValueArrives ==
    LET p == request[2] IN
    stage = "sent" /\ wish.value # -1 =>
        CASE wish.cmd \in Plain \union {"SET_ANY_PACKET_MODE", "DISABLE_AUTO_SLEEP", "READ_COUNTERS"} -> TRUE
          [] wish.cmd \in Confirmations -> p[2] = High(wish.value) /\ Len(p) = 12
          [] wish.cmd = "STORE_COUNTER" ->
                ((p[2] * 256 + p[3]) * 256 + p[4]) * 256 + p[5] = wish.value
          [] OTHER -> MeterOf(request) = wish.value

\* The checksum of a command that deletes or sets something tells it from every
\* request that differs from it in one byte.
DamageIsSeen ==
    LET p == request[2] IN
    stage = "sent" /\ wish.cmd \in Checked /\ wish.value # -1 =>
        \A i \in 1..3, b \in 0..255 : b # p[i] => Checksum([p EXCEPT ![i] = b]) # p[4]

Taken(m) == {m.bytes[i] : i \in DOMAIN m.bytes}
LeftOut(used) == {b \in 1..255 : b \notin used /\ (\E a \in used : 0 < a /\ a < b) /\ (\E c \in used : b < c)}

\* An answer names the command that was asked for. With a response every member
\* is of that response. The members share no byte, but for the packets, and leave
\* none out between the first and the last but the length of the counters.
ShownIsRead ==
    /\ stage = "idle" => title = EncodeCommand(wish.cmd)
    /\ stage = "idle" /\ came =>
        /\ \A m \in shown : m.of = frame
        /\ cmd \notin Packets => \A l, m \in shown : l # m => Taken(l) \intersect Taken(m) = {}
        /\ LeftOut(UNION {Taken(m) : m \in shown}) = IF cmd = "READ_COUNTERS" THEN {8} ELSE {}

\* A command is refused, after a response or without, only when its answer is
\* one of the three that nobody parses. commandSetAnyPacketMode is one of them.
RefusedForAReason ==
    stage = "refused" => wish.cmd \in Lacking \union {"SET_ANY_PACKET_MODE"}

\* All of this at once: the request says what was asked for, the answer what the device has
\* answered, and what is published of a packet begins where its header does.
FramesAreTrue ==
    FrameTypeOK /\ ValueArrives /\ DamageIsSeen /\ ShownIsRead /\ RefusedForAReason /\ HeaderIsFound
=============================================================================
