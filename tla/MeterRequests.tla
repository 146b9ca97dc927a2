---------------------------- MODULE MeterRequests ----------------------------
(***************************************************************************)
(* The requests of the peripherals of ProtocolBridge.cpp and               *)
(* PrfPulseMeter.cpp: the peripheral's command and the bytes of PData.     *)
(***************************************************************************)
EXTENDS Integers, Sequences

Byte(n) == n % 256
High(value) == Byte(value \div 256)

\* The peripheral's command and the first byte of PData.
Command == [
    GET_NEW_VISIBLE |-> <<1, 1>>, GET_NEW_INVISIBLE |-> <<1, 2>>, GET_ALL_VISIBLE |-> <<1, 6>>,
    GET_NEW_DATA_INFO |-> <<1, 3>>, GET_COMPACT_PACKET |-> <<1, 4>>, GET_FULL_PACKET |-> <<1, 5>>,
    SET_SLEEP_INTERVAL |-> <<2, 1>>, SET_WM_TIMEOUT |-> <<2, 2>>,
    SET_WM_ALL_READED_TIMEOUT |-> <<2, 3>>, SET_NODE_TIMEOUT |-> <<2, 4>>,
    SET_ANY_PACKET_MODE |-> <<2, 5>>,
    SLEEP_NOW |-> <<4, 1>>, DELETE_ID |-> <<4, 2>>, DELETE_ALL |-> <<4, 3>>]

Checksum(p) == Byte(255 + (p[1] - 1) + (p[2] - 1) + (p[3] - 1))

\* The settings and the commands that delete or sleep carry a checksum.
Request(cmd, value) ==
    LET p == <<Command[cmd][2], High(value), Byte(value)>>
    IN  <<Command[cmd][1], IF Command[cmd][1] \in {2, 4} THEN Append(p, Checksum(p)) ELSE p>>

\* What the bridge takes for the meter's index.
MeterOf(request) == request[2][2] * 256 + request[2][3]

\* The group of a confirmation, and the ten bytes of its map.
ConfirmationRequest(cmd, group, map) ==
    <<3, <<IF cmd = "GET_VISIBLE_CONFIRMATION" THEN 1 ELSE 2, group>> \o map>>

\* The time to sleep in units of 2.097 s, the low byte first.
ReadCountersRequest(seconds) ==
    LET tm == ((seconds * 1000) \div 2097) % 65536 IN <<0, <<Byte(tm), High(tm)>>>>

\* The value with its high byte first. The checksum adds the first byte four times.
StoreCounterRequest(counter, value) ==
    LET bytes == <<value \div 16777216, Byte(value \div 65536), High(value), Byte(value)>>
    IN  <<1, <<counter>> \o bytes \o <<Byte(255 - 4 * (bytes[1] + 1))>>>>

DisableAutosleepRequest(enable) == <<2, <<IF enable THEN 0 ELSE 1>>>>
=============================================================================
