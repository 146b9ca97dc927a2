----------------------------- MODULE UdpPackets -----------------------------
(***************************************************************************)
(* The packets between the IDE and the daemon, byte by byte. A packet on   *)
(* the way may lose its end, get more bytes, or have one bit changed. What *)
(* the daemon reads behind the end of a packet may be anything.            *)
(***************************************************************************)
EXTENDS Integers, SequencesExt, Bitwise

CONSTANTS
    PacIds,       \* values of pacid to begin with, in 0..65535
    Messages,     \* data for the TR module, sequences of bytes
    Now,          \* [sec, min, hour, wday, mday, mon, year] of localtime
    Ident,        \* the text of getGwIdent, a sequence of bytes
    MaxCommands   \* bound on the commands of the IDE

VARIABLES
    pacid,        \* the IDE's packet number
    sentPacket,   \* what the IDE sent,
    arrived,      \* what came of it,
    phase,        \* and whether the daemon took it: "idle", "onWay", "accepted", "refused"
    toTr,         \* the messages for the TR module
    udpResponse,  \* what was pushed to m_toUdpMessageQueue
    commands

packetVars == <<pacid, sentPacket, arrived, phase, toTr, udpResponse, commands>>

-----------------------------------------------------------------------------
High(word) == word \div 256
Low(word) == word % 256
Zeros(n) == [i \in 1..n |-> 0]

-----------------------------------------------------------------------------
(* crc.h.                                                                  *)

P_CCITT == 4129

\* InitTabCRC_CCITT: eight rounds on <<crc, c>>.
Shl(word, n) == (word * 2^n) % 65536
Round(crc, c) ==
    <<IF (crc ^^ c) >= 32768 THEN Shl(crc, 1) ^^ P_CCITT ELSE Shl(crc, 1), Shl(c, 1)>>
crc_tabccitt ==
    [byte \in 0..255 |->
        LET rounds[n \in 0..8] == IF n = 0 THEN <<0, Shl(byte, 8)>>
                                  ELSE Round(rounds[n - 1][1], rounds[n - 1][2])
        IN  rounds[8][1]]

UpdateCRC_CCITT(crc, byte) == Shl(crc, 8) ^^ crc_tabccitt[High(crc) ^^ byte]
GetCRC_CCITT(buf, len) == FoldLeft(UpdateCRC_CCITT, 0, SubSeq(buf, 1, len))

-----------------------------------------------------------------------------
(* UdpMessage.h; positions from 1.                                         *)

BufferSize == 1024
GwAdr == 32
HeaderSize == 9
CrcSize == 2
cGetGwInfo == 1
cGetGwStatus == 2
cWriteIqrf == 3
cIqrfSpiData == 4
sAck == 80
sNak == 96
pGwAddr == 1
pCmd == 2
pSubcmd == 3
pPacidH == 6
pPacidL == 7
pDlenH == 8
pDlenL == 9

\* resize()
Resized(packet, n) == SubSeq(packet \o Zeros(n), 1, n)

\* encodeMessageUdp(udpMessage, message)
EncodeMessageUdp(packet, msg) ==
    LET header == [Resized(packet, HeaderSize) EXCEPT
                      ![pGwAddr] = GwAdr, ![pDlenH] = High(Len(msg)),
                      ![pDlenL] = Low(Len(msg))]
        crc == GetCRC_CCITT(header \o msg, HeaderSize + Len(msg))
    IN  header \o msg \o <<High(crc), Low(crc)>>

\* decodeMessageUdp: the declared length is compared with the buffer's size, not the packet's.
HasHeader(packet) == Len(packet) >= HeaderSize + CrcSize /\ packet[pGwAddr] = GwAdr
Dlen(packet) == packet[pDlenH] * 256 + packet[pDlenL]
FitsBuffer(packet) == Dlen(packet) + HeaderSize + CrcSize <= BufferSize
ReadsBehind(packet) == Dlen(packet) + HeaderSize + CrcSize > Len(packet)
HasItsCrc(packet) ==
    LET crc == GetCRC_CCITT(packet, Dlen(packet) + HeaderSize)
    IN  /\ packet[HeaderSize + Dlen(packet) + 1] = High(crc)
        /\ packet[HeaderSize + Dlen(packet) + 2] = Low(crc)
MayDecode(packet) ==
    /\ HasHeader(packet) /\ FitsBuffer(packet)
    /\ IF ReadsBehind(packet) THEN TRUE ELSE HasItsCrc(packet)
MayRefuse(packet) ==
    IF HasHeader(packet) /\ FitsBuffer(packet)
      THEN IF ReadsBehind(packet) THEN TRUE ELSE ~HasItsCrc(packet)
      ELSE TRUE
Decoded(packet) == SubSeq(packet, HeaderSize + 1, Min({HeaderSize + Dlen(packet), Len(packet)}))

\* getGwStatus
GwStatus == <<128, 0, 1, Now.sec, Now.min, Now.hour, Now.wday,
              Now.mday, Now.mon, Now.year % 100, 0, 0>>

-----------------------------------------------------------------------------
PacketInit ==
    /\ pacid \in PacIds /\ sentPacket = <<>> /\ arrived = <<>> /\ phase = "idle"
    /\ toTr = <<>> /\ udpResponse = <<>> /\ commands = 0

\* The IDE's encodeMessageUdp, and what main() of iqrf_ide_dummy sends.
IdeEncodes(code, msg) ==
    EncodeMessageUdp(<<0, code, 0, 0, 0, High(pacid'), Low(pacid')>>, msg)
IdeSends(code, msg) ==
    /\ phase # "onWay" /\ commands < MaxCommands
    /\ pacid' = (pacid + 1) % 65536 /\ commands' = commands + 1
    /\ sentPacket' = IdeEncodes(code, msg) /\ arrived' = sentPacket' /\ phase' = "onWay"
    /\ toTr' = <<>> /\ udpResponse' = <<>>

\* On the way.
Damage(packet) ==
    /\ phase = "onWay" /\ arrived = sentPacket
    /\ arrived' = packet
    /\ UNCHANGED <<pacid, sentPacket, phase, toTr, udpResponse, commands>>
ChangeBit(at, bit) == Damage([arrived EXCEPT ![at] = @ ^^ (2^bit)])
LoseEnd(n) == Damage(SubSeq(arrived, 1, n))
GetMore(byte) == Damage(Append(arrived, byte))

\* handleMessageFromUdp: the packet is refused,
Refuse ==
    /\ phase = "onWay" /\ MayRefuse(arrived)
    /\ phase' = "refused"
    /\ UNCHANGED <<pacid, sentPacket, arrived, toTr, udpResponse, commands>>

\* or it is answered with its own header, and a write goes to the TR module in the service mode.
Answered(packet) == [packet EXCEPT ![pCmd] = @ | 128]
AnswerOf(packet) ==
    CASE packet[pCmd] = cGetGwInfo -> EncodeMessageUdp(Answered(packet), Ident)
      [] packet[pCmd] = cGetGwStatus -> EncodeMessageUdp(Answered(packet), GwStatus)
      [] packet[pCmd] = cWriteIqrf -> EncodeMessageUdp([Answered(packet) EXCEPT ![pSubcmd] = sAck], <<>>)
      [] OTHER -> EncodeMessageUdp([Answered(packet) EXCEPT ![pSubcmd] = sNak], <<>>)
Accept ==
    /\ phase = "onWay" /\ MayDecode(arrived)
    /\ phase' = "accepted"
    /\ udpResponse' = AnswerOf(arrived)
    /\ toTr' = IF arrived[pCmd] = cWriteIqrf THEN <<Decoded(arrived)>> ELSE <<>>
    /\ UNCHANGED <<pacid, sentPacket, arrived, commands>>

\* sendDpaMessageToUdp: what the TR module says.
SendDpaMessageToUdp(msg) ==
    /\ phase \in {"accepted", "refused"}
    /\ udpResponse' = EncodeMessageUdp(<<0, cIqrfSpiData>>, msg)
    /\ UNCHANGED <<pacid, sentPacket, arrived, phase, toTr, commands>>

PacketNext ==
    \/ \E msg \in Messages : IdeSends(cWriteIqrf, msg) \/ SendDpaMessageToUdp(msg)
    \/ \E code \in {cGetGwInfo, cGetGwStatus, 5} : IdeSends(code, <<>>)
    \/ \E at \in 1..Len(arrived), bit \in 0..7 : ChangeBit(at, bit)
    \/ \E n \in 0..(Len(arrived) - 1) : LoseEnd(n)
    \/ \E byte \in {0, 255} : GetMore(byte)
    \/ Refuse
    \/ Accept

PacketSpec == PacketInit /\ [][PacketNext]_packetVars

-----------------------------------------------------------------------------
\* What the IDE sent is taken, with its message, whatever follows it, and what was changed or
\* cut is refused, unless its length field makes the daemon read behind the end of the packet:
\* one flipped bit never writes something else to the TR module, nor is answered as if nothing
\* had happened.
DamageIsSeen ==
    /\ phase = "refused" => ~IsPrefix(sentPacket, arrived)
    /\ phase = "accepted" =>
         \/ /\ IsPrefix(sentPacket, arrived)
            /\ sentPacket[pCmd] = cWriteIqrf => toTr = <<Decoded(sentPacket)>>
         \/ ReadsBehind(arrived)
\* What the daemon sends would pass its own decodeMessageUdp, is an answer (bit 7 of cmd) to
\* the packet whose number it carries, or the data of the TR module under the number 0.
AnswersFit ==
    udpResponse # <<>> =>
        /\ MayDecode(udpResponse) /\ ~ReadsBehind(udpResponse)
        /\ IF udpResponse[pCmd] = cIqrfSpiData
             THEN Decoded(udpResponse) \in Messages
             ELSE /\ udpResponse[pCmd] = (arrived[pCmd] | 128)
                  /\ \A at \in {pPacidH, pPacidL} : udpResponse[at] = arrived[at]
PacketsAreTrue == DamageIsSeen /\ AnswersFit
=============================================================================
