--------------------------- MODULE PacketHeaders ---------------------------
(***************************************************************************)
(* From a packet of a meter the service publishes a header, which it finds *)
(* by the two bytes of the M-field, and the message. What is published is  *)
(* given by its places in vmbusMsg; the bytes at the places from the       *)
(* length of the message on are what was in the structure before.          *)
(***************************************************************************)
EXTENDS Integers, Sequences

CONSTANT VmbusMessages \* sequences of "2D", "2C" and other bytes

ASSUME PacketHeadersAssumption == VmbusMessages \subseteq Seq({"2D", "2C", "other"})

VARIABLES
    vmbusMsg,     \* the bytes up to msgLen
    place,        \* i of the loop
    firstBytePos, \* the last "2D", or -1
    mFieldPos,
    header,       \* places of manufacturer and address
    sent,         \* places of all that is published
    step

headerVars == <<vmbusMsg, place, firstBytePos, mFieldPos, header, sent, step>>

ManufacturerLen == 2
AddressLen == 6

Places(from, len) == from..(from + len - 1)

HeaderInit ==
    /\ vmbusMsg \in VmbusMessages
    /\ place = 0 /\ firstBytePos = -1 /\ mFieldPos = -1
    /\ header = [manufacturer |-> {}, address |-> {}] /\ sent = {} /\ step = "find"

\* The byte behind a "2D"; -1 does not stand for one before the first byte.
IsMField(byte) == byte = "2C" /\ firstBytePos = place - 1 /\ place # 0

GetMFieldPosition ==
    /\ step = "find" /\ place < Len(vmbusMsg)
    /\ LET byte == vmbusMsg[place + 1] IN
         IF IsMField(byte)
         THEN mFieldPos' = firstBytePos /\ step' = "parse" /\ UNCHANGED <<place, firstBytePos>>
         ELSE /\ firstBytePos' = IF byte = "2D" THEN place ELSE firstBytePos
              /\ place' = place + 1 /\ UNCHANGED <<mFieldPos, step>>
    /\ UNCHANGED <<vmbusMsg, header, sent>>

\* That there is none is logged: the header is copied all the same.
NoMField ==
    /\ step = "find" /\ place = Len(vmbusMsg) /\ step' = "parse"
    /\ UNCHANGED <<vmbusMsg, place, firstBytePos, mFieldPos, header, sent>>

ParseFullPacketResponse ==
    /\ step = "parse" /\ step' = "send"
    /\ header' = [manufacturer |-> Places(mFieldPos, ManufacturerLen),
                  address |-> Places(mFieldPos + 2, AddressLen)]
    /\ UNCHANGED <<vmbusMsg, place, firstBytePos, mFieldPos, sent>>

SendDataIntoAzure ==
    /\ step = "send" /\ step' = "sent"
    /\ sent' = header.manufacturer \union header.address \union Places(0, Len(vmbusMsg))
    /\ UNCHANGED <<vmbusMsg, place, firstBytePos, mFieldPos, header>>

HeaderNext == GetMFieldPosition \/ NoMField \/ ParseFullPacketResponse \/ SendDataIntoAzure

HeaderSpec == HeaderInit /\ [][HeaderNext]_headerVars

-----------------------------------------------------------------------------
MFields ==
    {p \in 0..(Len(vmbusMsg) - 2) : vmbusMsg[p + 1] = "2D" /\ vmbusMsg[p + 2] = "2C"}

\* What is published as the header is what the first M-field begins, with as many "2D" as
\* there may be before it, and nothing but the message is published unless the M-field is
\* missing or the message ends in the header.
HeaderIsFound ==
    step = "sent" =>
        /\ MFields # {} =>
             /\ \A p \in MFields : mFieldPos <= p
             /\ mFieldPos \in MFields
             /\ header.manufacturer = {mFieldPos, mFieldPos + 1}
        /\ MFields = {} => mFieldPos = -1
        /\ (\E p \in sent : p \notin Places(0, Len(vmbusMsg))) <=>
             MFields = {} \/ mFieldPos + ManufacturerLen + AddressLen > Len(vmbusMsg)
=============================================================================
