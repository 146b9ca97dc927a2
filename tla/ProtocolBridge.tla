--------------------------- MODULE ProtocolBridge ---------------------------
(***************************************************************************)
(* src/applications/protocol_bridge: in each round the service asks all    *)
(* bridges for their status with an FRC, confirms to each bridge the       *)
(* meters it has begun or ceased to see, reads a packet of every meter     *)
(* that has new data, publishes it, and puts the bridges to sleep.         *)
(*                                                                         *)
(* A bridge reports meters as a bitmap of 38 bytes. A confirmation holds   *)
(* 10 bytes and the number of the group of 80 meters that they stand for.  *)
(* The service keeps the index of a meter in a uint8_t. A round runs on    *)
(* the Scheduler's worker; a result of a transaction other than a report   *)
(* of meters is not tested by the code, so these have no failed outcome.   *)
(***************************************************************************)
EXTENDS MeterRequests

CONSTANTS
    Configured,  \* addresses in m_watchedProtocolBridges
    Unknown,     \* other addresses whose bridges may answer the FRC
    Reports,     \* what a bridge may report: sets of positions in the bitmap
    PacketLens   \* first byte of the answer with a packet, or of memory

Addresses == Configured \union Unknown
BitmapLen == 38  \* VISIBLE_METERS_BITMAP_LEN and its like
Group == 10 * 8  \* CONFIRMATION_BITMAP_LEN
MaxFrame == 45   \* VMBUS_MAX_FRAME_LEN

ASSUME ProtocolBridgeAssumption ==
    /\ Addresses \subseteq 1..255 /\ Configured \intersect Unknown = {}
    /\ Reports \subseteq SUBSET (0..(BitmapLen * 8 - 1)) /\ {} \in Reports
    /\ PacketLens \subseteq 0..255

VARIABLES
    pc,        \* where the round is
    active,    \* activeBridgesStatusMap: the flags of each bridge that is on
    todo,      \* addresses that the running loop over the map has not reached
    bridge,    \* the bridge that is served
    kind,      \* "visible" or "invisible": which confirmation is written
    list,      \* the bits whose indexes the running loop over the list has not reached
    group, bits, \* mapIndex and confirmationBitmap
    reported,  \* history: the bitmap that list was made of
    confirmed, \* history: meters that the sent confirmations stand for
    asked,     \* history: meters of list whose packet was asked for and published
    slept      \* history: bridges that were sent to sleep in this round

meterVars == <<kind, list, group, bits, reported, confirmed, asked>>
bridgeVars == <<pc, active, todo, bridge, meterVars, slept>>

Flags == SUBSET {"visible", "invisible", "data"}

BridgeInit ==
    /\ pc = "idle" /\ active = <<>> /\ todo = {} /\ bridge = 0
    /\ kind = "visible" /\ list = {} /\ group = 0 /\ bits = {}
    /\ reported = {} /\ confirmed = {} /\ asked = {} /\ slept = {}

-----------------------------------------------------------------------------
(* One round.                                                              *)

First(set) == CHOOSE a \in set : \A b \in set : a <= b

\* The task was fired and the FRC has ended. Its result is not tested: what is
\* in the response, whoever wrote it, are the bridges that are on.
FrcFinished ==
    /\ pc = "idle"
    /\ \E on \in SUBSET Addresses : active' \in [on -> Flags] /\ todo' = on
    /\ pc' = "serve" /\ slept' = {}
    /\ UNCHANGED <<bridge, meterVars>>

ServeNext ==
    /\ pc = "serve" /\ todo # {}
    /\ bridge' = First(todo) /\ todo' = todo \ {First(todo)}
    /\ pc' = "visible"
    /\ list' = {} /\ group' = 0 /\ bits' = {}
    /\ reported' = {} /\ confirmed' = {} /\ asked' = {}
    /\ UNCHANGED <<active, kind, slept>>

\* The list holds the indexes of the bits that are set in a bitmap, in their order, each in a
\* uint8_t. Here it is the set of those that are left; its head is that of the first of them.
HeadOf(positions) == Byte(First(positions))
Rest(positions) == positions \ {First(positions)}

\* m_watchedProtocolBridges.at throws for an address that is not configured.
\* Neither the Scheduler nor its TaskQueue catches that: the daemon ends.
Terminate(address) == address \notin Configured /\ pc' = "terminated"

\* A report that fails leaves an empty list.
Ask(next) ==
    /\ bridge \in Configured
    /\ reported' \in Reports /\ list' = reported'
    /\ group' = 0 /\ bits' = {} /\ confirmed' = {} /\ asked' = {}
    /\ pc' = next

GetNewVisible ==
    /\ pc = "visible" /\ "visible" \in active[bridge]
    /\ \/ Ask("confirm") /\ kind' = "visible"
       \/ Terminate(bridge) /\ UNCHANGED meterVars
    /\ UNCHANGED <<active, todo, bridge, slept>>

GetNewInvisible ==
    /\ pc = "invisible" /\ "invisible" \in active[bridge]
    /\ \/ Ask("confirm") /\ kind' = "invisible"
       \/ Terminate(bridge) /\ UNCHANGED meterVars
    /\ UNCHANGED <<active, todo, bridge, slept>>

GetNewData ==
    /\ pc = "data" /\ "data" \in active[bridge]
    /\ \/ Ask("packet") /\ UNCHANGED kind
       \/ Terminate(bridge) /\ UNCHANGED meterVars
    /\ UNCHANGED <<active, todo, bridge, slept>>

\* The flag of a report is not set.
SkipReport ==
    /\ pc \in {"visible", "invisible", "data"} /\ pc \notin active[bridge]
    /\ \/ pc = "visible" /\ pc' = "invisible"
       \/ pc = "invisible" /\ pc' = "data"
       \/ pc = "data" /\ pc' = "serve"
    /\ UNCHANGED <<active, todo, bridge, meterVars, slept>>

\* The meters that a confirmation stands for.
Confirmation(g, set) == {g * Group + i : i \in set}

\* Mutant: the confirmation of a full group is not sent.
MutantConfirmLastOnly ==
    LET m == HeadOf(list)
        full == m > group * Group + Group - 1
        g == IF full THEN group + 1 ELSE group
    IN  /\ pc = "confirm" /\ list # {} /\ list' = Rest(list) /\ group' = g
        /\ bits' = (IF full THEN {} ELSE bits) \union {m - g * Group}
        /\ pc' = IF m - g * Group \in 0..(Group - 1) THEN pc ELSE "smashed"
        /\ UNCHANGED <<active, todo, bridge, kind, reported, confirmed, asked, slept>>

\* One round of the loop of confirmVisibleMeters or confirmInvisibleMeters: the
\* group is advanced by one at most, and the bit may be outside of the bitmap.
ConfirmMeter ==
    LET m == HeadOf(list)
        full == m > group * Group + Group - 1
        g == IF full THEN group + 1 ELSE group
    IN  /\ pc = "confirm" /\ list # {}
        /\ list' = Rest(list) /\ group' = g
        /\ confirmed' = IF full THEN confirmed \union Confirmation(group, bits) ELSE confirmed
        /\ bits' = (IF full THEN {} ELSE bits) \union {m - g * Group}
        /\ pc' = IF m - g * Group \in 0..(Group - 1) THEN pc ELSE "smashed"
        /\ UNCHANGED <<active, todo, bridge, kind, reported, asked, slept>>

\* The confirmation of the last group is sent.
ConfirmLast ==
    /\ pc = "confirm" /\ list = {}
    /\ confirmed' = confirmed \union Confirmation(group, bits)
    /\ pc' = IF kind = "visible" THEN "timeout" ELSE "data"
    /\ UNCHANGED <<active, todo, bridge, kind, list, group, bits, reported, asked, slept>>

\* After that of the visible meters the timeout of the bridge's module is set.
TimeoutWMBProtocolBridge ==
    /\ pc = "timeout" /\ pc' = "invisible"
    /\ UNCHANGED <<active, todo, bridge, meterVars, slept>>

\* A packet is read and published. Its length is computed in a uint8_t and may
\* exceed the array the packet is copied to. After a failed transaction what was
\* in memory takes the place of length and packet.
GetPacket ==
    /\ pc = "packet" /\ list # {}
    /\ list' = Rest(list)
    /\ asked' = asked \union {MeterOf(Request("GET_FULL_PACKET", HeadOf(list)))}
    /\ \E len \in PacketLens : pc' = IF Byte(len - 7) <= MaxFrame THEN pc ELSE "overrun"
    /\ UNCHANGED <<active, todo, bridge, kind, group, bits, reported, confirmed, slept>>

AllRead ==
    /\ pc = "packet" /\ list = {}
    /\ pc' = "serve"
    /\ UNCHANGED <<active, todo, bridge, meterVars, slept>>

\* The second loop over the map begins.
Served ==
    /\ pc = "serve" /\ todo = {}
    /\ pc' = "sleep" /\ todo' = DOMAIN active
    /\ UNCHANGED <<active, bridge, meterVars, slept>>

SleepProtocolBridge ==
    /\ pc = "sleep" /\ todo # {}
    /\ \/ First(todo) \in Configured /\ slept' = slept \union {First(todo)}
          /\ todo' = todo \ {First(todo)} /\ UNCHANGED pc
       \/ Terminate(First(todo)) /\ UNCHANGED <<slept, todo>>
    /\ UNCHANGED <<active, bridge, meterVars>>

RoundEnds ==
    /\ pc = "sleep" /\ todo = {}
    /\ pc' = "idle"
    /\ UNCHANGED <<active, todo, bridge, meterVars, slept>>

BridgeNext ==
    \/ FrcFinished \/ ServeNext \/ SkipReport
    \/ GetNewVisible \/ GetNewInvisible \/ ConfirmMeter \/ ConfirmLast \/ TimeoutWMBProtocolBridge
    \/ GetNewData \/ GetPacket \/ AllRead
    \/ Served \/ SleepProtocolBridge \/ RoundEnds

BridgeSpec == BridgeInit /\ [][BridgeNext]_bridgeVars

-----------------------------------------------------------------------------
BridgeTypeOK ==
    /\ pc \in {"idle", "serve", "visible", "invisible", "confirm", "timeout", "data", "packet", "sleep",
              "terminated", "smashed", "overrun"}
    /\ DOMAIN active \subseteq Addresses /\ active \in [DOMAIN active -> Flags]
    /\ todo \subseteq Addresses /\ bridge \in Addresses \union {0}
    /\ kind \in {"visible", "invisible"}
    /\ list \subseteq reported /\ group \in 0..3
    /\ reported \in Reports /\ confirmed \subseteq 0..303 /\ asked \subseteq 0..255
    /\ bits \subseteq -240..255
    /\ slept \subseteq Addresses

\* A report that the service can confirm: the indexes fit in a uint8_t, and no
\* group before the last is empty.
Groups(set) == {m \div Group : m \in set}
Confirmable(set) ==
    /\ \A m \in set : m < 256
    /\ \A g \in Groups(set) : 0..g \subseteq Groups(set)

\* When the confirmations of a report are sent they stand for all the meters
\* that the bridge reported and for no other, in however many groups.
ConfirmedAreReported ==
    pc \in {"timeout", "data"} /\ list = {} /\ Confirmable(reported) => confirmed = reported

\* The service writes outside of confirmationBitmap only for a report with an
\* empty group before another, or with a meter whose index a uint8_t cannot hold.
SmashesOnlyOnGaps == pc = "smashed" => ~Confirmable(reported)

\* When a list of meters with new data has been served, a packet was asked for
\* of each meter that the bridge reported, and of no other, if their indexes fit
\* in a uint8_t: list, index and request name the same meters.
AskedAreReported ==
    pc = "packet" /\ list = {} /\ (\A m \in reported : m < 256) => asked = reported

\* A round that ends has sent every bridge that is on to sleep, whatever failed,
\* so that none of them waits awake for the next round.
AllSleepAtEnd == pc = "idle" => slept = DOMAIN active

\* All of this at once, through a whole round: what is confirmed, read and sent to
\* sleep is what was reported, in however many groups and whatever fails.
ReportsAreServed ==
    BridgeTypeOK /\ ConfirmedAreReported /\ SmashesOnlyOnGaps /\ AskedAreReported /\ AllSleepAtEnd
=============================================================================
