---------------------------- MODULE BridgesProofs ----------------------------
(***************************************************************************)
(* The protocol bridges of ProtocolBridge.tla, for any bridges and any     *)
(* reports of meters, and what their requests and responses say: the       *)
(* frames of MeterFrames.tla, for any values, lengths of packets and       *)
(* number of transactions, and the headers of PacketHeaders.tla, for any   *)
(* message of a meter.                                                     *)
(***************************************************************************)
EXTENDS ProtocolBridge, MeterFrames, SequenceTheorems, WellFoundedInduction, TLAPS

-----------------------------------------------------------------------------
(* The protocol bridges.                                                   *)

\* What the loops over the map of the bridges have done.
RoundInv ==
    /\ todo \subseteq DOMAIN active /\ slept \subseteq DOMAIN active
    /\ pc = "idle" => slept = DOMAIN active
    /\ pc = "sleep" => slept = DOMAIN active \ todo
    /\ pc \notin {"idle", "sleep", "terminated"} => slept = {}

\* The confirmations of the meters that the loop over the list has passed: those sent and the
\* one that is filled stand for them and for no other, and the one that is filled is of the
\* last group with such a meter.
Passed == reported \ list
ConfirmInv ==
    /\ pc = "confirm" => bits \subseteq 0..(Group - 1) /\ Confirmation(group, bits) \subseteq 0..255
    /\ pc = "confirm" /\ Confirmable(reported) =>
         /\ confirmed \union Confirmation(group, bits) = Passed
         /\ \A m \in Passed : m < (group + 1) * Group
         /\ group = 0 \/ \E m \in Passed : m >= group * Group
         /\ \A m \in Passed : \A k \in list : m < k
    /\ pc \in {"visible", "invisible", "timeout", "data"} =>
         list = {} /\ (Confirmable(reported) => confirmed = reported)

\* The packets of the meters that were passed were asked for.
PacketInv == pc = "packet" /\ (\A m \in reported : m < 256) => asked = Passed

BridgeInv == BridgeTypeOK /\ RoundInv /\ ConfirmInv /\ PacketInv /\ SmashesOnlyOnGaps

-----------------------------------------------------------------------------
(* Lists, groups and requests.                                             *)

\* A set of natural numbers has a least one.
LEMMA SomeLeast ==
    ASSUME NEW set \in SUBSET Nat, set # {}
    PROVE  \E a \in set : \A b \in set : a <= b
<1>0. IsWellFoundedOn(OpToRel(<, Nat), Nat)
  BY NatLessThanWellFounded
<1>1. set \subseteq Nat /\ set # {}
  OBVIOUS
<1>2. \E a \in set : \A b \in set : ~(<<b, a>> \in OpToRel(<, Nat))
  <2> DEFINE R == OpToRel(<, Nat)
  <2>1. IsWellFoundedOn(R, Nat) BY <1>0
  <2> HIDE DEF R
  <2>2. \E a \in set : \A b \in set : ~(<<b, a>> \in R) BY <2>1, <1>1, WFMin, Zenon
  <2> QED BY <2>2 DEF R
<1>3. \A a, b \in set : ~(<<b, a>> \in OpToRel(<, Nat)) => a <= b
  BY DEF OpToRel
<1> QED BY <1>2, <1>3, Zenon

\* The loops take the first of what is left.
LEMMA FirstIsLeast ==
    ASSUME NEW set \in SUBSET Nat, set # {}
    PROVE  First(set) \in set /\ \A b \in set : First(set) <= b
BY SomeLeast, Zenon DEF First

\* A uint8_t keeps an index that fits in it.
LEMMA ByteKeeps == \A n \in Nat : Byte(n) \in 0..255 /\ (n < 256 => Byte(n) = n)
BY DEF Byte

\* No group before that of a meter is empty.
LEMMA NoGap ==
    ASSUME NEW set \in SUBSET Nat, Confirmable(set), NEW m \in set, NEW g \in Nat, g * Group <= m
    PROVE  \E k \in set : g * Group <= k /\ k < (g + 1) * Group
<1>1. \A n \in Nat, q \in Nat : n \div Group = q <=> q * Group <= n /\ n < (q + 1) * Group
  BY DEF Group
<1>2. m \div Group \in Nat /\ g <= m \div Group
  BY DEF Group
<1>3. m \div Group \in Groups(set)
  BY DEF Groups
<1>4. g \in Groups(set)
  BY <1>2, <1>3 DEF Confirmable
<1>5. PICK k \in set : g = k \div Group
  BY <1>4 DEF Groups
<1> QED BY <1>1, <1>5

\* A bit more in a confirmation stands for a meter more.
LEMMA OneMoreBit ==
    \A g \in Nat, m \in Nat : \A set :
      Confirmation(g, set \union {m - g * Group}) = Confirmation(g, set) \union {m}
<1> SUFFICES ASSUME NEW g \in Nat, NEW m \in Nat, NEW set
             PROVE  Confirmation(g, set \union {m - g * Group}) = Confirmation(g, set) \union {m}
  OBVIOUS
<1> DEFINE b == m - g * Group
<1>1. g * Group + b = m
  BY DEF Group
<1> HIDE DEF b
<1>2. Confirmation(g, set \union {b}) = Confirmation(g, set) \union {m}
  BY <1>1, Zenon DEF Confirmation
<1> QED BY <1>2 DEF b

LEMMA OneBit ==
    \A g \in Nat, m \in Nat :
      Confirmation(g, {} \union {m - g * Group}) = {m} /\ Confirmation(g, {}) = {}
<1> SUFFICES ASSUME NEW g \in Nat, NEW m \in Nat
             PROVE  Confirmation(g, {} \union {m - g * Group}) = {m} /\ Confirmation(g, {}) = {}
  OBVIOUS
<1>1. Confirmation(g, {}) = {}
  BY Zenon DEF Confirmation
<1>2. Confirmation(g, {} \union {m - g * Group}) = Confirmation(g, {}) \union {m}
  BY OneMoreBit, Zenon
<1>3. {} \union {m} = {m}
  OBVIOUS
<1> QED BY <1>1, <1>2, <1>3, Zenon

\* The bridge takes for the meter the one whose index is in the request.
LEMMA MeterIsAsked == \A n \in 0..255 : MeterOf(Request("GET_FULL_PACKET", n)) = n
<1> SUFFICES ASSUME NEW n \in 0..255 PROVE MeterOf(Request("GET_FULL_PACKET", n)) = n
  OBVIOUS
<1>1. Command["GET_FULL_PACKET"] = <<1, 5>>
  BY DEF Command
<1>2. Request("GET_FULL_PACKET", n) = <<1, <<5, High(n), Byte(n)>>>>
  BY <1>1 DEF Request
<1>3. High(n) = 0 /\ Byte(n) = n
  BY DEF High, Byte
<1> QED BY <1>2, <1>3 DEF MeterOf

\* Bridges and meters are numbered from 0.
LEMMA Numbered ==
    /\ Addresses \subseteq Nat
    /\ \A report \in Reports : report \subseteq 0..303
    /\ {} \in Reports
BY ProtocolBridgeAssumption DEF BitmapLen

\* The loops over the map serve a bridge that is on, and then the others.
LEMMA NextBridge == BridgeTypeOK /\ todo # {} => First(todo) \in todo
<1> SUFFICES ASSUME BridgeTypeOK, todo # {} PROVE First(todo) \in todo
  OBVIOUS
<1>1. todo \in SUBSET Nat
  BY Numbered DEF BridgeTypeOK
<1> QED BY <1>1, FirstIsLeast

\* The loops over a list take the first meter that is left: all those that were passed are
\* before it and it is before the others. An index that fits in a uint8_t is kept.
LEMMA NextMeter ==
    ASSUME BridgeTypeOK, list # {}
    PROVE  /\ First(list) \in list /\ First(list) \in Nat
           /\ \A k \in list : First(list) <= k /\ k \in Nat
           /\ HeadOf(list) \in 0..255 /\ (First(list) < 256 => HeadOf(list) = First(list))
<1>1. list \in SUBSET Nat
  BY Numbered DEF BridgeTypeOK
<1>2. First(list) \in list /\ \A k \in list : First(list) <= k
  BY <1>1, FirstIsLeast
<1> QED BY <1>1, <1>2, ByteKeeps DEF HeadOf

LEMMA MoreConfirmed ==
    ASSUME NEW some, NEW more, some \subseteq 0..303, more \subseteq 0..255
    PROVE  some \union more \subseteq 0..303
<1> SUFFICES ASSUME NEW k \in some \union more PROVE k \in 0..303
  OBVIOUS
<1>1. CASE k \in some
  BY <1>1
<1>2. CASE k \in more
  <2>1. k \in 0..255
    BY <1>2
  <2> QED BY <2>1
<1> QED BY <1>1, <1>2

-----------------------------------------------------------------------------
\* The bits that are set keep to the confirmation and to the group as long as none is set
\* outside of it, and a meter more is in the confirmation that is sent or in the next.
LEMMA ConfirmMeterTyped ==
    ASSUME BridgeTypeOK, ConfirmInv, ConfirmMeter
    PROVE  /\ group' \in 0..3 /\ bits' \subseteq -240..255
           /\ confirmed' \subseteq 0..303
           /\ pc' \in {"confirm", "smashed"}
           /\ pc' = "confirm" => bits' \subseteq 0..(Group - 1)
           /\ Confirmation(group', bits') \subseteq 0..255
           /\ confirmed' \union Confirmation(group', bits') =
                confirmed \union Confirmation(group, bits) \union {HeadOf(list)}
<1> DEFINE m == HeadOf(list)
<1>1. m \in 0..255 /\ pc = "confirm" /\ group \in 0..3
  BY NextMeter DEF ConfirmMeter, BridgeTypeOK
<1>2. bits \subseteq 0..(Group - 1) /\ Confirmation(group, bits) \subseteq 0..255
  BY <1>1 DEF ConfirmInv
<1>3. confirmed \subseteq 0..303 /\ Group = 80
  BY DEF BridgeTypeOK, Group
<1>6. group \in Nat /\ m \in Nat
  BY <1>1
<1> HIDE DEF m
<1>4. CASE m > group * Group + Group - 1
  <2>1. /\ group' = group + 1 /\ bits' = {} \union {m - (group + 1) * Group}
        /\ confirmed' = confirmed \union Confirmation(group, bits)
        /\ pc' = IF m - (group + 1) * Group \in 0..(Group - 1) THEN pc ELSE "smashed"
    BY <1>4 DEF ConfirmMeter, m
  <2>2. group + 1 \in 0..3 /\ group + 1 \in Nat /\ m \in Nat
    BY <1>1, <1>3, <1>4
  <2>3. Confirmation(group', bits') = {m}
    <3>1. Confirmation(group + 1, {} \union {m - (group + 1) * Group}) = {m}
      BY <1>6, <2>2, OneBit
    <3> QED BY <2>1, <3>1
  <2>4. m - (group + 1) * Group \in -240..255
    BY <1>1, <1>3, <2>2
  <2>5. bits' = {m - (group + 1) * Group}
    BY <2>1
  <2>6. pc' \in {"confirm", "smashed"} /\ (pc' = "confirm" => bits' \subseteq 0..(Group - 1))
    BY <1>1, <2>1, <2>5
  <2>7. confirmed' \subseteq 0..303
    <3> DEFINE more == Confirmation(group, bits)
    <3>1. more \subseteq 0..255 /\ confirmed \subseteq 0..303 /\ confirmed' = confirmed \union more
      BY <1>2, <1>3, <2>1
    <3> HIDE DEF more
    <3> QED BY <3>1, MoreConfirmed
  <2>8. Confirmation(group', bits') \subseteq 0..255
    BY <1>1, <2>3
  <2>9. confirmed' \union Confirmation(group', bits') =
          confirmed \union Confirmation(group, bits) \union {m}
    BY <2>1, <2>3, Zenon
  <2>10. group' \in 0..3 /\ bits' \subseteq -240..255
    BY <2>1, <2>2, <2>4, <2>5
  <2> QED BY <2>6, <2>7, <2>8, <2>9, <2>10, Zenon DEF m
<1>5. CASE ~(m > group * Group + Group - 1)
  <2>1. /\ group' = group /\ bits' = bits \union {m - group * Group}
        /\ confirmed' = confirmed
        /\ pc' = IF m - group * Group \in 0..(Group - 1) THEN pc ELSE "smashed"
    BY <1>5 DEF ConfirmMeter, m
  <2>2. Confirmation(group', bits') = Confirmation(group, bits) \union {m}
    <3>1. Confirmation(group, bits \union {m - group * Group}) = Confirmation(group, bits) \union {m}
      BY <1>6, OneMoreBit, Zenon
    <3> QED BY <2>1, <3>1
  <2>3. m - group * Group \in -240..255
    BY <1>1, <1>3
  <2>4. bits' \subseteq -240..255
    <3>1. bits \subseteq -240..255
      BY DEF BridgeTypeOK
    <3> QED BY <2>1, <2>3, <3>1
  <2>5. pc' \in {"confirm", "smashed"} /\ (pc' = "confirm" => bits' \subseteq 0..(Group - 1))
    BY <1>1, <1>2, <2>1
  <2>6. Confirmation(group', bits') \subseteq 0..255
    BY <1>1, <1>2, <2>2
  <2>7. confirmed' \union Confirmation(group', bits') =
          confirmed \union Confirmation(group, bits) \union {m}
    BY <2>1, <2>2, Zenon
  <2> QED BY <1>1, <1>3, <2>1, <2>4, <2>5, <2>6, <2>7 DEF m
<1> QED BY <1>4, <1>5 DEF m

\* A list without gaps is confirmed as it was reported: the group is advanced by one at most,
\* and that is far enough.
LEMMA ConfirmMeterInOrder ==
    ASSUME BridgeTypeOK, ConfirmInv, ConfirmMeter, Confirmable(reported)
    PROVE  /\ pc' = "confirm"
           /\ confirmed' \union Confirmation(group', bits') = Passed'
           /\ \A m \in Passed' : m < (group' + 1) * Group
           /\ group' = 0 \/ \E m \in Passed' : m >= group' * Group
           /\ \A m \in Passed' : \A k \in list' : m < k
<1> DEFINE p == First(list)
<1>1. /\ pc = "confirm" /\ list # {} /\ list' = list \ {p} /\ reported' = reported
      /\ group \in 0..3
  BY DEF ConfirmMeter, BridgeTypeOK, Rest
<1>2. p \in list /\ p \in Nat /\ \A k \in list : p <= k /\ k \in Nat
  BY <1>1, NextMeter
<1>3. reported \in SUBSET Nat /\ list \subseteq reported
  BY Numbered DEF BridgeTypeOK
<1>4. p < 256
  BY <1>2, <1>3 DEF Confirmable
<1>5. HeadOf(list) = p
  BY <1>1, <1>4, NextMeter
<1>6. Passed' = Passed \union {p}
  BY <1>1, <1>2, <1>3 DEF Passed
<1>7. /\ confirmed \union Confirmation(group, bits) = Passed
      /\ \A m \in Passed : m < (group + 1) * Group
      /\ group = 0 \/ \E m \in Passed : m >= group * Group
      /\ \A m \in Passed : \A k \in list : m < k
  BY <1>1 DEF ConfirmInv
<1>8. confirmed' \union Confirmation(group', bits') = Passed'
  BY <1>5, <1>6, <1>7, ConfirmMeterTyped
<1>9. \A m \in Passed' : \A k \in list' : m < k
  <2>1. \A k \in list' : k \in list /\ k # p
    BY <1>1
  <2> QED BY <1>2, <1>6, <1>7, <2>1
<1>g. Group = 80 /\ Passed \in SUBSET Nat
  BY <1>3 DEF Group, Passed
<1>10. CASE p > group * Group + Group - 1
  <2>1. PICK k \in reported : (group + 1) * Group <= k /\ k < (group + 1 + 1) * Group
    <3>1. group + 1 \in Nat /\ (group + 1) * Group <= p /\ p \in reported
      BY <1>1, <1>2, <1>3, <1>g, <1>10
    <3> QED BY <1>3, <3>1, NoGap
  <2>2. p < (group + 2) * Group
    <3> SUFFICES ASSUME ~(p < (group + 2) * Group) PROVE FALSE
      OBVIOUS
    <3>1. k < p /\ k \in Nat
      BY <1>1, <1>2, <1>3, <1>g, <2>1
    <3>2. k \in Passed
      BY <1>2, <3>1 DEF Passed
    <3> QED BY <1>1, <1>7, <1>g, <2>1, <3>1, <3>2
  <2>3. /\ group' = group + 1
        /\ pc' = IF p - (group + 1) * Group \in 0..(Group - 1) THEN pc ELSE "smashed"
    BY <1>5, <1>10 DEF ConfirmMeter
  <2>4. p - (group + 1) * Group \in 0..(Group - 1) /\ p >= (group + 1) * Group
    BY <1>1, <1>2, <1>g, <1>10, <2>2
  <2>5. \A m \in Passed : m < (group + 2) * Group
    BY <1>1, <1>7, <1>g
  <2> QED BY <1>1, <1>6, <1>8, <1>9, <2>2, <2>3, <2>4, <2>5
<1>11. CASE ~(p > group * Group + Group - 1)
  <2>1. /\ group' = group
        /\ pc' = IF p - group * Group \in 0..(Group - 1) THEN pc ELSE "smashed"
    BY <1>5, <1>11 DEF ConfirmMeter
  <2>2. group * Group <= p
    BY <1>1, <1>2, <1>7, <1>g
  <2>3. p < (group + 1) * Group /\ p - group * Group \in 0..(Group - 1)
    BY <1>1, <1>2, <1>g, <1>11, <2>2
  <2> QED BY <1>1, <1>6, <1>7, <1>8, <1>9, <2>1, <2>3
<1> QED BY <1>10, <1>11

-----------------------------------------------------------------------------
LEMMA BridgeTypeInit == BridgeInit => BridgeTypeOK
<1> SUFFICES ASSUME BridgeInit PROVE BridgeTypeOK
  OBVIOUS
<1>1. DOMAIN <<>> = {} /\ <<>> \in [{} -> Flags]
  OBVIOUS
<1> QED BY <1>1, Numbered DEF BridgeInit, BridgeTypeOK

LEMMA BridgeTypeStep == BridgeTypeOK /\ ConfirmInv /\ [BridgeNext]_bridgeVars => BridgeTypeOK'
<1> SUFFICES ASSUME BridgeTypeOK, ConfirmInv, [BridgeNext]_bridgeVars PROVE BridgeTypeOK'
  OBVIOUS
<1> USE Numbered
<1>1. CASE FrcFinished
  <2>1. PICK on \in SUBSET Addresses : active' \in [on -> Flags] /\ todo' = on
    BY <1>1 DEF FrcFinished
  <2>2. DOMAIN active' = on
    BY <2>1
  <2> QED BY <1>1, <2>1, <2>2 DEF FrcFinished, BridgeTypeOK, meterVars
<1>2. CASE ServeNext
  <2>1. First(todo) \in todo
    BY <1>2, NextBridge DEF ServeNext
  <2> QED BY <1>2, <2>1 DEF ServeNext, BridgeTypeOK
<1>3. CASE SkipReport
  BY <1>3 DEF SkipReport, BridgeTypeOK, meterVars
<1>4. CASE GetNewVisible
  BY <1>4 DEF GetNewVisible, Ask, Terminate, BridgeTypeOK, meterVars
<1>5. CASE GetNewInvisible
  BY <1>5 DEF GetNewInvisible, Ask, Terminate, BridgeTypeOK, meterVars
<1>6. CASE GetNewData
  BY <1>6 DEF GetNewData, Ask, Terminate, BridgeTypeOK, meterVars
<1>7. CASE ConfirmMeter
  <2>1. /\ group' \in 0..3 /\ bits' \subseteq -240..255 /\ confirmed' \subseteq 0..303
        /\ pc' \in {"confirm", "smashed"}
    BY <1>7, ConfirmMeterTyped
  <2> QED BY <1>7, <2>1 DEF ConfirmMeter, Rest, BridgeTypeOK
<1>8. CASE ConfirmLast
  <2>1. confirmed' \subseteq 0..303
    <3> DEFINE more == Confirmation(group, bits)
    <3>1. confirmed' = confirmed \union more
      BY <1>8 DEF ConfirmLast
    <3>2. more \subseteq 0..255 /\ confirmed \subseteq 0..303
      BY <1>8 DEF ConfirmLast, ConfirmInv, BridgeTypeOK
    <3> HIDE DEF more
    <3> QED BY <3>1, <3>2, MoreConfirmed
  <2> QED BY <1>8, <2>1 DEF ConfirmLast, BridgeTypeOK
<1>9. CASE TimeoutWMBProtocolBridge
  BY <1>9 DEF TimeoutWMBProtocolBridge, BridgeTypeOK, meterVars
<1>10. CASE GetPacket
  <2>1. HeadOf(list) \in 0..255
    BY <1>10, NextMeter DEF GetPacket
  <2>2. asked' \subseteq 0..255
    BY <1>10, <2>1, MeterIsAsked DEF GetPacket, BridgeTypeOK
  <2> QED BY <1>10, <2>2 DEF GetPacket, Rest, BridgeTypeOK
<1>11. CASE AllRead
  BY <1>11 DEF AllRead, BridgeTypeOK, meterVars
<1>12. CASE Served
  BY <1>12 DEF Served, BridgeTypeOK, meterVars
<1>13. CASE SleepProtocolBridge
  <2>1. First(todo) \in todo
    BY <1>13, NextBridge DEF SleepProtocolBridge
  <2> QED BY <1>13, <2>1 DEF SleepProtocolBridge, Terminate, BridgeTypeOK, meterVars
<1>14. CASE RoundEnds
  BY <1>14 DEF RoundEnds, BridgeTypeOK, meterVars
<1>15. CASE UNCHANGED bridgeVars
  BY <1>15 DEF bridgeVars, BridgeTypeOK, meterVars
<1> QED BY <1>1, <1>2, <1>3, <1>4, <1>5, <1>6, <1>7, <1>8, <1>9, <1>10, <1>11, <1>12, <1>13, <1>14,
           <1>15 DEF BridgeNext

-----------------------------------------------------------------------------
\* Each bridge that is on is served once and sent to sleep once.
LEMMA RoundStepOfBridges == BridgeTypeOK /\ RoundInv /\ [BridgeNext]_bridgeVars => RoundInv'
<1> SUFFICES ASSUME BridgeTypeOK, RoundInv, [BridgeNext]_bridgeVars PROVE RoundInv'
  OBVIOUS
<1>1. CASE FrcFinished
  <2>1. PICK on \in SUBSET Addresses : active' \in [on -> Flags] /\ todo' = on
    BY <1>1 DEF FrcFinished
  <2>2. DOMAIN active' = on
    BY <2>1
  <2> QED BY <1>1, <2>1, <2>2 DEF FrcFinished, RoundInv
<1>2. CASE ServeNext
  BY <1>2 DEF ServeNext, RoundInv
<1>3. CASE SkipReport \/ GetNewVisible \/ GetNewInvisible \/ GetNewData
  BY <1>3 DEF SkipReport, GetNewVisible, GetNewInvisible, GetNewData, Ask, Terminate, RoundInv
<1>4. CASE ConfirmMeter \/ ConfirmLast \/ TimeoutWMBProtocolBridge \/ GetPacket \/ AllRead
  BY <1>4 DEF ConfirmMeter, ConfirmLast, TimeoutWMBProtocolBridge, GetPacket, AllRead, RoundInv
<1>5. CASE Served
  BY <1>5 DEF Served, RoundInv
<1>6. CASE SleepProtocolBridge
  <2>1. First(todo) \in todo
    BY <1>6, NextBridge DEF SleepProtocolBridge
  <2>2. CASE slept' = slept \union {First(todo)} /\ todo' = todo \ {First(todo)} /\ UNCHANGED pc
    BY <1>6, <2>1, <2>2 DEF SleepProtocolBridge, RoundInv
  <2>3. CASE pc' = "terminated" /\ UNCHANGED <<slept, todo>>
    BY <1>6, <2>3 DEF SleepProtocolBridge, RoundInv
  <2> QED BY <1>6, <2>2, <2>3 DEF SleepProtocolBridge, Terminate
<1>7. CASE RoundEnds
  BY <1>7 DEF RoundEnds, RoundInv
<1>8. CASE UNCHANGED bridgeVars
  BY <1>8 DEF bridgeVars, RoundInv
<1> QED BY <1>1, <1>2, <1>3, <1>4, <1>5, <1>6, <1>7, <1>8 DEF BridgeNext

-----------------------------------------------------------------------------
\* What is confirmed of a list, meter by meter and group by group.
LEMMA ConfirmStep == BridgeTypeOK /\ ConfirmInv /\ [BridgeNext]_bridgeVars => ConfirmInv'
<1> SUFFICES ASSUME BridgeTypeOK, ConfirmInv, [BridgeNext]_bridgeVars PROVE ConfirmInv'
  OBVIOUS
<1>e. \A g : Confirmation(g, {}) = {}
  BY DEF Confirmation
<1>1. CASE FrcFinished
  BY <1>1 DEF FrcFinished, ConfirmInv, meterVars
<1>2. CASE ServeNext
  BY <1>2 DEF ServeNext, ConfirmInv
<1>3. CASE SkipReport
  <2>1. pc \in {"visible", "invisible", "data"} /\ pc' \in {"invisible", "data", "serve"} /\ UNCHANGED meterVars
    BY <1>3 DEF SkipReport
  <2> QED BY <2>1 DEF ConfirmInv, meterVars
<1>4. CASE GetNewVisible \/ GetNewInvisible \/ GetNewData
  <2>1. CASE Ask("confirm")
    <3>1. /\ pc' = "confirm" /\ list' = reported' /\ group' = 0 /\ bits' = {} /\ confirmed' = {}
      BY <2>1 DEF Ask
    <3>2. Passed' = {} /\ Confirmation(group', bits') = {}
      BY <3>1, <1>e DEF Passed
    <3> QED BY <3>1, <3>2 DEF ConfirmInv
  <2>2. CASE Ask("packet")
    BY <2>2 DEF Ask, ConfirmInv
  <2>3. CASE Terminate(bridge)
    BY <2>3 DEF Terminate, ConfirmInv
  <2> QED BY <1>4, <2>1, <2>2, <2>3 DEF GetNewVisible, GetNewInvisible, GetNewData
<1>5. CASE ConfirmMeter
  <2>1. pc' \in {"confirm", "smashed"} /\ reported' = reported
    BY <1>5, ConfirmMeterTyped DEF ConfirmMeter
  <2>2. pc' = "confirm" => bits' \subseteq 0..(Group - 1) /\ Confirmation(group', bits') \subseteq 0..255
    BY <1>5, ConfirmMeterTyped
  <2>3. Confirmable(reported') => Confirmable(reported)
    BY <2>1
  <2> QED BY <1>5, <2>1, <2>2, <2>3, ConfirmMeterInOrder DEF ConfirmInv
<1>6. CASE ConfirmLast
  <2>1. /\ pc = "confirm" /\ list = {} /\ list' = {} /\ reported' = reported
        /\ confirmed' = confirmed \union Confirmation(group, bits) /\ pc' \in {"timeout", "data"}
    BY <1>6 DEF ConfirmLast
  <2>2. Confirmable(reported) => confirmed' = reported
    BY <2>1 DEF ConfirmInv, Passed
  <2> QED BY <2>1, <2>2 DEF ConfirmInv
<1>7. CASE TimeoutWMBProtocolBridge
  BY <1>7 DEF TimeoutWMBProtocolBridge, ConfirmInv, meterVars
<1>8. CASE GetPacket
  BY <1>8 DEF GetPacket, ConfirmInv
<1>9. CASE AllRead \/ Served \/ RoundEnds
  BY <1>9 DEF AllRead, Served, RoundEnds, ConfirmInv
<1>10. CASE SleepProtocolBridge
  BY <1>10 DEF SleepProtocolBridge, Terminate, ConfirmInv
<1>11. CASE UNCHANGED bridgeVars
  BY <1>11 DEF bridgeVars, meterVars, ConfirmInv, Passed
<1> QED BY <1>1, <1>2, <1>3, <1>4, <1>5, <1>6, <1>7, <1>8, <1>9, <1>10, <1>11 DEF BridgeNext

\* A bit outside of the confirmation was set for no list without gaps.
LEMMA SmashStep ==
    BridgeTypeOK /\ ConfirmInv /\ SmashesOnlyOnGaps /\ [BridgeNext]_bridgeVars => SmashesOnlyOnGaps'
<1> SUFFICES ASSUME BridgeTypeOK, ConfirmInv, SmashesOnlyOnGaps, [BridgeNext]_bridgeVars, pc' = "smashed"
             PROVE  ~Confirmable(reported')
  BY DEF SmashesOnlyOnGaps
<1>1. CASE ConfirmMeter
  <2>1. reported' = reported
    BY <1>1 DEF ConfirmMeter
  <2> QED BY <1>1, <2>1, ConfirmMeterInOrder
<1>2. CASE UNCHANGED bridgeVars
  BY <1>2 DEF bridgeVars, meterVars, SmashesOnlyOnGaps
<1> QED BY <1>1, <1>2 DEF BridgeNext, FrcFinished, ServeNext, SkipReport, GetNewVisible, GetNewInvisible,
           ConfirmLast, TimeoutWMBProtocolBridge, GetNewData, Ask, Terminate, GetPacket, AllRead, Served,
           SleepProtocolBridge, RoundEnds

\* A packet is asked for of the next meter of the list.
LEMMA PacketStep == BridgeTypeOK /\ PacketInv /\ [BridgeNext]_bridgeVars => PacketInv'
<1> SUFFICES ASSUME BridgeTypeOK, PacketInv, [BridgeNext]_bridgeVars,
                    pc' = "packet", \A m \in reported' : m < 256
             PROVE  asked' = Passed'
  BY DEF PacketInv
<1>1. CASE GetNewData
  BY <1>1 DEF GetNewData, Ask, Terminate, Passed
<1>2. CASE GetPacket
  <2> DEFINE p == First(list)
  <2>1. list # {} /\ list' = list \ {p} /\ reported' = reported /\ pc = "packet"
    BY <1>2 DEF GetPacket, Rest
  <2>2. p \in list /\ list \subseteq reported
    BY <2>1, NextMeter DEF BridgeTypeOK
  <2>3. HeadOf(list) = p /\ HeadOf(list) \in 0..255
    BY <2>1, <2>2, NextMeter
  <2>4. asked' = asked \union {p}
    BY <1>2, <2>3, MeterIsAsked DEF GetPacket
  <2>5. asked = Passed
    BY <2>1 DEF PacketInv
  <2> QED BY <2>1, <2>2, <2>4, <2>5 DEF Passed
<1>3. CASE UNCHANGED bridgeVars
  BY <1>3 DEF bridgeVars, meterVars, PacketInv, Passed
<1> QED BY <1>1, <1>2, <1>3 DEF BridgeNext, FrcFinished, ServeNext, SkipReport, GetNewVisible, GetNewInvisible,
           Ask, Terminate, ConfirmMeter, ConfirmLast, TimeoutWMBProtocolBridge, AllRead, Served,
           SleepProtocolBridge, RoundEnds

\* The variables hold values of their types, see BridgeTypeOK, and the loops have done for
\* what they passed what they do for each.
THEOREM BridgesAreServed == BridgeSpec => []BridgeInv
<1>1. BridgeInit => BridgeInv
  BY BridgeTypeInit DEF BridgeInit, BridgeInv, RoundInv, ConfirmInv, PacketInv, SmashesOnlyOnGaps
<1>2. BridgeInv /\ [BridgeNext]_bridgeVars => BridgeInv'
  BY BridgeTypeStep, RoundStepOfBridges, ConfirmStep, PacketStep, SmashStep DEF BridgeInv
<1> QED BY <1>1, <1>2, PTL DEF BridgeSpec

\* What is confirmed to a bridge, read of its meters and sent to sleep is what was reported,
\* for any bridges and any reports, in however many groups and whatever fails; a bit is set
\* outside of a confirmation only for a list with a gap of a whole group or an index that a
\* uint8_t cannot hold.
THEOREM ReportsServed == BridgeSpec => []ReportsAreServed
<1>1. BridgeInv => ReportsAreServed
  BY DEF BridgeInv, RoundInv, ConfirmInv, PacketInv, Passed, ReportsAreServed, ConfirmedAreReported,
         SmashesOnlyOnGaps, AskedAreReported, AllSleepAtEnd
<1> QED BY <1>1, BridgesAreServed, PTL

-----------------------------------------------------------------------------
(* The requests: the bytes that a command's method fills in.               *)

\* The commands that carry the value they were given as two bytes.
Worded == {"GET_COMPACT_PACKET", "GET_FULL_PACKET", "SET_SLEEP_INTERVAL", "SET_WM_TIMEOUT",
           "SET_WM_ALL_READED_TIMEOUT", "SET_NODE_TIMEOUT", "SLEEP_NOW", "DELETE_ID"}

\* A value of 16 bits is made of its two bytes.
LEMMA TwoBytes ==
  ASSUME NEW v \in Nat
  PROVE  /\ Byte(v) \in 0..255 /\ High(v) \in 0..255
         /\ v < 65536 => High(v) * 256 + Byte(v) = v
BY DEF Byte, High

\* A counter of 32 bits is made of its four bytes.
LEMMA FourBytes ==
  ASSUME NEW v \in Nat, v \div 65536 < 65536
  PROVE  /\ v \div 16777216 \in 0..255 /\ Byte(v \div 65536) \in 0..255
         /\ (((v \div 16777216) * 256 + Byte(v \div 65536)) * 256 + High(v)) * 256 + Byte(v) = v
BY DEF Byte, High

\* The commands that have a byte for PData, and the peripheral's command they are sent with.
LEMMA CommandBytes ==
  /\ \A c \in Checked : Command[c][1] \in {2, 4} /\ Command[c][2] \in 0..255
  /\ \A c \in Listings \union Packets : Command[c][1] = 1 /\ Command[c][2] \in 0..255
BY DEF Checked, Settings, Listings, Packets, Command

\* A request carries the value with its high byte first, and the checksum if it has one.
LEMMA RequestBytes ==
  ASSUME NEW c \in Checked \union Listings \union Packets, NEW v \in Nat
  PROVE  /\ Request(c, v)[1] \in 0..4 /\ Request(c, v)[2] \in Seq(0..255)
         /\ Request(c, v)[2][2] = High(v) /\ Request(c, v)[2][3] = Byte(v)
         /\ c \in Checked =>
              /\ Len(Request(c, v)[2]) = 4
              /\ Request(c, v)[2][4] = Checksum(Request(c, v)[2])
<1> DEFINE a == Command[c][2]
           h == High(v)
           l == Byte(v)
           p == <<a, h, l>>
           s == Checksum(p)
<1>1. a \in 0..255 /\ h \in 0..255 /\ l \in 0..255
  BY CommandBytes, TwoBytes
<1>2. Request(c, v) = <<Command[c][1], IF Command[c][1] \in {2, 4} THEN Append(p, s) ELSE p>>
  BY DEF Request
<1>3. (c \in Checked => Command[c][1] \in {2, 4}) /\ (c \notin Checked => Command[c][1] = 1)
  BY CommandBytes
<1> HIDE DEF a, h, l
<1>4. s \in 0..255
  BY <1>1 DEF Checksum, Byte
<1>5. p \in Seq(0..255) /\ Len(p) = 3 /\ p[1] = a /\ p[2] = h /\ p[3] = l
  BY <1>1
<1>6. Checksum(p) = Byte(255 + (p[1] - 1) + (p[2] - 1) + (p[3] - 1))
  BY DEF Checksum
<1> DEFINE q == Append(p, s)
<1>7. Checksum(q) = Byte(255 + (q[1] - 1) + (q[2] - 1) + (q[3] - 1))
  BY DEF Checksum
<1> HIDE DEF p, s
<1>8. q \in Seq(0..255) /\ Len(q) = 4 /\ q[1] = p[1] /\ q[2] = p[2] /\ q[3] = p[3] /\ q[4] = s
  <2>1. p \in Seq(0..255)
    BY <1>5
  <2>2. /\ q \in Seq(0..255) /\ Len(q) = Len(p) + 1
        /\ \A i \in 1..Len(p) : q[i] = p[i]
        /\ q[Len(p) + 1] = s
    BY <1>4, <2>1, AppendProperties
  <2> HIDE DEF q
  <2> QED BY <1>5, <2>2
<1> HIDE DEF q
<1>9. q[4] = Checksum(q)
  BY <1>6, <1>7, <1>8 DEF s
<1>10. CASE c \in Checked
  <2>1. Request(c, v)[2] = q /\ Request(c, v)[1] \in 0..4
    BY <1>2, <1>3, <1>10 DEF q
  <2> QED BY <2>1, <1>5, <1>8, <1>9 DEF h, l
<1>11. CASE c \notin Checked
  <2>1. Request(c, v)[2] = p /\ Request(c, v)[1] \in 0..4
    BY <1>2, <1>3, <1>11
  <2> QED BY <2>1, <1>5, <1>11 DEF h, l
<1> QED BY <1>10, <1>11

\* Bytes that are joined.
LEMMA JoinedBytes ==
  ASSUME NEW p \in Seq(0..255), NEW q \in Seq(0..255)
  PROVE  /\ p \o q \in Seq(0..255) /\ Len(p \o q) = Len(p) + Len(q)
         /\ \A i \in 1..Len(p) : (p \o q)[i] = p[i]
         /\ \A i \in 1..Len(q) : (p \o q)[i + Len(p)] = q[i]
<1>1. Len(p) \in Nat /\ Len(q) \in Nat
  OBVIOUS
<1> QED BY <1>1, ConcatProperties

\* What the methods fill in, one by one.
LEMMA FilledWord == ASSUME NEW c \in Worded, NEW v PROVE Filled(c, v) = Request(c, v)
BY DEF Filled, Confirmations, Plain, Listings, Worded

LEMMA FilledPlain == ASSUME NEW c \in {"DELETE_ALL"} \union Listings, NEW v PROVE Filled(c, v) = Request(c, 0)
BY DEF Filled, Confirmations, Plain, Listings

LEMMA FilledOther ==
  ASSUME NEW v
  PROVE  /\ Filled("SYSINFO", v) = <<0, <<>>>>
         /\ Filled("READ_COUNTERS", v) = ReadCountersRequest(v)
         /\ Filled("STORE_COUNTER", v) = StoreCounterRequest(1, v)
         /\ Filled("DISABLE_AUTO_SLEEP", v) = <<2, <<IF v # 0 THEN 0 ELSE 1>>>>
         /\ Filled("SET_ANY_PACKET_MODE", v) = Request("SET_ANY_PACKET_MODE", IF v # 0 THEN 1 ELSE 0)
<1>1. Filled("SYSINFO", v) = <<0, <<>>>>
  BY DEF Filled, Confirmations, Plain, Listings
<1>2. Filled("READ_COUNTERS", v) = ReadCountersRequest(v)
  BY DEF Filled, Confirmations, Plain, Listings
<1>3. Filled("STORE_COUNTER", v) = StoreCounterRequest(1, v)
  BY DEF Filled, Confirmations, Plain, Listings
<1>4. Filled("DISABLE_AUTO_SLEEP", v) = <<2, <<IF v # 0 THEN 0 ELSE 1>>>>
  BY DEF Filled, Confirmations, Plain, Listings, DisableAutosleepRequest
<1>5. Filled("SET_ANY_PACKET_MODE", v) = Request("SET_ANY_PACKET_MODE", IF v # 0 THEN 1 ELSE 0)
  BY DEF Filled, Confirmations, Plain, Listings
<1> QED BY <1>1, <1>2, <1>3, <1>4, <1>5

\* A confirmation carries the group and the ten bytes of its map.
LEMMA ConfirmationBytes ==
  ASSUME NEW c \in Confirmations, NEW v \in Nat
  PROVE  /\ Filled(c, v)[1] \in 0..4 /\ Filled(c, v)[2] \in Seq(0..255)
         /\ Filled(c, v)[2][2] = High(v) /\ Len(Filled(c, v)[2]) = 12
<1> DEFINE a == IF c = "GET_VISIBLE_CONFIRMATION" THEN 1 ELSE 2
           g == High(v)
           front == <<a, g>>
           map == [i \in 1..10 |-> Byte(v)]
           p == front \o map
<1>1. Filled(c, v) = <<3, p>>
  BY DEF Filled, Confirmations, Plain, Listings, ConfirmationRequest
<1>2. a \in 0..255 /\ g \in 0..255 /\ Byte(v) \in 0..255
  BY TwoBytes
<1>3. map \in Seq(0..255) /\ Len(map) = 10
  BY <1>2
<1> HIDE DEF a, g, map
<1>4. front \in Seq(0..255) /\ Len(front) = 2 /\ front[2] = g
  BY <1>2
<1> HIDE DEF front
<1>5. /\ p \in Seq(0..255) /\ Len(p) = Len(front) + Len(map)
      /\ \A i \in 1..Len(front) : p[i] = front[i]
  <2>1. front \in Seq(0..255) /\ map \in Seq(0..255)
    BY <1>3, <1>4
  <2>2. p = front \o map
    OBVIOUS
  <2> HIDE DEF p, front
  <2> QED BY ONLY <2>1, <2>2, JoinedBytes, SMTT(30)
<1> HIDE DEF p
<1> QED BY <1>1, <1>3, <1>4, <1>5 DEF g

\* The four bytes of a counter are its value.
LEMMA StoreCounterBytes ==
  ASSUME NEW v \in Nat, v \div 65536 < 65536, NEW r, r = StoreCounterRequest(1, v)
  PROVE  /\ r[1] \in 0..4 /\ r[2] \in Seq(0..255)
         /\ ((r[2][2] * 256 + r[2][3]) * 256 + r[2][4]) * 256 + r[2][5] = v
<1> DEFINE a == v \div 16777216
           b == Byte(v \div 65536)
           h == High(v)
           l == Byte(v)
           s == Byte(255 - 4 * (a + 1))
           one == <<1>>
           bytes == <<a, b, h, l>>
           sum == <<s>>
           front == one \o bytes
<1>1. StoreCounterRequest(1, v) = <<1, front \o sum>>
  BY DEF StoreCounterRequest
<1>2. a \in 0..255 /\ b \in 0..255 /\ h \in 0..255 /\ l \in 0..255
  BY FourBytes, TwoBytes
<1>3. ((a * 256 + b) * 256 + h) * 256 + l = v
  BY ONLY v \in Nat, v \div 65536 < 65536 DEF Byte, High
<1> HIDE DEF a, b, h, l
<1>4. s \in 0..255
  BY <1>2 DEF Byte
<1> HIDE DEF s
<1>5. /\ one \in Seq(0..255) /\ Len(one) = 1 /\ sum \in Seq(0..255) /\ Len(sum) = 1
      /\ bytes \in Seq(0..255) /\ Len(bytes) = 4
      /\ bytes[1] = a /\ bytes[2] = b /\ bytes[3] = h /\ bytes[4] = l
  BY <1>2, <1>4
<1> HIDE DEF one, bytes, sum
<1>6. /\ front \in Seq(0..255) /\ Len(front) = 5
      /\ front[2] = a /\ front[3] = b /\ front[4] = h /\ front[5] = l
  <2>1. /\ front \in Seq(0..255) /\ Len(front) = Len(one) + Len(bytes)
        /\ \A i \in 1..Len(bytes) : front[i + Len(one)] = bytes[i]
    <3>1. one \in Seq(0..255) /\ bytes \in Seq(0..255)
      BY <1>5
    <3> QED BY <3>1, JoinedBytes
  <2>2. front[1 + 1] = a /\ front[2 + 1] = b /\ front[3 + 1] = h /\ front[4 + 1] = l
    BY <1>5, <2>1
  <2> QED BY <1>5, <2>1, <2>2
<1> HIDE DEF front
<1> DEFINE p == front \o sum
<1>7. p \in Seq(0..255) /\ \A i \in 1..Len(front) : p[i] = front[i]
  <2>1. front \in Seq(0..255) /\ sum \in Seq(0..255)
    BY <1>5, <1>6
  <2> QED BY <2>1, JoinedBytes
<1>8. StoreCounterRequest(1, v) = <<1, p>>
  BY <1>1
<1> HIDE DEF p
<1>9. p[2] = a /\ p[3] = b /\ p[4] = h /\ p[5] = l
  BY <1>6, <1>7
<1> QED BY <1>3, <1>7, <1>8, <1>9

\* The time to sleep fits in its two bytes.
LEMMA ReadCountersBytes ==
  ASSUME NEW v \in Nat
  PROVE  ReadCountersRequest(v)[1] \in 0..4 /\ ReadCountersRequest(v)[2] \in Seq(0..255)
<1> DEFINE tm == ((v * 1000) \div 2097) % 65536
           l == Byte(tm)
           h == High(tm)
<1>1. tm \in Nat
  OBVIOUS
<1> HIDE DEF tm
<1>2. l \in 0..255 /\ h \in 0..255
  BY <1>1, TwoBytes
<1>3. ReadCountersRequest(v) = <<0, <<l, h>>>>
  BY DEF ReadCountersRequest, tm
<1> HIDE DEF l, h
<1>4. <<l, h>> \in Seq(0..255)
  BY <1>2
<1> QED BY <1>3, <1>4

\* All of them: what ValueArrives and DamageIsSeen say of the request of any command and value.
LEMMA FilledBytes ==
  ASSUME NEW c \in Cmd["ProtocolBridge"] \union Cmd["Pulsemeter"], NEW v \in Values,
         c \in Plain => v = 0, c # "STORE_COUNTER" => v < 65536
  PROVE  LET p == Filled(c, v)[2] IN
         /\ Filled(c, v)[1] \in 0..4 /\ p \in Seq(0..255)
         /\ c \in Confirmations => p[2] = High(v) /\ Len(p) = 12
         /\ c = "STORE_COUNTER" => ((p[2] * 256 + p[3]) * 256 + p[4]) * 256 + p[5] = v
         /\ c \in Worded => p[2] * 256 + p[3] = v
         /\ c \in Checked => Len(p) = 4 /\ p[4] = Checksum(p)
<1> DEFINE r == Filled(c, v)
<1>0. v \in Nat /\ v \div 65536 < 65536
  BY MeterFramesAssumption
<1>1. CASE c \in Confirmations
  <2>1. c \notin Worded \union Checked \union {"STORE_COUNTER"}
    BY <1>1 DEF Confirmations, Worded, Checked, Settings
  <2> QED BY <1>0, <1>1, <2>1, ConfirmationBytes
<1>2. CASE c = "STORE_COUNTER"
  <2>1. r = StoreCounterRequest(1, v)
    BY <1>2, FilledOther
  <2> HIDE DEF r
  <2>2. r[1] \in 0..4 /\ r[2] \in Seq(0..255) /\ ((r[2][2] * 256 + r[2][3]) * 256 + r[2][4]) * 256 + r[2][5] = v
    BY <1>0, <2>1, StoreCounterBytes
  <2>3. c \notin Worded \union Checked \union Confirmations
    BY <1>2 DEF Confirmations, Worded, Checked, Settings
  <2> QED BY <2>2, <2>3 DEF r
<1>3. CASE c \in Worded \union Listings \union Checked
  <2>1. PICK w \in Nat : r = Request(c, w) /\ (c \in Worded => w = v)
    <3>1. CASE c \in Worded
      BY <1>0, <3>1, FilledWord
    <3>2. CASE c \notin Worded /\ c # "SET_ANY_PACKET_MODE"
      <4>1. c \in {"DELETE_ALL"} \union Listings
        BY <1>3, <3>2 DEF Worded, Checked, Settings
      <4> QED BY <3>2, <4>1, FilledPlain
    <3>3. CASE c = "SET_ANY_PACKET_MODE"
      <4>1. r = Request(c, IF v # 0 THEN 1 ELSE 0) /\ c \notin Worded
        BY <3>3, FilledOther DEF Worded
      <4> QED BY <4>1
    <3> QED BY <3>1, <3>2, <3>3
  <2>2. c \in Checked \union Listings \union Packets
    BY <1>3 DEF Worded, Checked, Settings, Packets
  <2> HIDE DEF r
  <2>3. /\ r[1] \in 0..4 /\ r[2] \in Seq(0..255)
        /\ r[2][2] = High(w) /\ r[2][3] = Byte(w)
        /\ c \in Checked => Len(r[2]) = 4 /\ r[2][4] = Checksum(r[2])
    BY <2>1, <2>2, RequestBytes
  <2>4. c \in Worded => r[2][2] * 256 + r[2][3] = v
    <3> SUFFICES ASSUME c \in Worded PROVE r[2][2] * 256 + r[2][3] = v
      OBVIOUS
    <3>1. w = v /\ v < 65536
      BY <2>1 DEF Worded
    <3> QED BY <1>0, <2>3, <3>1, TwoBytes
  <2>5. c \notin Confirmations \union {"STORE_COUNTER"}
    BY <1>3 DEF Confirmations, Worded, Checked, Settings, Listings
  <2> QED BY <2>3, <2>4, <2>5 DEF r
<1>4. CASE c \in {"SYSINFO", "READ_COUNTERS", "DISABLE_AUTO_SLEEP"}
  <2>1. r[1] \in 0..4 /\ r[2] \in Seq(0..255)
    <3>1. CASE c = "SYSINFO"
      <4>1. r = <<0, <<>>>>
        BY <3>1, FilledOther
      <4> HIDE DEF r
      <4> QED BY <4>1
    <3>2. CASE c = "READ_COUNTERS"
      <4>1. r = ReadCountersRequest(v)
        BY <3>2, FilledOther
      <4> HIDE DEF r
      <4> QED BY <1>0, <4>1, ReadCountersBytes
    <3>3. CASE c = "DISABLE_AUTO_SLEEP"
      <4>1. r = <<2, <<IF v # 0 THEN 0 ELSE 1>>>>
        BY <3>3, FilledOther
      <4>2. <<IF v # 0 THEN 0 ELSE 1>> \in Seq(0..255)
        OBVIOUS
      <4> HIDE DEF r
      <4> QED BY <4>1, <4>2
    <3> QED BY <1>4, <3>1, <3>2, <3>3
  <2>2. c \notin Confirmations \union Worded \union Checked \union {"STORE_COUNTER"}
    BY <1>4 DEF Confirmations, Worded, Checked, Settings
  <2> QED BY <2>1, <2>2
<1>5. c \in Confirmations \/ c = "STORE_COUNTER" \/ c \in Worded \union Listings \union Checked
      \/ c \in {"SYSINFO", "READ_COUNTERS", "DISABLE_AUTO_SLEEP"}
  BY DEF Cmd, Packets, Worded
<1> QED BY <1>1, <1>2, <1>3, <1>4, <1>5

\* Sums of bytes that differ in one differ in their last byte.
LEMMA SummandTells ==
  ASSUME NEW sum \in Int, NEW s \in Int, NEW u \in 0..255, NEW x \in 0..255, x # u, s = sum - u + x
  PROVE  Byte(s) # Byte(sum)
<1> SUFFICES ASSUME Byte(s) = Byte(sum) PROVE FALSE
  OBVIOUS
<1> DEFINE k == s \div 256
           j == sum \div 256
           d == Byte(s)
<1>1. k \in Int /\ d \in Int /\ s = 256 * k + d
  BY DEF Byte
<1>2. j \in Int /\ sum = 256 * j + d
  BY DEF Byte
<1> HIDE DEF k, j, d
<1>3. x - u = 256 * (k - j)
  BY <1>1, <1>2
<1>4. k \in Int /\ j \in Int /\ x \in 0..255 /\ u \in 0..255 /\ x # u
  BY <1>1, <1>2
<1> QED BY ONLY <1>3, <1>4

\* One other byte is another checksum.
LEMMA ChecksumTells ==
  ASSUME NEW p \in Seq(0..255), Len(p) = 4, p[4] = Checksum(p), NEW i \in 1..3, NEW b \in 0..255, b # p[i]
  PROVE  Checksum([p EXCEPT ![i] = b]) # p[4]
<1>1. p[1] \in 0..255 /\ p[2] \in 0..255 /\ p[3] \in 0..255 /\ p[4] \in 0..255 /\ DOMAIN p = 1..4
  <2>1. \A j \in 1..Len(p) : p[j] \in 0..255
    BY ElementOfSeq
  <2> QED BY <2>1
<1> DEFINE q == [p EXCEPT ![i] = b]
           x == p[1]
           y == p[2]
           z == p[3]
           u == p[i]
           sum == 255 + (x - 1) + (y - 1) + (z - 1)
           s == 255 + (q[1] - 1) + (q[2] - 1) + (q[3] - 1)
<1>2. /\ q[1] = IF i = 1 THEN b ELSE x
      /\ q[2] = IF i = 2 THEN b ELSE y
      /\ q[3] = IF i = 3 THEN b ELSE z
  BY <1>1
<1>3. p[4] = Byte(sum) /\ Checksum(q) = Byte(s)
  BY DEF Checksum
<1>4. u = IF i = 1 THEN x ELSE IF i = 2 THEN y ELSE z
  OBVIOUS
<1>5. x \in 0..255 /\ y \in 0..255 /\ z \in 0..255 /\ u \in 0..255 /\ b \in 0..255 /\ b # u /\ i \in 1..3
  BY <1>1, <1>4
<1> HIDE DEF q, x, y, z, u
<1>6. sum \in Int /\ s \in Int /\ s = sum - u + b
  BY ONLY <1>2, <1>4, <1>5
<1> HIDE DEF sum, s
<1>7. Byte(s) # Byte(sum)
  BY ONLY <1>5, <1>6, SummandTells
<1> QED BY <1>3, <1>7 DEF q

-----------------------------------------------------------------------------
(* The places that the members of an answer are made of.                   *)

\* The places that a member is made of.
Set(bytes) == {bytes[i] : i \in DOMAIN bytes}
\* What EncodeResponse puts into a member.
Shown(c, len, m) == FieldsOf(c, len)[Members(c)[m]]

\* The places from a to b, in either order.
LEMMA AtSpan ==
  ASSUME NEW a \in Int, NEW b \in Int
  PROVE  Set(At(a, b)) = a..b /\ Set(LowFirst(a, b)) = a..b
<1>1. ASSUME NEW x \in a..b PROVE x \in Set(At(a, b)) /\ x \in Set(LowFirst(a, b))
  <2>1. x - a + 1 \in 1..(b - a + 1) /\ At(a, b)[x - a + 1] = x
    BY <1>1 DEF At
  <2>2. b - x + 1 \in 1..(b - a + 1) /\ LowFirst(a, b)[b - x + 1] = x
    BY <1>1 DEF LowFirst
  <2> QED BY <2>1, <2>2 DEF Set, At, LowFirst
<1>2. ASSUME NEW x, x \in Set(At(a, b)) \/ x \in Set(LowFirst(a, b)) PROVE x \in a..b
  <2>1. PICK i \in 1..(b - a + 1) : x = a + i - 1 \/ x = b - i + 1
    BY <1>2 DEF Set, At, LowFirst
  <2> QED BY <2>1
<1> QED BY <1>1, <1>2

\* The members are made of the places that spans gives, its first and its last one.
AsSpanned(c, len, spans) ==
    /\ DOMAIN Members(c) = DOMAIN spans
    /\ \A m \in DOMAIN spans : Shown(c, len, m) \in {At(spans[m][1], spans[m][2]), LowFirst(spans[m][1], spans[m][2])}
    /\ \A m \in DOMAIN spans : spans[m] \in Int \X Int

SysinfoSpans == [
    SerialNumber |-> <<1, 12>>, VisibleMetersNum |-> <<13, 14>>, ReadedMetersNum |-> <<15, 16>>,
    Temperature |-> <<17, 18>>, PowerVoltage |-> <<19, 20>>, FirmwareVersion |-> <<21, 25>>,
    SleepCount |-> <<26, 27>>, WmbTimeout |-> <<28, 29>>, wmbAllReaedTimeout |-> <<30, 31>>,
    NodeTimeout |-> <<32, 33>>, AnyPacketNode |-> <<34, 34>>, CountToInvisible |-> <<35, 35>>,
    Checksum |-> <<36, 36>>]
ReportSpans == [MetersNum |-> <<2, 3>>, Bitmap |-> <<4, 41>>]
PacketSpans(n) == [
    MsgLen |-> <<0, 0>>, MeterIndex |-> <<2, 3>>, VmbusMsg |-> <<3, 2 + n>>, Rssi |-> <<3 + n, 3 + n>>,
    Crc |-> <<4 + n, 4 + n>>, AfterReceiptWmbusChecksum |-> <<5 + n, 5 + n>>,
    CountedWmbusChecksum |-> <<6 + n, 6 + n>>]
ConfirmationSpans == [ConfirmedNum |-> <<3, 3>>, ActionResult |-> <<4, 4>>]
ReadSpans == [
    ThermometerType |-> <<0, 0>>, Temperature |-> <<1, 2>>, PowerVoltageType |-> <<3, 3>>,
    PowerVoltage |-> <<4, 5>>, SupplyVoltage |-> <<6, 6>>, Rssi |-> <<7, 7>>, CountersNum |-> <<9, 9>>,
    Counter1 |-> <<10, 13>>, Counter2 |-> <<14, 17>>, CountersCheckSum |-> <<18, 18>>, DataCheckSum |-> <<19, 19>>]

\* The places of each structure are those of its spans.
LEMMA SysinfoIs == ASSUME NEW len PROVE AsSpanned("SYSINFO", len, SysinfoSpans)
<1>1. Members("SYSINFO") = SysinfoMembers /\ FieldsOf("SYSINFO", len) = SysinfoFields
  BY DEF Members, FieldsOf, Listings, Packets, Confirmations, Cmd
<1> QED BY <1>1 DEF AsSpanned, Shown, SysinfoMembers, SysinfoFields, SysinfoSpans

LEMMA ReportIs == ASSUME NEW c \in Listings, NEW len PROVE AsSpanned(c, len, ReportSpans)
<1>1. Members(c) = ReportMembers /\ FieldsOf(c, len) = ReportFields
  BY DEF Members, FieldsOf, Listings, Packets, Confirmations, Cmd
<1> QED BY <1>1 DEF AsSpanned, Shown, ReportMembers, ReportFields, ReportSpans

LEMMA PacketIs == ASSUME NEW c \in Packets, NEW len \in 0..255 PROVE AsSpanned(c, len, PacketSpans(Byte(len - 7)))
<1>1. Members(c) = PacketMembers /\ FieldsOf(c, len) = PacketFields(len)
  BY DEF Members, FieldsOf, Listings, Packets, Confirmations, Cmd
<1> DEFINE n == Byte(len - 7)
<1>2. n \in 0..255
  BY DEF Byte
<1>3. PacketFields(len) = [
        msgLen |-> At(0, 0), meterIndex |-> At(2, 3), vmbusMsg |-> At(3, 2 + n), rssi |-> At(3 + n, 3 + n),
        crc |-> At(4 + n, 4 + n), afterReceiptWmbusChecksum |-> At(5 + n, 5 + n),
        countedWmbusChecksum |-> At(6 + n, 6 + n)]
  BY DEF PacketFields
<1> HIDE DEF n
<1>4. AsSpanned(c, len, PacketSpans(n))
  BY <1>1, <1>2, <1>3 DEF AsSpanned, Shown, PacketMembers, PacketSpans
<1> QED BY <1>4 DEF n

LEMMA ConfirmationIs == ASSUME NEW c \in Confirmations, NEW len PROVE AsSpanned(c, len, ConfirmationSpans)
<1>1. Members(c) = ConfirmationMembers /\ FieldsOf(c, len) = ConfirmationFields
  BY DEF Members, FieldsOf, Listings, Packets, Confirmations, Cmd
<1> QED BY <1>1 DEF AsSpanned, Shown, ConfirmationMembers, ConfirmationFields, ConfirmationSpans

LEMMA ReadIs == ASSUME NEW len PROVE AsSpanned("READ_COUNTERS", len, ReadSpans)
<1>1. Members("READ_COUNTERS") = PulseMembers("READ_COUNTERS") /\ FieldsOf("READ_COUNTERS", len) = PulseFields("READ_COUNTERS")
  BY DEF Members, FieldsOf, Listings, Packets, Confirmations, Cmd
<1> QED BY <1>1 DEF AsSpanned, Shown, PulseMembers, PulseFields, ReadSpans

LEMMA RestIs ==
  ASSUME NEW len
  PROVE  /\ AsSpanned("SLEEP_NOW", len, [RequestValue |-> <<3, 4>>])
         /\ AsSpanned("DELETE_ID", len, [MeterIndex |-> <<3, 4>>])
         /\ AsSpanned("DELETE_ALL", len, [ActionResult |-> <<3, 3>>])
         /\ \A c \in {"SET_NODE_TIMEOUT", "SET_ANY_PACKET_MODE"} :
              AsSpanned(c, len, [RequestValue |-> <<3, 4>>, ActionResult |-> <<5, 5>>])
         /\ AsSpanned("STORE_COUNTER", len, [StoreCounterResult |-> <<0, 0>>])
         /\ AsSpanned("DISABLE_AUTO_SLEEP", len, [DisableAutosleepResult |-> <<0, 0>>])
<1>1. \A c \in {"SLEEP_NOW", "DELETE_ID", "DELETE_ALL", "SET_NODE_TIMEOUT", "SET_ANY_PACKET_MODE"} :
        Members(c) = ChangeMembers(c) /\ FieldsOf(c, len) = ChangeFields(c)
  BY DEF Members, FieldsOf, Listings, Packets, Confirmations, Cmd
<1>2. \A c \in {"STORE_COUNTER", "DISABLE_AUTO_SLEEP"} :
        Members(c) = PulseMembers(c) /\ FieldsOf(c, len) = PulseFields(c)
  BY DEF Members, FieldsOf, Listings, Packets, Confirmations, Cmd
<1>3. AsSpanned("SLEEP_NOW", len, [RequestValue |-> <<3, 4>>])
  BY <1>1 DEF AsSpanned, Shown, ChangeMembers, ChangeFields
<1>4. AsSpanned("DELETE_ID", len, [MeterIndex |-> <<3, 4>>])
  BY <1>1 DEF AsSpanned, Shown, ChangeMembers, ChangeFields
<1>5. AsSpanned("DELETE_ALL", len, [ActionResult |-> <<3, 3>>])
  BY <1>1 DEF AsSpanned, Shown, ChangeMembers, ChangeFields
<1>6. ASSUME NEW c \in {"SET_NODE_TIMEOUT", "SET_ANY_PACKET_MODE"}
      PROVE  AsSpanned(c, len, [RequestValue |-> <<3, 4>>, ActionResult |-> <<5, 5>>])
  BY <1>1 DEF AsSpanned, Shown, ChangeMembers, ChangeFields
<1>7. AsSpanned("STORE_COUNTER", len, [StoreCounterResult |-> <<0, 0>>])
  BY <1>2 DEF AsSpanned, Shown, PulseMembers, PulseFields
<1>8. AsSpanned("DISABLE_AUTO_SLEEP", len, [DisableAutosleepResult |-> <<0, 0>>])
  BY <1>2 DEF AsSpanned, Shown, PulseMembers, PulseFields
<1> QED BY <1>3, <1>4, <1>5, <1>6, <1>7, <1>8

\* A member takes the places from the first to the last of its span.
LEMMA SpanIsTaken ==
  ASSUME NEW c, NEW len, NEW spans, AsSpanned(c, len, spans), NEW m \in DOMAIN spans
  PROVE  /\ spans[m][1] \in Int /\ spans[m][2] \in Int
         /\ Set(Shown(c, len, m)) = spans[m][1]..spans[m][2]
<1> DEFINE a == spans[m][1]
           b == spans[m][2]
           s == Shown(c, len, m)
<1>1. a \in Int /\ b \in Int /\ s \in {At(a, b), LowFirst(a, b)}
  BY DEF AsSpanned
<1> HIDE DEF a, b, s
<1>2. Set(s) = a..b
  BY <1>1, AtSpan
<1> QED BY <1>1, <1>2 DEF a, b, s

\* No place is in two spans; and the places of all.
Apart(spans) ==
    \A l, m \in DOMAIN spans : l # m => spans[l][2] < spans[m][1] \/ spans[m][2] < spans[l][1]
Covered(spans) == {b \in Int : \E m \in DOMAIN spans : spans[m][1] <= b /\ b <= spans[m][2]}

\* The answer of a command, as EncodeResponse encodes it.
Encoded(c, of, len) == {[member |-> m, of |-> of, bytes |-> Shown(c, len, m)] : m \in DOMAIN Members(c)}

\* So an answer takes the places of the spans, and none twice if those are apart.
LEMMA EncodedSpans ==
  ASSUME NEW c, NEW of, NEW len, NEW spans, AsSpanned(c, len, spans)
  PROVE  /\ \A m \in Encoded(c, of, len) : m.of = of
         /\ Apart(spans) => \A l, m \in Encoded(c, of, len) : l # m => Taken(l) \intersect Taken(m) = {}
         /\ UNION {Taken(m) : m \in Encoded(c, of, len)} = Covered(spans)
<1> DEFINE S == Encoded(c, of, len)
<1>1. ASSUME NEW x \in S
      PROVE  /\ x.member \in DOMAIN spans /\ x.of = of
             /\ x = [member |-> x.member, of |-> of, bytes |-> Shown(c, len, x.member)]
             /\ spans[x.member][1] \in Int /\ spans[x.member][2] \in Int
             /\ Taken(x) = spans[x.member][1]..spans[x.member][2]
  <2>1. PICK m \in DOMAIN Members(c) : x = [member |-> m, of |-> of, bytes |-> Shown(c, len, m)]
    BY <1>1 DEF Encoded
  <2>2. m \in DOMAIN spans
    BY DEF AsSpanned
  <2>3. Taken(x) = Set(Shown(c, len, m))
    BY <2>1 DEF Taken, Set
  <2> QED BY <2>1, <2>2, <2>3, SpanIsTaken
<1>2. ASSUME NEW m \in DOMAIN spans
      PROVE  \E x \in S : x.member = m
  <2>1. m \in DOMAIN Members(c)
    BY <1>2 DEF AsSpanned
  <2>2. [member |-> m, of |-> of, bytes |-> Shown(c, len, m)] \in S
    BY <2>1 DEF Encoded
  <2> QED BY <2>2
<1> HIDE DEF S
<1>3. ASSUME Apart(spans), NEW l \in S, NEW m \in S, l # m PROVE Taken(l) \intersect Taken(m) = {}
  <2>1. l.member # m.member
    BY <1>1, <1>3
  <2>2. spans[l.member][2] < spans[m.member][1] \/ spans[m.member][2] < spans[l.member][1]
    BY <1>1, <1>3, <2>1 DEF Apart
  <2> DEFINE a == spans[l.member][1]
             b == spans[l.member][2]
             u == spans[m.member][1]
             w == spans[m.member][2]
  <2>3. /\ a \in Int /\ b \in Int /\ u \in Int /\ w \in Int /\ (b < u \/ w < a)
        /\ Taken(l) = a..b /\ Taken(m) = u..w
    BY <1>1, <2>2
  <2> HIDE DEF a, b, u, w
  <2> QED BY <2>3
<1>4. ASSUME NEW y \in UNION {Taken(m) : m \in S} PROVE y \in Covered(spans)
  <2>1. PICK x \in S : y \in Taken(x)
    BY <1>4
  <2> QED BY <1>1, <2>1 DEF Covered
<1>5. ASSUME NEW y \in Covered(spans) PROVE y \in UNION {Taken(m) : m \in S}
  <2>1. PICK m \in DOMAIN spans : y \in Int /\ spans[m][1] <= y /\ y <= spans[m][2]
    BY <1>5 DEF Covered
  <2>2. PICK x \in S : x.member = m
    BY <1>2
  <2>3. y \in Taken(x)
    BY <1>1, <2>1, <2>2
  <2> QED BY <2>3
<1> QED BY <1>1, <1>3, <1>4, <1>5 DEF S

\* Places that are an interval, but for the place 0, leave none out.
LEMMA CoveredAreDense ==
  ASSUME NEW used \in SUBSET Int, NEW a \in Nat \ {0}, NEW b \in Int, used \ {0} = a..b
  PROVE  LeftOut(used) = {}
<1> SUFFICES ASSUME NEW y \in LeftOut(used) PROVE FALSE
  OBVIOUS
<1>1. y \in 1..255 /\ y \notin used
  BY DEF LeftOut
<1>2. PICK x \in used : 0 < x /\ x < y
  BY DEF LeftOut
<1>3. PICK z \in used : y < z
  BY DEF LeftOut
<1>4. x \in Int /\ z \in Int
  OBVIOUS
<1>5. x \in a..b /\ z \in a..b /\ y \notin a..b
  BY <1>1, <1>2, <1>3, <1>4
<1> QED BY <1>1, <1>2, <1>3, <1>4, <1>5

\* The spans of the commands' answers, with the length of a packet.
LEMMA SpansAreDense ==
  /\ \A s \in {SysinfoSpans, ReportSpans, ConfirmationSpans, [RequestValue |-> <<3, 4>>], [MeterIndex |-> <<3, 4>>],
               [ActionResult |-> <<3, 3>>], [RequestValue |-> <<3, 4>>, ActionResult |-> <<5, 5>>],
               [StoreCounterResult |-> <<0, 0>>], [DisableAutosleepResult |-> <<0, 0>>]} :
       Apart(s) /\ LeftOut(Covered(s)) = {}
  /\ Apart(ReadSpans) /\ LeftOut(Covered(ReadSpans)) = {8}
  /\ \A n \in 0..255 : LeftOut(Covered(PacketSpans(n))) = {}
<1>1. Apart(SysinfoSpans) /\ LeftOut(Covered(SysinfoSpans)) = {}
  <2>1. Apart(SysinfoSpans)
    BY DEF Apart, SysinfoSpans
  <2>2. Covered(SysinfoSpans) \ {0} = 1..36
    BY DEF Covered, SysinfoSpans
  <2> DEFINE first == 1
             last == 36
             used == Covered(SysinfoSpans)
  <2>3. first \in Nat \ {0} /\ last \in Int /\ used \ {0} = first..last
    BY <2>2
  <2> HIDE DEF first, last, used
  <2>4. LeftOut(used) = {}
    BY <2>3, CoveredAreDense
  <2> QED BY <2>1, <2>4 DEF used
<1>2. Apart(ReportSpans) /\ LeftOut(Covered(ReportSpans)) = {}
  <2>1. Apart(ReportSpans)
    BY DEF Apart, ReportSpans
  <2>2. Covered(ReportSpans) \ {0} = 2..41
    BY DEF Covered, ReportSpans
  <2> DEFINE first == 2
             last == 41
             used == Covered(ReportSpans)
  <2>3. first \in Nat \ {0} /\ last \in Int /\ used \ {0} = first..last
    BY <2>2
  <2> HIDE DEF first, last, used
  <2>4. LeftOut(used) = {}
    BY <2>3, CoveredAreDense
  <2> QED BY <2>1, <2>4 DEF used
<1>3. Apart(ConfirmationSpans) /\ LeftOut(Covered(ConfirmationSpans)) = {}
  <2>1. Apart(ConfirmationSpans)
    BY DEF Apart, ConfirmationSpans
  <2>2. Covered(ConfirmationSpans) \ {0} = 3..4
    BY DEF Covered, ConfirmationSpans
  <2> QED BY <2>1, <2>2, CoveredAreDense
<1>4. ASSUME NEW s \in {[RequestValue |-> <<3, 4>>], [MeterIndex |-> <<3, 4>>], [ActionResult |-> <<3, 3>>]}
      PROVE  Apart(s) /\ LeftOut(Covered(s)) = {}
  <2>1. Apart(s)
    BY <1>4 DEF Apart
  <2>2. \E b \in Int : Covered(s) \ {0} = 3..b
    <3>1. CASE s = [ActionResult |-> <<3, 3>>]
      <4>1. Covered(s) \ {0} = 3..3
        BY <3>1 DEF Covered
      <4> QED BY <4>1
    <3>2. CASE s # [ActionResult |-> <<3, 3>>]
      <4>1. Covered(s) \ {0} = 3..4
        BY <1>4, <3>2 DEF Covered
      <4> QED BY <4>1
    <3> QED BY <3>1, <3>2
  <2> QED BY <2>1, <2>2, CoveredAreDense
<1>5. ASSUME NEW s, s = [RequestValue |-> <<3, 4>>, ActionResult |-> <<5, 5>>]
      PROVE  Apart(s) /\ LeftOut(Covered(s)) = {}
  <2>1. Apart(s)
    BY <1>5 DEF Apart
  <2>2. Covered(s) \ {0} = 3..5
    BY <1>5 DEF Covered
  <2> DEFINE used == Covered(s)
             last == 5
  <2>3. used \ {0} = 3..last /\ last \in Int
    BY <2>2
  <2> HIDE DEF used, last
  <2>4. LeftOut(used) = {}
    BY <2>3, CoveredAreDense
  <2> QED BY <2>1, <2>4 DEF used
<1>6. ASSUME NEW s \in {[StoreCounterResult |-> <<0, 0>>], [DisableAutosleepResult |-> <<0, 0>>]}
      PROVE  Apart(s) /\ LeftOut(Covered(s)) = {}
  <2>1. Apart(s)
    BY <1>6 DEF Apart
  <2>2. Covered(s) \ {0} = 1..0
    BY <1>6 DEF Covered
  <2> QED BY <2>1, <2>2, CoveredAreDense
<1>7. Apart(ReadSpans) /\ LeftOut(Covered(ReadSpans)) = {8}
  <2>1. Apart(ReadSpans)
    BY DEF Apart, ReadSpans
  <2>2. \A y \in Int : y \in Covered(ReadSpans) <=> 0 <= y /\ y <= 19 /\ y # 8
    BY DEF Covered, ReadSpans
  <2>3. \A y \in Covered(ReadSpans) : y \in Int
    BY DEF Covered
  <2>4. ASSUME NEW y \in LeftOut(Covered(ReadSpans)) PROVE y = 8
    BY <2>2, <2>3, <2>4 DEF LeftOut
  <2>5. 8 \in LeftOut(Covered(ReadSpans))
    <3>1. 7 \in Covered(ReadSpans) /\ 9 \in Covered(ReadSpans) /\ 8 \notin Covered(ReadSpans)
      BY <2>2
    <3> QED BY <3>1 DEF LeftOut
  <2> QED BY <2>1, <2>4, <2>5
<1>8. ASSUME NEW n \in 0..255 PROVE LeftOut(Covered(PacketSpans(n))) = {}
  <2>1. Covered(PacketSpans(n)) \ {0} = 2..(6 + n)
    BY DEF Covered, PacketSpans
  <2> QED BY <2>1, CoveredAreDense
<1> QED BY <1>1, <1>2, <1>3, <1>4, <1>5, <1>6, <1>7, <1>8

\* What the invariant says of an answer, for every command that has one.
LEMMA EncodedIsRead ==
  ASSUME NEW c \in (Cmd["ProtocolBridge"] \union Cmd["Pulsemeter"]) \ Lacking, NEW of, NEW len \in 0..255
  PROVE  /\ \A m \in Encoded(c, of, len) : m.of = of
         /\ c \notin Packets =>
              \A l, m \in Encoded(c, of, len) : l # m => Taken(l) \intersect Taken(m) = {}
         /\ LeftOut(UNION {Taken(m) : m \in Encoded(c, of, len)}) = IF c = "READ_COUNTERS" THEN {8} ELSE {}
<1>1. CASE c \in Packets
  <2>1. Byte(len - 7) \in 0..255 /\ c # "READ_COUNTERS"
    BY <1>1 DEF Byte, Packets
  <2>2. AsSpanned(c, len, PacketSpans(Byte(len - 7)))
    BY <1>1, PacketIs
  <2>3. LeftOut(Covered(PacketSpans(Byte(len - 7)))) = {}
    BY <2>1, SpansAreDense
  <2> QED BY <1>1, <2>1, <2>2, <2>3, EncodedSpans
<1>2. CASE c = "READ_COUNTERS"
  <2>1. AsSpanned(c, len, ReadSpans)
    BY <1>2, ReadIs
  <2>2. Apart(ReadSpans) /\ LeftOut(Covered(ReadSpans)) = {8}
    BY SpansAreDense
  <2> QED BY <1>2, <2>1, <2>2, EncodedSpans
<1>3. CASE c \notin Packets /\ c # "READ_COUNTERS"
  <2>1. PICK s : AsSpanned(c, len, s) /\ Apart(s) /\ LeftOut(Covered(s)) = {}
    <3>1. CASE c = "SYSINFO"
      BY <3>1, SysinfoIs, SpansAreDense
    <3>2. CASE c \in Listings
      BY <3>2, ReportIs, SpansAreDense
    <3>3. CASE c \in Confirmations
      BY <3>3, ConfirmationIs, SpansAreDense
    <3>4. CASE c = "SLEEP_NOW"
      BY <3>4, RestIs, SpansAreDense
    <3>5. CASE c = "DELETE_ID"
      BY <3>5, RestIs, SpansAreDense
    <3>6. CASE c = "DELETE_ALL"
      BY <3>6, RestIs, SpansAreDense
    <3>7. CASE c \in {"SET_NODE_TIMEOUT", "SET_ANY_PACKET_MODE"}
      BY <3>7, RestIs, SpansAreDense
    <3>8. CASE c = "STORE_COUNTER"
      BY <3>8, RestIs, SpansAreDense
    <3>9. CASE c = "DISABLE_AUTO_SLEEP"
      BY <3>9, RestIs, SpansAreDense
    <3> QED BY <1>3, <3>1, <3>2, <3>3, <3>4, <3>5, <3>6, <3>7, <3>8, <3>9
            DEF Cmd, Lacking, Checked, Settings
  <2>2. /\ \A m \in Encoded(c, of, len) : m.of = of
        /\ \A l, m \in Encoded(c, of, len) : l # m => Taken(l) \intersect Taken(m) = {}
        /\ UNION {Taken(m) : m \in Encoded(c, of, len)} = Covered(s)
    BY <2>1, EncodedSpans
  <2>3. LeftOut(UNION {Taken(m) : m \in Encoded(c, of, len)}) = {}
    BY <2>1, <2>2
  <2> QED BY <1>3, <2>2, <2>3
<1> QED BY <1>1, <1>2, <1>3

-----------------------------------------------------------------------------
(* The frames: what the object knows between two of its methods.           *)

\* Types; that only commandSetAnyPacketMode names a command that is not its own; that a response
\* is in the structure of its command; and the invariants.
FrameInv ==
    /\ prf \in DOMAIN Cmd /\ cmd \in Cmd[prf] /\ wish.cmd \in Cmd[prf]
    /\ request[1] \in 0..4 /\ request[2] \in Seq(0..255)
    /\ rounds \in 0..MaxRounds /\ frame \in 0..rounds /\ (stage = "sent" => frame < rounds /\ ~came)
    /\ came \in BOOLEAN /\ stage \in {"idle", "sent", "answered", "refused"}
    /\ parsed \in [Cmd[prf] -> (0..frame) \X (0..255)]
    /\ cmd = wish.cmd \/ (wish.cmd = "SET_ANY_PACKET_MODE" /\ cmd \in Lacking)
    /\ stage = "answered" /\ came => parsed[cmd][1] = frame
    /\ ValueArrives /\ DamageIsSeen /\ ShownIsRead /\ RefusedForAReason

\* The invariant holds at first, and each method keeps it.
LEMMA FrameStarts == FrameInit => FrameInv
<1> SUFFICES ASSUME FrameInit PROVE FrameInv
  OBVIOUS
<1>1. prf \in DOMAIN Cmd /\ cmd \in Cmd[prf]
  BY DEF FrameInit, Cmd
<1>2. request[1] \in 0..4 /\ request[2] \in Seq(0..255)
  BY DEF FrameInit
<1>3. parsed \in [Cmd[prf] -> (0..0) \X (0..255)]
  BY DEF FrameInit, Structures
<1>4. /\ stage = "idle" /\ came = FALSE /\ frame = 0 /\ rounds = 0
      /\ wish.cmd = cmd /\ title = EncodeCommand(cmd)
  BY DEF FrameInit
<1>5. 0 \in 0..MaxRounds
  BY MeterFramesAssumption
<1>6. ValueArrives /\ DamageIsSeen /\ ShownIsRead /\ RefusedForAReason
  BY <1>4 DEF ValueArrives, DamageIsSeen, ShownIsRead, RefusedForAReason
<1>7. rounds \in 0..MaxRounds /\ frame \in 0..rounds
  BY <1>4, <1>5
<1>8. parsed \in [Cmd[prf] -> (0..frame) \X (0..255)]
  BY <1>3, <1>4
<1> QED BY <1>1, <1>2, <1>4, <1>6, <1>7, <1>8 DEF FrameInv

LEMMA OrderStep == ASSUME FrameInv, Order PROVE FrameInv'
<1>1. PICK c \in Cmd[prf], v \in Values :
        /\ c \in Plain => v = 0
        /\ c # "STORE_COUNTER" => v < 65536
        /\ cmd' = IF c = "SET_ANY_PACKET_MODE" THEN "SET_WM_ALL_READED_TIMEOUT" ELSE c
        /\ request' = Filled(c, v) /\ wish' = [cmd |-> c, value |-> v]
  BY DEF Order
<1>2. /\ stage = "idle" /\ rounds < MaxRounds
      /\ stage' = "sent" /\ came' = FALSE /\ rounds' = rounds + 1
      /\ UNCHANGED <<prf, frame, parsed, shown, title>>
  BY DEF Order
<1>3. c \in Cmd["ProtocolBridge"] \union Cmd["Pulsemeter"]
  BY DEF FrameInv, Cmd
<1> DEFINE r == Filled(c, v)
           p == r[2]
<1>4. /\ r[1] \in 0..4 /\ p \in Seq(0..255)
      /\ c \in Confirmations => p[2] = High(v) /\ Len(p) = 12
      /\ c = "STORE_COUNTER" => ((p[2] * 256 + p[3]) * 256 + p[4]) * 256 + p[5] = v
      /\ c \in Worded => p[2] * 256 + p[3] = v
      /\ c \in Checked => Len(p) = 4 /\ p[4] = Checksum(p)
  BY <1>1, <1>3, FilledBytes
<1>5. request' = r /\ wish'.cmd = c /\ wish'.value = v /\ stage' = "sent"
  BY <1>1, <1>2
<1> HIDE DEF r
<1>6. ValueArrives'
  <2>1. c \in Plain \union {"SET_ANY_PACKET_MODE", "DISABLE_AUTO_SLEEP", "READ_COUNTERS"}
        \/ c \in Confirmations \/ c = "STORE_COUNTER" \/ c \in Worded
    BY <1>3 DEF Cmd, Plain, Worded, Checked, Settings, Packets
  <2>2. c \in Worded => MeterOf(r) = v
    BY <1>4 DEF MeterOf
  <2> QED BY <1>4, <1>5, <2>1, <2>2 DEF ValueArrives, Plain, Confirmations, Worded, Listings
<1>7. DamageIsSeen'
  BY <1>4, <1>5, ChecksumTells DEF DamageIsSeen
<1>8. cmd' \in Cmd[prf]
  BY <1>1 DEF FrameInv, Cmd, Checked, Settings
<1>9. cmd' = c \/ (c = "SET_ANY_PACKET_MODE" /\ cmd' \in Lacking)
  BY <1>1 DEF Lacking
<1>10. ShownIsRead' /\ RefusedForAReason'
  BY <1>2 DEF ShownIsRead, RefusedForAReason
<1>11. rounds' \in 0..MaxRounds /\ frame' \in 0..rounds' /\ frame' < rounds'
  BY <1>2, MeterFramesAssumption DEF FrameInv
<1> QED BY <1>2, <1>4, <1>5, <1>6, <1>7, <1>8, <1>9, <1>10, <1>11 DEF FrameInv

LEMMA ParseCommandStep == ASSUME FrameInv, ParseCommand PROVE FrameInv'
<1>1. PICK command \in {EncodeCommand(c) : c \in Cmd[prf]} :
        /\ cmd' = CHOOSE c \in Cmd[prf] : EncodeCommand(c) = command
        /\ request' = <<Pcmd(cmd'), request[2]>> /\ wish' = [cmd |-> cmd', value |-> -1]
  BY DEF ParseCommand
<1>2. /\ stage = "idle" /\ rounds < MaxRounds
      /\ stage' = "sent" /\ came' = FALSE /\ rounds' = rounds + 1
      /\ UNCHANGED <<prf, frame, parsed, shown, title>>
  BY DEF ParseCommand
<1>3. cmd' \in Cmd[prf]
  BY <1>1
<1>4. Pcmd(cmd') \in 0..4
  BY <1>3 DEF FrameInv, Pcmd, Cmd, Confirmations, Checked, Settings, Listings, Packets, Command
<1>5. request'[1] \in 0..4 /\ request'[2] \in Seq(0..255) /\ wish'.cmd = cmd' /\ wish'.value = -1
  BY <1>1, <1>4 DEF FrameInv
<1>6. ValueArrives' /\ DamageIsSeen' /\ ShownIsRead' /\ RefusedForAReason'
  BY <1>2, <1>5 DEF ValueArrives, DamageIsSeen, ShownIsRead, RefusedForAReason
<1>7. rounds' \in 0..MaxRounds /\ frame' \in 0..rounds' /\ frame' < rounds'
  BY <1>2, MeterFramesAssumption DEF FrameInv
<1> QED BY <1>2, <1>3, <1>5, <1>6, <1>7 DEF FrameInv

LEMMA ParseResponseStep == ASSUME FrameInv, ParseResponse PROVE FrameInv'
<1>1. /\ stage = "sent" /\ frame' = frame + 1 /\ came' = TRUE
      /\ UNCHANGED <<prf, cmd, request, wish, shown, title, rounds>>
      /\ stage' \in {"answered", "refused"}
  BY DEF ParseResponse
<1>2. rounds' \in 0..MaxRounds /\ frame' \in 0..rounds'
  BY <1>1, MeterFramesAssumption DEF FrameInv
<1>3. /\ parsed' \in [Cmd[prf] -> (0..frame') \X (0..255)]
      /\ stage' = "answered" => parsed'[cmd][1] = frame'
  <2>0. parsed \in [Cmd[prf] -> (0..frame) \X (0..255)] /\ cmd \in Cmd[prf] /\ frame \in Nat /\ prf' = prf
    BY <1>1 DEF FrameInv
  <2>1. parsed \in [Cmd[prf] -> (0..frame') \X (0..255)]
    <3>1. \A c \in Cmd[prf] : parsed[c] \in (0..frame') \X (0..255)
      BY <1>1, <2>0
    <3> QED BY <2>0, <3>1
  <2>2. CASE cmd \in Lacking
    BY <2>0, <2>1, <2>2 DEF ParseResponse
  <2>3. CASE cmd \notin Lacking
    <3>1. PICK len \in 0..255 : parsed' = [parsed EXCEPT ![cmd] = <<frame', len>>]
      BY <2>3, MeterFramesAssumption DEF ParseResponse
    <3>2. <<frame', len>> \in (0..frame') \X (0..255)
      BY <1>1, <2>0
    <3> QED BY <2>0, <2>1, <3>1, <3>2
  <2> QED BY <2>2, <2>3
<1>4. ValueArrives' /\ DamageIsSeen' /\ ShownIsRead'
  BY <1>1 DEF ValueArrives, DamageIsSeen, ShownIsRead
<1>5. RefusedForAReason'
  <2>1. stage' = "refused" => cmd \in Lacking
    BY DEF ParseResponse
  <2> QED BY <1>1, <2>1 DEF FrameInv, RefusedForAReason
<1> QED BY <1>1, <1>2, <1>3, <1>4, <1>5 DEF FrameInv

LEMMA NoResponseStep == ASSUME FrameInv, NoResponse PROVE FrameInv'
<1>1. /\ stage' = "answered" /\ stage = "sent"
      /\ UNCHANGED <<prf, cmd, request, wish, frame, came, parsed, shown, title, rounds>>
  BY DEF NoResponse
<1>2. ValueArrives' /\ DamageIsSeen' /\ ShownIsRead' /\ RefusedForAReason'
  BY <1>1 DEF ValueArrives, DamageIsSeen, ShownIsRead, RefusedForAReason
<1> QED BY <1>1, <1>2 DEF FrameInv

LEMMA EncodeResponseStep == ASSUME FrameInv, EncodeResponse PROVE FrameInv'
<1>1. stage = "answered" /\ UNCHANGED <<prf, cmd, request, wish, frame, came, parsed, rounds>>
      /\ stage' \in {"idle", "refused"}
  BY DEF EncodeResponse
<1>2. ValueArrives' /\ DamageIsSeen'
  BY <1>1 DEF ValueArrives, DamageIsSeen
<1>3. RefusedForAReason'
  <2>1. stage' = "refused" => cmd \in Lacking
    BY DEF EncodeResponse
  <2> QED BY <1>1, <2>1 DEF FrameInv, RefusedForAReason
<1>4. ShownIsRead'
  <2>1. CASE cmd \in Lacking
    <3>1. stage' = "refused"
      BY <2>1 DEF EncodeResponse
    <3> QED BY <3>1 DEF ShownIsRead
  <2>2. CASE cmd \notin Lacking
    <3>1. shown' = Encoded(cmd, parsed[cmd][1], parsed[cmd][2]) /\ title' = EncodeCommand(cmd)
      BY <2>2 DEF EncodeResponse, Encoded, Shown
    <3>2. wish'.cmd = cmd /\ cmd' = cmd /\ frame' = frame /\ came' = came
      BY <1>1, <2>2 DEF FrameInv
    <3>3. cmd \in (Cmd["ProtocolBridge"] \union Cmd["Pulsemeter"]) \ Lacking /\ parsed[cmd][2] \in 0..255
      BY <2>2, ZenonT(60) DEF FrameInv, Cmd
    <3>4. came => parsed[cmd][1] = frame
      BY <1>1 DEF FrameInv
    <3> DEFINE of == parsed[cmd][1]
               len == parsed[cmd][2]
    <3> HIDE DEF of, len
    <3>5. /\ \A m \in shown' : m.of = of
          /\ cmd \notin Packets => \A l, m \in shown' : l # m => Taken(l) \intersect Taken(m) = {}
          /\ LeftOut(UNION {Taken(m) : m \in shown'}) = IF cmd = "READ_COUNTERS" THEN {8} ELSE {}
      <4>1. shown' = Encoded(cmd, of, len) /\ len \in 0..255
        BY <3>1, <3>3 DEF of, len
      <4> QED BY <3>3, <4>1, EncodedIsRead
    <3>6. came => of = frame
      BY <3>4 DEF of
    <3> QED BY <3>1, <3>2, <3>5, <3>6 DEF ShownIsRead, Taken, LeftOut
  <2> QED BY <2>1, <2>2
<1>5. stage' # "sent" /\ stage' # "answered"
  BY <1>1
<1> QED BY <1>1, <1>2, <1>3, <1>4, <1>5 DEF FrameInv

LEMMA FrameStep == ASSUME FrameInv, [FrameNext]_frameVars PROVE FrameInv'
<1>1. CASE UNCHANGED frameVars
  BY <1>1, ZenonT(60) DEF frameVars, FrameInv, ValueArrives, DamageIsSeen, ShownIsRead, RefusedForAReason
<1> QED BY <1>1, OrderStep, ParseCommandStep, ParseResponseStep, NoResponseStep, EncodeResponseStep DEF FrameNext

\* What the invariant is for.
LEMMA FrameSound == FrameInv => FrameTypeOK /\ ValueArrives /\ DamageIsSeen /\ ShownIsRead /\ RefusedForAReason
<1> SUFFICES ASSUME FrameInv PROVE FrameTypeOK
  BY DEF FrameInv
<1>1. \A c \in DOMAIN parsed : parsed[c][1] \in 0..frame
  BY DEF FrameInv
<1>2. frame \in 0..MaxRounds
  BY MeterFramesAssumption DEF FrameInv
<1> QED BY <1>1, <1>2 DEF FrameInv, FrameTypeOK

-----------------------------------------------------------------------------
(* The headers.                                                            *)

\* The loop has passed no M-field, and firstBytePos is the last "2D" that it has passed.
HeaderInv ==
    /\ vmbusMsg \in Seq({"2D", "2C", "other"}) /\ step \in {"find", "parse", "send", "sent"}
    /\ place \in 0..Len(vmbusMsg)
    /\ step = "find" =>
         /\ mFieldPos = -1 /\ firstBytePos \in -1..(place - 1)
         /\ \A p \in MFields : p + 1 >= place
         /\ firstBytePos # -1 => vmbusMsg[firstBytePos + 1] = "2D"
         /\ \A p \in (firstBytePos + 1)..(place - 1) : vmbusMsg[p + 1] # "2D"
    /\ step # "find" =>
         \/ MFields = {} /\ mFieldPos = -1
         \/ mFieldPos \in MFields /\ \A p \in MFields : mFieldPos <= p
    /\ step \in {"send", "sent"} =>
         header = [manufacturer |-> Places(mFieldPos, ManufacturerLen),
                   address |-> Places(mFieldPos + 2, AddressLen)]
    /\ step = "sent" =>
         sent = header.manufacturer \union header.address \union Places(0, Len(vmbusMsg))

LEMMA HeaderStarts == HeaderInit => HeaderInv
BY PacketHeadersAssumption DEF HeaderInit, HeaderInv, MFields

\* The loop leaves the first M-field behind only when it has found it.
LEMMA FindStep == ASSUME HeaderInv, GetMFieldPosition PROVE HeaderInv'
<1> DEFINE byte == vmbusMsg[place + 1]
<1>1. /\ vmbusMsg \in Seq({"2D", "2C", "other"}) /\ place \in 0..(Len(vmbusMsg) - 1) /\ Len(vmbusMsg) \in Nat
      /\ mFieldPos = -1 /\ firstBytePos \in -1..(place - 1) /\ step = "find"
      /\ \A p \in MFields : p + 1 >= place
      /\ firstBytePos # -1 => vmbusMsg[firstBytePos + 1] = "2D"
      /\ \A p \in (firstBytePos + 1)..(place - 1) : vmbusMsg[p + 1] # "2D"
      /\ UNCHANGED <<vmbusMsg, header, sent>>
  BY DEF HeaderInv, GetMFieldPosition
<1>2. MFields' = MFields
  BY <1>1 DEF MFields
<1>3. CASE IsMField(byte)
  <2>1. mFieldPos' = firstBytePos /\ step' = "parse" /\ UNCHANGED place
    BY <1>3 DEF GetMFieldPosition
  <2>2. byte = "2C" /\ firstBytePos = place - 1 /\ place # 0
    BY <1>3 DEF IsMField
  <2>3. firstBytePos \in MFields
    BY <1>1, <2>2 DEF MFields
  <2>4. \A p \in MFields : firstBytePos <= p
    BY <1>1, <2>2 DEF MFields
  <2> QED BY <1>1, <1>2, <2>1, <2>3, <2>4 DEF HeaderInv
<1>4. CASE ~IsMField(byte)
  <2>1. /\ firstBytePos' = (IF byte = "2D" THEN place ELSE firstBytePos)
        /\ place' = place + 1 /\ UNCHANGED <<mFieldPos, step>>
    BY <1>4 DEF GetMFieldPosition
  <2>2. \A p \in MFields : p + 1 >= place + 1
    <3> SUFFICES ASSUME NEW p \in MFields, p + 1 = place PROVE FALSE
      BY <1>1 DEF MFields
    <3>1. p \in Int /\ p >= 0 /\ vmbusMsg[p + 1] = "2D" /\ vmbusMsg[place + 1] = "2C"
      BY DEF MFields
    <3>2. firstBytePos = p
      BY <1>1, <3>1
    <3> QED BY <1>1, <1>4, <3>1, <3>2 DEF IsMField
  <2>3. firstBytePos' # -1 => vmbusMsg[firstBytePos' + 1] = "2D"
    BY <1>1, <2>1
  <2>4. \A p \in (firstBytePos' + 1)..place : vmbusMsg[p + 1] # "2D"
    BY <1>1, <2>1
  <2>5. firstBytePos' \in -1..place
    BY <1>1, <2>1
  <2> QED BY <1>1, <1>2, <2>1, <2>2, <2>3, <2>4, <2>5 DEF HeaderInv
<1> QED BY <1>3, <1>4

LEMMA HeaderStep == ASSUME HeaderInv, [HeaderNext]_headerVars PROVE HeaderInv'
<1>1. CASE GetMFieldPosition
  BY <1>1, FindStep
<1>2. CASE NoMField
  <2>1. MFields' = MFields /\ \A p \in MFields : FALSE
    BY <1>2 DEF NoMField, HeaderInv, MFields
  <2> QED BY <1>2, <2>1 DEF NoMField, HeaderInv
<1>3. CASE ParseFullPacketResponse \/ SendDataIntoAzure \/ UNCHANGED headerVars
  BY <1>3 DEF ParseFullPacketResponse, SendDataIntoAzure, headerVars, HeaderInv, MFields
<1> QED BY <1>1, <1>2, <1>3 DEF HeaderNext

\* The places of the header are in the message only if it is long enough behind the M-field.
LEMMA HeaderFound == ASSUME HeaderInv PROVE HeaderIsFound
<1> SUFFICES ASSUME step = "sent"
             PROVE  /\ MFields # {} =>
                         /\ \A p \in MFields : mFieldPos <= p
                         /\ mFieldPos \in MFields
                         /\ header.manufacturer = {mFieldPos, mFieldPos + 1}
                    /\ MFields = {} => mFieldPos = -1
                    /\ (\E p \in sent : p \notin Places(0, Len(vmbusMsg))) <=>
                         MFields = {} \/ mFieldPos + ManufacturerLen + AddressLen > Len(vmbusMsg)
  BY DEF HeaderIsFound
<1>1. /\ Len(vmbusMsg) \in Nat
      /\ \/ MFields = {} /\ mFieldPos = -1
         \/ mFieldPos \in MFields /\ \A p \in MFields : mFieldPos <= p
  BY DEF HeaderInv
<1>2. header.manufacturer = Places(mFieldPos, 2) /\ header.address = Places(mFieldPos + 2, 6)
  BY DEF HeaderInv, ManufacturerLen, AddressLen
<1>3. sent = Places(mFieldPos, 2) \union Places(mFieldPos + 2, 6) \union Places(0, Len(vmbusMsg))
  BY <1>2 DEF HeaderInv
<1>4. mFieldPos \in Int /\ (MFields # {} => mFieldPos >= 0)
  BY <1>1 DEF MFields
<1>5. header.manufacturer = {mFieldPos, mFieldPos + 1}
  BY <1>2, <1>4 DEF Places
<1>6. ASSUME MFields = {} PROVE \E p \in sent : p \notin Places(0, Len(vmbusMsg))
  <2>1. -1 \in sent /\ -1 \notin Places(0, Len(vmbusMsg))
    BY <1>1, <1>3, <1>6 DEF Places
  <2> QED BY <2>1
<1>7. ASSUME mFieldPos + 2 + 6 > Len(vmbusMsg), MFields # {} PROVE \E p \in sent : p \notin Places(0, Len(vmbusMsg))
  <2>1. mFieldPos + 7 \in sent /\ mFieldPos + 7 \notin Places(0, Len(vmbusMsg))
    BY <1>1, <1>3, <1>4, <1>7 DEF Places
  <2> QED BY <2>1
<1>8. ASSUME NEW p \in sent, p \notin Places(0, Len(vmbusMsg)), MFields # {} PROVE mFieldPos + 2 + 6 > Len(vmbusMsg)
  BY <1>1, <1>3, <1>4, <1>8 DEF Places
<1> QED BY <1>1, <1>5, <1>6, <1>7, <1>8 DEF ManufacturerLen, AddressLen

-----------------------------------------------------------------------------
\* Whatever commands, responses and failures there are: the device reads the value that was
\* given and detects a changed byte; the answer names the command that was asked for, all of
\* it is of the last response and of places that no two members share; only the commands that
\* nobody parses are refused; and the header that is published is the first of the message.
THEOREM FramesTrue == FrameSpec /\ HeaderSpec => []FramesAreTrue
<1>1. FrameSpec => []FrameInv
  BY FrameStarts, FrameStep, PTL DEF FrameSpec
<1>2. HeaderSpec => []HeaderInv
  BY HeaderStarts, HeaderStep, PTL DEF HeaderSpec
<1>3. FrameInv /\ HeaderInv => FramesAreTrue
  BY FrameSound, HeaderFound DEF FramesAreTrue
<1> QED BY <1>1, <1>2, <1>3, PTL
=============================================================================
