---------------------------- MODULE PacketFraming ----------------------------
(***************************************************************************)
(* readPacket, decodePacket, deliverMessage and the end of cycle() over    *)
(* the bytes of the broker.  TLS_NetworkRead is one mbedtls_ssl_read, which *)
(* returns no more than what is left of the current TLS record, and 0 when *)
(* no record comes in time; so a packet may arrive in pieces.  A byte is   *)
(* its place in the stream: a packet is a type byte, the bytes of its      *)
(* length and its body, which may be longer than readbuf can take.  The    *)
(* broker answers the MQTTSubscribe in progress by packet number suback,   *)
(* all others are PUBLISH of the subscribed topic; PINGRESP, which has no  *)
(* body, is left out, and so is time.  Bytes read at a wrong place can     *)
(* mean anything.                                                          *)
(***************************************************************************)
EXTENDS Integers

CONSTANTS Packets, Layouts, ReadbufSize

Fits(l) == 1 + l.length + l.body <= ReadbufSize

\* The SUBACK always fits: readbuf has 2048 bytes (mqtt.c:32).
ASSUME LayoutAssumption ==
    /\ Packets \in Nat /\ Packets > 0
    /\ Layouts \subseteq [length : 1 .. 4, body : Nat \ {0}]
    /\ ReadbufSize \in Nat /\ \E l \in Layouts : Fits(l)

VARIABLES
    place,        \* the mqttread readPacket is at; "down" between connections
    packet,       \* the packet being read: its type, and how true its length is
    count,        \* length bytes decodePacket has read
    at,           \* the next byte of the stream
    end,          \* the end of the TLS record, "at" when it is used up
    open,         \* the peer has not closed the connection
    mode,         \* the call that runs cycle()
    isconnected,
    handler,      \* messageHandlers holds the handler of the subscription
    fate,         \* what became of each packet
    suback, granted,  \* the broker's answer to the subscription
    layout,       \* of each packet the broker sends on this connection
    lost,         \* ghost: a body crosses a record, a read ended in a packet, or
                  \* a body that readbuf cannot take was left in the stream
    gaveUp        \* ghost: MQTTSubscribe has failed

reader == <<place, packet, count>>
stream == <<at, end, open>>
client == <<mode, isconnected, handler, gaveUp>>
answer == <<suback, granted, layout>>
vars == <<reader, stream, client, answer, fate, lost>>

\* Mutant: one byte of length is all decodePacket reads.
OneLengthByte == 1

MaxLengthBytes == 4  \* MAX_NO_OF_REMAINING_LENGTH_BYTES
HeaderBytes(k) == 1 + layout[k].length
Size(k) == HeaderBytes(k) + layout[k].body

Start(k) == [packet |-> k, offset |-> 0]

\* The bytes of all packets, and the place behind the last.
Position ==
    {Start(Packets)}
    \cup UNION {[packet : {k}, offset : 0 .. Size(k) - 1] : k \in 0 .. Packets - 1}

Before(p, q) == p.packet < q.packet \/ (p.packet = q.packet /\ p.offset < q.offset)

InBody(p) == p.packet < Packets /\ p.offset > HeaderBytes(p.packet)

\* Mutant: the stream is one long packet.
SkipUnbounded(p, n) == [packet |-> p.packet, offset |-> p.offset + n]

\* The place n bytes behind p, in its packet or right behind that.
Skip(p, n) == IF p.offset + n < Size(p.packet)
              THEN [packet |-> p.packet, offset |-> p.offset + n]
              ELSE Start(p.packet + 1)

Behind == Start(at.packet + 1)  \* the packet readPacket is at

\* The types cycle() tells apart: "other" needs no more than keepalive(),
\* "release" (PUBREC, PUBREL) an acknowledgement, "unknown" is its default.
Types == {"PUBLISH", "SUBACK", "other", "release", "unknown"}
TypeOf(k) == IF k = suback THEN "SUBACK" ELSE "PUBLISH"

\* rem_len is the packet's own, zero, or what bytes at a wrong place say.
Lengths == {"whole", "zero", "any"}

TypeOK ==
    /\ place \in {"header", "length", "body", "down"}
    /\ packet \in [type : Types, length : Lengths] /\ count \in 0 .. MaxLengthBytes
    /\ at \in Position /\ end \in Position /\ open \in BOOLEAN
    /\ mode \in {"MQTTSubscribe", "MQTTYield"}
    /\ isconnected \in BOOLEAN /\ handler \in BOOLEAN
    /\ fate \in [0 .. Packets - 1 -> {"unread", "read", "delivered", "dropped"}]
    /\ suback \in 0 .. Packets - 1 /\ granted \in BOOLEAN
    /\ layout \in [0 .. Packets - 1 -> Layouts]
    /\ lost \in BOOLEAN /\ gaveUp \in BOOLEAN

\* MQTTConnect has succeeded and the SUBSCRIBE packet is sent.
Init ==
    /\ place = "header" /\ packet = [type |-> "other", length |-> "whole"] /\ count = 0
    /\ at = Start(0) /\ end = Start(0) /\ open = TRUE
    /\ mode = "MQTTSubscribe" /\ isconnected = TRUE /\ handler = FALSE
    /\ fate = [k \in 0 .. Packets - 1 |-> "unread"]
    /\ suback \in 0 .. Packets - 1 /\ granted \in BOOLEAN
    /\ layout \in [0 .. Packets - 1 -> Layouts] /\ Fits(layout[suback])
    /\ lost = FALSE /\ gaveUp = FALSE

-----------------------------------------------------------------------------
(***************************************************************************)
(* The end of cycle().  A failure closes the session if there is one; what *)
(* the caller makes of it depends on the call: MQTT_Cycle goes on after a  *)
(* failed MQTTSubscribe and disconnects after a failed MQTTYield.          *)
(***************************************************************************)
\* MQTTCloseSession, whose cleansession drops the handlers, as cycle() calls it.
CloseSession ==
    /\ isconnected' = FALSE
    /\ handler' = IF isconnected THEN FALSE ELSE handler

SubscribeFails ==
    /\ place' = "header" /\ mode' = "MQTTYield" /\ gaveUp' = TRUE
    /\ isconnected' = FALSE /\ handler' = FALSE

CycleFails ==
    IF mode = "MQTTSubscribe" THEN SubscribeFails
    ELSE place' = "down" /\ CloseSession /\ UNCHANGED <<mode, gaveUp>>

\* Mutant: a read that times out is taken for the end of the session.
CycleClosesOnZero ==
    \/ place' = "header" /\ CloseSession /\ UNCHANGED <<mode, gaveUp>>
    \/ CycleFails

\* Mutant: waitfor ends with any packet.
CycleEndsWait ==
    \/ place' = "header" /\ mode' = "MQTTYield" /\ UNCHANGED <<isconnected, handler, gaveUp>>
    \/ CycleFails

\* Mutant: MQTTSubscribe takes any packet for its SUBACK.
CycleInstalls ==
    \/ place' = "header" /\ handler' = TRUE /\ UNCHANGED <<mode, isconnected, gaveUp>>
    \/ CycleFails

\* readPacket has returned 0, or a packet that needs nothing more than
\* keepalive(), which may fail.
CycleGoesOn ==
    \/ place' = "header" /\ UNCHANGED client
    \/ CycleFails

\* cycle() returns SUBACK; waitfor ends, and MQTTSubscribeWithResults installs the
\* handler when the broker has granted the subscription.
CycleSuback(given) ==
    \/ /\ place' = "header" /\ mode' = "MQTTYield"
       /\ handler' = (handler \/ (mode = "MQTTSubscribe" /\ given))
       /\ UNCHANGED <<isconnected, gaveUp>>
    \/ CycleFails

\* The default branch: the type is the result, and positive, so the caller goes on.
CycleUnknown == place' = "header" /\ CloseSession /\ UNCHANGED <<mode, gaveUp>>

\* The packet readPacket has read is not the one that was sent: a length that
\* has not arrived is 0, and both Deserialize calls then return 1.
CycleForged ==
    CASE packet.type \in {"PUBLISH", "other"} -> CycleGoesOn
      [] packet.type = "SUBACK"  -> \E given \in BOOLEAN :
                                        /\ packet.length = "zero" => given
                                        /\ CycleSuback(given)
      [] packet.type = "release" -> CycleGoesOn \/ CycleFails
      [] packet.type = "unknown" -> CycleUnknown

\* cycle() with the whole packet: deliverMessage finds the handler or, since there
\* is no default handler, nobody.
CycleWhole ==
    IF packet.type = "SUBACK"
    THEN CycleSuback(granted) /\ fate' = [fate EXCEPT ![at.packet] = "read"]
    ELSE /\ CycleGoesOn
         /\ fate' = [fate EXCEPT ![at.packet] = IF handler THEN "delivered" ELSE "dropped"]

-----------------------------------------------------------------------------
(***************************************************************************)
(* readPacket, one action for each mqttread                                *)
(***************************************************************************)
Bytes == at # end

ReadHeader ==
    /\ place = "header" /\ Bytes
    /\ \E t \in IF at.offset = 0 THEN {TypeOf(at.packet)} ELSE Types :
          packet' = [type |-> t, length |-> IF at.offset = 0 THEN "whole" ELSE "any"]
    /\ place' = "length" /\ count' = 0 /\ at' = Skip(at, 1)
    /\ UNCHANGED <<end, open, client, answer, fate, lost>>

\* One turn of decodePacket.
ReadLength ==
    /\ place = "length" /\ Bytes
    /\ \E more \in IF packet.length = "whole" THEN {at.offset < layout[at.packet].length} ELSE BOOLEAN :
          place' = IF more /\ count + 1 < MaxLengthBytes THEN "length" ELSE "body"
    /\ count' = count + 1 /\ at' = Skip(at, 1)
    /\ UNCHANGED <<packet, end, open, client, answer, fate, lost>>

\* The body does not fit into readbuf: MQTT_BUFFER_OVERFLOW.  It stays in the stream,
\* and a client that has only given up its subscription goes on to read it.
ReadRefused ==
    /\ place = "body" /\ packet.length = "whole" /\ ~Fits(layout[at.packet])
    /\ CycleFails
    /\ lost' = (lost \/ place' = "header")
    /\ UNCHANGED <<packet, count, stream, answer, fate>>

\* The packet at a body that fits.
BodyIsRead == place = "body" /\ packet.length = "whole" /\ Fits(layout[at.packet])

\* The record holds the body.
ReadBody ==
    /\ BodyIsRead /\ ~Before(end, Behind)
    /\ at' = Behind
    /\ CycleWhole
    /\ UNCHANGED <<packet, count, end, open, answer, lost>>

\* The record ends in the body: mqttread returns less than rem_len, readPacket 0.
ReadBodyShort ==
    /\ BodyIsRead /\ Bytes /\ Before(end, Behind)
    /\ at' = end
    /\ CycleGoesOn
    /\ UNCHANGED <<packet, count, end, open, answer, fate, lost>>

\* A wrong rem_len: too long for readbuf, zero, or some bytes that are there.
ReadBodyAstray ==
    /\ place = "body" /\ packet.length # "whole"
    /\ \/ packet.length = "any" /\ CycleFails /\ at' = at
       \/ CycleForged /\ at' = at
       \/ /\ packet.length = "any" /\ Bytes
          /\ at' \in Position /\ Before(at, at')
          /\ \/ ~Before(end, at') /\ CycleForged
             \/ at' = end /\ CycleGoesOn
    /\ UNCHANGED <<packet, count, end, open, answer, fate, lost>>

\* mqttread returns 0, or -1 when the peer has closed.  Only the first one of a
\* packet tells the caller; decodePacket leaves the length as far as it is.
ReadComesBackEmpty ==
    /\ ~Bytes /\ place # "down"
    /\ CASE place = "header" -> (IF open THEN CycleGoesOn ELSE CycleFails) /\ packet' = packet
         [] place = "length" ->
               /\ place' = "body" /\ UNCHANGED client
               /\ packet' = [packet EXCEPT !.length = IF count = 0 THEN "zero" ELSE "any"]
         [] place = "body"   ->
               /\ packet.length = "any" \/ BodyIsRead
               /\ CycleGoesOn /\ packet' = packet
    /\ lost' = (lost \/ place # "header")
    /\ UNCHANGED <<count, stream, answer, fate>>

\* waitfor finds its timer expired.
SubscribeTimesOut ==
    /\ mode = "MQTTSubscribe" /\ place = "header"
    /\ SubscribeFails
    /\ UNCHANGED <<packet, count, stream, answer, fate, lost>>

\* MQTT_Cycle disconnects, connects and subscribes again.
Reconnect ==
    /\ place = "down" /\ place' = "header" /\ count' = 0
    /\ packet' = [type |-> "other", length |-> "whole"]
    /\ at' = Start(0) /\ end' = Start(0) /\ open' = TRUE
    /\ mode' = "MQTTSubscribe" /\ isconnected' = TRUE /\ handler' = FALSE
    /\ fate' = [k \in 0 .. Packets - 1 |-> "unread"]
    /\ suback' \in 0 .. Packets - 1 /\ granted' \in BOOLEAN
    /\ layout' \in [0 .. Packets - 1 -> Layouts] /\ Fits(layout'[suback'])
    /\ lost' = FALSE /\ gaveUp' = FALSE

-----------------------------------------------------------------------------
(***************************************************************************)
(* The broker and the connection                                           *)
(***************************************************************************)
\* The next TLS record, with any number of the bytes that follow.
RecordArrives ==
    /\ ~Bytes /\ open /\ place # "down"
    /\ \E q \in Position :
          /\ Before(end, q) /\ end' = q
          /\ lost' = (lost \/ InBody(q))
    /\ UNCHANGED <<reader, at, open, client, answer, fate>>

PeerCloses ==
    /\ open /\ place # "down" /\ open' = FALSE
    /\ UNCHANGED <<reader, at, end, client, answer, fate, lost>>

-----------------------------------------------------------------------------
ReadPacket ==
    \/ ReadHeader \/ ReadLength \/ ReadRefused \/ ReadBody \/ ReadBodyShort
    \/ ReadBodyAstray \/ ReadComesBackEmpty

MqttTask == ReadPacket \/ SubscribeTimesOut \/ Reconnect

Next == MqttTask \/ RecordArrives \/ PeerCloses

Spec == Init /\ [][Next]_vars

-----------------------------------------------------------------------------
(***************************************************************************)
(* Properties                                                              *)
(***************************************************************************)
\* As long as every record ends before or after a body, no read ends inside a packet
\* and no body that readbuf refuses comes before the SUBACK, readPacket begins at the first byte of a packet and has settled all the
\* packets before it and none behind.
BoundaryKept ==
    ~lost /\ place # "down" =>
        /\ place = "header" => at.offset = 0
        /\ \A k \in 0 .. Packets - 1 : fate[k] # "unread" <=> k < at.packet

\* A PUBLISH read whole finds no handler only if the broker has sent it before the
\* SUBACK, has refused the subscription, or the client has given it up.
DropsOnlyBeforeSuback ==
    ~lost /\ place # "down" =>
        \A k \in 0 .. Packets - 1 :
            fate[k] = "dropped" => k < suback \/ ~granted \/ gaveUp

\* MQTTYield does not go on without a session unless MQTTSubscribe has failed or
\* the boundary is lost: bytes taken for an unknown type end the session while
\* the connection stays.
SessionSurvives ==
    place # "down" /\ ~lost /\ ~gaveUp => isconnected

\* readPacket over pieces is a receipt of whole packets.
Channel == INSTANCE PacketChannel WITH next <- at.packet, broken <- lost

ImplementsPacketChannel == Channel!Spec
=============================================================================
