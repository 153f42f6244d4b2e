------------------------- MODULE PacketFramingProofs -------------------------
(***************************************************************************)
(* Proofs about PacketFraming for any number of packets, any layout of     *)
(* each, any size of readbuf that takes the SUBACK, and any division of    *)
(* the stream into records.                                                *)
(***************************************************************************)
EXTENDS PacketFraming, TLAPS

(***************************************************************************)
(* The inductive invariant.  FrameInv says for every mqttread how far into *)
(* its packet readPacket is; SettledInv that the packets before it, and no *)
(* others, have their fate; SubInv how far the subscription is.            *)
(***************************************************************************)
OrderInv ==
    /\ ~Before(end, at)
    /\ place = "length" => count < MaxLengthBytes

FrameInv ==
    ~lost /\ place # "down" =>
       /\ packet.length = "whole"
       /\ place = "header" => at.offset = 0
       /\ place = "length" => at.offset = count + 1 /\ at.offset < HeaderBytes(at.packet)
       /\ place = "body" => at.offset = HeaderBytes(at.packet)
       /\ place \in {"length", "body"} => packet.type = TypeOf(at.packet) /\ at.packet < Packets
       /\ ~InBody(end)

SettledInv ==
    ~lost /\ place # "down" =>
       \A k \in 0 .. Packets - 1 : fate[k] # "unread" <=> k < at.packet

SubInv ==
    ~lost /\ place # "down" /\ ~gaveUp =>
       /\ isconnected
       /\ at.packet <= suback => mode = "MQTTSubscribe"
       /\ at.packet > suback /\ granted => handler
       /\ \A k \in 0 .. Packets - 1 : fate[k] = "dropped" => k < suback \/ ~granted

IInv == TypeOK /\ OrderInv /\ FrameInv /\ SettledInv /\ SubInv

ClientTypes ==
    /\ place \in {"header", "length", "body", "down"}
    /\ mode \in {"MQTTSubscribe", "MQTTYield"}
    /\ isconnected \in BOOLEAN /\ handler \in BOOLEAN /\ gaveUp \in BOOLEAN

\* After a failure the connection is given up, or the subscription is.
Failed ==
    /\ handler' \in {handler, FALSE}
    /\ place' = "down" \/ (place' = "header" /\ gaveUp')

LEMMA PositionIs ==
    ASSUME NEW q
    PROVE  q \in Position <=>
              \/ q = Start(Packets)
              \/ \E k \in 0 .. Packets - 1 : \E o \in 0 .. Size(k) - 1 :
                    q = [packet |-> k, offset |-> o]
<1>1. ASSUME NEW k
      PROVE  q \in [packet : {k}, offset : 0 .. Size(k) - 1] <=>
                \E o \in 0 .. Size(k) - 1 : q = [packet |-> k, offset |-> o]
  OBVIOUS
<1> QED
  BY <1>1 DEF Position

LEMMA LayoutNumbers ==
    ASSUME TypeOK
    PROVE  /\ Packets \in Nat /\ Packets > 0
           /\ \A k \in 0 .. Packets - 1 :
                 /\ layout[k].length \in 1 .. 4 /\ layout[k].body \in Nat /\ layout[k].body > 0
                 /\ HeaderBytes(k) \in Nat /\ HeaderBytes(k) = 1 + layout[k].length
                 /\ Size(k) \in Nat /\ Size(k) = HeaderBytes(k) + layout[k].body
<1>1. \A k \in 0 .. Packets - 1 : layout[k] \in [length : 1 .. 4, body : Nat \ {0}]
  BY LayoutAssumption DEF TypeOK
<1>2. ASSUME NEW k \in 0 .. Packets - 1
      PROVE  layout[k].length \in 1 .. 4 /\ layout[k].body \in Nat /\ layout[k].body > 0
  BY <1>1
<1> QED
  BY <1>2, LayoutAssumption DEF HeaderBytes, Size

\* A place is a byte of a packet, or behind them all.
LEMMA PlaceNumbers ==
    ASSUME TypeOK, NEW q \in Position
    PROVE  /\ q.packet \in Nat /\ q.offset \in Nat /\ q.packet <= Packets
           /\ q = [packet |-> q.packet, offset |-> q.offset]
           /\ q.packet < Packets => q.offset < Size(q.packet)
           /\ q.packet = Packets => q.offset = 0
<1>1. CASE q = Start(Packets)
  BY <1>1, LayoutNumbers DEF Start
<1>2. ASSUME NEW k \in 0 .. Packets - 1, NEW o \in 0 .. Size(k) - 1,
             q = [packet |-> k, offset |-> o]
      PROVE  q.packet = k /\ q.offset = o /\ k \in Nat /\ o \in Nat /\ k < Packets /\ o < Size(k)
  BY <1>2, LayoutNumbers
<1> QED
  BY <1>1, <1>2, PositionIs, LayoutNumbers

\* The first byte of a packet is a place, and so is the end of the last one.
LEMMA StartsArePlaces ==
    ASSUME TypeOK, NEW k \in 0 .. Packets
    PROVE  Start(k) \in Position
<1>1. CASE k = Packets
  BY <1>1, PositionIs
<1>2. CASE k # Packets
  <2>1. k \in 0 .. Packets - 1
    BY <1>2, LayoutNumbers
  <2>2. 0 \in 0 .. Size(k) - 1
    BY <2>1, LayoutNumbers
  <2> QED
    BY <2>1, <2>2, PositionIs DEF Start
<1> QED
  BY <1>1, <1>2

\* One byte is there when the record is not used up.
LEMMA NextByte ==
    ASSUME TypeOK, OrderInv, Bytes
    PROVE  /\ ~Before(end, Skip(at, 1)) /\ Before(at, end)
           /\ at.packet < Packets /\ Skip(at, 1) \in Position
<1>1. at \in Position /\ end \in Position
  BY DEF TypeOK
<1>2. /\ at.packet \in Nat /\ at.offset \in Nat /\ at.packet <= Packets
      /\ at.packet < Packets => at.offset < Size(at.packet)
      /\ at.packet = Packets => at.offset = 0
      /\ end.packet \in Nat /\ end.offset \in Nat /\ end.packet <= Packets
      /\ end.packet < Packets => end.offset < Size(end.packet)
      /\ end.packet = Packets => end.offset = 0
  BY <1>1, PlaceNumbers
<1>3. at.packet # end.packet \/ at.offset # end.offset
  BY <1>1, PlaceNumbers DEF Bytes
<1>4. Before(at, end)
  BY <1>2, <1>3 DEF OrderInv, Before
<1>5. at.packet \in 0 .. Packets - 1
  BY <1>2, <1>4, LayoutNumbers DEF Before
<1>6. Size(at.packet) \in Nat /\ Packets \in Nat
  BY <1>5, LayoutNumbers
<1>7. CASE at.offset + 1 < Size(at.packet)
  <2>1. Skip(at, 1) = [packet |-> at.packet, offset |-> at.offset + 1]
    BY <1>7 DEF Skip
  <2>2. at.offset + 1 \in 0 .. Size(at.packet) - 1
    BY <1>2, <1>6, <1>7
  <2>3. Skip(at, 1) \in Position
    BY <1>5, <2>1, <2>2, PositionIs
  <2>4. ~Before(end, Skip(at, 1))
    BY <1>2, <1>4, <2>1 DEF Before
  <2> QED
    BY <1>4, <1>5, <1>6, <2>3, <2>4
<1>8. CASE ~(at.offset + 1 < Size(at.packet))
  <2>1. Skip(at, 1) = Start(at.packet + 1)
    BY <1>8 DEF Skip
  <2>2. end.packet # at.packet
    BY <1>2, <1>4, <1>5, <1>6, <1>8 DEF Before
  <2>3. ~Before(end, Skip(at, 1))
    BY <1>2, <1>4, <2>1, <2>2 DEF Before, Start
  <2>4. Skip(at, 1) \in Position
    BY <1>5, <1>6, <2>1, StartsArePlaces
  <2> QED
    BY <1>4, <1>5, <1>6, <2>3, <2>4
<1> QED
  BY <1>7, <1>8

\* A body that is in the record ends at a place of the stream.
LEMMA BodyInRecord ==
    ASSUME TypeOK, ~Before(end, Behind)
    PROVE  Behind \in Position
<1>1. at.packet \in Nat /\ end.packet \in Nat /\ end.packet <= Packets /\ Packets \in Nat
  BY PlaceNumbers, LayoutNumbers DEF TypeOK
<1>2. at.packet + 1 \in 0 .. Packets
  BY <1>1 DEF Before, Behind, Start
<1> QED
  BY <1>2, StartsArePlaces DEF Behind

LEMMA FailsClient ==
    ASSUME TypeOK, CycleFails
    PROVE  ClientTypes' /\ Failed
BY DEF CycleFails, SubscribeFails, CloseSession, TypeOK, ClientTypes, Failed

LEMMA GoesOnClient ==
    ASSUME TypeOK, CycleGoesOn
    PROVE  /\ ClientTypes'
           /\ Failed \/ (place' = "header" /\ UNCHANGED client)
BY FailsClient DEF CycleGoesOn, TypeOK, ClientTypes, client

LEMMA SubackClient ==
    ASSUME TypeOK, NEW given \in BOOLEAN, CycleSuback(given)
    PROVE  /\ ClientTypes'
           /\ \/ Failed
              \/ /\ place' = "header" /\ mode' = "MQTTYield"
                 /\ handler' = (handler \/ (mode = "MQTTSubscribe" /\ given))
                 /\ UNCHANGED <<isconnected, gaveUp>>
BY FailsClient DEF CycleSuback, TypeOK, ClientTypes

LEMMA ForgedClient ==
    ASSUME TypeOK, CycleForged
    PROVE  ClientTypes'
<1>1. packet.type \in Types
  BY DEF TypeOK
<1>2. CASE packet.type \in {"PUBLISH", "other"}
  BY <1>2, GoesOnClient DEF CycleForged, Types
<1>3. CASE packet.type = "SUBACK"
  BY <1>3, SubackClient DEF CycleForged, Types
<1>4. CASE packet.type = "release"
  BY <1>4, GoesOnClient, FailsClient DEF CycleForged, Types
<1>5. CASE packet.type = "unknown"
  BY <1>5 DEF CycleForged, CycleUnknown, CloseSession, Types, TypeOK, ClientTypes
<1> QED
  BY <1>1, <1>2, <1>3, <1>4, <1>5 DEF Types

LEMMA WholeClient ==
    ASSUME TypeOK, CycleWhole
    PROVE  /\ ClientTypes'
           /\ fate' \in [0 .. Packets - 1 -> {"unread", "read", "delivered", "dropped"}]
<1>1. CASE packet.type = "SUBACK"
  BY <1>1, SubackClient DEF CycleWhole, TypeOK
<1>2. CASE packet.type # "SUBACK"
  BY <1>2, GoesOnClient DEF CycleWhole, TypeOK
<1> QED
  BY <1>1, <1>2

-----------------------------------------------------------------------------
LEMMA FirstPlace ==
    ASSUME layout \in [0 .. Packets - 1 -> Layouts]
    PROVE  Start(0) \in Position
<1>1. 0 \in 0 .. Packets - 1
  BY LayoutAssumption
<1>2. layout[0] \in [length : 1 .. 4, body : Nat \ {0}]
  BY <1>1, LayoutAssumption
<1>3. 0 \in 0 .. Size(0) - 1
  BY <1>2 DEF Size, HeaderBytes
<1> QED
  BY <1>1, <1>3, PositionIs DEF Start

LEMMA FirstPlaceNext ==
    ASSUME layout' \in [0 .. Packets - 1 -> Layouts]
    PROVE  Start(0) \in Position'
<1>1. 0 \in 0 .. Packets - 1
  BY LayoutAssumption
<1>2. layout'[0] \in [length : 1 .. 4, body : Nat \ {0}]
  BY <1>1, LayoutAssumption
<1>3. Size(0)' = (1 + layout'[0].length) + layout'[0].body
  BY DEF Size, HeaderBytes
<1>4. 0 \in 0 .. Size(0)' - 1
  BY <1>2, <1>3
<1>5. Start(0) \in [packet : {0}, offset : 0 .. Size(0)' - 1]
  BY <1>4 DEF Start
<1> QED
  BY <1>1, <1>5 DEF Position

LEMMA TypesHold == Init => TypeOK /\ OrderInv
<1> SUFFICES ASSUME Init PROVE TypeOK /\ OrderInv
  OBVIOUS
<1>1. Packets \in Nat /\ Packets > 0
  BY LayoutAssumption
<1>2. Start(0) \in Position
  BY FirstPlace DEF Init
<1>3. /\ packet \in [type : Types, length : Lengths]
      /\ fate \in [0 .. Packets - 1 -> {"unread", "read", "delivered", "dropped"}]
  BY DEF Init, Types, Lengths
<1>4. /\ at \in Position /\ end \in Position /\ count \in 0 .. MaxLengthBytes
      /\ place \in {"header", "length", "body", "down"} /\ open \in BOOLEAN
  BY <1>2 DEF Init, MaxLengthBytes
<1>5. /\ mode \in {"MQTTSubscribe", "MQTTYield"}
      /\ isconnected \in BOOLEAN /\ handler \in BOOLEAN
      /\ suback \in 0 .. Packets - 1 /\ granted \in BOOLEAN
      /\ layout \in [0 .. Packets - 1 -> Layouts]
      /\ lost \in BOOLEAN /\ gaveUp \in BOOLEAN
  BY DEF Init
<1>6. TypeOK
  BY <1>3, <1>4, <1>5 DEF TypeOK
<1>7. OrderInv
  BY <1>1 DEF Init, OrderInv, Before, Start
<1> QED
  BY <1>6, <1>7

LEMMA TypesKept == TypeOK /\ OrderInv /\ [Next]_vars => TypeOK'
<1> SUFFICES ASSUME TypeOK, OrderInv, [Next]_vars PROVE TypeOK'
  OBVIOUS
<1>0. layout' = layout => Position' = Position
  BY DEF Position, Size, HeaderBytes, Start
<1>1. CASE ReadHeader
  <2>1. at' \in Position
    BY <1>1, NextByte DEF ReadHeader
  <2>2. packet' \in [type : Types, length : Lengths]
    BY <1>1 DEF ReadHeader, TypeOf, Types, Lengths
  <2> QED
    BY <1>0, <1>1, <2>1, <2>2 DEF ReadHeader, TypeOK, client, answer, MaxLengthBytes
<1>2. CASE ReadLength
  <2>1. at' \in Position
    BY <1>2, NextByte DEF ReadLength
  <2>2. place' \in {"length", "body"}
    BY <1>2 DEF ReadLength
  <2>3. count' \in 0 .. MaxLengthBytes
    BY <1>2 DEF ReadLength, TypeOK, OrderInv, MaxLengthBytes
  <2> QED
    BY <1>0, <1>2, <2>1, <2>2, <2>3 DEF ReadLength, TypeOK, client, answer
<1>3. CASE ReadBody
  <2>1. at' \in Position
    BY <1>3, BodyInRecord DEF ReadBody
  <2>2. /\ ClientTypes'
        /\ fate' \in [0 .. Packets - 1 -> {"unread", "read", "delivered", "dropped"}]
    BY <1>3, WholeClient DEF ReadBody
  <2> QED
    BY <1>0, <1>3, <2>1, <2>2 DEF ReadBody, TypeOK, ClientTypes, answer
<1>4. CASE ReadBodyShort
  <2>1. ClientTypes'
    BY <1>4, GoesOnClient DEF ReadBodyShort
  <2> QED
    BY <1>0, <1>4, <2>1 DEF ReadBodyShort, TypeOK, ClientTypes, answer
<1>5. CASE ReadBodyAstray
  <2>1. ClientTypes'
    BY <1>5, GoesOnClient, FailsClient, ForgedClient DEF ReadBodyAstray
  <2>2. at' \in Position
    BY <1>5 DEF ReadBodyAstray, TypeOK
  <2> QED
    BY <1>0, <1>5, <2>1, <2>2 DEF ReadBodyAstray, TypeOK, ClientTypes, answer
<1>6. CASE ReadComesBackEmpty
  <2>1. /\ ClientTypes'
        /\ packet' \in [type : Types, length : Lengths]
    <3>1. CASE place = "header"
      BY <1>6, <3>1, GoesOnClient, FailsClient DEF ReadComesBackEmpty, TypeOK
    <3>2. CASE place = "length"
      BY <1>6, <3>2 DEF ReadComesBackEmpty, TypeOK, ClientTypes, client, Lengths
    <3>3. CASE place = "body"
      BY <1>6, <3>3, GoesOnClient DEF ReadComesBackEmpty, TypeOK
    <3> QED
      BY <1>6, <3>1, <3>2, <3>3 DEF ReadComesBackEmpty, TypeOK
  <2>2. lost' \in BOOLEAN
    BY <1>6 DEF ReadComesBackEmpty, TypeOK
  <2> QED
    BY <1>0, <1>6, <2>1, <2>2 DEF ReadComesBackEmpty, TypeOK, ClientTypes, stream, answer
<1>7. CASE SubscribeTimesOut
  BY <1>0, <1>7 DEF SubscribeTimesOut, SubscribeFails, TypeOK, stream, answer
<1>8. CASE Reconnect
  <2>1. Start(0) \in Position'
    BY <1>8, FirstPlaceNext DEF Reconnect
  <2>2. /\ packet' \in [type : Types, length : Lengths]
        /\ fate' \in [0 .. Packets - 1 -> {"unread", "read", "delivered", "dropped"}]
    BY <1>8 DEF Reconnect, Types, Lengths
  <2>3. count' \in 0 .. MaxLengthBytes
    BY <1>8 DEF Reconnect, MaxLengthBytes
  <2> QED
    BY <1>0, <1>8, <2>1, <2>2, <2>3 DEF Reconnect, TypeOK
<1>9. CASE RecordArrives
  BY <1>0, <1>9 DEF RecordArrives, TypeOK, reader, client, answer
<1>10. CASE PeerCloses
  BY <1>0, <1>10 DEF PeerCloses, TypeOK, reader, client, answer
<1>11. CASE UNCHANGED vars
  BY <1>0, <1>11 DEF vars, reader, stream, client, answer, TypeOK
<1>12. CASE ReadRefused
  <2>1. ClientTypes'
    BY <1>12, FailsClient DEF ReadRefused
  <2>2. lost' \in BOOLEAN
    BY <1>12 DEF ReadRefused, TypeOK
  <2> QED
    BY <1>0, <1>12, <2>1, <2>2 DEF ReadRefused, TypeOK, ClientTypes, stream, answer
<1> QED
  BY <1>1, <1>2, <1>3, <1>4, <1>5, <1>6, <1>7, <1>8, <1>9, <1>10, <1>11, <1>12
  DEF Next, MqttTask, ReadPacket

LEMMA OrderKept == TypeOK /\ OrderInv /\ [Next]_vars => OrderInv'
<1> SUFFICES ASSUME TypeOK, OrderInv, [Next]_vars PROVE OrderInv'
  OBVIOUS
<1>0. /\ at.packet \in Nat /\ at.offset \in Nat /\ end.packet \in Nat /\ end.offset \in Nat
      /\ Packets \in Nat
  BY PlaceNumbers, LayoutNumbers DEF TypeOK
<1>1. CASE ReadHeader
  BY <1>1, NextByte DEF ReadHeader, OrderInv, MaxLengthBytes
<1>2. CASE ReadLength
  BY <1>2, NextByte DEF ReadLength, OrderInv
<1>3. CASE ReadBody
  <2>1. place' # "length"
    BY <1>3, WholeClient, GoesOnClient, SubackClient DEF ReadBody, CycleWhole, Failed, TypeOK
  <2> QED
    BY <1>3, <2>1 DEF ReadBody, OrderInv
<1>4. CASE ReadBodyShort
  <2>1. place' # "length"
    BY <1>4, GoesOnClient DEF ReadBodyShort, Failed
  <2> QED
    BY <1>0, <1>4, <2>1 DEF ReadBodyShort, OrderInv, Before
<1>5. CASE ReadBodyAstray
  <2>1. place' # "length"
    <3>1. CycleFails \/ CycleGoesOn \/ CycleForged
      BY <1>5 DEF ReadBodyAstray
    <3>2. CycleFails \/ CycleGoesOn => place' # "length"
      BY GoesOnClient, FailsClient DEF Failed
    <3>3. CycleForged => \/ CycleFails \/ CycleGoesOn \/ CycleUnknown
                         \/ \E given \in BOOLEAN : CycleSuback(given)
      BY DEF CycleForged, TypeOK, Types
    <3> QED
      BY <3>1, <3>2, <3>3, SubackClient DEF CycleUnknown, Failed
  <2>2. ~Before(end, at')
    BY <1>0, <1>5 DEF ReadBodyAstray, OrderInv, Before
  <2> QED
    BY <1>5, <2>1, <2>2 DEF ReadBodyAstray, OrderInv
<1>6. CASE ReadComesBackEmpty
  <2>1. place' # "length"
    BY <1>6, GoesOnClient, FailsClient DEF ReadComesBackEmpty, Failed, TypeOK
  <2> QED
    BY <1>6, <2>1 DEF ReadComesBackEmpty, OrderInv, stream
<1>7. CASE SubscribeTimesOut
  BY <1>7 DEF SubscribeTimesOut, SubscribeFails, OrderInv, stream
<1>8. CASE Reconnect
  BY <1>0, <1>8, LayoutAssumption DEF Reconnect, OrderInv, Before, Start
<1>9. CASE RecordArrives
  <2> PICK q \in Position : Before(end, q) /\ end' = q
    BY <1>9 DEF RecordArrives
  <2>1. q.packet \in Nat /\ q.offset \in Nat
    BY PlaceNumbers
  <2>2. ~Before(q, at)
    BY <1>0, <2>1 DEF OrderInv, Before
  <2> QED
    BY <1>9, <2>2 DEF RecordArrives, OrderInv, reader
<1>10. CASE PeerCloses
  BY <1>10 DEF PeerCloses, OrderInv, reader
<1>11. CASE UNCHANGED vars
  BY <1>11 DEF vars, reader, stream, OrderInv
<1>12. CASE ReadRefused
  <2>1. place' # "length"
    BY <1>12, FailsClient DEF ReadRefused, Failed
  <2> QED
    BY <1>12, <2>1 DEF ReadRefused, OrderInv, stream
<1> QED
  BY <1>1, <1>2, <1>3, <1>4, <1>5, <1>6, <1>7, <1>8, <1>9, <1>10, <1>11, <1>12
  DEF Next, MqttTask, ReadPacket

-----------------------------------------------------------------------------
\* Inside the record and at its own place, readPacket is where FrameInv says.
LEMMA FrameNumbers ==
    ASSUME TypeOK
    PROVE  /\ Packets \in Nat /\ Packets > 0
           /\ at.packet \in Nat /\ at.offset \in Nat
           /\ end.packet \in Nat /\ end.offset \in Nat
           /\ suback \in Nat /\ count \in Nat
BY PlaceNumbers, LayoutNumbers DEF TypeOK

\* While the frame holds, one byte does not end a packet, and no record ends in the
\* body that is read.
LEMMA FrameSteps ==
    ASSUME TypeOK, OrderInv, FrameInv, ~lost, place # "down"
    PROVE  /\ place \in {"header", "length"} /\ Bytes =>
                 /\ Skip(at, 1).packet = at.packet
                 /\ Skip(at, 1).offset = at.offset + 1
           /\ place = "body" /\ Bytes => ~Before(end, Behind)
           /\ Bytes => at.packet \in 0 .. Packets - 1
<1> USE FrameNumbers
<1>1. Bytes => at.packet \in 0 .. Packets - 1 /\ Before(at, end)
  BY NextByte
<1>2. ASSUME place \in {"header", "length"}, Bytes
      PROVE  Skip(at, 1) = [packet |-> at.packet, offset |-> at.offset + 1]
  <2>1. /\ HeaderBytes(at.packet) \in Nat /\ HeaderBytes(at.packet) > 1
        /\ Size(at.packet) \in Nat /\ HeaderBytes(at.packet) < Size(at.packet)
    BY <1>1, <1>2, LayoutNumbers
  <2>2. at.offset < HeaderBytes(at.packet)
    BY <1>2, <2>1 DEF FrameInv
  <2> QED
    BY <2>1, <2>2 DEF Skip
<1>3. ASSUME place = "body", Bytes
      PROVE  ~Before(end, Behind)
  <2>1. at.offset = HeaderBytes(at.packet) /\ ~InBody(end)
    BY <1>3 DEF FrameInv
  <2>2. end.packet <= Packets
    BY PlaceNumbers DEF TypeOK
  <2>3. end.packet # at.packet
    BY <1>1, <1>3, <2>1, <2>2 DEF InBody, Before
  <2> QED
    BY <1>1, <1>3, <2>3 DEF Before, Behind, Start
<1> QED
  BY <1>1, <1>2, <1>3

\* While the frame holds, the actions that read at a wrong place do not occur.
LEMMA NothingAstray ==
    ASSUME TypeOK, OrderInv, FrameInv, ~lost
    PROVE  ~ReadBodyShort /\ ~ReadBodyAstray
BY FrameSteps DEF ReadBodyShort, BodyIsRead, ReadBodyAstray, FrameInv

\* cycle() with a whole packet leaves readPacket at a header, or the connection.
LEMMA WholeEnds ==
    ASSUME TypeOK, CycleWhole
    PROVE  place' \in {"header", "down"}
BY GoesOnClient, SubackClient DEF CycleWhole, Failed, TypeOK

\* A refused packet leaves the stream to a new connection or to a client that is lost.
LEMMA RefusedEnds ==
    ASSUME TypeOK, ReadRefused
    PROVE  lost' \/ (~lost /\ place' = "down")
<1>1. place' = "down" \/ place' = "header"
  BY FailsClient DEF ReadRefused, Failed
<1> QED
  BY <1>1 DEF ReadRefused, TypeOK

LEMMA FrameKept ==
    ASSUME TypeOK, OrderInv, FrameInv, [Next]_vars
    PROVE  FrameInv'
<1> SUFFICES ASSUME ~lost', place' # "down"
             PROVE  /\ packet'.length = "whole"
                    /\ place' = "header" => at'.offset = 0
                    /\ place' = "length" => at'.offset = count' + 1 /\ at'.offset < HeaderBytes(at.packet)'
                    /\ place' = "body" => at'.offset = HeaderBytes(at.packet)'
                    /\ place' \in {"length", "body"} =>
                          packet'.type = TypeOf(at.packet)' /\ at'.packet < Packets
                    /\ ~InBody(end)'
  BY DEF FrameInv
<1> USE FrameNumbers
<1>0. ASSUME layout' = layout
      PROVE  /\ HeaderBytes(at.packet)' = 1 + layout[at'.packet].length
             /\ end' = end => InBody(end)' = InBody(end)
  BY <1>0 DEF HeaderBytes, InBody
<1>1. CASE ReadHeader
  <2>1. ~lost /\ place = "header"
    BY <1>1 DEF ReadHeader
  <2>2. at.offset = 0 /\ ~InBody(end)
    BY <2>1 DEF FrameInv
  <2>3. at'.packet = at.packet /\ at'.offset = 1 /\ at.packet \in 0 .. Packets - 1
    BY <1>1, <2>1, <2>2, FrameSteps DEF ReadHeader
  <2>4. packet' = [type |-> TypeOf(at.packet), length |-> "whole"]
    BY <1>1, <2>2 DEF ReadHeader
  <2>5. suback' = suback /\ layout' = layout
    BY <1>1 DEF ReadHeader, answer
  <2>6. layout[at.packet].length \in 1 .. 4
    BY <2>3, LayoutNumbers
  <2> QED
    BY <1>0, <1>1, <2>2, <2>3, <2>4, <2>5, <2>6 DEF ReadHeader, TypeOf
<1>2. CASE ReadLength
  <2>1. ~lost /\ place = "length"
    BY <1>2 DEF ReadLength
  <2>2. /\ packet.length = "whole" /\ at.offset = count + 1
        /\ at.offset < HeaderBytes(at.packet)
        /\ packet.type = TypeOf(at.packet) /\ at.packet \in 0 .. Packets - 1
        /\ ~InBody(end)
    BY <2>1 DEF FrameInv
  <2>3. at'.packet = at.packet /\ at'.offset = at.offset + 1
    BY <1>2, <2>1, FrameSteps DEF ReadLength
  <2>4. place' = IF at.offset < layout[at.packet].length /\ count + 1 < MaxLengthBytes
                 THEN "length" ELSE "body"
    BY <1>2, <2>2 DEF ReadLength
  <2>5. layout[at.packet].length \in 1 .. 4 /\ HeaderBytes(at.packet) = 1 + layout[at.packet].length
    BY <2>2, LayoutNumbers
  <2>6. at.offset < layout[at.packet].length => count + 1 < MaxLengthBytes
    BY <2>2, <2>5 DEF MaxLengthBytes
  <2>7. suback' = suback /\ layout' = layout
    BY <1>2 DEF ReadLength, answer
  <2> QED
    BY <1>0, <1>2, <2>2, <2>3, <2>4, <2>5, <2>6, <2>7 DEF ReadLength, TypeOf
<1>3. CASE ReadBody
  <2>1. ~lost /\ place = "body" /\ layout' = layout
    BY <1>3 DEF ReadBody, BodyIsRead, answer
  <2>2. at' = Start(at.packet + 1)
    BY <1>3 DEF ReadBody, Behind
  <2>3. place' = "header"
    BY <1>3, WholeEnds DEF ReadBody
  <2> QED
    BY <1>0, <1>3, <2>1, <2>2, <2>3 DEF ReadBody, FrameInv, Start
<1>4. CASE ReadBodyShort
  BY <1>4, NothingAstray DEF ReadBodyShort
<1>5. CASE ReadBodyAstray
  BY <1>5, NothingAstray DEF ReadBodyAstray
<1>6. CASE ReadComesBackEmpty
  <2>1. ~lost /\ place = "header"
    BY <1>6 DEF ReadComesBackEmpty, TypeOK
  <2>2. place' = "header" /\ packet' = packet
    BY <1>6, <2>1, GoesOnClient, FailsClient DEF ReadComesBackEmpty, Failed
  <2> QED
    BY <1>0, <1>6, <2>1, <2>2 DEF ReadComesBackEmpty, FrameInv, stream, answer
<1>7. CASE SubscribeTimesOut
  BY <1>0, <1>7 DEF SubscribeTimesOut, SubscribeFails, FrameInv, stream, answer
<1>8. CASE Reconnect
  <2>1. layout'[0] \in [length : 1 .. 4, body : Nat \ {0}]
    BY <1>8, LayoutAssumption DEF Reconnect
  <2>2. layout'[0].length \in 1 .. 4
    BY <2>1
  <2>3. ~InBody(end)'
    BY <1>8, <2>2 DEF Reconnect, InBody, HeaderBytes, Start
  <2> QED
    BY <1>8, <2>3 DEF Reconnect, Start
<1>9. CASE RecordArrives
  <2> PICK q \in Position : end' = q /\ lost' = (lost \/ InBody(q))
    BY <1>9 DEF RecordArrives
  <2>1. ~lost /\ ~InBody(q)
    BY Zenon
  <2>2. layout' = layout /\ ~lost /\ place # "down"
    BY <1>9, <2>1 DEF RecordArrives, answer
  <2>3. ~InBody(end)'
    BY <2>1, <2>2 DEF InBody, HeaderBytes
  <2> QED
    BY <1>0, <1>9, <2>2, <2>3 DEF RecordArrives, FrameInv, reader, answer, TypeOf, HeaderBytes
<1>10. CASE PeerCloses
  BY <1>0, <1>10 DEF PeerCloses, FrameInv, reader, answer, TypeOf, HeaderBytes
<1>11. CASE UNCHANGED vars
  BY <1>0, <1>11 DEF vars, reader, stream, answer, FrameInv, TypeOf, HeaderBytes
<1>12. CASE ReadRefused
  BY <1>12, RefusedEnds DEF ReadRefused
<1> QED
  BY <1>1, <1>2, <1>3, <1>4, <1>5, <1>6, <1>7, <1>8, <1>9, <1>10, <1>11, <1>12
  DEF Next, MqttTask, ReadPacket

LEMMA SettledKept ==
    ASSUME TypeOK, OrderInv, FrameInv, SettledInv, [Next]_vars
    PROVE  SettledInv'
<1> SUFFICES ASSUME ~lost', place' # "down", NEW k \in 0 .. Packets - 1
             PROVE  fate'[k] # "unread" <=> k < at'.packet
  BY DEF SettledInv
<1> USE FrameNumbers
<1>1. CASE ReadHeader
  <2>1. ~lost /\ place = "header" /\ fate' = fate
    BY <1>1 DEF ReadHeader
  <2>2. at'.packet = at.packet
    BY <1>1, <2>1, FrameSteps DEF ReadHeader
  <2> QED
    BY <2>1, <2>2 DEF SettledInv
<1>2. CASE ReadLength
  <2>1. ~lost /\ place = "length" /\ fate' = fate
    BY <1>2 DEF ReadLength
  <2>2. at'.packet = at.packet
    BY <1>2, <2>1, FrameSteps DEF ReadLength
  <2> QED
    BY <2>1, <2>2 DEF SettledInv
<1>3. CASE ReadBody
  <2>1. ~lost /\ place = "body"
    BY <1>3 DEF ReadBody, BodyIsRead
  <2>2. at'.packet = at.packet + 1
    BY <1>3 DEF ReadBody, Behind, Start
  <2>3. \E f \in {"read", "delivered", "dropped"} : fate' = [fate EXCEPT ![at.packet] = f]
    BY <1>3 DEF ReadBody, CycleWhole
  <2>4. fate \in [0 .. Packets - 1 -> {"unread", "read", "delivered", "dropped"}]
    BY DEF TypeOK
  <2>5. fate'[k] # "unread" <=> k = at.packet \/ fate[k] # "unread"
    BY <2>3, <2>4
  <2>6. fate[k] # "unread" <=> k < at.packet
    BY <2>1 DEF SettledInv
  <2> QED
    BY <2>2, <2>5, <2>6
<1>4. CASE ReadBodyShort
  BY <1>4, NothingAstray DEF ReadBodyShort
<1>5. CASE ReadBodyAstray
  BY <1>5, NothingAstray DEF ReadBodyAstray
<1>6. CASE ReadComesBackEmpty
  BY <1>6 DEF ReadComesBackEmpty, SettledInv, stream
<1>7. CASE SubscribeTimesOut
  BY <1>7 DEF SubscribeTimesOut, SettledInv, stream
<1>8. CASE Reconnect
  BY <1>8 DEF Reconnect, Start
<1>9. CASE RecordArrives
  BY <1>9 DEF RecordArrives, SettledInv
<1>10. CASE PeerCloses
  BY <1>10 DEF PeerCloses, SettledInv
<1>11. CASE UNCHANGED vars
  BY <1>11 DEF vars, reader, stream, SettledInv
<1>12. CASE ReadRefused
  BY <1>12, RefusedEnds DEF ReadRefused
<1> QED
  BY <1>1, <1>2, <1>3, <1>4, <1>5, <1>6, <1>7, <1>8, <1>9, <1>10, <1>11, <1>12
  DEF Next, MqttTask, ReadPacket

\* The subscription is as far as the packets that were read say.
LEMMA SubKept ==
    ASSUME TypeOK, OrderInv, FrameInv, SubInv, [Next]_vars
    PROVE  SubInv'
<1> SUFFICES ASSUME ~lost', place' # "down", ~gaveUp'
             PROVE  /\ isconnected'
                    /\ at'.packet <= suback' => mode' = "MQTTSubscribe"
                    /\ at'.packet > suback' /\ granted' => handler'
                    /\ \A k \in 0 .. Packets - 1 :
                          fate'[k] = "dropped" => k < suback' \/ ~granted'
  BY DEF SubInv
<1> USE FrameNumbers
<1>1. CASE ReadHeader
  <2>1. ~lost /\ place = "header" /\ UNCHANGED <<fate, client, answer>>
    BY <1>1 DEF ReadHeader
  <2>2. at'.packet = at.packet
    BY <1>1, <2>1, FrameSteps DEF ReadHeader
  <2> QED
    BY <2>1, <2>2 DEF SubInv, client, answer
<1>2. CASE ReadLength
  <2>1. ~lost /\ place = "length" /\ UNCHANGED <<fate, client, answer>>
    BY <1>2 DEF ReadLength
  <2>2. at'.packet = at.packet
    BY <1>2, <2>1, FrameSteps DEF ReadLength
  <2> QED
    BY <2>1, <2>2 DEF SubInv, client, answer
<1>3. CASE ReadBody
  <2>1. ~lost /\ place = "body" /\ suback' = suback /\ granted' = granted
    BY <1>3 DEF ReadBody, BodyIsRead, answer
  <2>2. at'.packet = at.packet + 1 /\ packet.type = TypeOf(at.packet)
    BY <1>3, <2>1 DEF ReadBody, Behind, Start, FrameInv
  <2>3. fate \in [0 .. Packets - 1 -> {"unread", "read", "delivered", "dropped"}]
    BY DEF TypeOK
  <2>4. CASE packet.type = "SUBACK"
    <3>1. at.packet = suback
      BY <2>2, <2>4 DEF TypeOf
    <3>2. CycleSuback(granted) /\ fate' = [fate EXCEPT ![at.packet] = "read"]
      BY <1>3, <2>4 DEF ReadBody, CycleWhole
    <3>3. ~Failed /\ granted \in BOOLEAN
      BY DEF Failed, TypeOK
    <3>4. /\ mode' = "MQTTYield" /\ isconnected' = isconnected /\ gaveUp' = gaveUp
          /\ handler' = (handler \/ (mode = "MQTTSubscribe" /\ granted))
      BY <3>2, <3>3, SubackClient
    <3>5. isconnected /\ mode = "MQTTSubscribe"
      BY <2>1, <3>1, <3>4 DEF SubInv
    <3>6. \A k \in 0 .. Packets - 1 : fate'[k] = "dropped" => fate[k] = "dropped"
      BY <2>3, <3>2
    <3>7. ~(at'.packet <= suback')
      BY <2>1, <2>2, <3>1
    <3>8. granted' => handler'
      BY <2>1, <3>4, <3>5
    <3>9. \A k \in 0 .. Packets - 1 : fate'[k] = "dropped" => k < suback' \/ ~granted'
      BY <2>1, <3>4, <3>6 DEF SubInv
    <3> QED
      BY <3>4, <3>5, <3>7, <3>8, <3>9
  <2>5. CASE packet.type # "SUBACK"
    <3>1. at.packet # suback
      BY <2>2, <2>5 DEF TypeOf
    <3>2. /\ CycleGoesOn
          /\ fate' = [fate EXCEPT ![at.packet] = IF handler THEN "delivered" ELSE "dropped"]
      BY <1>3, <2>5 DEF ReadBody, CycleWhole
    <3>3. UNCHANGED client
      BY <3>2, GoesOnClient DEF Failed
    <3>4. \A k \in 0 .. Packets - 1 :
             fate'[k] = "dropped" => fate[k] = "dropped" \/ (k = at.packet /\ ~handler)
      BY <2>3, <3>2
    <3> QED
      BY <2>1, <2>2, <3>1, <3>3, <3>4 DEF SubInv, client
  <2> QED
    BY <2>4, <2>5
<1>4. CASE ReadBodyShort
  BY <1>4, NothingAstray DEF ReadBodyShort
<1>5. CASE ReadBodyAstray
  BY <1>5, NothingAstray DEF ReadBodyAstray
<1>6. CASE ReadComesBackEmpty
  <2>1. ~lost /\ place = "header"
    BY <1>6 DEF ReadComesBackEmpty, TypeOK
  <2>2. UNCHANGED client
    BY <1>6, <2>1, GoesOnClient, FailsClient DEF ReadComesBackEmpty, Failed
  <2> QED
    BY <1>6, <2>1, <2>2 DEF ReadComesBackEmpty, SubInv, stream, answer, client
<1>7. CASE SubscribeTimesOut
  BY <1>7 DEF SubscribeTimesOut, SubscribeFails
<1>8. CASE Reconnect
  <2>1. suback' \in Nat
    BY <1>8 DEF Reconnect
  <2> QED
    BY <1>8, <2>1 DEF Reconnect, Start
<1>9. CASE RecordArrives
  BY <1>9 DEF RecordArrives, SubInv, client, answer, reader
<1>10. CASE PeerCloses
  BY <1>10 DEF PeerCloses, SubInv, client, answer, reader
<1>11. CASE UNCHANGED vars
  BY <1>11 DEF vars, reader, stream, client, answer, SubInv
<1>12. CASE ReadRefused
  BY <1>12, RefusedEnds DEF ReadRefused
<1> QED
  BY <1>1, <1>2, <1>3, <1>4, <1>5, <1>6, <1>7, <1>8, <1>9, <1>10, <1>11, <1>12
  DEF Next, MqttTask, ReadPacket

LEMMA Inductive == Spec => []IInv
<1>1. Init => IInv
  <2> SUFFICES ASSUME Init PROVE IInv
    OBVIOUS
  <2>1. TypeOK /\ OrderInv
    BY TypesHold
  <2>2. FrameInv
    <3>1. HeaderBytes(0) \in Nat
      BY <2>1, LayoutNumbers
    <3>2. ~InBody(end)
      BY <3>1 DEF Init, InBody, Start
    <3> QED
      BY <2>1, <3>2, FrameNumbers DEF Init, FrameInv, Start
  <2>3. SettledInv
    BY DEF Init, SettledInv, Start
  <2>4. SubInv
    BY <2>1, FrameNumbers DEF Init, SubInv, Start
  <2> QED
    BY <2>1, <2>2, <2>3, <2>4 DEF IInv
<1>2. IInv /\ [Next]_vars => IInv'
  BY TypesKept, OrderKept, FrameKept, SettledKept, SubKept DEF IInv
<1> QED
  BY <1>1, <1>2, PTL DEF Spec

-----------------------------------------------------------------------------
(***************************************************************************)
(* The theorems                                                            *)
(***************************************************************************)
\* Types of every variable.
THEOREM FramingTypes == Spec => []TypeOK
BY Inductive, PTL DEF IInv

\* Until the stream is cut inside a packet or a refused body is left in it, readPacket
\* begins at a packet's first byte, and the packets before it are settled and no others
\* (MQTTClient.c:112).
THEOREM FramingKept == Spec => []BoundaryKept
<1>1. IInv => BoundaryKept
  BY DEF IInv, FrameInv, SettledInv, BoundaryKept
<1> QED
  BY <1>1, Inductive, PTL

\* Until then no PUBLISH behind the SUBACK of a granted subscription misses the
\* handler (MQTTClient.c:575).
THEOREM FramingDrops == Spec => []DropsOnlyBeforeSuback
<1>1. IInv => DropsOnlyBeforeSuback
  BY DEF IInv, SubInv, DropsOnlyBeforeSuback
<1> QED
  BY <1>1, Inductive, PTL

\* Until then the session lasts, unless MQTTSubscribe has failed (MQTTClient.c:267).
THEOREM FramingSession == Spec => []SessionSurvives
<1>1. IInv => SessionSurvives
  BY DEF IInv, SubInv, SessionSurvives
<1> QED
  BY <1>1, Inductive, PTL

\* Every mqttread of readPacket is a step of PacketChannel, or a stutter.
THEOREM FramingRefines == Spec => ImplementsPacketChannel
<1>1. Init => Channel!Init
  BY DEF Init, Channel!Init, Channel!Fresh, Start
<1>2. IInv /\ [Next]_vars => [Channel!Next]_Channel!channelVars
  <2> SUFFICES ASSUME IInv, [Next]_vars, ~lost'
               PROVE  Channel!Next \/ UNCHANGED <<at.packet, handler, fate, lost>>
    BY DEF Channel!Next, Channel!Break, Channel!channelVars
  <2> USE FrameNumbers DEF IInv
  <2>1. CASE ReadHeader
    BY <2>1, FrameSteps DEF ReadHeader, client
  <2>2. CASE ReadLength
    BY <2>2, FrameSteps DEF ReadLength, client
  <2>3. CASE ReadBody
    <3>1. ~lost /\ place = "body" /\ at.packet < Packets
      BY <2>3 DEF ReadBody, BodyIsRead, FrameInv
    <3>2. at'.packet = at.packet + 1
      BY <2>3 DEF ReadBody, Behind, Start
    <3>3. CASE packet.type = "SUBACK"
      <4>1. fate' = [fate EXCEPT ![at.packet] = "read"] /\ handler' \in BOOLEAN
        BY <2>3, <3>3, TypesKept DEF ReadBody, CycleWhole, TypeOK
      <4>2. Channel!HandleSuback
        BY <3>1, <3>2, <4>1 DEF Channel!HandleSuback, Channel!Settle
      <4> QED
        BY <4>2 DEF Channel!Next
    <3>4. CASE packet.type # "SUBACK"
      <4>1. /\ fate' = [fate EXCEPT ![at.packet] = IF handler THEN "delivered" ELSE "dropped"]
            /\ handler' \in {handler, FALSE}
        BY <2>3, <3>4, GoesOnClient DEF ReadBody, CycleWhole, Failed, client
      <4>2. Channel!HandlePublish
        BY <3>1, <3>2, <4>1 DEF Channel!HandlePublish, Channel!Settle
      <4> QED
        BY <4>2 DEF Channel!Next
    <3> QED
      BY <3>3, <3>4
  <2>4. CASE ReadBodyShort
    BY <2>4, NothingAstray DEF ReadBodyShort
  <2>5. CASE ReadBodyAstray
    BY <2>5, NothingAstray DEF ReadBodyAstray
  <2>6. CASE ReadComesBackEmpty
    <3>1. ~lost /\ place = "header" /\ UNCHANGED <<stream, fate>>
      BY <2>6 DEF ReadComesBackEmpty, TypeOK
    <3>2. handler' \in {handler, FALSE}
      BY <2>6, <3>1, GoesOnClient, FailsClient DEF ReadComesBackEmpty, Failed, client
    <3>3. lost' = lost
      BY <2>6, <3>1 DEF ReadComesBackEmpty, TypeOK
    <3> QED
      BY <3>1, <3>2, <3>3 DEF Channel!Next, Channel!LoseSession, stream
  <2>7. CASE SubscribeTimesOut
    BY <2>7 DEF SubscribeTimesOut, SubscribeFails, stream, Channel!Next, Channel!LoseSession
  <2>8. CASE Reconnect
    BY <2>8 DEF Reconnect, Start, Channel!Next, Channel!Reconnect, Channel!Fresh
  <2>9. CASE RecordArrives
    <3>1. ~lost /\ lost' \in BOOLEAN /\ lost \in BOOLEAN
      BY <2>9, TypesKept DEF RecordArrives, TypeOK
    <3> QED
      BY <2>9, <3>1 DEF RecordArrives, client
  <2>10. CASE PeerCloses
    BY <2>10 DEF PeerCloses, client
  <2>11. CASE UNCHANGED vars
    BY <2>11 DEF vars, stream, client
  <2>12. CASE ReadRefused
    <3>1. ~lost /\ ~lost' /\ lost \in BOOLEAN /\ lost' \in BOOLEAN /\ place' = "down"
      BY <2>12, RefusedEnds, TypesKept DEF TypeOK
    <3>2. handler' \in {handler, FALSE}
      BY <2>12, FailsClient DEF ReadRefused, Failed
    <3> QED
      BY <2>12, <3>1, <3>2 DEF ReadRefused, stream, Channel!Next, Channel!LoseSession
  <2> QED
    BY <2>1, <2>2, <2>3, <2>4, <2>5, <2>6, <2>7, <2>8, <2>9, <2>10, <2>11, <2>12
    DEF Next, MqttTask, ReadPacket
<1> QED
  BY <1>1, <1>2, Inductive, PTL DEF Spec, ImplementsPacketChannel, Channel!Spec
=============================================================================
