---------------------------- MODULE PahoClientProofs ----------------------------
(***************************************************************************)
(* Proofs about PahoClient for any keep-alive interval, command time-out   *)
(* shorter than it, and watchdog period.                                   *)
(***************************************************************************)
EXTENDS PahoClient, TLAPS

(***************************************************************************)
(* The inductive invariant.  A command ends before any timer expires       *)
(* (CommandInv), so pings are sent by MQTTYield only.  last_received holds *)
(* what is left of the interval since the last packet; past it, the time   *)
(* is bounded by what ping_outstanding and isconnected allow (SilenceInv). *)
(***************************************************************************)
CommandInv ==
    /\ place \in {"MQTTConnect", "MQTTSubscribe"} =>
          /\ c.last_sent >= KeepAlive - CommandTimeout + timer
          /\ c.last_received >= KeepAlive - CommandTimeout + timer
    /\ place \in {"MQTTConnect", "connected", "MQTTSubscribe"} =>
          ~c.ping_outstanding /\ answer["PINGRESP"] = "none"
    /\ place # "down" => c.last_sent > 0
    /\ place = "connected" => c.last_received = KeepAlive

SilenceInv ==
    place # "down" =>
       /\ c.last_received > 0 => silence + c.last_received = KeepAlive
       /\ c.last_received = 0 =>
             \/ silence = KeepAlive /\ (c.ping_outstanding \/ ~c.isconnected)
             \/ silence = KeepAlive + 1 /\ c.ping_outstanding /\ ~c.isconnected

IInv == TypeOK /\ CommandInv /\ SilenceInv /\ OutstandingPing

Results == [ok : BOOLEAN, client : Client, pings : BOOLEAN]

\* A client with other field values is a client.
LEMMA ClientFields ==
    ASSUME NEW d \in Client
    PROVE  /\ d.isconnected \in BOOLEAN /\ d.ping_outstanding \in BOOLEAN
           /\ d.last_sent \in 0 .. KeepAlive /\ d.last_received \in 0 .. KeepAlive
           /\ MQTTCloseSession(d) \in Client /\ Sent(d) \in Client
           /\ ~MQTTCloseSession(d).isconnected /\ ~MQTTCloseSession(d).ping_outstanding
           /\ MQTTCloseSession(d).last_received = d.last_received
           /\ MQTTCloseSession(d).last_sent = d.last_sent
           /\ Sent(d).last_sent = KeepAlive /\ Sent(d).last_received = d.last_received
           /\ Sent(d).isconnected = d.isconnected
           /\ Sent(d).ping_outstanding = d.ping_outstanding
<1>1. KeepAlive \in 0 .. KeepAlive
  BY TimesAssumption
<1>2. /\ d.isconnected \in BOOLEAN /\ d.ping_outstanding \in BOOLEAN
      /\ d.last_sent \in 0 .. KeepAlive /\ d.last_received \in 0 .. KeepAlive
  BY DEF Client
<1>3. MQTTCloseSession(d) \in Client /\ Sent(d) \in Client
  BY <1>1 DEF Client, MQTTCloseSession, Sent
<1>4. /\ ~MQTTCloseSession(d).isconnected /\ ~MQTTCloseSession(d).ping_outstanding
      /\ MQTTCloseSession(d).last_received = d.last_received
      /\ MQTTCloseSession(d).last_sent = d.last_sent
  BY DEF Client, MQTTCloseSession
<1>5. /\ Sent(d).last_sent = KeepAlive /\ Sent(d).last_received = d.last_received
      /\ Sent(d).isconnected = d.isconnected
      /\ Sent(d).ping_outstanding = d.ping_outstanding
  BY DEF Client, Sent
<1> QED
  BY <1>2, <1>3, <1>4, <1>5

\* What keepalive() returns.
LEMMA KeepaliveResults ==
    ASSUME NEW d \in Client, NEW r \in keepalive(d)
    PROVE  /\ r \in Results
           /\ r.client.last_received = d.last_received
           /\ r.client.isconnected = d.isconnected
           /\ ~Expired(d) => r.ok /\ ~r.pings /\ r.client = d
           /\ Expired(d) /\ r.ok => /\ r.pings /\ ~d.ping_outstanding
                                    /\ r.client.ping_outstanding
                                    /\ r.client.last_sent = KeepAlive
           /\ ~r.ok => ~r.pings /\ Expired(d) /\ (alive => d.ping_outstanding)
<1> DEFINE ping == [d EXCEPT !.ping_outstanding = TRUE, !.last_sent = KeepAlive]
<1>1. ping \in Client /\ ping.last_received = d.last_received
      /\ ping.isconnected = d.isconnected /\ ping.ping_outstanding
      /\ ping.last_sent = KeepAlive
  <2>1. KeepAlive \in 0 .. KeepAlive
    BY TimesAssumption
  <2>2. ping \in Client
    BY <2>1 DEF Client
  <2>3. ping.last_received = d.last_received /\ ping.isconnected = d.isconnected
    BY DEF Client
  <2>4. ping.ping_outstanding /\ ping.last_sent = KeepAlive
    BY DEF Client
  <2> QED
    BY <2>2, <2>3, <2>4
<1>2. \A ok \in BOOLEAN, e \in Client, p \in BOOLEAN :
         /\ Result(ok, e, p) \in Results
         /\ Result(ok, e, p).ok = ok /\ Result(ok, e, p).client = e /\ Result(ok, e, p).pings = p
  BY DEF Result, Results
<1> HIDE DEF ping
<1>3. CASE ~Expired(d)
  <2>1. r = Result(TRUE, d, FALSE)
    BY <1>3 DEF keepalive
  <2> QED
    BY <1>2, <1>3, <2>1
<1>4. CASE Expired(d) /\ d.ping_outstanding
  <2>1. r = Result(FALSE, d, FALSE)
    BY <1>4 DEF keepalive
  <2> QED
    BY <1>2, <1>4, <2>1
<1>5. CASE Expired(d) /\ ~d.ping_outstanding
  <2>1. r = Result(TRUE, ping, TRUE) \/ (~alive /\ r = Result(FALSE, d, FALSE))
    BY <1>5 DEF keepalive, ping
  <2>2. CASE r = Result(TRUE, ping, TRUE)
    <3>1. r \in Results /\ r.ok = TRUE /\ r.client = ping /\ r.pings = TRUE
      BY <1>1, <1>2, <2>2
    <3> QED
      BY <1>1, <1>5, <3>1
  <2>3. CASE ~alive /\ r = Result(FALSE, d, FALSE)
    <3>1. r \in Results /\ r.ok = FALSE /\ r.client = d /\ r.pings = FALSE
      BY <1>2, <2>3
    <3> QED
      BY <1>5, <2>3, <3>1
  <2> QED
    BY <2>1, <2>2, <2>3
<1> QED
  BY <1>3, <1>4, <1>5

\* What cycle() returns: the same, and a failure leaves no session.
LEMMA CycleResults ==
    ASSUME NEW d \in Client, NEW r \in cycle(d)
    PROVE  /\ r \in Results /\ r.client \in Client /\ r.ok \in BOOLEAN /\ r.pings \in BOOLEAN
           /\ r.client.last_received = d.last_received
           /\ r.ok => r.client.isconnected = d.isconnected
           /\ ~Expired(d) => r.ok /\ ~r.pings /\ r.client = d
           /\ Expired(d) /\ r.ok => /\ r.pings /\ ~d.ping_outstanding
                                    /\ r.client.ping_outstanding
                                    /\ r.client.last_sent = KeepAlive
           /\ ~r.ok => ~r.pings /\ Expired(d) /\ (alive => d.ping_outstanding)
<1>1. PICK k \in keepalive(d) : r = Exit(k)
  BY DEF cycle
<1>2. k \in Results /\ k.client \in Client
  BY KeepaliveResults DEF Results
<1>3. CASE k.ok \/ ~k.client.isconnected
  <2>1. r = k
    BY <1>1, <1>3 DEF Exit
  <2> QED
    BY <1>2, <2>1, KeepaliveResults DEF Results
<1>4. CASE ~k.ok /\ k.client.isconnected
  <2>1. r = Result(FALSE, MQTTCloseSession(k.client), k.pings)
    BY <1>1, <1>4 DEF Exit
  <2>2. r \in Results /\ ~r.ok /\ r.pings = k.pings /\ r.client = MQTTCloseSession(k.client)
    BY <1>2, <2>1, ClientFields DEF Result, Results
  <2> QED
    BY <1>2, <1>4, <2>2, KeepaliveResults, ClientFields DEF Results
<1> QED
  BY <1>3, <1>4

\* IInv as a conjunction of facts on the fields.
LEMMA ClientStep ==
    ASSUME IInv
    PROVE  /\ c \in Client /\ c.last_sent \in 0 .. KeepAlive /\ c.last_received \in 0 .. KeepAlive
           /\ KeepAlive \in Nat /\ CommandTimeout \in Nat /\ CommandTimeout < KeepAlive
           /\ timer \in 0 .. CommandTimeout
           /\ answer \in [Answers -> {"none", "asked", "arrived"}]
BY TimesAssumption, ClientFields DEF IInv, TypeOK

\* The answers after a cycle.
LEMMA AnswersAfter ==
    ASSUME NEW ans \in [Answers -> {"none", "asked", "arrived"}], NEW r \in Results
    PROVE  /\ AfterPing(ans, r) \in [Answers -> {"none", "asked", "arrived"}]
           /\ r.pings => AfterPing(ans, r)["PINGRESP"] = "asked"
           /\ ~r.pings => AfterPing(ans, r) = ans
<1>1. "PINGRESP" \in Answers
  BY DEF Answers
<1> QED
  BY <1>1 DEF AfterPing, Results

\* Where a cycle leads.
LEMMA GoOnPlaces ==
    ASSUME NEW r \in Results, NEW packet, place \in Waiting, GoOn(r, packet)
    PROVE  /\ place' \in Waiting \cup {"connected", "down"} /\ c' \in Client
           /\ c'.last_received = r.client.last_received /\ c'.last_sent = r.client.last_sent
           /\ place = "MQTTYield" => c' = r.client /\ place' = IF r.ok THEN "MQTTYield" ELSE "down"
           /\ place = "MQTTConnect" =>
                 \/ place' = "down"
                 \/ place' = "MQTTConnect" /\ c' = r.client /\ r.ok
                 \/ place' = "connected" /\ packet = "CONNACK" /\ ~c'.ping_outstanding /\ r.ok
           /\ place = "MQTTSubscribe" =>
                 \/ place' \in {"MQTTSubscribe", "MQTTYield"} /\ c' = r.client /\ r.ok
                 \/ place' = "MQTTYield" /\ ~r.ok /\ ~c'.ping_outstanding /\ ~c'.isconnected
<1>1. r.client \in Client /\ r.ok \in BOOLEAN
  BY DEF Results
<1>2. CASE place = "MQTTConnect"
  <2>1. ConnectGoesOn(r, packet)
    BY <1>2 DEF GoOn
  <2> DEFINE d == [r.client EXCEPT !.isconnected = TRUE, !.ping_outstanding = FALSE]
  <2>2. d \in Client /\ ~d.ping_outstanding
        /\ d.last_received = r.client.last_received /\ d.last_sent = r.client.last_sent
    <3>1. d \in Client
      BY <1>1 DEF Client
    <3>2. ~d.ping_outstanding
      BY <1>1 DEF Client
    <3>3. d.last_received = r.client.last_received /\ d.last_sent = r.client.last_sent
      BY <1>1 DEF Client
    <3> QED
      BY <3>1, <3>2, <3>3
  <2>3. \/ place' = "down" /\ c' = r.client
        \/ place' = "MQTTConnect" /\ c' = r.client /\ r.ok
        \/ place' = "connected" /\ packet = "CONNACK" /\ c' = d /\ r.ok
    BY <1>2, <2>1 DEF ConnectGoesOn
  <2> HIDE DEF d
  <2> QED
    BY <1>1, <1>2, <2>2, <2>3 DEF Waiting
<1>3. CASE place = "MQTTSubscribe"
  <2>1. SubscribeGoesOn(r, packet)
    BY <1>3 DEF GoOn
  <2>2. \/ place' \in {"MQTTSubscribe", "MQTTYield"} /\ c' = r.client /\ r.ok
        \/ place' = "MQTTYield" /\ ~r.ok /\ c' = MQTTCloseSession(r.client)
    BY <1>1, <1>3, <2>1 DEF SubscribeGoesOn
  <2> QED
    BY <1>1, <1>3, <2>2, ClientFields DEF Waiting
<1>4. CASE place = "MQTTYield"
  <2>1. YieldGoesOn(r)
    BY <1>4 DEF GoOn
  <2> QED
    BY <1>1, <1>4, <2>1 DEF YieldGoesOn, Waiting
<1> QED
  BY <1>2, <1>3, <1>4 DEF Waiting

Three == {"none", "asked", "arrived"}

\* A read followed by keepalive(): d and ans are the client and the answers
\* between the two.
LEMMA CycleStep ==
    ASSUME IInv, place \in Waiting, alive' = alive,
           NEW d \in Client, NEW ans \in [Answers -> Three], NEW r \in cycle(d), NEW packet,
           GoOn(r, packet), answer' = AfterPing(ans, r),
           timer' \in 0 .. CommandTimeout, silence' \in 0 .. KeepAlive + 2,
           place # "MQTTYield" =>
              /\ d.last_sent > 0 /\ d.last_sent >= KeepAlive - CommandTimeout + timer'
              /\ d.last_received > 0 /\ d.last_received >= KeepAlive - CommandTimeout + timer'
              /\ ~d.ping_outstanding /\ ans["PINGRESP"] = "none",
           packet = "CONNACK" => d.last_received = KeepAlive,
           alive => (d.ping_outstanding <=> ans["PINGRESP"] # "none"),
           d.last_received > 0 => silence' + d.last_received = KeepAlive,
           d.last_received = 0 /\ ~d.ping_outstanding =>
              silence' = KeepAlive \/ (silence' = KeepAlive + 1 /\ ~d.isconnected)
    PROVE  /\ CommandInv' /\ SilenceInv' /\ OutstandingPing'
           /\ place' \in Waiting \cup {"connected", "down"} /\ c' \in Client
           /\ answer' \in [Answers -> Three]
<1>1. r \in Results /\ r.client \in Client /\ r.ok \in BOOLEAN /\ r.pings \in BOOLEAN
  BY CycleResults
<1>2. /\ place' \in Waiting \cup {"connected", "down"} /\ c' \in Client
      /\ answer' \in [Answers -> Three]
  BY <1>1, GoOnPlaces, AnswersAfter DEF Three
<1>3. d.last_sent \in 0 .. KeepAlive /\ d.last_received \in 0 .. KeepAlive /\ KeepAlive \in Nat
  BY ClientFields, TimesAssumption
<1>4. CASE place # "MQTTYield"
  <2>1. ~Expired(d)
    BY <1>3, <1>4 DEF Expired
  <2>2. r.ok /\ ~r.pings /\ r.client = d
    BY <2>1, CycleResults
  <2>3. answer' = ans
    BY <1>1, <2>2, AnswersAfter DEF Three
  <2>4. c'.last_received = d.last_received /\ c'.last_sent = d.last_sent
    BY <1>1, <2>2, GoOnPlaces
  <2>5. \/ place' = "down"
        \/ place' \in {"MQTTConnect", "MQTTSubscribe", "MQTTYield"} /\ c' = d
        \/ place' = "connected" /\ packet = "CONNACK" /\ ~c'.ping_outstanding
    BY <1>1, <1>4, <2>2, GoOnPlaces DEF Waiting
  <2>6. ~d.ping_outstanding /\ answer'["PINGRESP"] = "none"
    BY <1>4, <2>3
  <2>7. CommandInv'
    BY <1>4, <2>4, <2>5, <2>6 DEF CommandInv
  <2>8. SilenceInv'
    BY <1>3, <1>4, <2>4 DEF SilenceInv
  <2>9. OutstandingPing'
    BY <2>5, <2>6 DEF OutstandingPing, Waiting
  <2> QED
    BY <1>2, <2>7, <2>8, <2>9
<1>5. CASE place = "MQTTYield"
  <2>1. c' = r.client /\ place' = IF r.ok THEN "MQTTYield" ELSE "down"
    BY <1>1, <1>5, GoOnPlaces
  <2>2. CASE ~r.ok
    <3>1. place' = "down"
      BY <2>1, <2>2
    <3> QED
      BY <1>2, <3>1 DEF CommandInv, SilenceInv, OutstandingPing, Waiting
  <2>3. CASE r.ok /\ ~Expired(d)
    <3>1. c' = d /\ ~r.pings /\ place' = "MQTTYield"
      BY <2>1, <2>3, CycleResults
    <3>2. answer' = ans
      BY <1>1, <3>1, AnswersAfter DEF Three
    <3>3. d.last_received > 0
      BY <1>3, <2>3 DEF Expired
    <3>4. SilenceInv'
      BY <3>1, <3>3 DEF SilenceInv
    <3>5. d.last_sent > 0
      BY <1>3, <2>3 DEF Expired
    <3> QED
      BY <1>2, <3>1, <3>2, <3>4, <3>5 DEF CommandInv, OutstandingPing
  <2>4. CASE r.ok /\ Expired(d)
    <3>1. /\ r.pings /\ ~d.ping_outstanding /\ c'.ping_outstanding /\ place' = "MQTTYield"
          /\ c'.last_sent = KeepAlive
          /\ c'.isconnected = d.isconnected /\ c'.last_received = d.last_received
      BY <2>1, <2>4, CycleResults
    <3>2. answer'["PINGRESP"] = "asked"
      BY <1>1, <3>1, AnswersAfter DEF Three
    <3>3. SilenceInv'
      BY <1>3, <3>1 DEF SilenceInv
    <3> QED
      BY <1>2, <3>1, <3>2, <3>3, TimesAssumption DEF CommandInv, OutstandingPing
  <2> QED
    BY <1>1, <2>2, <2>3, <2>4
<1> QED
  BY <1>4, <1>5

\* The client is as it was a read ago.
LEMMA Preconditions ==
    ASSUME IInv, place \in Waiting
    PROVE  /\ place # "MQTTYield" =>
                 /\ c.last_sent > 0 /\ c.last_sent >= KeepAlive - CommandTimeout + timer
                 /\ c.last_received > 0 /\ c.last_received >= KeepAlive - CommandTimeout + timer
                 /\ ~c.ping_outstanding /\ answer["PINGRESP"] = "none"
           /\ alive => (c.ping_outstanding <=> answer["PINGRESP"] # "none")
           /\ c.last_received > 0 => silence + c.last_received = KeepAlive
           /\ c.last_received = 0 =>
                 \/ silence = KeepAlive /\ (c.ping_outstanding \/ ~c.isconnected)
                 \/ silence = KeepAlive + 1 /\ c.ping_outstanding /\ ~c.isconnected
<1>1. alive => (c.ping_outstanding <=> answer["PINGRESP"] # "none")
  BY DEF IInv, OutstandingPing
<1>2. place # "down"
  BY DEF Waiting
<1>3. /\ c.last_received > 0 => silence + c.last_received = KeepAlive
      /\ c.last_received = 0 =>
            \/ silence = KeepAlive /\ (c.ping_outstanding \/ ~c.isconnected)
            \/ silence = KeepAlive + 1 /\ c.ping_outstanding /\ ~c.isconnected
  BY <1>2 DEF IInv, SilenceInv
<1>4. ASSUME place # "MQTTYield"
      PROVE  /\ c.last_sent > 0 /\ c.last_sent >= KeepAlive - CommandTimeout + timer
             /\ c.last_received > 0 /\ c.last_received >= KeepAlive - CommandTimeout + timer
             /\ ~c.ping_outstanding /\ answer["PINGRESP"] = "none"
  <2>1. place \in {"MQTTConnect", "MQTTSubscribe"}
    BY <1>4 DEF Waiting
  <2>2. /\ c.last_sent >= KeepAlive - CommandTimeout + timer
        /\ c.last_received >= KeepAlive - CommandTimeout + timer
        /\ ~c.ping_outstanding /\ answer["PINGRESP"] = "none"
    BY <2>1 DEF IInv, CommandInv
  <2> QED
    BY <2>2, ClientStep
<1> QED
  BY <1>1, <1>3, <1>4

\* The invariant holds when the task starts its first connection.
LEMMA InitInv == Init => IInv
<1> SUFFICES ASSUME Init PROVE IInv
  OBVIOUS
<1>1. KeepAlive \in 0 .. KeepAlive /\ KeepAlive > 0 /\ CommandTimeout \in 0 .. CommandTimeout
      /\ Period \in 0 .. Period /\ 0 \in 0 .. KeepAlive /\ 0 \in 0 .. KeepAlive + 2
  BY TimesAssumption
<1>2. c \in Client /\ ~c.ping_outstanding /\ c.last_sent = KeepAlive /\ c.last_received = KeepAlive
  BY <1>1 DEF Init, NewClient, Client
<1>3. answer \in [Answers -> Three] /\ answer["PINGRESP"] = "none"
  BY DEF Init, ConnectSent, Answers, Three
<1>4. TypeOK
  BY <1>1, <1>2, <1>3 DEF Init, TypeOK, Waiting, Three
<1>5. CommandInv /\ SilenceInv /\ OutstandingPing
  BY <1>1, <1>2, <1>3, TimesAssumption DEF Init, CommandInv, SilenceInv, OutstandingPing
<1> QED
  BY <1>4, <1>5 DEF IInv

\* The client after a packet and after a unit of time.
LEMMA ReceivedFields ==
    ASSUME IInv, NEW a
    PROVE  /\ Received(a) \in Client /\ Received(a).last_received = KeepAlive
           /\ Received(a).last_sent = c.last_sent
           /\ Received(a).isconnected = c.isconnected
           /\ Received(a).ping_outstanding <=> (c.ping_outstanding /\ a # "PINGRESP")
<1>1. c \in Client /\ KeepAlive \in 0 .. KeepAlive
  BY TimesAssumption DEF IInv, TypeOK
<1>2. Received(a) \in Client
  BY <1>1 DEF Received, Client
<1>3. /\ Received(a).last_received = KeepAlive /\ Received(a).last_sent = c.last_sent
      /\ Received(a).isconnected = c.isconnected
  BY <1>1 DEF Received, Client
<1>4. Received(a).ping_outstanding <=> (c.ping_outstanding /\ a # "PINGRESP")
  BY <1>1 DEF Received, Client
<1> QED
  BY <1>2, <1>3, <1>4

LEMMA OlderFields ==
    ASSUME IInv
    PROVE  /\ Older \in Client
           /\ Older.last_sent = Pass(c.last_sent) /\ Older.last_received = Pass(c.last_received)
           /\ Older.isconnected = c.isconnected
           /\ Older.ping_outstanding = c.ping_outstanding
<1>1. c \in Client
  BY DEF IInv, TypeOK
<1>2. \A l \in 0 .. KeepAlive : Pass(l) \in 0 .. KeepAlive
  BY TimesAssumption DEF Pass
<1>3. c.last_sent \in 0 .. KeepAlive /\ c.last_received \in 0 .. KeepAlive
  BY <1>1, ClientFields
<1>4. Pass(c.last_sent) \in 0 .. KeepAlive /\ Pass(c.last_received) \in 0 .. KeepAlive
  BY <1>2, <1>3
<1>5. Older \in Client
  BY <1>1, <1>4 DEF Older, Client
<1>6. /\ Older.last_sent = Pass(c.last_sent) /\ Older.last_received = Pass(c.last_received)
      /\ Older.isconnected = c.isconnected
      /\ Older.ping_outstanding = c.ping_outstanding
  BY <1>1 DEF Older, Client
<1> QED
  BY <1>5, <1>6

\* An answer of the broker, or a PUBLISH, is read.
LEMMA ReadStep ==
    ASSUME IInv, (\E a \in Answers : ReadAnswer(a)) \/ ReadPublish
    PROVE  IInv' /\ (place = "MQTTYield" => place' # "down")
<1>0. PICK packet \in Answers \cup {"PUBLISH"} :
        \E q \in cycle(Received(packet)) :
          LET a == IF packet \in Answers THEN AfterRead(packet) ELSE answer
          IN  /\ place \in Waiting /\ GoOn(q, packet)
              /\ answer' = AfterPing(a, q)
              /\ silence' = 0 /\ timer' = timer /\ due' = due /\ alive' = alive
              /\ news' \in {news, FALSE}
  <2>1. "PUBLISH" \notin Answers
    BY DEF Answers
  <2>2. CASE \E a \in Answers : ReadAnswer(a)
    BY <2>1, <2>2 DEF ReadAnswer
  <2>3. CASE ReadPublish
    BY <2>1, <2>3 DEF ReadPublish
  <2> QED
    BY <2>2, <2>3
<1> DEFINE ans == IF packet \in Answers THEN AfterRead(packet) ELSE answer
<1>1. PICK r \in cycle(Received(packet)) :
        /\ place \in Waiting /\ GoOn(r, packet)
        /\ answer' = AfterPing(ans, r)
        /\ silence' = 0 /\ timer' = timer /\ due' = due /\ alive' = alive
        /\ news' \in {news, FALSE}
  BY <1>0
<1> DEFINE d == Received(packet)
<1>2. /\ d \in Client /\ d.last_received = KeepAlive /\ d.last_sent = c.last_sent
      /\ d.isconnected = c.isconnected
      /\ d.ping_outstanding <=> (c.ping_outstanding /\ packet # "PINGRESP")
  BY ReceivedFields
<1>3. /\ ans \in [Answers -> Three]
      /\ ans["PINGRESP"] = IF packet = "PINGRESP" THEN "none" ELSE answer["PINGRESP"]
  BY <1>1, ClientStep DEF AfterRead, Answers, Three
<1>4. r \in Results /\ timer' \in 0 .. CommandTimeout /\ silence' \in 0 .. KeepAlive + 2
  BY <1>1, <1>2, CycleResults, TimesAssumption, ClientStep
<1> HIDE DEF d, ans
<1>5. r \in cycle(d) /\ GoOn(r, packet)
  BY <1>1 DEF d
<1>6. KeepAlive \in Nat /\ KeepAlive > 0 /\ CommandTimeout \in Nat
  BY TimesAssumption
<1>7. place # "MQTTYield" =>
         /\ d.last_sent > 0 /\ d.last_sent >= KeepAlive - CommandTimeout + timer'
         /\ d.last_received > 0 /\ d.last_received >= KeepAlive - CommandTimeout + timer'
         /\ ~d.ping_outstanding /\ ans["PINGRESP"] = "none"
  <2>1. CommandTimeout >= timer' /\ timer' = timer
    BY <1>1, <1>4, <1>6
  <2> QED
    BY <1>1, <1>2, <1>3, <1>6, <2>1, Preconditions, ClientStep
<1>8. alive => (d.ping_outstanding <=> ans["PINGRESP"] # "none")
  BY <1>1, <1>2, <1>3, Preconditions
<1>9. /\ d.last_received > 0 => silence' + d.last_received = KeepAlive
      /\ d.last_received = 0 /\ ~d.ping_outstanding =>
            silence' = KeepAlive \/ (silence' = KeepAlive + 1 /\ ~d.isconnected)
  BY <1>1, <1>2, <1>6
<1>10. packet = "CONNACK" => d.last_received = KeepAlive
  BY <1>2
<1>11. /\ CommandInv' /\ SilenceInv' /\ OutstandingPing'
       /\ place' \in Waiting \cup {"connected", "down"} /\ c' \in Client
       /\ answer' \in [Answers -> Three]
  BY <1>1, <1>2, <1>3, <1>4, <1>5, <1>7, <1>8, <1>9, <1>10, CycleStep
<1>12. TypeOK'
  BY <1>1, <1>4, <1>11 DEF IInv, TypeOK, Three
<1>13. place = "MQTTYield" => place' # "down"
  <2> SUFFICES ASSUME place = "MQTTYield" PROVE place' # "down"
    OBVIOUS
  <2>1. d.last_sent > 0 /\ ~Expired(d)
    BY <1>2, <1>6 DEF IInv, CommandInv, Expired
  <2>2. r.ok
    BY <1>2, <1>5, <2>1, CycleResults
  <2> QED
    BY <1>1, <1>4, <2>2, GoOnPlaces
<1> QED
  BY <1>11, <1>12, <1>13 DEF IInv

\* Nothing arrives for a unit of time.
LEMMA TimeOutStep ==
    ASSUME IInv, ReadTimesOut
    PROVE  /\ IInv'
           /\ alive /\ place = "MQTTYield" /\ place' = "down" => answer["PINGRESP"] = "asked"
<1>1. PICK r \in cycle(Older) :
        /\ GoOn(r, "none") /\ answer' = AfterPing(answer, r)
  BY DEF ReadTimesOut
<1>2. /\ place \in Waiting /\ alive' = alive /\ news' = news
      /\ silence' = IF silence > KeepAlive + 1 THEN silence ELSE silence + 1
      /\ place # "MQTTYield" => timer > 0 /\ timer' = Pass(timer) /\ due' = due
      /\ place = "MQTTYield" => due' = Pass(due) /\ timer' = timer
  BY DEF ReadTimesOut
<1>3. KeepAlive \in Nat /\ KeepAlive > 0 /\ CommandTimeout \in Nat /\ Period \in Nat
      /\ silence \in 0 .. KeepAlive + 2 /\ timer \in 0 .. CommandTimeout /\ due \in 0 .. Period
  BY TimesAssumption DEF IInv, TypeOK
<1>4. /\ timer' \in 0 .. CommandTimeout /\ due' \in 0 .. Period
      /\ silence' \in 0 .. KeepAlive + 2
      /\ place # "MQTTYield" => timer' = timer - 1
  BY <1>2, <1>3 DEF Pass
<1>5. r \in Results /\ Older \in Client
  BY <1>1, OlderFields, CycleResults
<1>6. /\ Older.last_sent = Pass(c.last_sent) /\ Older.last_received = Pass(c.last_received)
      /\ Older.isconnected = c.isconnected /\ Older.ping_outstanding = c.ping_outstanding
  BY OlderFields
<1>7. answer \in [Answers -> Three] /\ c.last_sent \in 0 .. KeepAlive /\ c.last_received \in 0 .. KeepAlive
      /\ CommandTimeout < KeepAlive
  BY ClientStep DEF Three
<1>8. place # "MQTTYield" =>
         /\ Older.last_sent > 0 /\ Older.last_sent >= KeepAlive - CommandTimeout + timer'
         /\ Older.last_received > 0 /\ Older.last_received >= KeepAlive - CommandTimeout + timer'
         /\ ~Older.ping_outstanding /\ answer["PINGRESP"] = "none"
  BY <1>2, <1>3, <1>4, <1>6, <1>7, Preconditions DEF Pass
<1>9. alive => (Older.ping_outstanding <=> answer["PINGRESP"] # "none")
  BY <1>2, <1>6, Preconditions
<1>10. Older.last_received > 0 => silence' + Older.last_received = KeepAlive
  BY <1>2, <1>3, <1>6, <1>7, Preconditions DEF Pass
<1>11. Older.last_received = 0 /\ ~Older.ping_outstanding =>
          silence' = KeepAlive \/ (silence' = KeepAlive + 1 /\ ~Older.isconnected)
  <2> SUFFICES ASSUME Older.last_received = 0, ~Older.ping_outstanding
               PROVE  silence' = KeepAlive \/ (silence' = KeepAlive + 1 /\ ~Older.isconnected)
    OBVIOUS
  <2>1. CASE c.last_received > 0
    BY <1>2, <1>3, <1>6, <1>7, <2>1, Preconditions DEF Pass
  <2>2. CASE c.last_received = 0
    <3>1. silence = KeepAlive /\ ~c.isconnected
      BY <1>2, <1>6, <2>2, Preconditions
    <3> QED
      BY <1>2, <1>3, <1>6, <3>1
  <2> QED
    BY <1>7, <2>1, <2>2
<1>12. /\ CommandInv' /\ SilenceInv' /\ OutstandingPing'
       /\ place' \in Waiting \cup {"connected", "down"} /\ c' \in Client
       /\ answer' \in [Answers -> Three]
  <2>1. "none" = "CONNACK" => Older.last_received = KeepAlive
    OBVIOUS
  <2> QED
    BY <1>1, <1>2, <1>4, <1>5, <1>7, <1>8, <1>9, <1>10, <1>11, <2>1, CycleStep
<1>13. TypeOK'
  BY <1>2, <1>4, <1>12 DEF IInv, TypeOK, Three
<1>14. alive /\ place = "MQTTYield" /\ place' = "down" => answer["PINGRESP"] = "asked"
  <2> SUFFICES ASSUME alive, place = "MQTTYield", answer["PINGRESP"] # "asked"
               PROVE  place' # "down"
    OBVIOUS
  <2>1. answer["PINGRESP"] # "arrived"
    BY DEF ReadTimesOut, Arrived, Answers
  <2>2. ~Older.ping_outstanding
    BY <1>7, <1>9, <2>1 DEF Three, Answers
  <2>3. r.ok
    BY <1>1, <1>5, <2>2, CycleResults
  <2> QED
    BY <1>1, <1>2, <1>5, <2>3, GoOnPlaces
<1> QED
  BY <1>12, <1>13, <1>14 DEF IInv

\* The connection is found closed.
LEMMA ReadFailsStep ==
    ASSUME IInv, ReadFails
    PROVE  IInv' /\ ~alive
<1>1. PICK r \in cycleReadFails(c) : GoOn(r, "none")
  BY DEF ReadFails
<1>2. place \in Waiting /\ ~alive
      /\ UNCHANGED <<timer, due, answer, news, alive, silence>>
  BY DEF ReadFails
<1>3. c \in Client
  BY ClientStep
<1>4. r \in Results /\ ~r.ok /\ r.client.last_received = c.last_received
      /\ r.client.last_sent = c.last_sent
  <2>1. Result(FALSE, c, FALSE).ok = FALSE /\ Result(FALSE, c, FALSE).client = c
        /\ Result(FALSE, c, FALSE).pings = FALSE
    BY DEF Result
  <2>2. r = Result(FALSE, c, FALSE) \/ r = Result(FALSE, MQTTCloseSession(c), FALSE)
    BY <1>1, <2>1 DEF cycleReadFails, Exit
  <2>3. \E e \in {c, MQTTCloseSession(c)} : r = Result(FALSE, e, FALSE)
    BY <2>2
  <2> QED
    BY <1>3, <2>3, ClientFields DEF Result, Results
<1>5. /\ place' \in {"MQTTYield", "down"} /\ c' \in Client
      /\ c'.last_received = c.last_received /\ c'.last_sent = c.last_sent
      /\ place' = "MQTTYield" => place = "MQTTSubscribe"
  BY <1>1, <1>2, <1>4, GoOnPlaces DEF Waiting
<1>6. TypeOK'
  BY <1>2, <1>5 DEF IInv, TypeOK, Waiting
<1>7. place' = "MQTTYield" => c'.last_received > 0 /\ c'.last_sent > 0
  BY <1>2, <1>5, Preconditions
<1>8. CommandInv'
  BY <1>5, <1>7 DEF CommandInv
<1>9. SilenceInv'
  BY <1>2, <1>5, <1>7, Preconditions DEF SilenceInv
<1>10. OutstandingPing'
  BY <1>2 DEF OutstandingPing
<1> QED
  BY <1>2, <1>6, <1>8, <1>9, <1>10 DEF IInv

\* waitfor gives up.
LEMMA CommandTimesOutStep ==
    ASSUME IInv, CommandTimesOut
    PROVE  IInv'
<1>1. place \in Waiting /\ place # "MQTTYield"
      /\ UNCHANGED <<timer, due, answer, news, alive, silence>>
      /\ \/ place' = "down" /\ c' = c
         \/ place' = "MQTTYield" /\ c' = MQTTCloseSession(c)
  BY DEF CommandTimesOut, Waiting
<1>2. c \in Client /\ MQTTCloseSession(c) \in Client
      /\ ~MQTTCloseSession(c).ping_outstanding
      /\ MQTTCloseSession(c).last_received = c.last_received
      /\ MQTTCloseSession(c).last_sent = c.last_sent
  BY ClientStep, ClientFields
<1>3. TypeOK'
  BY <1>1, <1>2 DEF IInv, TypeOK, Waiting
<1>4. c.last_sent > 0 /\ c.last_received > 0 /\ answer["PINGRESP"] = "none"
      /\ silence + c.last_received = KeepAlive
  BY <1>1, Preconditions
<1>5. CommandInv' /\ SilenceInv' /\ OutstandingPing'
  BY <1>1, <1>2, <1>4 DEF CommandInv, SilenceInv, OutstandingPing, Waiting
<1> QED
  BY <1>3, <1>5 DEF IInv

\* The session has just begun, so every timer is full.
LEMMA SubscribeStep ==
    ASSUME IInv, MQTTSubscribe
    PROVE  IInv'
<1>1. place = "connected" /\ timer' = CommandTimeout
      /\ UNCHANGED <<due, news, alive, silence>>
      /\ \/ place' = "MQTTSubscribe" /\ c' = Sent(c)
            /\ answer' = [answer EXCEPT !["SUBACK"] = "asked"]
         \/ ~alive /\ place' = "MQTTYield" /\ c' = MQTTCloseSession(c) /\ answer' = answer
  BY DEF MQTTSubscribe
<1>2. c \in Client /\ Sent(c) \in Client /\ MQTTCloseSession(c) \in Client
  BY ClientStep, ClientFields
<1>3. /\ ~c.ping_outstanding /\ answer["PINGRESP"] = "none"
      /\ c.last_sent > 0 /\ c.last_received = KeepAlive
      /\ silence + c.last_received = KeepAlive
      /\ KeepAlive \in Nat /\ KeepAlive > 0 /\ CommandTimeout \in Nat
  BY <1>1, TimesAssumption, ClientStep DEF IInv, CommandInv, SilenceInv
<1>4. answer' \in [Answers -> Three] /\ answer'["PINGRESP"] = "none"
  BY <1>1, <1>3, ClientStep DEF Answers, Three
<1>5. CommandTimeout \in 0 .. CommandTimeout
  BY <1>3
<1>6. TypeOK'
  BY <1>1, <1>2, <1>4, <1>5 DEF IInv, TypeOK, Waiting, Three
<1>7. CASE place' = "MQTTSubscribe" /\ c' = Sent(c)
  <2>1. c'.last_sent = KeepAlive /\ c'.last_received = KeepAlive /\ ~c'.ping_outstanding
    BY <1>2, <1>3, <1>7, ClientFields
  <2>2. CommandInv'
    BY <1>1, <1>3, <1>4, <1>7, <2>1 DEF CommandInv
  <2>3. SilenceInv' /\ OutstandingPing'
    BY <1>1, <1>3, <1>4, <1>7, <2>1 DEF SilenceInv, OutstandingPing
  <2> QED
    BY <1>6, <2>2, <2>3 DEF IInv
<1>8. CASE ~alive /\ place' = "MQTTYield" /\ c' = MQTTCloseSession(c)
  <2>1. c'.last_sent = c.last_sent /\ c'.last_received = KeepAlive
    BY <1>2, <1>3, <1>8, ClientFields
  <2>2. CommandInv' /\ SilenceInv' /\ OutstandingPing'
    BY <1>1, <1>3, <1>8, <2>1 DEF CommandInv, SilenceInv, OutstandingPing
  <2> QED
    BY <1>6, <2>2 DEF IInv
<1> QED
  BY <1>1, <1>7, <1>8

\* A failed publish clears ping_outstanding, but ends the session with it.
LEMMA SendWatchdogStep ==
    ASSUME IInv, SendWatchdog
    PROVE  IInv'
<1>1. place = "MQTTYield" /\ due' = Period
      /\ UNCHANGED <<place, timer, answer, news, alive, silence>>
      /\ \/ c' = c \/ c' = Sent(c)
         \/ c.isconnected /\ ~alive /\ c' = MQTTCloseSession(c)
  BY DEF SendWatchdog
<1>2. c \in Client /\ Sent(c) \in Client /\ MQTTCloseSession(c) \in Client
      /\ KeepAlive \in Nat /\ KeepAlive > 0
  BY ClientStep, ClientFields, TimesAssumption
<1>3. Period \in 0 .. Period
  BY TimesAssumption
<1>4. TypeOK'
  BY <1>1, <1>2, <1>3 DEF IInv, TypeOK
<1>5. /\ c'.last_received = c.last_received /\ c'.last_sent \in {c.last_sent, KeepAlive}
      /\ \/ c'.ping_outstanding = c.ping_outstanding /\ c'.isconnected = c.isconnected
         \/ c.isconnected /\ ~alive /\ ~c'.ping_outstanding /\ ~c'.isconnected
  BY <1>1, <1>2, ClientFields
<1>6. CommandInv'
  BY <1>1, <1>2, <1>5 DEF IInv, CommandInv
<1>7. SilenceInv'
  BY <1>1, <1>2, <1>5 DEF IInv, SilenceInv
<1>8. OutstandingPing'
  BY <1>1, <1>5 DEF IInv, OutstandingPing
<1> QED
  BY <1>4, <1>6, <1>7, <1>8 DEF IInv

\* The next connection starts as the first one did.
LEMMA ReconnectStep ==
    ASSUME Reconnect
    PROVE  IInv'
<1>1. KeepAlive \in 0 .. KeepAlive /\ KeepAlive > 0 /\ CommandTimeout \in 0 .. CommandTimeout
      /\ Period \in 0 .. Period /\ 0 \in 0 .. KeepAlive /\ 0 \in 0 .. KeepAlive + 2
  BY TimesAssumption
<1>2. c' \in Client /\ ~c'.ping_outstanding /\ c'.last_sent = KeepAlive
      /\ c'.last_received = KeepAlive
  BY <1>1 DEF Reconnect, NewClient, Client
<1>3. answer' \in [Answers -> Three] /\ answer'["PINGRESP"] = "none"
  BY DEF Reconnect, ConnectSent, Answers, Three
<1>4. TypeOK'
  BY <1>1, <1>2, <1>3 DEF Reconnect, TypeOK, Waiting, Three
<1>5. CommandInv' /\ SilenceInv' /\ OutstandingPing'
  BY <1>1, <1>2, <1>3, TimesAssumption DEF Reconnect, CommandInv, SilenceInv, OutstandingPing
<1> QED
  BY <1>4, <1>5 DEF IInv

\* What the broker does leaves the client alone.
LEMMA BrokerStep ==
    ASSUME IInv, Broker
    PROVE  IInv' /\ place' = place
<1>1. UNCHANGED <<place, c, timer, due, silence>>
      /\ news' \in BOOLEAN /\ alive' \in BOOLEAN /\ (alive' => alive)
  BY DEF Broker, BrokerAnswers, BrokerPublishes, BrokerDies, IInv, TypeOK
<1>2. answer' \in [Answers -> Three] /\ (answer'["PINGRESP"] = "none" <=> answer["PINGRESP"] = "none")
  <2>1. CASE \E a \in Answers : BrokerAnswers(a)
    <3>1. PICK a \in Answers : answer[a] = "asked" /\ answer' = [answer EXCEPT ![a] = "arrived"]
      BY <2>1 DEF BrokerAnswers
    <3> QED
      BY <3>1, ClientStep DEF Three, Answers
  <2>2. CASE answer' = answer
    BY <2>2, ClientStep DEF Three
  <2> QED
    BY <2>1, <2>2 DEF Broker, BrokerPublishes, BrokerDies
<1>3. TypeOK'
  BY <1>1, <1>2 DEF IInv, TypeOK, Three
<1>4. CommandInv' /\ SilenceInv'
  BY <1>1, <1>2 DEF IInv, CommandInv, SilenceInv
<1>5. OutstandingPing'
  BY <1>1, <1>2 DEF IInv, OutstandingPing
<1> QED
  BY <1>1, <1>3, <1>4, <1>5 DEF IInv

\* Every step of the client, of the broker and of time keeps the invariant.
LEMMA NextInv == IInv /\ [Next]_vars => IInv'
<1> SUFFICES ASSUME IInv, [Next]_vars PROVE IInv'
  OBVIOUS
<1>1. CASE MqttTask
  BY <1>1, ReadStep, TimeOutStep, ReadFailsStep, CommandTimesOutStep, SubscribeStep,
     SendWatchdogStep, ReconnectStep DEF MqttTask
<1>2. CASE Broker
  BY <1>2, BrokerStep
<1>3. CASE UNCHANGED vars
  <2>1. TypeOK'
    BY <1>3 DEF IInv, TypeOK, vars
  <2>2. CommandInv' /\ SilenceInv'
    BY <1>3 DEF IInv, CommandInv, SilenceInv, vars
  <2>3. OutstandingPing'
    BY <1>3 DEF IInv, OutstandingPing, vars
  <2> QED
    BY <2>1, <2>2, <2>3 DEF IInv
<1> QED
  BY <1>1, <1>2, <1>3 DEF Next

\* In every reachable state of the client the invariant holds.
THEOREM PahoInvariance == Spec => []IInv
<1> QED
  BY InitInv, NextInv, PTL DEF Spec

\* MQTTClient.c and its timers keep every field in its range, for any
\* keep-alive interval longer than the command time-out.
THEOREM PahoTypes == Spec => []TypeOK
<1>1. IInv => TypeOK
  BY DEF IInv
<1> QED
  BY <1>1, PahoInvariance, PTL

\* ping_outstanding (MQTTClient.c) says, while the broker lives, exactly
\* whether a PINGREQ has not had its answer read.
THEOREM PahoPings == Spec => []OutstandingPing
<1>1. IInv => OutstandingPing
  BY DEF IInv
<1> QED
  BY <1>1, PahoInvariance, PTL

\* keepalive() lets no connection go on, with nothing read, for longer than
\* keepAliveInterval and one read.
THEOREM PahoDeadPeer == Spec => []DeadPeerNoticed
<1>1. IInv => DeadPeerNoticed
  <2> SUFFICES ASSUME IInv, place # "down" PROVE silence <= KeepAlive + 1
    BY DEF DeadPeerNoticed
  <2>1. c.last_received \in 0 .. KeepAlive /\ KeepAlive \in Nat /\ silence \in 0 .. KeepAlive + 2
    BY ClientStep DEF IInv, TypeOK
  <2>2. /\ c.last_received > 0 => silence + c.last_received = KeepAlive
        /\ c.last_received = 0 => silence = KeepAlive \/ silence = KeepAlive + 1
    BY DEF IInv, SilenceInv
  <2> QED
    BY <2>1, <2>2
<1> QED
  BY <1>1, PahoInvariance, PTL

\* keepalive() gives a living broker up for a PINGRESP it still owes, and for
\* nothing else.
THEOREM PahoNoFalseAlarm == Spec => NoFalseAlarm
<1>1. IInv /\ [Next]_vars =>
         [alive /\ place = "MQTTYield" /\ place' = "down" => answer["PINGRESP"] = "asked"]_vars
  <2> SUFFICES ASSUME IInv, [Next]_vars, alive, place = "MQTTYield", place' = "down",
                      ~UNCHANGED vars
               PROVE  answer["PINGRESP"] = "asked"
    BY DEF vars
  <2>1. CASE MqttTask
    <3>1. ReadTimesOut \/ CommandTimesOut \/ MQTTSubscribe \/ SendWatchdog \/ Reconnect
      BY <2>1, ReadStep, ReadFailsStep DEF MqttTask
    <3>2. CASE ReadTimesOut
      BY <3>2, TimeOutStep
    <3> QED
      BY <3>1, <3>2 DEF CommandTimesOut, MQTTSubscribe, SendWatchdog, Reconnect
  <2>2. CASE Broker
    BY <2>2, BrokerStep
  <2> QED
    BY <2>1, <2>2 DEF Next
<1> QED
  BY <1>1, PahoInvariance, PTL DEF Spec, NoFalseAlarm

=============================================================================
