------------------------------ MODULE PahoClient ------------------------------
(***************************************************************************)
(* The Paho client (MQTTClient.c) in time: MQTTConnect, MQTTSubscribe,     *)
(* MQTTYield and MQTTPublish as mqtt_task calls them, each reading through *)
(* cycle() and keepalive().  The unit of time is an empty read: with no    *)
(* byte there, TLS_NetworkRead waits for 500 ms and returns 0 (MQTT_Cycle  *)
(* sleeps for 100 ms more), while lwIP queues what is written at once.     *)
(* The timers hold the time they have left.  Topics and handlers are left  *)
(* out, and so is the byte stream: a packet is read whole.                 *)
(***************************************************************************)
EXTENDS Integers

CONSTANTS
    KeepAlive,       \* keepAliveInterval: 60000 ms
    CommandTimeout,  \* command_timeout_ms: 30000 ms
    Period           \* 5000 ms, between two watchdog messages

ASSUME TimesAssumption ==
    /\ KeepAlive \in Nat /\ CommandTimeout \in Nat /\ Period \in Nat
    /\ 1 < Period /\ 0 < CommandTimeout /\ CommandTimeout < KeepAlive

VARIABLES
    place,    \* the call mqtt_task is in; "down" between two connections
    c,        \* the MQTTClient struct
    timer,    \* the command timer of MQTTConnect and MQTTSubscribe
    due,      \* time left to the next watchdog
    answer,   \* where the answer to each request is
    news,     \* a PUBLISH of the broker has arrived
    alive,    \* the broker and the connection are
    silence   \* ghost: time since a packet was read, up to KeepAlive + 2

vars == <<place, c, timer, due, answer, news, alive, silence>>

Answers == {"CONNACK", "SUBACK", "PINGRESP"}
Waiting == {"MQTTConnect", "MQTTSubscribe", "MQTTYield"}

Client == [isconnected : BOOLEAN, ping_outstanding : BOOLEAN,
           last_sent : 0 .. KeepAlive, last_received : 0 .. KeepAlive]

TypeOK ==
    /\ place \in Waiting \cup {"connected", "down"}
    /\ c \in Client
    /\ timer \in 0 .. CommandTimeout /\ due \in 0 .. Period
    /\ answer \in [Answers -> {"none", "asked", "arrived"}]
    /\ news \in BOOLEAN /\ alive \in BOOLEAN
    /\ silence \in 0 .. KeepAlive + 2

\* Mutant: a timer goes on below 0.
PassBelow(left) == left - 1

\* One unit less, down to "expired".
Pass(left) == IF left = 0 THEN 0 ELSE left - 1

\* The client after MQTTClientInit and the CONNECT packet of MQTTConnect.
NewClient == [isconnected |-> FALSE, ping_outstanding |-> FALSE,
              last_sent |-> KeepAlive, last_received |-> KeepAlive]

ConnectSent == [a \in Answers |-> IF a = "CONNACK" THEN "asked" ELSE "none"]

Init ==
    /\ place = "MQTTConnect" /\ c = NewClient
    /\ timer = CommandTimeout /\ due = Period /\ answer = ConnectSent
    /\ news = FALSE /\ alive = TRUE /\ silence = 0

-----------------------------------------------------------------------------
(***************************************************************************)
(* keepalive() and cycle().  The results are records: whether the call     *)
(* succeeded, the client it leaves, and whether it sent a PINGREQ.         *)
(***************************************************************************)
MQTTCloseSession(d) == [d EXCEPT !.isconnected = FALSE, !.ping_outstanding = FALSE]

Result(ok, d, pings) == [ok |-> ok, client |-> d, pings |-> pings]

Expired(d) == d.last_sent = 0 \/ d.last_received = 0

\* Mutant: an outstanding ping is not looked at.
keepalivePatient(d) ==
    IF Expired(d) /\ ~d.ping_outstanding
    THEN {Result(TRUE, [d EXCEPT !.ping_outstanding = TRUE, !.last_sent = KeepAlive], TRUE)}
    ELSE {Result(TRUE, d, FALSE)}

\* Mutant: only last_sent is looked at.
keepaliveSentOnly(d) ==
    IF d.last_sent > 0 THEN {Result(TRUE, d, FALSE)}
    ELSE IF d.ping_outstanding THEN {Result(FALSE, d, FALSE)}
    ELSE {Result(TRUE, [d EXCEPT !.ping_outstanding = TRUE, !.last_sent = KeepAlive], TRUE)}

\* Mutant: ping_outstanding is not set.
keepaliveForgetful(d) ==
    IF ~Expired(d) THEN {Result(TRUE, d, FALSE)}
    ELSE IF d.ping_outstanding THEN {Result(FALSE, d, FALSE)}
    ELSE {Result(TRUE, [d EXCEPT !.last_sent = KeepAlive], TRUE)}

\* Sending on a dead connection may fail.
keepalive(d) ==
    IF ~Expired(d) THEN {Result(TRUE, d, FALSE)}
    ELSE IF d.ping_outstanding THEN {Result(FALSE, d, FALSE)}
    ELSE {Result(TRUE, [d EXCEPT !.ping_outstanding = TRUE, !.last_sent = KeepAlive], TRUE)}
         \cup (IF alive THEN {} ELSE {Result(FALSE, d, FALSE)})

\* The end of cycle(): a failure closes the session, if there is one.
Exit(r) == IF r.ok \/ ~r.client.isconnected THEN r
           ELSE Result(FALSE, MQTTCloseSession(r.client), r.pings)

cycle(d) == {Exit(r) : r \in keepalive(d)}

\* cycle(), when the read failed.
cycleReadFails(d) == {Exit(Result(FALSE, d, FALSE))}

(***************************************************************************)
(* What the caller of cycle() does with its result.  MQTTConnect and       *)
(* MQTTSubscribe go on until their answer comes (waitfor); MQTT_Cycle      *)
(* takes a failure of MQTTConnect or MQTTYield for a reason to disconnect  *)
(* and ignores one of MQTTSubscribe.                                       *)
(***************************************************************************)
\* MQTTConnectWithResults; the broker may refuse.
ConnectGoesOn(r, packet) ==
    \/ /\ ~r.ok
       /\ place' = "down" /\ c' = r.client
    \/ /\ r.ok /\ packet # "CONNACK"
       /\ place' = place /\ c' = r.client
    \/ /\ r.ok /\ packet = "CONNACK"
       /\ \/ place' = "down" /\ c' = r.client
          \/ /\ place' = "connected"
             /\ c' = [r.client EXCEPT !.isconnected = TRUE, !.ping_outstanding = FALSE]

SubscribeGoesOn(r, packet) ==
    IF r.ok THEN /\ place' = IF packet = "SUBACK" THEN "MQTTYield" ELSE place
                 /\ c' = r.client
            ELSE place' = "MQTTYield" /\ c' = MQTTCloseSession(r.client)

YieldGoesOn(r) ==
    /\ place' = IF r.ok THEN place ELSE "down"
    /\ c' = r.client

GoOn(r, packet) ==
    CASE place = "MQTTConnect"   -> ConnectGoesOn(r, packet)
      [] place = "MQTTSubscribe" -> SubscribeGoesOn(r, packet)
      [] place = "MQTTYield"     -> YieldGoesOn(r)

\* answer, once the packet a has been read, and once a PINGREQ has been sent.
AfterRead(a) == [answer EXCEPT ![a] = "none"]
AfterPing(ans, r) == IF r.pings THEN [ans EXCEPT !["PINGRESP"] = "asked"] ELSE ans

-----------------------------------------------------------------------------
(***************************************************************************)
(* mqtt_task                                                               *)
(***************************************************************************)
\* Mutant: the PINGRESP is ignored.
ReceivedWithoutPingresp(a) == [c EXCEPT !.last_received = KeepAlive]

\* The client once readPacket has read the answer a, or a PUBLISH.
Received(a) == [c EXCEPT !.last_received = KeepAlive,
                         !.ping_outstanding = @ /\ a # "PINGRESP"]

ReadAnswer(a) ==
    /\ place \in Waiting /\ answer[a] = "arrived"
    /\ \E r \in cycle(Received(a)) :
          /\ GoOn(r, a)
          /\ answer' = AfterPing(AfterRead(a), r)
    /\ silence' = 0
    /\ UNCHANGED <<timer, due, news, alive>>

ReadPublish ==
    /\ place \in Waiting /\ news
    /\ \E r \in cycle(Received("PUBLISH")) :
          /\ GoOn(r, "PUBLISH")
          /\ answer' = AfterPing(answer, r)
    /\ news' = FALSE /\ silence' = 0
    /\ UNCHANGED <<timer, due, alive>>

Arrived == news \/ \E a \in Answers : answer[a] = "arrived"

\* The client after one unit of time.
Older == [c EXCEPT !.last_sent = Pass(@), !.last_received = Pass(@)]

\* waitfor reads again while its timer runs, MQTT_Cycle while no watchdog is due.
\* The read of a command waits for all the time its timer has left; taking it as
\* reads of one unit adds calls of keepalive() that find no timer expired, since
\* CommandTimeout < KeepAlive.
ReadTimesOut ==
    /\ place \in Waiting /\ ~Arrived
    /\ IF place = "MQTTYield" THEN due > 0 ELSE timer > 0
    /\ \E r \in cycle(Older) :
          /\ GoOn(r, "none")
          /\ answer' = AfterPing(answer, r)
    /\ IF place = "MQTTYield" THEN due' = Pass(due) /\ timer' = timer
                              ELSE timer' = Pass(timer) /\ due' = due
    /\ silence' = IF silence > KeepAlive + 1 THEN silence ELSE silence + 1
    /\ UNCHANGED <<news, alive>>

\* The connection is closed or broken, and the read says so: cycle() skips
\* keepalive().
ReadFails ==
    /\ place \in Waiting /\ ~Arrived /\ ~alive
    /\ \E r \in cycleReadFails(c) : GoOn(r, "none")
    /\ UNCHANGED <<timer, due, answer, news, alive, silence>>

\* waitfor gives up.
CommandTimesOut ==
    /\ place \in {"MQTTConnect", "MQTTSubscribe"} /\ timer = 0
    /\ IF place = "MQTTConnect" THEN place' = "down" /\ c' = c
                                ELSE place' = "MQTTYield" /\ c' = MQTTCloseSession(c)
    /\ UNCHANGED <<timer, due, answer, news, alive, silence>>

\* Sent(d): sendPacket has succeeded.
Sent(d) == [d EXCEPT !.last_sent = KeepAlive]

MQTTSubscribe ==
    /\ place = "connected"
    /\ \/ /\ place' = "MQTTSubscribe" /\ c' = Sent(c)
          /\ answer' = [answer EXCEPT !["SUBACK"] = "asked"]
       \/ /\ ~alive
          /\ place' = "MQTTYield" /\ c' = MQTTCloseSession(c)
          /\ answer' = answer
    /\ timer' = CommandTimeout
    /\ UNCHANGED <<due, news, alive, silence>>

\* sendWatchdog and the QOS0 publish; without a session nothing is sent.
SendWatchdog ==
    /\ place = "MQTTYield" /\ due = 0
    /\ \/ ~c.isconnected /\ c' = c
       \/ c.isconnected /\ c' = Sent(c)
       \/ c.isconnected /\ ~alive /\ c' = MQTTCloseSession(c)
    /\ due' = Period
    /\ UNCHANGED <<place, timer, answer, news, alive, silence>>

\* TLS_NetworkDisconnect, a new TLS_NetworkConnect and the next MQTTConnect.
Reconnect ==
    /\ place = "down"
    /\ place' = "MQTTConnect" /\ c' = NewClient
    /\ timer' = CommandTimeout /\ due' = Period /\ answer' = ConnectSent
    /\ news' = FALSE /\ alive' = TRUE /\ silence' = 0

(***************************************************************************)
(* The broker                                                              *)
(***************************************************************************)
BrokerAnswers(a) ==
    /\ alive /\ answer[a] = "asked"
    /\ answer' = [answer EXCEPT ![a] = "arrived"]
    /\ UNCHANGED <<place, c, timer, due, news, alive, silence>>

BrokerPublishes ==
    /\ alive /\ ~news /\ place \in {"MQTTSubscribe", "MQTTYield"}
    /\ news' = TRUE
    /\ UNCHANGED <<place, c, timer, due, answer, alive, silence>>

BrokerDies ==
    /\ alive /\ alive' = FALSE
    /\ UNCHANGED <<place, c, timer, due, answer, news, silence>>

-----------------------------------------------------------------------------
MqttTask ==
    \/ \E a \in Answers : ReadAnswer(a)
    \/ ReadPublish \/ ReadTimesOut \/ ReadFails \/ CommandTimesOut
    \/ MQTTSubscribe \/ SendWatchdog \/ Reconnect

Broker == (\E a \in Answers : BrokerAnswers(a)) \/ BrokerPublishes \/ BrokerDies

Next == MqttTask \/ Broker

Spec == Init /\ [][Next]_vars

\* Every call of mqtt_task returns: reads are bounded by SO_RCVTIMEO.
FairSpec == Spec /\ WF_vars(MqttTask)

-----------------------------------------------------------------------------
(***************************************************************************)
(* Properties                                                              *)
(***************************************************************************)
\* While the broker lives, ping_outstanding says that a PINGREQ has not had
\* its answer read: no answer is awaited that never comes, none forgotten.
OutstandingPing ==
    alive /\ place \in Waiting => (c.ping_outstanding <=> answer["PINGRESP"] # "none")

\* A broker that says nothing is given up two reads after keepAliveInterval at
\* the latest, though a failed publish clears ping_outstanding meanwhile.
DeadPeerNoticed == place # "down" => silence <= KeepAlive + 1

\* MQTTYield fails, with the broker alive, only while it owes a PINGRESP: not
\* for an answer that was read, or that is there to be read.
NoFalseAlarm ==
    [][alive /\ place = "MQTTYield" /\ place' = "down" => answer["PINGRESP"] = "asked"]_vars

\* A dead connection does not hold MQTT_STATE_RUNNING for ever.
DeadPeerEndsRunning == (place = "MQTTYield" /\ ~alive) ~> (place = "down")
=============================================================================
