------------------------------ MODULE MqttCycle ------------------------------
(***************************************************************************)
(* The mqtt_task: MQTT_Cycle (mqtt.c), the TCP/TLS transport it drives     *)
(* (NetworkInterface.c) and the outcomes of the Paho calls it makes        *)
(* (MQTTClient.c), together with the tasks that share state with it: the   *)
(* tcpip_thread, which releases sntpSyncSem from the SNTP callback, the    *)
(* EthLink thread, which moves the netif up and down, and the saveFlash    *)
(* task, which empties flashQueue.                                         *)
(*                                                                         *)
(* `state' is currentState; `call' names the blocking call the task is in, *)
(* which is where the other tasks, all of a higher priority, run.  An      *)
(* iteration that changes nothing (MQTT_STATE_INIT with the link down, an  *)
(* MQTTYield without news before the 5 s are over) is a stuttering step.   *)
(***************************************************************************)
EXTENDS Integers, FiniteSets

CONSTANTS
    NumSockets,    \* MEMP_NUM_NETCONN: the sockets lwIP can have open
    MaxCounter     \* 1UL << 31: the watchdog counter restarts above it

ASSUME NumSocketsAssumption == NumSockets \in Nat \ {0}
ASSUME MaxCounterAssumption == MaxCounter \in Nat

Sockets  == 0 .. NumSockets - 1
NoSocket == -1          \* my_socket = -1
None     == -1          \* an empty flashQueue; no number sent or saved yet

VARIABLES
    state,        \* currentState
    call,         \* the blocking call in progress
    sock,         \* network.my_socket
    open,         \* the sockets lwIP holds open
    tls,          \* ssl.state: "zero", "mid" (a handshake begun), "over"
    tlsInit,      \* is_tls_initialized
    tlsBufs,      \* record buffers mbedtls_ssl_setup allocated, not yet freed
    tunnel,       \* ghost: the open socket whose peer negotiated ssl's keys
    isconnected,  \* client.isconnected
    handler,      \* a topic filter is installed in client.messageHandlers
    sem,          \* the count of sntpSyncSem
    sntp,         \* "off", "due" (an answer may come), "waiting" (next poll)
    synced,       \* ghost: the RTC was set from SNTP
    netUp,        \* netif_is_up(&gnetif)
    linkUp,       \* netif_is_link_up(&gnetif)
    peerUp,       \* the TCP connection of sock is alive
    calm,         \* ghost: from now on the network and the broker are well
    due,          \* 5 s have passed since lastWatchdogTick
    counter,      \* the watchdog counter
    flashQueue,   \* the one-place queue to the saveFlash task
    published,    \* ghost: the last number handed to the broker
    saved,        \* ghost: the last number the saveFlash task received
    wrapped       \* ghost: the counter has restarted from 0

pcVars   == <<state, call>>
tlsVars  == <<tls, tlsInit, tlsBufs, tunnel>>
netVars  == <<sock, open, tls, tlsInit, tlsBufs, tunnel>>
mqttVars == <<isconnected, handler>>
sntpVars == <<sem, sntp, synced>>
envVars  == <<netUp, linkUp, calm>>
dogVars  == <<due, counter, flashQueue, published, saved, wrapped>>
vars == <<pcVars, netVars, mqttVars, sntpVars, envVars, peerUp, dogVars>>

\* The blocking calls each case of the switch makes.
StationOK ==
    \/ state \in {"INIT", "ERROR"} /\ call = "none"
    \/ state = "CONNECT_NETWORK" /\ call \in {"osSemaphoreWait", "NetworkConnect", "TLS"}
    \/ state = "CONNECT_BROKER" /\ call \in {"MQTTConnect", "MQTTSubscribe"}
    \/ state = "RUNNING" /\ call \in {"MQTTYield", "sendWatchdog", "xQueueOverwrite"}

FlagsOK ==
    /\ tlsInit \in BOOLEAN /\ isconnected \in BOOLEAN /\ handler \in BOOLEAN
    /\ synced \in BOOLEAN /\ netUp \in BOOLEAN /\ linkUp \in BOOLEAN
    /\ peerUp \in BOOLEAN /\ calm \in BOOLEAN /\ due \in BOOLEAN
    /\ wrapped \in BOOLEAN

TransportOK ==
    /\ sock \in Sockets \cup {NoSocket} /\ open \subseteq Sockets
    /\ tls \in {"zero", "mid", "over"} /\ tlsBufs \in Nat
    /\ tunnel \in Sockets \cup {NoSocket}

CountsOK ==
    /\ sem \in 0..1 /\ sntp \in {"off", "due", "waiting"}
    /\ counter \in 0 .. MaxCounter + 1
    /\ flashQueue \in (0 .. MaxCounter + 1) \cup {None}
    /\ published \in (0 .. MaxCounter) \cup {None}
    /\ saved \in (0 .. MaxCounter + 1) \cup {None}

TypeOK == StationOK /\ FlagsOK /\ TransportOK /\ CountsOK

Init ==
    /\ state = "INIT" /\ call = "none"
    /\ sock = NoSocket /\ open = {} /\ tunnel = NoSocket
    /\ tls = "zero" /\ tlsInit = FALSE /\ tlsBufs = 0
    /\ isconnected = FALSE /\ handler = FALSE
    /\ sem = 0 /\ sntp = "off" /\ synced = FALSE
    /\ netUp = TRUE /\ linkUp = FALSE /\ peerUp = FALSE /\ calm = FALSE
    /\ due = FALSE /\ counter = 0 /\ flashQueue = None
    /\ published = None /\ saved = None /\ wrapped = FALSE

Goto(s, c) == state' = s /\ call' = c
Trouble == ~calm \/ ~peerUp    \* the network or the broker may let a call down

(***************************************************************************)
(* MQTT_STATE_INIT.  NetworkInit forgets whatever socket network held.     *)
(***************************************************************************)
InitLinkUp ==
    /\ state = "INIT" /\ netUp /\ linkUp
    /\ sock' = NoSocket
    /\ sntp' = IF sntp = "off" THEN "due" ELSE sntp      \* sntp_initialized
    /\ Goto("CONNECT_NETWORK", "osSemaphoreWait")
    /\ UNCHANGED <<open, tlsVars, mqttVars, sem, synced, envVars, peerUp, dogVars>>

(***************************************************************************)
(* MQTT_STATE_CONNECT_NETWORK.  osSemaphoreWait returns osOK = 0 for a     *)
(* token and osErrorOS for a timeout, and the code connects on a result    *)
(* different from 0.  Two answers of the SNTP server are an hour apart     *)
(* (SNTP_UPDATE_DELAY), so a wait of 30 s times out between them.          *)
(***************************************************************************)
SntpTokenTaken ==
    /\ call = "osSemaphoreWait" /\ sem = 1
    /\ sem' = 0
    /\ Goto("INIT", "none")
    /\ UNCHANGED <<netVars, mqttVars, sntp, synced, envVars, peerUp, dogVars>>

SntpWaitTimesOut ==
    /\ call = "osSemaphoreWait" /\ sem = 0
    /\ sntp' = IF sntp = "waiting" THEN "due" ELSE sntp
    /\ Goto("CONNECT_NETWORK", "NetworkConnect")
    /\ UNCHANGED <<netVars, mqttVars, sem, synced, envVars, peerUp, dogVars>>

\* lwip_socket takes the lowest free descriptor (alloc_socket).
FreeSocket(s) == s \in Sockets \ open /\ \A t \in Sockets \ open : s <= t

RetryConnect == Goto("CONNECT_NETWORK", "osSemaphoreWait")

NetworkNotReady ==
    /\ call = "NetworkConnect" /\ ~netUp
    /\ RetryConnect
    /\ UNCHANGED <<netVars, mqttVars, sntpVars, envVars, peerUp, dogVars>>

SocketCreationFails ==
    /\ call = "NetworkConnect" /\ netUp /\ open = Sockets
    /\ sock' = NoSocket
    /\ RetryConnect
    /\ UNCHANGED <<open, tlsVars, mqttVars, sntpVars, envVars, peerUp, dogVars>>

\* The connection is refused or select() times out: the socket is closed again.
TcpConnectFails ==
    /\ call = "NetworkConnect" /\ netUp /\ open # Sockets /\ ~calm
    /\ sock' = NoSocket
    /\ RetryConnect
    /\ UNCHANGED <<open, tlsVars, mqttVars, sntpVars, envVars, peerUp, dogVars>>

TcpConnects ==
    /\ call = "NetworkConnect" /\ netUp
    /\ \E s \in Sockets : FreeSocket(s) /\ sock' = s /\ open' = open \cup {s}
    /\ peerUp' = TRUE
    /\ Goto("CONNECT_NETWORK", "TLS")
    /\ UNCHANGED <<tlsVars, mqttVars, sntpVars, envVars, dogVars>>

\* TLS_NetworkConnect initialises the contexts only when the flag is clear.
Context == IF tlsInit THEN tls ELSE "zero"

\* mbedtls_ctr_drbg_seed or mbedtls_ssl_setup fails, the latter when the heap
\* is short: return -1, and neither the socket nor the contexts are released.
TlsSetupFails ==
    /\ call = "TLS" /\ (~calm \/ tlsBufs > 0)
    /\ tlsInit' = TRUE /\ tls' = Context
    /\ RetryConnect
    /\ UNCHANGED <<sock, open, tlsBufs, tunnel, mqttVars, sntpVars, envVars, peerUp, dogVars>>

\* Mutant: the socket is closed after a failed handshake, the contexts kept.
HandshakeFailsKeepingContexts ==
    /\ call = "TLS" /\ (Trouble \/ Context = "mid") /\ Context # "over"
    /\ tlsInit' = TRUE /\ tlsBufs' = tlsBufs + 1
    /\ tls' \in {Context, "mid"}
    /\ sock' = NoSocket /\ open' = open \ {sock}
    /\ RetryConnect
    /\ UNCHANGED <<tunnel, mqttVars, sntpVars, envVars, peerUp, dogVars>>

\* ssl->state survives a second mbedtls_ssl_setup, so a handshake once begun
\* waits on the next socket for an answer to a ClientHello it does not send.
\* It fails before the ClientHello only when the random generator does.
HandshakeFails ==
    /\ call = "TLS" /\ (Trouble \/ Context = "mid") /\ Context # "over"
    /\ tlsInit' = TRUE /\ tlsBufs' = tlsBufs + 1
    /\ tls' \in {Context, "mid"}
    /\ RetryConnect
    /\ UNCHANGED <<sock, open, tunnel, mqttVars, sntpVars, envVars, peerUp, dogVars>>

\* mbedtls_ssl_handshake returns 0 at once when the context is already "over".
\* MQTTClientInit then resets the client.
HandshakeCompletes ==
    /\ call = "TLS" /\ ((Context = "zero" /\ peerUp) \/ Context = "over")
    /\ tlsInit' = TRUE /\ tlsBufs' = tlsBufs + 1
    /\ tls' = "over"
    /\ tunnel' = IF Context = "zero" THEN sock ELSE tunnel
    /\ isconnected' = FALSE /\ handler' = FALSE
    /\ Goto("CONNECT_BROKER", "MQTTConnect")
    /\ UNCHANGED <<sock, open, sntpVars, envVars, peerUp, dogVars>>

\* Mutant: mbedtls_ssl_free and the reset of is_tls_initialized forgotten.
DisconnectKeepingContexts ==
    /\ open' = open \ {sock}
    /\ tunnel' = IF tunnel = sock THEN NoSocket ELSE tunnel
    /\ sock' = NoSocket
    /\ peerUp' = FALSE
    /\ UNCHANGED <<tls, tlsInit, tlsBufs>>

\* Mutant: NetworkDisconnect closes the socket and keeps its number.
DisconnectKeepingNumber ==
    /\ tls' = "zero" /\ tlsInit' = FALSE
    /\ tlsBufs' = IF tlsBufs > 0 THEN tlsBufs - 1 ELSE 0
    /\ open' = open \ {sock}
    /\ tunnel' = IF tunnel = sock THEN NoSocket ELSE tunnel
    /\ peerUp' = FALSE
    /\ UNCHANGED sock

(***************************************************************************)
(* TLS_NetworkDisconnect: mbedtls_ssl_free releases and zeroes the         *)
(* contexts, NetworkDisconnect closes the socket, if there is one.         *)
(***************************************************************************)
TLS_NetworkDisconnect ==
    /\ tls' = "zero" /\ tlsInit' = FALSE
    /\ tlsBufs' = IF tlsBufs > 0 THEN tlsBufs - 1 ELSE 0
    /\ open' = open \ {sock}
    /\ tunnel' = IF tunnel = sock THEN NoSocket ELSE tunnel
    /\ sock' = NoSocket
    /\ peerUp' = FALSE

\* MQTTCloseSession; MQTTConnect set cleansession, so the handlers go too.
MQTTCloseSession == isconnected' = FALSE /\ handler' = FALSE

(***************************************************************************)
(* MQTT_STATE_CONNECT_BROKER.  The result of MQTTSubscribe is ignored.     *)
(***************************************************************************)
MqttConnectAccepted ==
    /\ call = "MQTTConnect" /\ peerUp /\ ~isconnected
    /\ isconnected' = TRUE
    /\ Goto("CONNECT_BROKER", "MQTTSubscribe")
    /\ UNCHANGED <<netVars, handler, sntpVars, envVars, peerUp, dogVars>>

\* Mutant: the disconnection left out.
MqttConnectFailsWithoutDisconnect ==
    /\ call = "MQTTConnect" /\ (Trouble \/ isconnected)
    /\ Goto("CONNECT_NETWORK", "osSemaphoreWait")
    /\ UNCHANGED <<netVars, peerUp, mqttVars, sntpVars, envVars, dogVars>>

MqttConnectFails ==
    /\ call = "MQTTConnect" /\ (Trouble \/ isconnected)
    /\ TLS_NetworkDisconnect
    /\ Goto("CONNECT_NETWORK", "osSemaphoreWait")
    /\ UNCHANGED <<mqttVars, sntpVars, envVars, dogVars>>

StartRunning ==
    /\ due' = FALSE                               \* lastWatchdogTick = now
    /\ Goto("RUNNING", "MQTTYield")
    /\ UNCHANGED <<counter, flashQueue, published, saved, wrapped>>

\* A SUBACK that refuses the subscription (0x80) installs no handler.
SubscribeAcked ==
    /\ call = "MQTTSubscribe" /\ isconnected /\ peerUp
    /\ \E granted \in BOOLEAN : handler' = (handler \/ granted)
    /\ StartRunning
    /\ UNCHANGED <<netVars, isconnected, sntpVars, envVars, peerUp>>

SubscribeFails ==
    /\ call = "MQTTSubscribe" /\ (Trouble \/ ~isconnected)
    /\ MQTTCloseSession
    /\ StartRunning
    /\ UNCHANGED <<netVars, sntpVars, envVars, peerUp>>

(***************************************************************************)
(* MQTT_STATE_RUNNING                                                      *)
(***************************************************************************)
YieldReturns ==
    /\ call = "MQTTYield" /\ due
    /\ Goto("RUNNING", "sendWatchdog")
    /\ UNCHANGED <<netVars, mqttVars, sntpVars, envVars, peerUp, dogVars>>

\* cycle() closes the session for a packet type it does not know and returns
\* that type, which MQTTYield takes for success.
YieldDropsSession ==
    /\ call = "MQTTYield" /\ isconnected /\ ~calm
    /\ MQTTCloseSession
    /\ UNCHANGED <<pcVars, netVars, sntpVars, envVars, peerUp, dogVars>>

\* A read or a ping fails: cycle() closes the session and returns below 0.
YieldFails ==
    /\ call = "MQTTYield" /\ Trouble
    /\ MQTTCloseSession
    /\ Goto("ERROR", "none")
    /\ UNCHANGED <<netVars, sntpVars, envVars, peerUp, dogVars>>

\* sendWatchdog(counter++): the counter moves on whatever becomes of the message.
CountWatchdog ==
    /\ call = "sendWatchdog"
    /\ counter' = counter + 1
    /\ Goto("RUNNING", "xQueueOverwrite")
    /\ UNCHANGED <<netVars, sntpVars, envVars, due, flashQueue, saved, wrapped>>

\* Mutant: only the socket is looked at before publishing.
CanPublishOnSocket == sock # NoSocket

CanPublish == isconnected /\ sock # NoSocket

WatchdogSkipped ==
    /\ CountWatchdog /\ ~CanPublish
    /\ UNCHANGED <<mqttVars, peerUp, published>>

WatchdogPublished ==
    /\ CountWatchdog /\ CanPublish
    /\ published' = counter
    /\ UNCHANGED <<mqttVars, peerUp>>

\* A write that fails leaves its record in ssl, and the next mbedtls_ssl_write
\* only flushes that: the ping it should have been is never sent, so the
\* connection is as good as dead.
WatchdogFails ==
    /\ CountWatchdog /\ CanPublish /\ Trouble
    /\ MQTTCloseSession
    /\ peerUp' = FALSE
    /\ UNCHANGED published

\* Mutant: xQueueSend, which leaves a full queue as it is.
SendFlashQueue ==
    /\ call = "xQueueOverwrite"
    /\ flashQueue' = IF flashQueue = None THEN counter ELSE flashQueue
    /\ counter' = IF counter > MaxCounter THEN 0 ELSE counter
    /\ wrapped' = (wrapped \/ counter > MaxCounter)
    /\ due' = FALSE
    /\ Goto("RUNNING", "MQTTYield")
    /\ UNCHANGED <<netVars, mqttVars, sntpVars, envVars, peerUp, published, saved>>

\* Mutant: the counter restarts one number too late.
OverwriteRestartingLate ==
    /\ call = "xQueueOverwrite"
    /\ flashQueue' = counter
    /\ counter' = IF counter > MaxCounter + 1 THEN 0 ELSE counter
    /\ wrapped' = (wrapped \/ counter > MaxCounter + 1)
    /\ due' = FALSE
    /\ Goto("RUNNING", "MQTTYield")
    /\ UNCHANGED <<netVars, mqttVars, sntpVars, envVars, peerUp, published, saved>>

OverwriteFlashQueue ==
    /\ call = "xQueueOverwrite"
    /\ flashQueue' = counter
    /\ counter' = IF counter > MaxCounter THEN 0 ELSE counter
    /\ wrapped' = (wrapped \/ counter > MaxCounter)
    /\ due' = FALSE
    /\ Goto("RUNNING", "MQTTYield")
    /\ UNCHANGED <<netVars, mqttVars, sntpVars, envVars, peerUp, published, saved>>

(***************************************************************************)
(* MQTT_STATE_ERROR                                                        *)
(***************************************************************************)
\* Mutant: my_socket is set to -1 before it is tested.
ErrorCleanupTooLate ==
    /\ state = "ERROR"
    /\ sock' = NoSocket
    /\ isconnected' = FALSE
    /\ Goto("INIT", "none")
    /\ UNCHANGED <<open, tlsVars, peerUp, handler, sntpVars, envVars, dogVars>>

\* Mutant: back to the broker over the tunnel that is still there.
ErrorCleanupKeepingTunnel ==
    /\ state = "ERROR"
    /\ isconnected' = FALSE
    /\ Goto("CONNECT_BROKER", "MQTTConnect")
    /\ UNCHANGED <<netVars, peerUp, handler, sntpVars, envVars, dogVars>>

ErrorCleanup ==
    /\ state = "ERROR"
    /\ IF sock # NoSocket THEN TLS_NetworkDisconnect
                          ELSE UNCHANGED <<netVars, peerUp>>
    /\ isconnected' = FALSE
    /\ Goto("INIT", "none")
    /\ UNCHANGED <<handler, sntpVars, envVars, dogVars>>

(***************************************************************************)
(* The other tasks and the world                                           *)
(***************************************************************************)
\* The SNTP callback set_rtc_from_sntp, in the tcpip_thread.
SntpAnswer ==
    /\ sntp = "due"
    /\ sntp' = "waiting" /\ synced' = TRUE
    /\ sem' = 1                    \* osSemaphoreRelease on a binary semaphore
    /\ UNCHANGED <<pcVars, netVars, mqttVars, envVars, peerUp, dogVars>>

\* The hour between two polls goes by where the task can stay that long.
SntpPollDue ==
    /\ sntp = "waiting"
    /\ (state = "RUNNING" \/ (state = "INIT" /\ ~linkUp))
    /\ sntp' = "due"
    /\ UNCHANGED <<pcVars, netVars, mqttVars, sem, synced, envVars, peerUp, dogVars>>

\* ethernet_link_thread takes the netif down and up with the PHY.
LinkChanges ==
    /\ ~calm
    /\ linkUp' = ~linkUp /\ netUp' = linkUp'
    /\ UNCHANGED <<pcVars, netVars, mqttVars, sntpVars, calm, peerUp, dogVars>>

PeerDrops ==
    /\ peerUp /\ ~calm
    /\ peerUp' = FALSE
    /\ UNCHANGED <<pcVars, netVars, mqttVars, sntpVars, envVars, dogVars>>

NetworkCalms ==
    /\ ~calm /\ linkUp
    /\ calm' = TRUE
    /\ UNCHANGED <<pcVars, netVars, mqttVars, sntpVars, netUp, linkUp, peerUp, dogVars>>

PeriodElapses ==
    /\ state = "RUNNING" /\ ~due
    /\ due' = TRUE
    /\ UNCHANGED <<pcVars, netVars, mqttVars, sntpVars, envVars, peerUp,
                   counter, flashQueue, published, saved, wrapped>>

\* StartButtonTask: osMessageGet(flashQueueHandle, 0) when the button goes down.
SaverReceives ==
    /\ flashQueue # None
    /\ saved' = flashQueue /\ flashQueue' = None
    /\ UNCHANGED <<pcVars, netVars, mqttVars, sntpVars, envVars, peerUp,
                   due, counter, published, wrapped>>

MqttTask ==
    \/ InitLinkUp
    \/ SntpTokenTaken \/ SntpWaitTimesOut
    \/ NetworkNotReady \/ SocketCreationFails \/ TcpConnectFails \/ TcpConnects
    \/ TlsSetupFails \/ HandshakeFails \/ HandshakeCompletes
    \/ MqttConnectAccepted \/ MqttConnectFails
    \/ SubscribeAcked \/ SubscribeFails
    \/ YieldReturns \/ YieldDropsSession \/ YieldFails
    \/ WatchdogSkipped \/ WatchdogPublished \/ WatchdogFails
    \/ OverwriteFlashQueue
    \/ ErrorCleanup

OtherTasks == SntpAnswer \/ SntpPollDue \/ LinkChanges \/ PeerDrops
              \/ NetworkCalms \/ PeriodElapses \/ SaverReceives

Next == MqttTask \/ OtherTasks

Spec == Init /\ [][Next]_vars

(***************************************************************************)
(* Fairness.  The higher priorities all block (osDelay, queue and          *)
(* semaphore waits), so the task goes on; the tick makes the 5 s pass; and *)
(* a dead connection is noticed at some MQTTYield, for keepalive() sends a *)
(* ping when 60 s brought nothing and fails when no answer comes.          *)
(***************************************************************************)
Fairness ==
    /\ WF_vars(MqttTask)
    /\ WF_vars(PeriodElapses)
    /\ SF_vars(YieldFails /\ ~peerUp)

FairSpec == Spec /\ Fairness

-----------------------------------------------------------------------------
(***************************************************************************)
(* Properties                                                              *)
(***************************************************************************)

\* The MQTT session lives only on an open socket, inside the very tunnel whose
\* keys were negotiated on that socket, and only where the cycle serves it;
\* a message handler is installed only during a session (client.isconnected,
\* TLS_NetworkDisconnect, MQTTCloseSession).
SessionOverLiveTunnel ==
    /\ isconnected => /\ sock \in open /\ tunnel = sock /\ tls = "over"
                      /\ state = "RUNNING" \/ call = "MQTTSubscribe"
    /\ handler => isconnected

\* network.my_socket never names a descriptor that lwIP has closed, so no call
\* reads, writes or closes a socket that may already be somebody else's.
NoDanglingSocket == sock # NoSocket => sock \in open

\* The record buffers that failed handshakes leave on the heap never outnumber
\* the sockets they leave open: the socket table runs out before the heap does.
HeapLossBounded == tlsBufs <= Cardinality(open)

\* No step lets go of the socket of a working tunnel without closing it and
\* freeing the TLS contexts (MQTT_STATE_ERROR, failed MQTTConnect).
WorkingTunnelIsClosed ==
    [][tls = "over" /\ sock' # sock => sock \notin open' /\ tls' = "zero"]_vars

\* Until the counter restarts, what waits in flashQueue is newer than whatever
\* the saveFlash task took before and never behind what the broker has seen,
\* even while sendWatchdog and xQueueOverwrite are interrupted between them.
MailboxFresh ==
    ~wrapped /\ flashQueue # None =>
        /\ flashQueue > saved
        /\ published <= flashQueue
        /\ call # "xQueueOverwrite" => published < flashQueue

\* After a handshake that broke off, or with every descriptor lost, nothing the
\* cycle does brings the connection back.
Stranded == tls = "mid" \/ (open = Sockets /\ tls # "over")

\* Once the network and the broker are well, the cycle reaches
\* MQTT_STATE_RUNNING and stays there, whatever failed before, unless an
\* earlier TLS handshake broke off or failed attempts used up the sockets.
RecoversUnlessStranded ==
    <>calm => <>[](state = "RUNNING") \/ <>[]Stranded

\* The abstract connection this cycle implements.
SessionPhase ==
    CASE isconnected                            -> "session"
      [] ~isconnected /\ tls # "over"           -> "idle"
      [] ~isconnected /\ tls = "over" /\ call = "MQTTConnect" -> "tunnel"
      [] OTHER                                  -> "deaf"

Abstract == INSTANCE BrokerSession WITH phase <- SessionPhase, sent <- published

\* Sessions are opened, used and given up as BrokerSession allows: a session
\* lost in RUNNING is never reopened over the tunnel it had.
ImplementsBrokerSession == Abstract!Spec

\* mqtt.c:161 and main.c:168: TLS is started when the semaphore says that SNTP
\* has set the clock.
TlsAfterSntp == call = "TLS" => synced
=============================================================================
