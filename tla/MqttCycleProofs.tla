--------------------------- MODULE MqttCycleProofs ---------------------------
(***************************************************************************)
(* Proofs about MqttCycle, for any number of sockets and any counter limit.*)
(***************************************************************************)
EXTENDS MqttCycle, FiniteSetTheorems, TLAPS

(***************************************************************************)
(* The inductive invariant.  TunnelInv ties the case of the switch to the  *)
(* state of the TLS context and of the session; HeapInv is HeapLossBounded *)
(* with one socket to spare while a handshake is to begin; CounterInv says *)
(* where the last number put in the queue stands with respect to counter.  *)
(***************************************************************************)
TunnelInv ==
    /\ tls = "over" <=> state \in {"CONNECT_BROKER", "RUNNING", "ERROR"}
    /\ tls = "over" => sock # NoSocket /\ tunnel = sock /\ tlsInit /\ tlsBufs > 0
    /\ call = "TLS" => sock # NoSocket
    /\ sock # NoSocket => sock \in open
    /\ isconnected => state = "RUNNING" \/ call = "MQTTSubscribe"
    /\ handler => isconnected

HeapInv ==
    /\ tlsBufs <= Cardinality(open)
    /\ call = "TLS" => tlsBufs < Cardinality(open)

LastStored == IF call = "xQueueOverwrite" THEN counter - 1 ELSE counter

CounterInv ==
    /\ call # "xQueueOverwrite" => counter <= MaxCounter
    /\ ~wrapped =>
         /\ published < counter
         /\ saved <= LastStored
         /\ flashQueue # None => flashQueue = LastStored /\ saved < LastStored

IInv == TypeOK /\ TunnelInv /\ HeapInv /\ CounterInv

-----------------------------------------------------------------------------
LEMMA SocketsFinite ==
    ASSUME NEW S \in SUBSET Sockets
    PROVE  IsFiniteSet(S) /\ Cardinality(S) \in Nat
<1>1. IsFiniteSet(Sockets)
  BY NumSocketsAssumption, FS_Interval DEF Sockets
<1>2. IsFiniteSet(S)
  BY <1>1, FS_Subset
<1> QED
  BY <1>2, FS_CardinalityType

LEMMA SocketOpened ==
    ASSUME NEW S \in SUBSET Sockets, NEW s \in Sockets \ S
    PROVE  Cardinality(S \cup {s}) = Cardinality(S) + 1
BY SocketsFinite, FS_AddElement

LEMMA SocketClosed ==
    ASSUME NEW S \in SUBSET Sockets, NEW s \in S
    PROVE  Cardinality(S \ {s}) = Cardinality(S) - 1
BY SocketsFinite, FS_RemoveElement

-----------------------------------------------------------------------------
LEMMA InitIInv == Init => IInv
<1> SUFFICES ASSUME Init PROVE IInv
  OBVIOUS
<1>1. Cardinality(open) = 0
  BY FS_EmptySet DEF Init
<1>2. TypeOK
  <2>1. StationOK
    BY DEF Init, StationOK
  <2>2. FlagsOK
    BY DEF Init, FlagsOK
  <2>3. TransportOK
    BY DEF Init, TransportOK, NoSocket
  <2>4. CountsOK
    BY MaxCounterAssumption DEF Init, CountsOK, None
  <2> QED
    BY <2>1, <2>2, <2>3, <2>4 DEF TypeOK
<1>3. TunnelInv
  BY DEF Init, TunnelInv, NoSocket
<1>4. HeapInv
  BY <1>1 DEF Init, HeapInv
<1>5. CounterInv
  BY MaxCounterAssumption DEF Init, CounterInv, LastStored, None
<1> QED
  BY <1>2, <1>3, <1>4, <1>5 DEF IInv
-----------------------------------------------------------------------------
(***************************************************************************)
(* One lemma for each conjunct of IInv: every step keeps it.  The cases    *)
(* follow the switch of MQTT_Cycle; the last two are the other tasks and   *)
(* stuttering.                                                             *)
(***************************************************************************)
LEMMA StationStep == IInv /\ [Next]_vars => StationOK'
<1> SUFFICES ASSUME IInv, [Next]_vars PROVE StationOK'
  OBVIOUS
<1>1. CASE InitLinkUp \/ SntpTokenTaken \/ SntpWaitTimesOut
  BY <1>1 DEF IInv, TypeOK, StationOK, InitLinkUp, SntpTokenTaken,
     SntpWaitTimesOut, Goto, vars, pcVars, tlsVars, netVars, mqttVars,
     sntpVars, envVars, dogVars
<1>2. CASE NetworkNotReady \/ SocketCreationFails \/ TcpConnectFails \/
   TcpConnects
  BY <1>2 DEF IInv, TypeOK, StationOK, NetworkNotReady, RetryConnect,
     SocketCreationFails, TcpConnectFails, TcpConnects, Goto, vars, pcVars,
     tlsVars, netVars, mqttVars, sntpVars, envVars, dogVars
<1>3. CASE TlsSetupFails \/ HandshakeFails \/ HandshakeCompletes
  BY <1>3 DEF IInv, TypeOK, StationOK, TlsSetupFails, RetryConnect, Context,
     HandshakeFails, Trouble, HandshakeCompletes, Goto, vars, pcVars, tlsVars,
     netVars, mqttVars, sntpVars, envVars, dogVars
<1>4. CASE MqttConnectAccepted \/ MqttConnectFails \/ SubscribeAcked \/
   SubscribeFails
  BY <1>4 DEF IInv, TypeOK, StationOK, MqttConnectAccepted, MqttConnectFails,
     TLS_NetworkDisconnect, SubscribeAcked, StartRunning, SubscribeFails,
     MQTTCloseSession, Goto, vars, pcVars, tlsVars, netVars, mqttVars,
     sntpVars, envVars, dogVars
<1>5. CASE YieldReturns \/ YieldDropsSession \/ YieldFails
  BY <1>5 DEF IInv, TypeOK, StationOK, YieldReturns, YieldDropsSession,
     MQTTCloseSession, YieldFails, Goto, vars, pcVars, tlsVars, netVars,
     mqttVars, sntpVars, envVars, dogVars
<1>6. CASE WatchdogSkipped \/ WatchdogPublished \/ WatchdogFails \/
   OverwriteFlashQueue
  BY <1>6 DEF IInv, TypeOK, StationOK, WatchdogSkipped, CountWatchdog,
     WatchdogPublished, WatchdogFails, MQTTCloseSession, OverwriteFlashQueue,
     Goto, vars, pcVars, tlsVars, netVars, mqttVars, sntpVars, envVars,
     dogVars
<1>7. CASE ErrorCleanup
  BY <1>7 DEF IInv, TypeOK, StationOK, ErrorCleanup, TLS_NetworkDisconnect,
     Goto, vars, pcVars, tlsVars, netVars, mqttVars, sntpVars, envVars,
     dogVars
<1>8. CASE SntpAnswer \/ SntpPollDue \/ LinkChanges \/ PeerDrops \/
   NetworkCalms \/ PeriodElapses \/ SaverReceives
  BY <1>8 DEF IInv, TypeOK, StationOK, SntpAnswer, SntpPollDue, LinkChanges,
     PeerDrops, NetworkCalms, PeriodElapses, SaverReceives, Goto, vars,
     pcVars, tlsVars, netVars, mqttVars, sntpVars, envVars, dogVars
<1>9. CASE UNCHANGED vars
  BY <1>9 DEF IInv, TypeOK, StationOK, vars, pcVars, tlsVars, netVars,
     mqttVars, sntpVars, envVars, dogVars
<1> QED
  BY <1>1, <1>2, <1>3, <1>4, <1>5, <1>6, <1>7, <1>8, <1>9 DEF Next, MqttTask,
     OtherTasks

LEMMA FlagsStep == IInv /\ [Next]_vars => FlagsOK'
<1> SUFFICES ASSUME IInv, [Next]_vars PROVE FlagsOK'
  OBVIOUS
<1>1. CASE InitLinkUp \/ SntpTokenTaken \/ SntpWaitTimesOut
  BY <1>1 DEF IInv, TypeOK, FlagsOK, InitLinkUp, SntpTokenTaken,
     SntpWaitTimesOut, Goto, vars, pcVars, tlsVars, netVars, mqttVars,
     sntpVars, envVars, dogVars
<1>2. CASE NetworkNotReady
  BY <1>2 DEF IInv, TypeOK, FlagsOK, NetworkNotReady, RetryConnect, Goto,
     vars, pcVars, tlsVars, netVars, mqttVars, sntpVars, envVars, dogVars
<1>3. CASE SocketCreationFails
  BY <1>3 DEF IInv, TypeOK, FlagsOK, SocketCreationFails, RetryConnect, Goto,
     vars, pcVars, tlsVars, netVars, mqttVars, sntpVars, envVars, dogVars
<1>4. CASE TcpConnectFails
  BY <1>4 DEF IInv, TypeOK, FlagsOK, TcpConnectFails, RetryConnect, Goto,
     vars, pcVars, tlsVars, netVars, mqttVars, sntpVars, envVars, dogVars
<1>5. CASE TcpConnects
  BY <1>5 DEF IInv, TypeOK, FlagsOK, TcpConnects, Goto, vars, pcVars, tlsVars,
     netVars, mqttVars, sntpVars, envVars, dogVars
<1>6. CASE TlsSetupFails \/ HandshakeFails \/ HandshakeCompletes
  BY <1>6 DEF IInv, TypeOK, FlagsOK, TlsSetupFails, RetryConnect, Context,
     HandshakeFails, Trouble, HandshakeCompletes, Goto, vars, pcVars, tlsVars,
     netVars, mqttVars, sntpVars, envVars, dogVars
<1>7. CASE MqttConnectAccepted \/ MqttConnectFails \/ SubscribeAcked \/
   SubscribeFails
  BY <1>7 DEF IInv, TypeOK, FlagsOK, MqttConnectAccepted, MqttConnectFails,
     TLS_NetworkDisconnect, SubscribeAcked, StartRunning, SubscribeFails,
     MQTTCloseSession, Goto, vars, pcVars, tlsVars, netVars, mqttVars,
     sntpVars, envVars, dogVars
<1>8. CASE YieldReturns \/ YieldDropsSession \/ YieldFails
  BY <1>8 DEF IInv, TypeOK, FlagsOK, YieldReturns, YieldDropsSession,
     MQTTCloseSession, YieldFails, Goto, vars, pcVars, tlsVars, netVars,
     mqttVars, sntpVars, envVars, dogVars
<1>9. CASE WatchdogSkipped
  BY <1>9 DEF IInv, TypeOK, FlagsOK, WatchdogSkipped, CountWatchdog, Goto,
     vars, pcVars, tlsVars, netVars, mqttVars, sntpVars, envVars, dogVars
<1>10. CASE WatchdogPublished
  BY <1>10 DEF IInv, TypeOK, FlagsOK, WatchdogPublished, CountWatchdog, Goto,
     vars, pcVars, tlsVars, netVars, mqttVars, sntpVars, envVars, dogVars
<1>11. CASE WatchdogFails
  BY <1>11 DEF IInv, TypeOK, FlagsOK, WatchdogFails, CountWatchdog,
     MQTTCloseSession, Goto, vars, pcVars, tlsVars, netVars, mqttVars,
     sntpVars, envVars, dogVars
<1>12. CASE OverwriteFlashQueue
  BY <1>12 DEF IInv, TypeOK, FlagsOK, OverwriteFlashQueue, Goto, vars, pcVars,
     tlsVars, netVars, mqttVars, sntpVars, envVars, dogVars
<1>13. CASE ErrorCleanup
  BY <1>13 DEF IInv, TypeOK, FlagsOK, ErrorCleanup, TLS_NetworkDisconnect,
     Goto, vars, pcVars, tlsVars, netVars, mqttVars, sntpVars, envVars,
     dogVars
<1>14. CASE SntpAnswer
  BY <1>14 DEF IInv, TypeOK, FlagsOK, SntpAnswer, Goto, vars, pcVars, tlsVars,
     netVars, mqttVars, sntpVars, envVars, dogVars
<1>15. CASE SntpPollDue
  BY <1>15 DEF IInv, TypeOK, FlagsOK, SntpPollDue, Goto, vars, pcVars,
     tlsVars, netVars, mqttVars, sntpVars, envVars, dogVars
<1>16. CASE LinkChanges
  BY <1>16 DEF IInv, TypeOK, FlagsOK, LinkChanges, Goto, vars, pcVars,
     tlsVars, netVars, mqttVars, sntpVars, envVars, dogVars
<1>17. CASE PeerDrops
  BY <1>17 DEF IInv, TypeOK, FlagsOK, PeerDrops, Goto, vars, pcVars, tlsVars,
     netVars, mqttVars, sntpVars, envVars, dogVars
<1>18. CASE NetworkCalms
  BY <1>18 DEF IInv, TypeOK, FlagsOK, NetworkCalms, Goto, vars, pcVars,
     tlsVars, netVars, mqttVars, sntpVars, envVars, dogVars
<1>19. CASE PeriodElapses
  BY <1>19 DEF IInv, TypeOK, FlagsOK, PeriodElapses, Goto, vars, pcVars,
     tlsVars, netVars, mqttVars, sntpVars, envVars, dogVars
<1>20. CASE SaverReceives
  BY <1>20 DEF IInv, TypeOK, FlagsOK, SaverReceives, Goto, vars, pcVars,
     tlsVars, netVars, mqttVars, sntpVars, envVars, dogVars
<1>21. CASE UNCHANGED vars
  BY <1>21 DEF IInv, TypeOK, FlagsOK, vars, pcVars, tlsVars, netVars,
     mqttVars, sntpVars, envVars, dogVars
<1> QED
  BY <1>1, <1>2, <1>3, <1>4, <1>5, <1>6, <1>7, <1>8, <1>9, <1>10, <1>11,
     <1>12, <1>13, <1>14, <1>15, <1>16, <1>17, <1>18, <1>19, <1>20, <1>21 DEF
     Next, MqttTask, OtherTasks

LEMMA TransportStep == IInv /\ [Next]_vars => TransportOK'
<1> SUFFICES ASSUME IInv, [Next]_vars PROVE TransportOK'
  OBVIOUS
<1>1. CASE InitLinkUp \/ SntpTokenTaken \/ SntpWaitTimesOut
  BY <1>1 DEF IInv, TypeOK, TransportOK, InitLinkUp, SntpTokenTaken,
     SntpWaitTimesOut, Goto, vars, pcVars, tlsVars, netVars, mqttVars,
     sntpVars, envVars, dogVars
<1>2. CASE NetworkNotReady \/ SocketCreationFails \/ TcpConnectFails \/
   TcpConnects
  BY <1>2 DEF IInv, TypeOK, TransportOK, NetworkNotReady, RetryConnect,
     SocketCreationFails, TcpConnectFails, TcpConnects, Goto, vars, pcVars,
     tlsVars, netVars, mqttVars, sntpVars, envVars, dogVars
<1>3. CASE TlsSetupFails
  BY <1>3 DEF IInv, TypeOK, TransportOK, TlsSetupFails, RetryConnect, Context,
     Goto, vars, pcVars, tlsVars, netVars, mqttVars, sntpVars, envVars,
     dogVars
<1>4. CASE HandshakeFails
  BY <1>4 DEF IInv, TypeOK, TransportOK, HandshakeFails, RetryConnect,
     Context, Trouble, Goto, vars, pcVars, tlsVars, netVars, mqttVars,
     sntpVars, envVars, dogVars
<1>5. CASE HandshakeCompletes
  BY <1>5 DEF IInv, TypeOK, TransportOK, HandshakeCompletes, Context, Goto,
     vars, pcVars, tlsVars, netVars, mqttVars, sntpVars, envVars, dogVars
<1>6. CASE MqttConnectAccepted
  BY <1>6 DEF IInv, TypeOK, TransportOK, MqttConnectAccepted, Goto, vars,
     pcVars, tlsVars, netVars, mqttVars, sntpVars, envVars, dogVars
<1>7. CASE MqttConnectFails
  BY <1>7 DEF IInv, TypeOK, TransportOK, MqttConnectFails,
     TLS_NetworkDisconnect, Goto, vars, pcVars, tlsVars, netVars, mqttVars,
     sntpVars, envVars, dogVars
<1>8. CASE SubscribeAcked
  BY <1>8 DEF IInv, TypeOK, TransportOK, SubscribeAcked, StartRunning, Goto,
     vars, pcVars, tlsVars, netVars, mqttVars, sntpVars, envVars, dogVars
<1>9. CASE SubscribeFails
  BY <1>9 DEF IInv, TypeOK, TransportOK, SubscribeFails, StartRunning,
     MQTTCloseSession, Goto, vars, pcVars, tlsVars, netVars, mqttVars,
     sntpVars, envVars, dogVars
<1>10. CASE YieldReturns \/ YieldDropsSession \/ YieldFails
  BY <1>10 DEF IInv, TypeOK, TransportOK, YieldReturns, YieldDropsSession,
     MQTTCloseSession, YieldFails, Goto, vars, pcVars, tlsVars, netVars,
     mqttVars, sntpVars, envVars, dogVars
<1>11. CASE WatchdogSkipped \/ WatchdogPublished \/ WatchdogFails \/
   OverwriteFlashQueue
  BY <1>11 DEF IInv, TypeOK, TransportOK, WatchdogSkipped, CountWatchdog,
     WatchdogPublished, WatchdogFails, MQTTCloseSession, OverwriteFlashQueue,
     Goto, vars, pcVars, tlsVars, netVars, mqttVars, sntpVars, envVars,
     dogVars
<1>12. CASE ErrorCleanup
  BY <1>12 DEF IInv, TypeOK, TransportOK, ErrorCleanup, TLS_NetworkDisconnect,
     Goto, vars, pcVars, tlsVars, netVars, mqttVars, sntpVars, envVars,
     dogVars
<1>13. CASE SntpAnswer \/ SntpPollDue \/ LinkChanges \/ PeerDrops \/
   NetworkCalms \/ PeriodElapses \/ SaverReceives
  BY <1>13 DEF IInv, TypeOK, TransportOK, SntpAnswer, SntpPollDue,
     LinkChanges, PeerDrops, NetworkCalms, PeriodElapses, SaverReceives, Goto,
     vars, pcVars, tlsVars, netVars, mqttVars, sntpVars, envVars, dogVars
<1>14. CASE UNCHANGED vars
  BY <1>14 DEF IInv, TypeOK, TransportOK, vars, pcVars, tlsVars, netVars,
     mqttVars, sntpVars, envVars, dogVars
<1> QED
  BY <1>1, <1>2, <1>3, <1>4, <1>5, <1>6, <1>7, <1>8, <1>9, <1>10, <1>11,
     <1>12, <1>13, <1>14 DEF Next, MqttTask, OtherTasks

LEMMA CountsStep == IInv /\ [Next]_vars => CountsOK'
<1> SUFFICES ASSUME IInv, [Next]_vars PROVE CountsOK'
  OBVIOUS
<1> USE MaxCounterAssumption
<1>1. CASE InitLinkUp \/ SntpTokenTaken \/ SntpWaitTimesOut
  BY <1>1 DEF IInv, TypeOK, CountsOK, CounterInv, None, InitLinkUp,
     SntpTokenTaken, SntpWaitTimesOut, Goto, vars, pcVars, tlsVars, netVars,
     mqttVars, sntpVars, envVars, dogVars
<1>2. CASE NetworkNotReady \/ SocketCreationFails \/ TcpConnectFails \/
   TcpConnects
  BY <1>2 DEF IInv, TypeOK, CountsOK, CounterInv, None, NetworkNotReady,
     RetryConnect, SocketCreationFails, TcpConnectFails, TcpConnects, Goto,
     vars, pcVars, tlsVars, netVars, mqttVars, sntpVars, envVars, dogVars
<1>3. CASE TlsSetupFails \/ HandshakeFails \/ HandshakeCompletes
  BY <1>3 DEF IInv, TypeOK, CountsOK, CounterInv, None, TlsSetupFails,
     RetryConnect, Context, HandshakeFails, Trouble, HandshakeCompletes, Goto,
     vars, pcVars, tlsVars, netVars, mqttVars, sntpVars, envVars, dogVars
<1>4. CASE MqttConnectAccepted \/ MqttConnectFails \/ SubscribeAcked \/
   SubscribeFails
  BY <1>4 DEF IInv, TypeOK, CountsOK, CounterInv, None, MqttConnectAccepted,
     MqttConnectFails, TLS_NetworkDisconnect, SubscribeAcked, StartRunning,
     SubscribeFails, MQTTCloseSession, Goto, vars, pcVars, tlsVars, netVars,
     mqttVars, sntpVars, envVars, dogVars
<1>5. CASE YieldReturns \/ YieldDropsSession \/ YieldFails
  BY <1>5 DEF IInv, TypeOK, CountsOK, CounterInv, None, YieldReturns,
     YieldDropsSession, MQTTCloseSession, YieldFails, Goto, vars, pcVars,
     tlsVars, netVars, mqttVars, sntpVars, envVars, dogVars
<1>6. CASE WatchdogSkipped
  BY <1>6 DEF IInv, TypeOK, CountsOK, CounterInv, None, WatchdogSkipped,
     CountWatchdog, Goto, vars, pcVars, tlsVars, netVars, mqttVars, sntpVars,
     envVars, dogVars
<1>7. CASE WatchdogPublished
  BY <1>7 DEF IInv, TypeOK, CountsOK, CounterInv, None, WatchdogPublished,
     CountWatchdog, Goto, vars, pcVars, tlsVars, netVars, mqttVars, sntpVars,
     envVars, dogVars
<1>8. CASE WatchdogFails
  BY <1>8 DEF IInv, TypeOK, CountsOK, CounterInv, None, WatchdogFails,
     CountWatchdog, MQTTCloseSession, Goto, vars, pcVars, tlsVars, netVars,
     mqttVars, sntpVars, envVars, dogVars
<1>9. CASE OverwriteFlashQueue
  BY <1>9 DEF IInv, TypeOK, CountsOK, CounterInv, None, OverwriteFlashQueue,
     Goto, vars, pcVars, tlsVars, netVars, mqttVars, sntpVars, envVars,
     dogVars
<1>10. CASE ErrorCleanup
  BY <1>10 DEF IInv, TypeOK, CountsOK, CounterInv, None, ErrorCleanup,
     TLS_NetworkDisconnect, Goto, vars, pcVars, tlsVars, netVars, mqttVars,
     sntpVars, envVars, dogVars
<1>11. CASE SntpAnswer
  BY <1>11 DEF IInv, TypeOK, CountsOK, CounterInv, None, SntpAnswer, Goto,
     vars, pcVars, tlsVars, netVars, mqttVars, sntpVars, envVars, dogVars
<1>12. CASE SntpPollDue
  BY <1>12 DEF IInv, TypeOK, CountsOK, CounterInv, None, SntpPollDue, Goto,
     vars, pcVars, tlsVars, netVars, mqttVars, sntpVars, envVars, dogVars
<1>13. CASE LinkChanges
  BY <1>13 DEF IInv, TypeOK, CountsOK, CounterInv, None, LinkChanges, Goto,
     vars, pcVars, tlsVars, netVars, mqttVars, sntpVars, envVars, dogVars
<1>14. CASE PeerDrops
  BY <1>14 DEF IInv, TypeOK, CountsOK, CounterInv, None, PeerDrops, Goto,
     vars, pcVars, tlsVars, netVars, mqttVars, sntpVars, envVars, dogVars
<1>15. CASE NetworkCalms
  BY <1>15 DEF IInv, TypeOK, CountsOK, CounterInv, None, NetworkCalms, Goto,
     vars, pcVars, tlsVars, netVars, mqttVars, sntpVars, envVars, dogVars
<1>16. CASE PeriodElapses
  BY <1>16 DEF IInv, TypeOK, CountsOK, CounterInv, None, PeriodElapses, Goto,
     vars, pcVars, tlsVars, netVars, mqttVars, sntpVars, envVars, dogVars
<1>17. CASE SaverReceives
  BY <1>17 DEF IInv, TypeOK, CountsOK, CounterInv, None, SaverReceives, Goto,
     vars, pcVars, tlsVars, netVars, mqttVars, sntpVars, envVars, dogVars
<1>18. CASE UNCHANGED vars
  BY <1>18 DEF IInv, TypeOK, CountsOK, CounterInv, None, vars, pcVars,
     tlsVars, netVars, mqttVars, sntpVars, envVars, dogVars
<1> QED
  BY <1>1, <1>2, <1>3, <1>4, <1>5, <1>6, <1>7, <1>8, <1>9, <1>10, <1>11,
     <1>12, <1>13, <1>14, <1>15, <1>16, <1>17, <1>18 DEF Next, MqttTask,
     OtherTasks

LEMMA TunnelStep == IInv /\ [Next]_vars => TunnelInv'
<1> SUFFICES ASSUME IInv, [Next]_vars PROVE TunnelInv'
  OBVIOUS
<1>1. CASE InitLinkUp \/ SntpTokenTaken \/ SntpWaitTimesOut
  BY <1>1 DEF IInv, TypeOK, StationOK, FlagsOK, TransportOK, TunnelInv,
     FreeSocket, CanPublish, NoSocket, Sockets, InitLinkUp, SntpTokenTaken,
     SntpWaitTimesOut, Goto, vars, pcVars, tlsVars, netVars, mqttVars,
     sntpVars, envVars, dogVars
<1>2. CASE NetworkNotReady \/ SocketCreationFails \/ TcpConnectFails \/
   TcpConnects
  BY <1>2 DEF IInv, TypeOK, StationOK, FlagsOK, TransportOK, TunnelInv,
     FreeSocket, CanPublish, NoSocket, Sockets, NetworkNotReady, RetryConnect,
     SocketCreationFails, TcpConnectFails, TcpConnects, Goto, vars, pcVars,
     tlsVars, netVars, mqttVars, sntpVars, envVars, dogVars
<1>3. CASE TlsSetupFails \/ HandshakeFails \/ HandshakeCompletes
  BY <1>3 DEF IInv, TypeOK, StationOK, FlagsOK, TransportOK, TunnelInv,
     FreeSocket, CanPublish, NoSocket, Sockets, TlsSetupFails, RetryConnect,
     Context, HandshakeFails, Trouble, HandshakeCompletes, Goto, vars, pcVars,
     tlsVars, netVars, mqttVars, sntpVars, envVars, dogVars
<1>4. CASE MqttConnectAccepted \/ MqttConnectFails \/ SubscribeAcked \/
   SubscribeFails
  BY <1>4 DEF IInv, TypeOK, StationOK, FlagsOK, TransportOK, TunnelInv,
     FreeSocket, CanPublish, NoSocket, Sockets, MqttConnectAccepted,
     MqttConnectFails, TLS_NetworkDisconnect, SubscribeAcked, StartRunning,
     SubscribeFails, MQTTCloseSession, Goto, vars, pcVars, tlsVars, netVars,
     mqttVars, sntpVars, envVars, dogVars
<1>5. CASE YieldReturns \/ YieldDropsSession \/ YieldFails
  BY <1>5 DEF IInv, TypeOK, StationOK, FlagsOK, TransportOK, TunnelInv,
     FreeSocket, CanPublish, NoSocket, Sockets, YieldReturns,
     YieldDropsSession, MQTTCloseSession, YieldFails, Goto, vars, pcVars,
     tlsVars, netVars, mqttVars, sntpVars, envVars, dogVars
<1>6. CASE WatchdogSkipped \/ WatchdogPublished \/ WatchdogFails \/
   OverwriteFlashQueue
  BY <1>6 DEF IInv, TypeOK, StationOK, FlagsOK, TransportOK, TunnelInv,
     FreeSocket, CanPublish, NoSocket, Sockets, WatchdogSkipped,
     CountWatchdog, WatchdogPublished, WatchdogFails, MQTTCloseSession,
     OverwriteFlashQueue, Goto, vars, pcVars, tlsVars, netVars, mqttVars,
     sntpVars, envVars, dogVars
<1>7. CASE ErrorCleanup
  BY <1>7 DEF IInv, TypeOK, StationOK, FlagsOK, TransportOK, TunnelInv,
     FreeSocket, CanPublish, NoSocket, Sockets, ErrorCleanup,
     TLS_NetworkDisconnect, Goto, vars, pcVars, tlsVars, netVars, mqttVars,
     sntpVars, envVars, dogVars
<1>8. CASE SntpAnswer \/ SntpPollDue \/ LinkChanges \/ PeerDrops \/
   NetworkCalms \/ PeriodElapses \/ SaverReceives
  BY <1>8 DEF IInv, TypeOK, StationOK, FlagsOK, TransportOK, TunnelInv,
     FreeSocket, CanPublish, NoSocket, Sockets, SntpAnswer, SntpPollDue,
     LinkChanges, PeerDrops, NetworkCalms, PeriodElapses, SaverReceives, Goto,
     vars, pcVars, tlsVars, netVars, mqttVars, sntpVars, envVars, dogVars
<1>9. CASE UNCHANGED vars
  BY <1>9 DEF IInv, TypeOK, StationOK, FlagsOK, TransportOK, TunnelInv,
     FreeSocket, CanPublish, NoSocket, Sockets, vars, pcVars, tlsVars,
     netVars, mqttVars, sntpVars, envVars, dogVars
<1> QED
  BY <1>1, <1>2, <1>3, <1>4, <1>5, <1>6, <1>7, <1>8, <1>9 DEF Next, MqttTask,
     OtherTasks

LEMMA CounterStep == IInv /\ [Next]_vars => CounterInv'
<1> SUFFICES ASSUME IInv, [Next]_vars PROVE CounterInv'
  OBVIOUS
<1> USE MaxCounterAssumption
<1>1. CASE InitLinkUp \/ SntpTokenTaken \/ SntpWaitTimesOut
  BY <1>1 DEF IInv, TypeOK, StationOK, CountsOK, CounterInv, LastStored, None,
     InitLinkUp, SntpTokenTaken, SntpWaitTimesOut, Goto, vars, pcVars,
     tlsVars, netVars, mqttVars, sntpVars, envVars, dogVars
<1>2. CASE NetworkNotReady \/ SocketCreationFails \/ TcpConnectFails \/
   TcpConnects
  BY <1>2 DEF IInv, TypeOK, StationOK, CountsOK, CounterInv, LastStored, None,
     NetworkNotReady, RetryConnect, SocketCreationFails, TcpConnectFails,
     TcpConnects, Goto, vars, pcVars, tlsVars, netVars, mqttVars, sntpVars,
     envVars, dogVars
<1>3. CASE TlsSetupFails \/ HandshakeFails \/ HandshakeCompletes
  BY <1>3 DEF IInv, TypeOK, StationOK, CountsOK, CounterInv, LastStored, None,
     TlsSetupFails, RetryConnect, Context, HandshakeFails, Trouble,
     HandshakeCompletes, Goto, vars, pcVars, tlsVars, netVars, mqttVars,
     sntpVars, envVars, dogVars
<1>4. CASE MqttConnectAccepted \/ MqttConnectFails \/ SubscribeAcked \/
   SubscribeFails
  BY <1>4 DEF IInv, TypeOK, StationOK, CountsOK, CounterInv, LastStored, None,
     MqttConnectAccepted, MqttConnectFails, TLS_NetworkDisconnect,
     SubscribeAcked, StartRunning, SubscribeFails, MQTTCloseSession, Goto,
     vars, pcVars, tlsVars, netVars, mqttVars, sntpVars, envVars, dogVars
<1>5. CASE YieldReturns \/ YieldDropsSession \/ YieldFails
  BY <1>5 DEF IInv, TypeOK, StationOK, CountsOK, CounterInv, LastStored, None,
     YieldReturns, YieldDropsSession, MQTTCloseSession, YieldFails, Goto,
     vars, pcVars, tlsVars, netVars, mqttVars, sntpVars, envVars, dogVars
<1>6. CASE WatchdogSkipped
  BY <1>6 DEF IInv, TypeOK, StationOK, CountsOK, CounterInv, LastStored, None,
     WatchdogSkipped, CountWatchdog, Goto, vars, pcVars, tlsVars, netVars,
     mqttVars, sntpVars, envVars, dogVars
<1>7. CASE WatchdogPublished
  BY <1>7 DEF IInv, TypeOK, StationOK, CountsOK, CounterInv, LastStored, None,
     WatchdogPublished, CountWatchdog, Goto, vars, pcVars, tlsVars, netVars,
     mqttVars, sntpVars, envVars, dogVars
<1>8. CASE WatchdogFails
  BY <1>8 DEF IInv, TypeOK, StationOK, CountsOK, CounterInv, LastStored, None,
     WatchdogFails, CountWatchdog, MQTTCloseSession, Goto, vars, pcVars,
     tlsVars, netVars, mqttVars, sntpVars, envVars, dogVars
<1>9. CASE OverwriteFlashQueue
  <2>1. wrapped' = (wrapped \/ counter > MaxCounter)
    BY <1>9 DEF OverwriteFlashQueue
  <2>2. ASSUME ~wrapped' PROVE ~wrapped /\ ~(counter > MaxCounter)
    BY <2>1, <2>2
  <2>3. /\ flashQueue' = counter /\ call' = "MQTTYield"
        /\ counter' = IF counter > MaxCounter THEN 0 ELSE counter
        /\ published' = published /\ saved' = saved
    BY <1>9 DEF OverwriteFlashQueue, Goto
  <2>4. counter' <= MaxCounter
    BY <2>3 DEF IInv, TypeOK, CountsOK
  <2>5. ASSUME ~wrapped'
        PROVE  published' < counter' /\ flashQueue' = counter' /\ saved' < counter'
    BY <1>9, <2>2, <2>3, <2>5 DEF IInv, TypeOK, CountsOK, CounterInv, LastStored,
       OverwriteFlashQueue, None
  <2> QED
    BY <2>3, <2>4, <2>5 DEF IInv, TypeOK, CountsOK, CounterInv, LastStored, None
<1>10. CASE ErrorCleanup
  BY <1>10 DEF IInv, TypeOK, StationOK, CountsOK, CounterInv, LastStored,
     None, ErrorCleanup, TLS_NetworkDisconnect, Goto, vars, pcVars, tlsVars,
     netVars, mqttVars, sntpVars, envVars, dogVars
<1>11. CASE SntpAnswer \/ SntpPollDue \/ LinkChanges \/ PeerDrops \/
   NetworkCalms \/ PeriodElapses \/ SaverReceives
  BY <1>11 DEF IInv, TypeOK, StationOK, CountsOK, CounterInv, LastStored,
     None, SntpAnswer, SntpPollDue, LinkChanges, PeerDrops, NetworkCalms,
     PeriodElapses, SaverReceives, Goto, vars, pcVars, tlsVars, netVars,
     mqttVars, sntpVars, envVars, dogVars
<1>12. CASE UNCHANGED vars
  BY <1>12 DEF IInv, TypeOK, StationOK, CountsOK, CounterInv, LastStored,
     None, vars, pcVars, tlsVars, netVars, mqttVars, sntpVars, envVars,
     dogVars
<1> QED
  BY <1>1, <1>2, <1>3, <1>4, <1>5, <1>6, <1>7, <1>8, <1>9, <1>10, <1>11, <1>12
     DEF Next, MqttTask, OtherTasks

LEMMA HeapStep == IInv /\ [Next]_vars => HeapInv'
<1> SUFFICES ASSUME IInv, [Next]_vars PROVE HeapInv'
  OBVIOUS
<1>1. CASE InitLinkUp \/ SntpTokenTaken \/ SntpWaitTimesOut \/ NetworkNotReady
   \/ SocketCreationFails \/ TcpConnectFails \/ MqttConnectAccepted \/
   SubscribeAcked \/ SubscribeFails \/ YieldReturns \/ YieldDropsSession \/
   YieldFails \/ WatchdogSkipped \/ WatchdogPublished \/ WatchdogFails \/
   OverwriteFlashQueue \/ SntpAnswer \/ SntpPollDue \/ LinkChanges \/
   PeerDrops \/ NetworkCalms \/ PeriodElapses \/ SaverReceives
  BY <1>1 DEF IInv, HeapInv, InitLinkUp, SntpTokenTaken, SntpWaitTimesOut,
     NetworkNotReady, RetryConnect, SocketCreationFails, TcpConnectFails,
     MqttConnectAccepted, SubscribeAcked, StartRunning, SubscribeFails,
     MQTTCloseSession, YieldReturns, YieldDropsSession, YieldFails,
     WatchdogSkipped, CountWatchdog, WatchdogPublished, WatchdogFails,
     OverwriteFlashQueue, SntpAnswer, SntpPollDue, LinkChanges, PeerDrops,
     NetworkCalms, PeriodElapses, SaverReceives, Goto, vars, pcVars, tlsVars,
     netVars, mqttVars, sntpVars, envVars, dogVars
<1>2. CASE TcpConnects
  <2>1. PICK s \in Sockets : FreeSocket(s) /\ open' = open \cup {s}
    BY <1>2 DEF TcpConnects
  <2>2. Cardinality(open') = Cardinality(open) + 1
    BY <2>1, SocketOpened DEF IInv, TypeOK, TransportOK, FreeSocket
  <2>3. Cardinality(open) \in Nat
    BY SocketsFinite DEF IInv, TypeOK, TransportOK
  <2>4. tlsBufs' = tlsBufs
    BY <1>2 DEF TcpConnects, tlsVars
  <2> QED
    BY <2>2, <2>3, <2>4 DEF IInv, TypeOK, TransportOK, HeapInv
<1>3. CASE TlsSetupFails \/ HandshakeFails \/ HandshakeCompletes
  <2>1. tlsBufs' \in {tlsBufs, tlsBufs + 1} /\ open' = open /\ call' # "TLS"
    BY <1>3 DEF TlsSetupFails, HandshakeFails, HandshakeCompletes, RetryConnect, Goto
  <2>2. Cardinality(open) \in Nat
    BY SocketsFinite DEF IInv, TypeOK, TransportOK
  <2>3. call = "TLS"
    BY <1>3 DEF TlsSetupFails, HandshakeFails, HandshakeCompletes
  <2> QED
    BY <2>1, <2>2, <2>3 DEF IInv, TypeOK, TransportOK, HeapInv
<1>4. CASE MqttConnectFails
  <2>1. sock \in open /\ open \subseteq Sockets /\ tlsBufs \in Nat \ {0}
    BY <1>4 DEF IInv, TypeOK, StationOK, TransportOK, TunnelInv, MqttConnectFails
  <2>2. tlsBufs' = tlsBufs - 1 /\ open' = open \ {sock} /\ call' # "TLS"
    BY <1>4, <2>1 DEF IInv, TunnelInv, MqttConnectFails, TLS_NetworkDisconnect, Goto
  <2>3. Cardinality(open') = Cardinality(open) - 1
    BY <2>1, <2>2, SocketClosed
  <2> QED
    BY <2>1, <2>2, <2>3, SocketsFinite DEF IInv, HeapInv
<1>5. CASE ErrorCleanup
  <2>1. sock \in open /\ open \subseteq Sockets /\ tlsBufs \in Nat \ {0}
    BY <1>5 DEF IInv, TypeOK, StationOK, TransportOK, TunnelInv, ErrorCleanup
  <2>2. tlsBufs' = tlsBufs - 1 /\ open' = open \ {sock} /\ call' # "TLS"
    BY <1>5, <2>1 DEF IInv, TunnelInv, ErrorCleanup, TLS_NetworkDisconnect, Goto
  <2>3. Cardinality(open') = Cardinality(open) - 1
    BY <2>1, <2>2, SocketClosed
  <2> QED
    BY <2>1, <2>2, <2>3, SocketsFinite DEF IInv, HeapInv
<1>6. CASE UNCHANGED vars
  BY <1>6 DEF IInv, HeapInv, vars, pcVars, tlsVars, netVars, mqttVars,
     sntpVars, envVars, dogVars
<1> QED
  BY <1>1, <1>2, <1>3, <1>4, <1>5, <1>6 DEF Next, MqttTask, OtherTasks

LEMMA InvStep == IInv /\ [Next]_vars => IInv'
BY StationStep, FlagsStep, TransportStep, CountsStep, TunnelStep, HeapStep,
   CounterStep DEF IInv, TypeOK

-----------------------------------------------------------------------------
THEOREM Invariance == Spec => []IInv
<1>1. Init => IInv
  BY InitIInv
<1>2. IInv /\ [Next]_vars => IInv'
  BY InvStep
<1> QED
  BY <1>1, <1>2, PTL DEF Spec

\* The variables keep their types: no descriptor, counter or queue value ever
\* leaves the range the code gives it.
THEOREM TypeCorrectness == Spec => []TypeOK
<1>1. IInv => TypeOK
  BY DEF IInv
<1> QED
  BY <1>1, Invariance, PTL

\* client.isconnected is set only over the tunnel negotiated on the socket in
\* use, for any number of sockets.
THEOREM SessionSafe == Spec => []SessionOverLiveTunnel
<1>1. IInv => SessionOverLiveTunnel
  BY DEF IInv, TypeOK, StationOK, FlagsOK, TunnelInv, SessionOverLiveTunnel
<1> QED
  BY <1>1, Invariance, PTL

\* my_socket is -1 or open, for any number of sockets.
THEOREM SocketSafe == Spec => []NoDanglingSocket
<1>1. IInv => NoDanglingSocket
  BY DEF IInv, TunnelInv, NoDanglingSocket
<1> QED
  BY <1>1, Invariance, PTL

\* However many sockets there are, the contexts lost to failed handshakes never
\* outnumber the open sockets.
THEOREM HeapSafe == Spec => []HeapLossBounded
<1>1. IInv => HeapLossBounded
  BY DEF IInv, HeapInv, HeapLossBounded
<1> QED
  BY <1>1, Invariance, PTL

\* Whatever the limit of the counter, what waits for the flash is newer than
\* what was saved and not behind the broker.
THEOREM MailboxSafe == Spec => []MailboxFresh
<1>1. IInv => MailboxFresh
  BY DEF IInv, TypeOK, CountsOK, CounterInv, LastStored, MailboxFresh, None
<1> QED
  BY <1>1, Invariance, PTL

-----------------------------------------------------------------------------
(***************************************************************************)
(* A working tunnel is given up in two places only, a failed MQTTConnect   *)
(* and MQTT_STATE_ERROR, and both close its socket.                        *)
(***************************************************************************)
LEMMA ClosedStep == IInv /\ [Next]_vars => [tls = "over" /\ sock' # sock => sock \notin open' /\ tls' = "zero"]_vars
<1> SUFFICES ASSUME IInv, [Next]_vars PROVE [tls = "over" /\ sock' # sock => sock \notin open' /\ tls' = "zero"]_vars
  OBVIOUS
<1>1. CASE SntpTokenTaken \/ SntpWaitTimesOut \/ NetworkNotReady \/
   TlsSetupFails \/ HandshakeFails \/ HandshakeCompletes \/
   MqttConnectAccepted \/ SubscribeAcked \/ SubscribeFails \/ YieldReturns \/
   YieldDropsSession \/ YieldFails \/ WatchdogSkipped \/ WatchdogPublished \/
   WatchdogFails \/ OverwriteFlashQueue \/ SntpAnswer \/ SntpPollDue \/
   LinkChanges \/ PeerDrops \/ NetworkCalms \/ PeriodElapses \/ SaverReceives
  BY <1>1 DEF IInv, TypeOK, StationOK, FlagsOK, TransportOK, TunnelInv,
     SntpTokenTaken, SntpWaitTimesOut, NetworkNotReady, RetryConnect,
     TlsSetupFails, Context, HandshakeFails, Trouble, HandshakeCompletes,
     MqttConnectAccepted, SubscribeAcked, StartRunning, SubscribeFails,
     MQTTCloseSession, YieldReturns, YieldDropsSession, YieldFails,
     WatchdogSkipped, CountWatchdog, WatchdogPublished, WatchdogFails,
     OverwriteFlashQueue, SntpAnswer, SntpPollDue, LinkChanges, PeerDrops,
     NetworkCalms, PeriodElapses, SaverReceives, Goto, vars, pcVars, tlsVars,
     netVars, mqttVars, sntpVars, envVars, dogVars
<1>2. CASE InitLinkUp \/ SocketCreationFails \/ TcpConnectFails \/ TcpConnects
  BY <1>2 DEF IInv, TypeOK, StationOK, FlagsOK, TransportOK, TunnelInv,
     InitLinkUp, SocketCreationFails, RetryConnect, TcpConnectFails,
     TcpConnects, Goto, vars, pcVars, tlsVars, netVars, mqttVars, sntpVars,
     envVars, dogVars
<1>3. CASE MqttConnectFails
  BY <1>3 DEF MqttConnectFails, TLS_NetworkDisconnect, netVars
<1>4. CASE ErrorCleanup
  BY <1>4 DEF ErrorCleanup, TLS_NetworkDisconnect, netVars
<1>5. CASE UNCHANGED vars
  BY <1>5 DEF IInv, TypeOK, StationOK, FlagsOK, TransportOK, TunnelInv, vars,
     pcVars, tlsVars, netVars, mqttVars, sntpVars, envVars, dogVars
<1> QED
  BY <1>1, <1>2, <1>3, <1>4, <1>5 DEF Next, MqttTask, OtherTasks

\* No step lets go of a working tunnel without closing its socket.
THEOREM TunnelClosed == Spec => WorkingTunnelIsClosed
<1>1. IInv /\ [Next]_vars => [tls = "over" /\ sock' # sock => sock \notin open' /\ tls' = "zero"]_vars
  BY ClosedStep
<1> QED
  BY <1>1, Invariance, PTL DEF Spec, WorkingTunnelIsClosed

-----------------------------------------------------------------------------
(***************************************************************************)
(* MqttCycle implements BrokerSession.  SessionPhase follows the case of   *)
(* the switch: it moves to "tunnel" when the handshake completes, to       *)
(* "session" with the CONNACK, to "deaf" where the session is closed and   *)
(* back to "idle" where TLS_NetworkDisconnect is called.                   *)
(***************************************************************************)
LEMMA SessionStep == IInv /\ [Next]_vars =>
    [Abstract!Next]_(Abstract!sessionVars)
<1> SUFFICES ASSUME IInv, [Next]_vars
                PROVE  [Abstract!Next]_(Abstract!sessionVars)
  OBVIOUS
<1>1. CASE InitLinkUp \/ SntpTokenTaken \/ SntpWaitTimesOut \/ NetworkNotReady
   \/ SocketCreationFails \/ TcpConnectFails \/ TcpConnects
  BY <1>1 DEF IInv, TypeOK, StationOK, FlagsOK, TransportOK, TunnelInv,
     Abstract!Next, Abstract!Move, Abstract!sessionVars, SessionPhase,
     InitLinkUp, SntpTokenTaken, SntpWaitTimesOut, NetworkNotReady,
     RetryConnect, SocketCreationFails, TcpConnectFails, TcpConnects,
     CanPublish, Goto, vars, pcVars, tlsVars, netVars, mqttVars, sntpVars,
     envVars, dogVars
<1>2. CASE TlsSetupFails \/ HandshakeFails
  BY <1>2 DEF IInv, TypeOK, StationOK, FlagsOK, TransportOK, TunnelInv,
     Abstract!Next, Abstract!Move, Abstract!sessionVars, SessionPhase,
     TlsSetupFails, RetryConnect, Context, HandshakeFails, Trouble,
     CanPublish, Goto, vars, pcVars, tlsVars, netVars, mqttVars, sntpVars,
     envVars, dogVars
<1>3. CASE HandshakeCompletes
  BY <1>3 DEF IInv, TypeOK, StationOK, FlagsOK, TransportOK, TunnelInv,
     Abstract!Next, Abstract!Move, Abstract!sessionVars, SessionPhase,
     Abstract!OpenTunnel, HandshakeCompletes, Context, CanPublish, Goto, vars,
     pcVars, tlsVars, netVars, mqttVars, sntpVars, envVars, dogVars
<1>4. CASE MqttConnectAccepted
  BY <1>4 DEF IInv, TypeOK, StationOK, FlagsOK, TransportOK, TunnelInv,
     Abstract!Next, Abstract!Move, Abstract!sessionVars, SessionPhase,
     Abstract!OpenSession, MqttConnectAccepted, CanPublish, Goto, vars,
     pcVars, tlsVars, netVars, mqttVars, sntpVars, envVars, dogVars
<1>5. CASE MqttConnectFails
  BY <1>5 DEF IInv, TypeOK, StationOK, FlagsOK, TransportOK, TunnelInv,
     Abstract!Next, Abstract!Move, Abstract!sessionVars, SessionPhase,
     Abstract!Refuse, MqttConnectFails, TLS_NetworkDisconnect, CanPublish,
     Goto, vars, pcVars, tlsVars, netVars, mqttVars, sntpVars, envVars,
     dogVars
<1>6. CASE SubscribeAcked
  BY <1>6 DEF IInv, TypeOK, StationOK, FlagsOK, TransportOK, TunnelInv,
     Abstract!Next, Abstract!Move, Abstract!sessionVars, SessionPhase,
     SubscribeAcked, StartRunning, CanPublish, Goto, vars, pcVars, tlsVars,
     netVars, mqttVars, sntpVars, envVars, dogVars
<1>7. CASE SubscribeFails
  BY <1>7 DEF IInv, TypeOK, StationOK, FlagsOK, TransportOK, TunnelInv,
     Abstract!Next, Abstract!Move, Abstract!sessionVars, SessionPhase,
     Abstract!Lose, SubscribeFails, StartRunning, MQTTCloseSession,
     CanPublish, Goto, vars, pcVars, tlsVars, netVars, mqttVars, sntpVars,
     envVars, dogVars
<1>8. CASE YieldReturns
  BY <1>8 DEF IInv, TypeOK, StationOK, FlagsOK, TransportOK, TunnelInv,
     Abstract!Next, Abstract!Move, Abstract!sessionVars, SessionPhase,
     YieldReturns, CanPublish, Goto, vars, pcVars, tlsVars, netVars, mqttVars,
     sntpVars, envVars, dogVars
<1>9. CASE YieldDropsSession \/ YieldFails
  BY <1>9 DEF IInv, TypeOK, StationOK, FlagsOK, TransportOK, TunnelInv,
     Abstract!Next, Abstract!Move, Abstract!sessionVars, SessionPhase,
     Abstract!Lose, YieldDropsSession, MQTTCloseSession, YieldFails,
     CanPublish, Goto, vars, pcVars, tlsVars, netVars, mqttVars, sntpVars,
     envVars, dogVars
<1>10. CASE WatchdogSkipped \/ OverwriteFlashQueue
  BY <1>10 DEF IInv, TypeOK, StationOK, FlagsOK, TransportOK, TunnelInv,
     Abstract!Next, Abstract!Move, Abstract!sessionVars, SessionPhase,
     WatchdogSkipped, CountWatchdog, OverwriteFlashQueue, CanPublish, Goto,
     vars, pcVars, tlsVars, netVars, mqttVars, sntpVars, envVars, dogVars
<1>11. CASE WatchdogPublished
  BY <1>11 DEF IInv, TypeOK, StationOK, FlagsOK, TransportOK, TunnelInv,
     Abstract!Next, Abstract!Move, Abstract!sessionVars, SessionPhase,
     Abstract!Send, CountsOK, CounterInv, WatchdogPublished, CountWatchdog,
     CanPublish, Goto, vars, pcVars, tlsVars, netVars, mqttVars, sntpVars,
     envVars, dogVars
<1>12. CASE WatchdogFails
  BY <1>12 DEF IInv, TypeOK, StationOK, FlagsOK, TransportOK, TunnelInv,
     Abstract!Next, Abstract!Move, Abstract!sessionVars, SessionPhase,
     Abstract!Lose, WatchdogFails, CountWatchdog, MQTTCloseSession,
     CanPublish, Goto, vars, pcVars, tlsVars, netVars, mqttVars, sntpVars,
     envVars, dogVars
<1>13. CASE ErrorCleanup
  BY <1>13 DEF IInv, TypeOK, StationOK, FlagsOK, TransportOK, TunnelInv,
     Abstract!Next, Abstract!Move, Abstract!sessionVars, SessionPhase,
     Abstract!TearDown, ErrorCleanup, TLS_NetworkDisconnect, CanPublish, Goto,
     vars, pcVars, tlsVars, netVars, mqttVars, sntpVars, envVars, dogVars
<1>14. CASE SntpAnswer \/ SntpPollDue \/ LinkChanges \/ PeerDrops \/
   NetworkCalms \/ PeriodElapses \/ SaverReceives
  BY <1>14 DEF IInv, TypeOK, StationOK, FlagsOK, TransportOK, TunnelInv,
     Abstract!Next, Abstract!Move, Abstract!sessionVars, SessionPhase,
     SntpAnswer, SntpPollDue, LinkChanges, PeerDrops, NetworkCalms,
     PeriodElapses, SaverReceives, CanPublish, Goto, vars, pcVars, tlsVars,
     netVars, mqttVars, sntpVars, envVars, dogVars
<1>15. CASE UNCHANGED vars
  BY <1>15 DEF Abstract!sessionVars, SessionPhase, vars,
     pcVars, tlsVars, netVars, mqttVars, sntpVars, envVars, dogVars
<1> QED
  BY <1>1, <1>2, <1>3, <1>4, <1>5, <1>6, <1>7, <1>8, <1>9, <1>10, <1>11,
     <1>12, <1>13, <1>14, <1>15 DEF Next, MqttTask, OtherTasks

\* The cycle is an implementation of BrokerSession.
THEOREM Refinement == Spec => ImplementsBrokerSession
<1>1. Init => Abstract!Init
  BY DEF Init, Abstract!Init, SessionPhase, None
<1>2. IInv /\ [Next]_vars => [Abstract!Next]_(Abstract!sessionVars)
  BY SessionStep
<1> QED
  BY <1>1, <1>2, Invariance, PTL DEF Spec, ImplementsBrokerSession, Abstract!Spec
=============================================================================
