---------------------------- MODULE BrokerSession ----------------------------
(***************************************************************************)
(* What the mqtt_task promises the rest of the machine about its broker:   *)
(* every MQTT session has a TLS tunnel of its own, a session that is lost  *)
(* is never resumed, its tunnel is torn down first, and a number reaches   *)
(* the broker only inside a session.  "deaf" is a tunnel whose session is  *)
(* over and which nobody has closed yet.                                   *)
(***************************************************************************)
EXTENDS Integers

VARIABLES
    phase,   \* "idle", "tunnel", "session" or "deaf"
    sent     \* the last number handed to the broker, -1 before the first

sessionVars == <<phase, sent>>

Init == phase = "idle" /\ sent = -1

Move(from, to) == phase = from /\ phase' = to /\ UNCHANGED sent

OpenTunnel  == Move("idle", "tunnel")
OpenSession == Move("tunnel", "session")
Refuse      == Move("tunnel", "idle")
Lose        == Move("session", "deaf")
TearDown    == Move("deaf", "idle")

Send == phase = "session" /\ sent' \in Nat /\ UNCHANGED phase

Next == OpenTunnel \/ OpenSession \/ Refuse \/ Lose \/ TearDown \/ Send

Spec == Init /\ [][Next]_sessionVars
=============================================================================
