----------------------------- MODULE MCMqttCycle -----------------------------
(* The values TLC gives the constants of MqttCycle are in the .cfg files.    *)
EXTENDS MqttCycle
=============================================================================
