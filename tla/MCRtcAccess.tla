----------------------------- MODULE MCRtcAccess -----------------------------
(* The values TLC gives the constants of RtcAccess are in the .cfg files.    *)
EXTENDS RtcAccess
=============================================================================
