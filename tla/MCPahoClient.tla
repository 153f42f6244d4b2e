----------------------------- MODULE MCPahoClient -----------------------------
(* The values TLC gives the constants of PahoClient are in the .cfg files.   *)
EXTENDS PahoClient
=============================================================================
