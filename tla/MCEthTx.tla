-------------------------------- MODULE MCEthTx --------------------------------
(* The ring of EthTx on small sets of packets.                               *)
EXTENDS EthTx
=============================================================================
