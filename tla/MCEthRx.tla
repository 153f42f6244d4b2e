-------------------------------- MODULE MCEthRx --------------------------------
(* Buffers are interchangeable.                                              *)
EXTENDS EthRx, TLC

BufferSymmetry == Permutations(Buffers)
=============================================================================
