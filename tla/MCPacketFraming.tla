--------------------------- MODULE MCPacketFraming ---------------------------
(* Two layouts for PacketFraming: the smallest that can be cut in its length *)
(* and in its body, and one whose body readbuf refuses.                      *)
EXTENDS PacketFraming

SomeLayouts == {[length |-> 2, body |-> 2], [length |-> 2, body |-> 3]}
=============================================================================
