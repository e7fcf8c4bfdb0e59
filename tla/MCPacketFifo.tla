---------------------------- MODULE MCPacketFifo ----------------------------
(* A ring of a few slots and bytes of three values: packets of one to three *)
(* bytes, whose length takes both length bytes, and one that never fits.    *)
EXTENDS PacketFifo

MCPackets == {<<2>>, <<0, 1>>, <<1, 0, 2>>, <<2, 2, 1, 1, 0, 0>>}
=============================================================================
