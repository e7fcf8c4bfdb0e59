--------------------------- MODULE MCEthTransmit ---------------------------
(* A buffer in which the transmit area starts in the middle, and packets of *)
(* different lengths.  A handler inside an access may leave pointers at 0  *)
(* and foreign bytes in the buffer.                                         *)
EXTENDS EthTransmit

MCJunk == {[bank |-> 2, ETXST |-> 0, ETXND |-> 0, EWRPT |-> 0,
            mem |-> [a \in Addresses |-> 1]]}

MCPackets == {<<1>>, <<2, 1>>}
=============================================================================
