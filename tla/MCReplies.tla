----------------------------- MODULE MCReplies -----------------------------
(* Constants for TLC: two motors, and packets of every kind, good and bad.    *)
EXTENDS Replies

MCU8 == 0..2
MCI32 == {0, -7}
MCEchoLengths == {0, 32, 33, 60}

Arg == { [t |-> "u8", val |-> 1], [t |-> "u8", val |-> 2],
         [t |-> "i32", val |-> -7], [t |-> "other"] }

Lists == { <<>> } \cup { <<a>> : a \in Arg } \cup { <<a, b>> : a, b \in Arg }
           \cup { <<[t |-> "other"], a, b>> : a, b \in Arg }

\* Nothing behind a packet, one argument that would be used, or two.
MCBehind == { <<>>, <<[t |-> "u8", val |-> 1]>>,
              <<[t |-> "u8", val |-> 2], [t |-> "i32", val |-> -7]>> }

Good == [kind : {"control"}, intact : {TRUE}, request : {TRUE}, prefix : {TRUE},
         op : Opcodes, args : Lists]
Bad == { p \in [kind : {"control"}, intact : BOOLEAN, request : BOOLEAN, prefix : BOOLEAN,
                op : Opcodes, args : { <<[t |-> "u8", val |-> 1]>> }] :
         ~(p.intact /\ p.request /\ p.prefix) }

MCPackets ==
    [kind : {"arp"}, request : BOOLEAN]
      \cup [kind : {"icmp"}, intact : BOOLEAN, echo : BOOLEAN, data : MCEchoLengths]
      \cup [kind : {"discover"}, intact : BOOLEAN, request : BOOLEAN, prefix : BOOLEAN]
      \cup Good \cup Bad
      \cup [kind : {"other"}]
=============================================================================
