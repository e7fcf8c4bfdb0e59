----------------------------- MODULE MCChecksum -----------------------------
(* Constants for TLC: real headers, bytes of four values.                     *)
EXTENDS Checksum

Some == {0, 1, 3}
MCRoom == 28

\* ver and ihl, tos, tl, id, f, ttl, proto, cs, sa, da
Headers == { <<1, 2, 1, a, 0, 0, 0, b, 3, 1, 3, c>> \o <<2, 1, 3, 0>> \o <<2, 1, 3, e>> :
             a, b, c, e \in Some }

\* type, code, cs, id, sn, data
Echoes == { <<a, 0, 3, 3>> \o <<b, 1, 2, 3>> \o t :
            a, b \in Some, t \in { <<>> } \cup { <<x>> : x \in Bytes }
                                  \cup { <<x, y>> : x, y \in Some } }

\* sp, dp, l, cs, payload
Messages == { <<0, 0, 1, a>> \o <<2 + Len(t) \div 4, Len(t) % 4>> \o <<3, 1>> \o t :
              a \in Some, t \in { <<>> } \cup { <<x>> : x \in Bytes }
                                 \cup { <<x, y, z>> : x, y, z \in Some } }

Of(kind, Strings) ==
    { [kind |-> kind, sa |-> <<3, 2, 1, 0>>, da |-> <<2, 3, 0, a>>, bytes |-> s] :
      a \in {1, 3}, s \in Strings }

MCDatagrams == Of("ip", Headers) \cup Of("icmp", Echoes) \cup Of("udp", Messages)
=============================================================================
