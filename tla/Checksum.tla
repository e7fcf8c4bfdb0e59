------------------------------ MODULE Checksum ------------------------------
(***************************************************************************)
(* The internet checksum of the three protocols the program speaks.  The   *)
(* processor is little endian and adds words as they stand in memory; the  *)
(* definition adds them in network order.  A packet that is sent gets its  *)
(* checksum (pkt_builder_*_finish), one that is received is judged by its  *)
(* own (manager_handle_ip, manager_handle_icmp; that of UDP is not looked  *)
(* at).  The loops over words are steps, one addition each.                *)
(***************************************************************************)
EXTENDS Integers, Sequences

CONSTANTS
    ByteBase,   \* number of values of a byte: 256, smaller in runs
    UdpProto,   \* IP_HDR_PROTO_UDP
    Room,       \* bytes of the buffers
    Datagrams   \* what is sent and received: kind, addresses, bytes

Bytes == 0..(ByteBase - 1)
Ones == ByteBase * ByteBase - 1     \* 0xFFFF
Words == 0..Ones
Kinds == {"ip", "icmp", "udp"}

Datagram == [kind : Kinds, sa : Seq(Bytes), da : Seq(Bytes), bytes : Seq(Bytes)]

\* hdr.cs: two bytes at this offset.
ChecksumAt(kind) == CASE kind = "ip" -> 10 [] kind = "icmp" -> 2 [] kind = "udp" -> 6

\* An IP header has whole words (ihl), a UDP datagram its own length in it.
LengthsAgree(m) ==
    /\ m.kind = "ip" => Len(m.bytes) % 2 = 0
    /\ m.kind = "udp" => m.bytes[5] * ByteBase + m.bytes[6] = Len(m.bytes)

ASSUME ChecksumAssumption ==
    /\ ByteBase \in Nat /\ ByteBase >= 2 /\ UdpProto \in Bytes /\ Room \in Nat
    /\ Datagrams \subseteq Datagram
    /\ \A m \in Datagrams : /\ Len(m.sa) = 4 /\ Len(m.da) = 4
                            /\ ChecksumAt(m.kind) + 2 <= Len(m.bytes)
                            /\ Len(m.bytes) + 8 <= Room
                            /\ LengthsAgree(m)

VARIABLES
    d,          \* the datagram
    buf,        \* where it stands, followed by what was there before
    damaged,    \* a byte of it was changed on the way
    pc,         \* "sum" or "judge" while the loop runs, then "sent", "judged"
    k,          \* words added so far
    sum,        \* the accumulator
    verdict,    \* a received datagram is not thrown away
    total,      \* history: the words added so far, added as integers
    carries     \* history: carries dropped so far

loopVars == <<k, sum, total, carries>>
vars == <<d, buf, damaged, pc, loopVars, verdict>>

-----------------------------------------------------------------------------
(* Words and where they are *)

WordAt(o) == buf[o] + ByteBase * buf[o + 1]
WordsAt(o, count) == [j \in 1..count |-> WordAt(o + 2 * (j - 1))]
OddByte_None(o, n) == <<>>
OddByte(o, n) == IF n % 2 = 1 THEN <<buf[o]>> ELSE <<>>

BSWAP16(w) == (w % ByteBase) * ByteBase + w \div ByteBase

\* An address of four bytes as two words.
AddressWords(a) == <<a[1] + ByteBase * a[2], a[3] + ByteBase * a[4]>>

\* What checksum_oc16 adds for a header, icmp_calc_cs for a message of n bytes
\* and udp_calc_cs for one whose hdr.l is n: the loop over the payload runs for
\* n bytes, though eight of them are the header's.
Addends ==
    LET n == Len(d.bytes) IN
    CASE d.kind = "ip"   -> WordsAt(0, n \div 2)
      [] d.kind = "icmp" -> WordsAt(0, n \div 2) \o OddByte(n - 1, n)
      [] d.kind = "udp"  -> AddressWords(d.sa) \o AddressWords(d.da)
                            \o <<BSWAP16(UdpProto), WordAt(4)>>
                            \o WordsAt(0, 4) \o WordsAt(8, n \div 2)
                            \o OddByte(8 + n - 2, n)

\* u16 arithmetic.
checksum_oc16_add_Above(s, val) ==
    IF s + val > Ones THEN (s + 1 + val) % (Ones + 1) ELSE (s + val) % (Ones + 1)
checksum_oc16_add(s, val) ==
    IF s + val >= Ones THEN (s + 1 + val) % (Ones + 1) ELSE (s + val) % (Ones + 1)

-----------------------------------------------------------------------------
(* What any other host takes for a valid checksum (RFC 1071, 768): the bytes *)
(* in network order, those of UDP's pseudo header too, add up to a multiple  *)
(* of 0xFFFF; a UDP checksum of zero means that there is none.               *)

\* c[1] + ... + c[n]
SumTo(c, n) ==
    LET f[i \in 0..n] == IF i = 0 THEN 0 ELSE f[i - 1] + c[i] IN f[n]

NetworkSum(s) ==
    SumTo([j \in 1..Len(s) |-> s[j] * (IF j % 2 = 1 THEN ByteBase ELSE 1)], Len(s))

PeerAccepts(m) ==
    LET pseudo == IF m.kind = "udp"
                  THEN NetworkSum(m.sa \o m.da) + UdpProto + Len(m.bytes)
                  ELSE 0
    IN  /\ (NetworkSum(m.bytes) + pseudo) % Ones = 0
        /\ m.kind = "udp" => m.bytes[7] # 0 \/ m.bytes[8] # 0

WithChecksum(m, hi, lo) ==
    [m EXCEPT !.bytes[ChecksumAt(m.kind) + 1] = hi, !.bytes[ChecksumAt(m.kind) + 2] = lo]

-----------------------------------------------------------------------------
Begin == pc = "idle" /\ UNCHANGED <<loopVars, verdict>>

\* The buffer from the datagram on, over bytes that all were old before; the
\* replies over UDP are built in a buffer set to zero (main.c), the others not.
InBuffer_NotCleared(m, old) ==
    [o \in 0..(Room - 1) |-> IF o < Len(m.bytes) THEN m.bytes[o + 1] ELSE old]
InBuffer(m, old) ==
    [o \in 0..(Room - 1) |-> IF o < Len(m.bytes) THEN m.bytes[o + 1]
                             ELSE IF m.kind = "udp" THEN 0 ELSE old]

\* A datagram is built and pkt_builder_*_finish called: hdr.cs = 0 first.
ClearChecksum(m) == WithChecksum(m, 0, 0)

Send(old) ==
    /\ Begin
    /\ pc' = "sum"
    /\ d' = ClearChecksum(d)
    /\ buf' = InBuffer(d', old)
    /\ damaged' = FALSE

\* One arrives, as its sender built it or with one byte changed.  The byte that
\* holds ihl, the length of the loop, is taken to arrive as it was.
Receive(old) ==
    /\ Begin
    /\ pc' = "judge"
    /\ d.kind # "udp"
    /\ \E hi, lo \in Bytes :
           /\ d' = WithChecksum(d, hi, lo)
           /\ PeerAccepts(d')
    /\ \/ buf' = InBuffer(d', old) /\ damaged' = FALSE
       \/ /\ \E o \in (IF d.kind = "ip" THEN 1 ELSE 0)..(Len(d.bytes) - 1), b \in Bytes :
                 /\ b # InBuffer(d', old)[o]
                 /\ buf' = [InBuffer(d', old) EXCEPT ![o] = b]
          /\ damaged' = TRUE

\* One round of a loop.
AddWord ==
    /\ pc \in {"sum", "judge"}
    /\ k < Len(Addends)
    /\ LET val == Addends[k + 1] IN
       /\ sum' = checksum_oc16_add(sum, val)
       /\ total' = total + val
       /\ carries' = IF sum + val >= Ones THEN carries + 1 ELSE carries
    /\ k' = k + 1
    /\ UNCHANGED <<d, buf, damaged, pc, verdict>>

\* ~sum
Complement(s) == Ones - s

Store ==
    /\ pc = "sum" /\ k = Len(Addends)
    /\ LET at == ChecksumAt(d.kind) IN
       buf' = [buf EXCEPT ![at] = Complement(sum) % ByteBase,
                          ![at + 1] = Complement(sum) \div ByteBase]
    /\ pc' = "sent"
    /\ UNCHANGED <<d, damaged, loopVars, verdict>>

Judge ==
    /\ pc = "judge" /\ k = Len(Addends)
    /\ verdict' = (Complement(sum) = Ones)
    /\ pc' = "judged"
    /\ UNCHANGED <<d, buf, damaged, loopVars>>

\* One datagram per behaviour.
Done == pc \in {"sent", "judged"} /\ UNCHANGED vars

-----------------------------------------------------------------------------
Init ==
    /\ d \in Datagrams
    /\ buf = InBuffer(d, 0)
    /\ damaged = FALSE /\ verdict = FALSE
    /\ pc = "idle"
    /\ k = 0 /\ sum = 0 /\ total = 0 /\ carries = 0

Next ==
    \/ \E old \in Bytes : Send(old) \/ Receive(old)
    \/ AddWord \/ Store \/ Judge
    \/ Done

Spec == Init /\ [][Next]_vars

-----------------------------------------------------------------------------
TypeOK ==
    /\ d \in Datagram /\ buf \in [0..(Room - 1) -> Bytes]
    /\ damaged \in BOOLEAN /\ verdict \in BOOLEAN
    /\ pc \in {"idle", "sum", "judge", "sent", "judged"}
    /\ k \in Nat /\ sum \in Words /\ total \in Nat /\ carries \in Nat

Stored == WordAt(ChecksumAt(d.kind))

(* The accumulator is the one representative of the words' sum modulo        *)
(* 0xFFFF that is below 0xFFFF, whatever carries were dropped on the way: the *)
(* test >= 0xFFFF of checksum.c:5 never leaves the other zero behind.         *)
SumIsResidue == sum = total - carries * Ones /\ sum < Ones

(* No datagram leaves with a checksum of zero, which for UDP would mean that  *)
(* it has none (udp.c:36).                                                    *)
NeverZero == pc = "sent" => Stored # 0

(* A datagram that is sent is valid to any other host: its words are added in *)
(* the processor's byte order, and over more bytes than the datagram has      *)
(* (udp.c:18, 30-34, icmp.c:12-13).                                           *)
PeersAccept ==
    pc = "sent" => PeerAccepts([d EXCEPT !.bytes = [j \in DOMAIN @ |-> buf[j - 1]]])

(* A received datagram with any valid checksum, of either form of zero, is    *)
(* handled, and one with a single changed byte is thrown away                 *)
(* (manager.c:129, 163).                                                      *)
VerdictRight == pc = "judged" => (verdict <=> ~damaged)
=============================================================================
