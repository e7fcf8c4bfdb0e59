--------------------------- MODULE RepliesProofs ---------------------------
(***************************************************************************)
(* Theorems about Replies, for any number of motors, any vendor string and *)
(* any packets: replies are whole and carry nothing of earlier ones, their *)
(* checksums agree with them, and main does what a packet asks for.        *)
(***************************************************************************)
EXTENDS Replies, SequenceTheorems, TLAPS

None == [kind |-> "other"]
Stages == {"build", "payload", "lengths", "udpsum", "ipsum", "icmpsum", "write"}

(* What the fields of a packet are.                                          *)
LEMMA PacketFields ==
    ASSUME NEW p \in Packets \cup {None}
    PROVE  /\ p.kind \in {"arp", "icmp", "discover", "control", "other"}
           /\ p.kind = "icmp" => p.data \in Nat
           /\ p.kind = "control" =>
                 /\ p.op \in Opcodes /\ p.args \in Seq(Arguments)
                 /\ Len(p.args) \in Nat /\ DOMAIN p.args = 1..Len(p.args)
                 /\ p.args = <<>> \/ Len(p.args) >= 1
                 /\ \A j \in 1..Len(p.args) : /\ p.args[j].t \in {"u8", "i32", "other"}
                                              /\ p.args[j].t = "u8" => p.args[j].val \in U8
                                              /\ p.args[j].t = "i32" => p.args[j].val \in I32
<1>1. CASE p = None
    BY <1>1 DEF None
<1>2. CASE p \in Packets
    <2>1. p \in Packet
        BY <1>2, RepliesAssumption
    <2>2. /\ p.kind \in {"arp", "icmp", "discover", "control", "other"}
          /\ p.kind = "icmp" => p.data \in EchoLengths
          /\ p.kind = "control" => p.op \in Opcodes /\ p.args \in Seq(Arguments)
        BY <2>1 DEF Packet
    <2>3. ASSUME p.kind = "control"
          PROVE  /\ Len(p.args) \in Nat /\ DOMAIN p.args = 1..Len(p.args)
                 /\ p.args = <<>> \/ Len(p.args) >= 1
                 /\ \A j \in 1..Len(p.args) : p.args[j].t \in {"u8", "i32", "other"}
        <3>1. p.args \in Seq(Arguments)
            BY <2>2, <2>3
        <3>2. Len(p.args) \in Nat /\ DOMAIN p.args = 1..Len(p.args)
            BY <3>1, LenProperties
        <3>3. Len(p.args) = 0 => p.args = <<>>
            BY <3>1, EmptySeq
        <3>4. ASSUME NEW j \in 1..Len(p.args) PROVE p.args[j].t \in {"u8", "i32", "other"}
            <4>1. p.args[j] \in Arguments
                BY <3>1, ElementOfSeq
            <4> QED BY <4>1 DEF Arguments
        <3> QED BY <3>2, <3>3, <3>4, SMT
    <2>4. p.kind = "control" => WellTyped(p.args)
        BY <1>2, RepliesAssumption
    <2> QED BY <2>2, <2>3, <2>4, RepliesAssumption DEF WellTyped
<1> QED BY <1>1, <1>2

-----------------------------------------------------------------------------
(* The reply in write_buffer *)

\* The last byte of the reply.
Last ==
    CASE in.kind = "arp"      -> 42
      [] in.kind = "icmp"     -> 42 + in.data
      [] in.kind = "control"  -> 60 + AddedArguments
      [] in.kind = "discover" -> 47 + Vendor

\* What is not yet written before a step, once the payload is.
Missing ==
    CASE pc = "lengths" -> {17, 18, 25, 26, 39, 40, 41, 42}
                              \cup (IF in.kind = "control" THEN {59, 60} ELSE {})
      [] pc = "udpsum"  -> {25, 26, 41, 42}
      [] pc = "ipsum"   -> {25, 26} \cup (IF in.kind = "icmp" THEN {37, 38} ELSE {})
      [] pc = "icmpsum" -> {37, 38}
      [] pc = "write"   -> {}

\* Which packets come to which step.
StageInv ==
    /\ pc \in Stages => /\ in.kind \in {"arp", "icmp", "discover", "control"}
                        /\ in.kind = "control" => in.op \in {"info", "status"}
    /\ pc \in {"payload", "ipsum"} => in.kind # "arp"
    /\ pc \in {"lengths", "udpsum"} => OverUdp
    /\ pc = "icmpsum" => in.kind = "icmp"
    /\ pc \in {"args", "act"} => /\ in.kind = "control"
                                 /\ in.op \in {"move", "enable", "disable", "status"}
                                 /\ ForUs(in)

BufferInv ==
    /\ fresh \subseteq Nat /\ stale \subseteq Nat
    /\ 0 \notin fresh /\ 0 \notin stale
    /\ fresh \cap stale = {}
    /\ pc \in Stages \ {"build"} /\ OverUdp => \A x \in stale : x >= ClearedTo
    /\ pc = "payload" => fresh = Headers
    /\ pc \in {"lengths", "udpsum", "ipsum", "icmpsum", "write"} =>
           fresh = (1..Last) \ Missing

LengthInv ==
    /\ tl \in [control : Nat, udp : Nat, ip : Nat]
    /\ pc \in {"udpsum", "ipsum", "icmpsum", "write"} /\ in.kind # "arp" => 14 + tl.ip = Last
    /\ pc \in {"udpsum", "ipsum", "write"} /\ OverUdp => tl.ip = 20 + tl.udp
    /\ pc \in {"udpsum", "ipsum", "write"} /\ in.kind = "control" => tl.udp = 8 + tl.control

SumInv ==
    /\ pc \in {"args", "act", "build", "payload", "lengths", "udpsum"} => right = {}
    /\ pc = "ipsum" => right = IF in.kind = "icmp" THEN {} ELSE {"udp"}
    /\ pc = "icmpsum" => right = {"ip"}
    /\ ChecksumsRight

\* A reply over UDP and the eight bytes behind it fit the part that is zeroed.
LEMMA RepliesFit ==
    ASSUME in \in Packets \cup {None}, OverUdp, in.kind = "control" => in.op \in {"info", "status"}
    PROVE  /\ Last \in Nat /\ Last >= 47 /\ Last + 8 < ClearedTo
           /\ in.kind = "control" => Last >= 60
           /\ Last = 42 + UdpPayload /\ UdpPayload \in Nat
<1>1. StepperCount \in Nat /\ Vendor \in Nat /\ ClearedTo \in Nat
      /\ ClearedTo >= 65 + 11 * StepperCount + 8
      /\ ClearedTo >= 81 + 8 /\ ClearedTo >= 48 + Vendor + 8
    BY RepliesAssumption
<1>2. CASE in.kind = "discover"
    <2>1. Last = 47 + Vendor /\ UdpPayload = 5 + Vendor
        BY <1>2 DEF Last, UdpPayload
    <2> QED BY <1>1, <1>2, <2>1, SMT
<1>3. CASE in.kind = "control"
    <2>1. Last = 60 + AddedArguments /\ UdpPayload = 18 + ReplyArguments
        BY <1>3 DEF Last, UdpPayload
    <2> QED BY <1>1, <1>3, <2>1, SMT DEF AddedArguments, ReplyArguments
<1> QED BY <1>2, <1>3 DEF OverUdp

ReplyInv ==
    /\ in \in Packets \cup {None}
    /\ pc \in {"poll", "args", "act"} \cup Stages
    /\ StageInv /\ BufferInv /\ LengthInv /\ SumInv

LEMMA InitReply == Init => ReplyInv
BY DEF Init, ReplyInv, None, Stages, StageInv, BufferInv, LengthInv, SumInv, ChecksumsRight,
       NoLengths, OverUdp

LEMMA TakeReply ==
    ASSUME ReplyInv, NEW p \in Packets, Take(p)
    PROVE  ReplyInv'
<1>1. /\ in' = p /\ pc' = (IF ForUs(p) THEN FirstStep(p) ELSE "poll")
      /\ fresh' = {} /\ stale' = stale \cup fresh /\ tl' = NoLengths /\ right' = {}
    BY DEF Take
<1>2. pc' \in {"poll", "build", "args"}
    BY <1>1 DEF FirstStep
<1>3. p.kind = "control" => p.op \in Opcodes
    BY PacketFields
<1>4. StageInv'
    BY <1>1, <1>2, <1>3 DEF StageInv, Stages, FirstStep, Opcodes, ForUs, ArpForUs, IcmpForUs,
                             UdpForUs
<1>5. BufferInv'
    BY <1>1, <1>2 DEF ReplyInv, BufferInv, Stages
<1>6. LengthInv' /\ SumInv'
    BY <1>1, <1>2 DEF LengthInv, SumInv, ChecksumsRight, NoLengths
<1> QED BY <1>1, <1>2, <1>4, <1>5, <1>6 DEF ReplyInv, Stages

LEMMA ParseReply ==
    ASSUME ReplyInv, ParseArgument \/ Refuse \/ Command \/ Status
    PROVE  ReplyInv'
<1>1. /\ UNCHANGED <<in, fresh, stale, tl, right>>
      /\ pc \in {"args", "act"} /\ pc' \in {"args", "act", "poll", "build"}
      /\ pc' = "build" => in.op = "status"
    BY DEF ParseArgument, Refuse, Command, Status, bufferVars
<1>2. StageInv'
    BY <1>1 DEF ReplyInv, StageInv, Stages, ForUs, ArpForUs, IcmpForUs, UdpForUs
<1>3. BufferInv'
    BY <1>1 DEF ReplyInv, BufferInv, Stages
<1>4. LengthInv' /\ SumInv'
    BY <1>1 DEF ReplyInv, LengthInv, SumInv, ChecksumsRight
<1> QED BY <1>1, <1>2, <1>3, <1>4 DEF ReplyInv, Stages

LEMMA BuildReply ==
    ASSUME ReplyInv, Build
    PROVE  ReplyInv'
<1>1. /\ pc = "build" /\ pc' = (IF in.kind = "arp" THEN "write" ELSE "payload")
      /\ fresh' = Headers /\ stale' = MemSet(stale) \ Headers
      /\ UNCHANGED <<in, tl, right>>
      /\ in.kind \in {"arp", "icmp", "discover", "control"}
    BY DEF Build, ReplyOnly, ReplyInv, StageInv, Stages
<1>2. StageInv'
    BY <1>1 DEF ReplyInv, StageInv, Stages, OverUdp
<1>3. Headers \subseteq Nat \ {0}
    BY <1>1, SMT DEF Headers, OverUdp
<1>4. MemSet(stale) \subseteq stale /\ (OverUdp => \A x \in MemSet(stale) : x >= ClearedTo)
    <2>1. \A x \in stale : x \in Nat
        BY DEF ReplyInv, BufferInv
    <2> QED BY <2>1, RepliesAssumption, SMT DEF MemSet
<1>5. /\ Headers' = Headers /\ OverUdp' = OverUdp
      /\ in.kind = "arp" => Headers = 1..42 /\ Last' = 42
    BY <1>1 DEF Headers, OverUdp, Last
<1>6. pc' = "write" => fresh' = (1..Last') \ Missing'
    BY <1>1, <1>5 DEF Missing
<1>7. BufferInv'
    BY <1>1, <1>3, <1>4, <1>5, <1>6 DEF ReplyInv, BufferInv, Stages
<1>8. LengthInv' /\ SumInv'
    BY <1>1 DEF ReplyInv, LengthInv, SumInv, ChecksumsRight, OverUdp
<1> QED BY <1>1, <1>2, <1>7, <1>8 DEF ReplyInv, Stages

(* Filling offsets keeps the rest of BufferInv.                              *)
LEMMA FillBuffer ==
    ASSUME BufferInv, NEW R, R \subseteq Nat \ {0},
           fresh' = fresh \cup R, stale' = stale \ R
    PROVE  /\ fresh' \subseteq Nat /\ stale' \subseteq Nat
           /\ 0 \notin fresh' /\ 0 \notin stale' /\ fresh' \cap stale' = {}
           /\ (\A x \in stale : x >= ClearedTo) => (\A x \in stale' : x >= ClearedTo)
BY DEF BufferInv

LEMMA PayloadReply ==
    ASSUME ReplyInv, Payload
    PROVE  ReplyInv'
<1> DEFINE R == CASE in.kind = "icmp" -> (17..18) \cup (39..(42 + EchoData(in.data)))
                  [] in.kind = "control" -> (43..58) \cup (61..(60 + AddedArguments))
                  [] in.kind = "discover" -> 43..(47 + Vendor)
<1>1. /\ pc = "payload" /\ pc' = (IF in.kind = "icmp" THEN "ipsum" ELSE "lengths")
      /\ UNCHANGED in
      /\ in.kind \in {"icmp", "discover", "control"}
      /\ in.kind = "control" => in.op \in {"info", "status"}
      /\ fresh = Headers /\ right = {}
      /\ OverUdp => \A x \in stale : x >= ClearedTo
    BY DEF Payload, ReplyOnly, ReplyInv, StageInv, BufferInv, SumInv, Stages
<1>2. /\ fresh' = fresh \cup R /\ stale' = stale \ R
      /\ tl' = IF in.kind = "icmp" THEN [tl EXCEPT !.ip = EchoLength(in.data)] ELSE tl
      /\ right' \subseteq right
    BY <1>1 DEF Payload, Fill
<1>3. in.kind = "icmp" => in.data \in Nat
    BY PacketFields DEF ReplyInv
<1>4. R \subseteq Nat \ {0}
    BY <1>1, SMT
<1>5. StageInv'
    BY <1>1 DEF ReplyInv, StageInv, Stages, OverUdp
<1>6. Last' = Last
    BY <1>1 DEF Last, AddedArguments
<1>7. fresh' = (1..Last') \ Missing'
    <2>1. CASE in.kind = "icmp"
        <3>1. Missing' = {25, 26, 37, 38} /\ Last = 42 + in.data
            BY <1>1, <2>1 DEF Missing, Last
        <3>2. Headers = (1..16) \cup (19..24) \cup (27..36)
              /\ R = (17..18) \cup (39..(42 + in.data))
            BY <2>1 DEF Headers, EchoData, OverUdp
        <3> QED BY <1>1, <1>2, <1>3, <1>6, <2>1, <3>1, <3>2, SMT
    <2>2. CASE in.kind = "control"
        <3>1. Missing' = {17, 18, 25, 26, 39, 40, 41, 42, 59, 60} /\ Last = 60 + AddedArguments
            BY <1>1, <2>2 DEF Missing, Last
        <3>2. Headers = (1..16) \cup (19..24) \cup (27..38)
              /\ R = (43..58) \cup (61..(60 + AddedArguments))
            BY <2>2 DEF Headers, OverUdp
        <3>3. AddedArguments \in Nat
            BY RepliesAssumption, SMT DEF AddedArguments
        <3> QED BY <1>1, <1>2, <1>6, <2>2, <3>1, <3>2, <3>3, SMT
    <2>3. CASE in.kind = "discover"
        <3>1. Missing' = {17, 18, 25, 26, 39, 40, 41, 42} /\ Last = 47 + Vendor
            BY <1>1, <2>3 DEF Missing, Last
        <3>2. Headers = (1..16) \cup (19..24) \cup (27..38)
              /\ R = 43..(47 + Vendor)
            BY <2>3 DEF Headers, OverUdp
        <3>3. Vendor \in Nat
            BY RepliesAssumption, Zenon
        <3> QED BY <1>1, <1>2, <1>6, <2>3, <3>1, <3>2, <3>3, SMT
    <2> QED BY <1>1, <2>1, <2>2, <2>3
<1> HIDE DEF R
<1>8. BufferInv'
    <2>1. BufferInv
        BY DEF ReplyInv
    <2>2. /\ fresh' \subseteq Nat /\ stale' \subseteq Nat
          /\ 0 \notin fresh' /\ 0 \notin stale' /\ fresh' \cap stale' = {}
          /\ OverUdp' => \A x \in stale' : x >= ClearedTo
        BY <1>1, <1>2, <1>4, <2>1, FillBuffer DEF OverUdp
    <2> QED BY <1>1, <1>7, <2>2 DEF BufferInv
<1>9. LengthInv'
    <2>1. tl \in [control : Nat, udp : Nat, ip : Nat]
        BY DEF ReplyInv, LengthInv
    <2>2. CASE in.kind = "icmp"
        <3>1. tl' = [tl EXCEPT !.ip = in.data + 20 + 8]
            BY <1>2, <2>2 DEF EchoLength
        <3>2. tl' \in [control : Nat, udp : Nat, ip : Nat] /\ tl'.ip = in.data + 20 + 8
            BY <1>3, <2>1, <2>2, <3>1, SMT
        <3>3. Last' = 42 + in.data
            BY <1>6, <2>2 DEF Last
        <3> QED BY <1>1, <1>3, <2>2, <3>2, <3>3, SMT DEF LengthInv, OverUdp
    <2>3. CASE in.kind # "icmp"
        BY <1>1, <1>2, <2>1, <2>3 DEF LengthInv
    <2> QED BY <2>2, <2>3
<1>10. right' = {}
    BY <1>1, <1>2
<1>11. SumInv'
    BY <1>1, <1>10 DEF SumInv, ChecksumsRight
<1> QED BY <1>1, <1>5, <1>8, <1>9, <1>11 DEF ReplyInv, Stages

LEMMA LengthsReply ==
    ASSUME ReplyInv, Lengths
    PROVE  ReplyInv'
<1> DEFINE R == (IF in.kind = "control" THEN 59..60 ELSE {}) \cup (39..40) \cup (17..18)
<1>1. /\ pc = "lengths" /\ pc' = "udpsum"
      /\ UNCHANGED in
      /\ OverUdp /\ in.kind \in {"discover", "control"}
      /\ in.kind = "control" => in.op \in {"info", "status"}
      /\ fresh = (1..Last) \ Missing /\ right = {}
      /\ \A x \in stale : x >= ClearedTo
    BY DEF Lengths, ReplyOnly, ReplyInv, StageInv, BufferInv, SumInv, Stages, OverUdp
<1>2. /\ fresh' = fresh \cup R /\ stale' = stale \ R /\ right' \subseteq right
      /\ tl' = [control |-> IF in.kind = "control" THEN UdpPayload ELSE 0,
                udp |-> 8 + UdpPayload, ip |-> 20 + 8 + UdpPayload]
    BY DEF Lengths, Fill
<1>3. /\ Last \in Nat /\ Last >= 47 /\ Last = 42 + UdpPayload /\ UdpPayload \in Nat
      /\ in.kind = "control" => Last >= 60
    BY <1>1, RepliesFit DEF ReplyInv
<1>4. R \subseteq Nat \ {0}
    BY SMT
<1>5. StageInv'
    BY <1>1 DEF ReplyInv, StageInv, Stages, OverUdp
<1>6. Last' = Last /\ OverUdp'
    BY <1>1 DEF Last, AddedArguments, OverUdp
<1>7. fresh' = (1..Last') \ Missing'
    <2>1. Missing' = {25, 26, 41, 42}
        BY <1>1 DEF Missing
    <2>2. CASE in.kind = "control"
        <3>1. Missing = {17, 18, 25, 26, 39, 40, 41, 42, 59, 60}
            BY <1>1, <2>2 DEF Missing
        <3> QED BY <1>1, <1>2, <1>3, <1>6, <2>1, <2>2, <3>1, SMT
    <2>3. CASE in.kind = "discover"
        <3>1. Missing = {17, 18, 25, 26, 39, 40, 41, 42} /\ in.kind # "control"
            BY <1>1, <2>3 DEF Missing
        <3> QED BY <1>1, <1>2, <1>3, <1>6, <2>1, <3>1, SMT
    <2> QED BY <1>1, <2>2, <2>3
<1> HIDE DEF R
<1>8. BufferInv'
    <2>1. BufferInv
        BY DEF ReplyInv
    <2>2. /\ fresh' \subseteq Nat /\ stale' \subseteq Nat
          /\ 0 \notin fresh' /\ 0 \notin stale' /\ fresh' \cap stale' = {}
          /\ \A x \in stale' : x >= ClearedTo
        BY <1>1, <1>2, <1>4, <2>1, FillBuffer
    <2> QED BY <1>1, <1>7, <2>2 DEF BufferInv
<1>9. LengthInv'
    <2>1. /\ tl' \in [control : Nat, udp : Nat, ip : Nat]
          /\ tl'.ip = 20 + tl'.udp /\ 14 + tl'.ip = Last
          /\ in.kind = "control" => tl'.udp = 8 + tl'.control
        BY <1>2, <1>3, SMT
    <2> QED BY <1>1, <1>6, <2>1 DEF LengthInv
<1>10. right' = {}
    BY <1>1, <1>2
<1>11. SumInv'
    BY <1>1, <1>10 DEF SumInv, ChecksumsRight
<1> QED BY <1>1, <1>5, <1>8, <1>9, <1>11 DEF ReplyInv, Stages


-----------------------------------------------------------------------------
(* Checksums *)

LEMMA SumBuffer ==
    ASSUME BufferInv, NEW sum, NEW R, R \subseteq Nat \ {0}, Sum(sum, R)
    PROVE  /\ fresh' = fresh \cup R /\ stale' = stale \ R
           /\ fresh' \subseteq Nat /\ stale' \subseteq Nat
           /\ 0 \notin fresh' /\ 0 \notin stale' /\ fresh' \cap stale' = {}
           /\ (\A x \in stale : x >= ClearedTo) => (\A x \in stale' : x >= ClearedTo)
           /\ Covers(sum) \cap stale' = {} => right' = right \cup {sum}
BY FillBuffer DEF Sum

LEMMA UdpSumReply ==
    ASSUME ReplyInv, UdpSum
    PROVE  ReplyInv'
<1>1. /\ pc = "udpsum" /\ pc' = "ipsum" /\ Sum("udp", 41..42) /\ UNCHANGED <<in, tl>>
      /\ OverUdp /\ in.kind \in {"discover", "control"}
      /\ in.kind = "control" => in.op \in {"info", "status"}
      /\ fresh = (1..Last) \ Missing /\ right = {}
      /\ \A x \in stale : x >= ClearedTo
      /\ 14 + tl.ip = Last /\ tl.ip = 20 + tl.udp
      /\ tl \in [control : Nat, udp : Nat, ip : Nat]
    BY DEF UdpSum, ReplyOnly, ReplyInv, StageInv, BufferInv, LengthInv, SumInv, Stages, OverUdp
<1>2. /\ Last \in Nat /\ Last >= 47 /\ Last + 8 < ClearedTo
    BY <1>1, RepliesFit DEF ReplyInv
<1>3. 41..42 \subseteq Nat \ {0}
    BY SMT
<1>4. BufferInv
    BY DEF ReplyInv
<1>5. /\ fresh' = fresh \cup (41..42)
      /\ fresh' \subseteq Nat /\ stale' \subseteq Nat
      /\ 0 \notin fresh' /\ 0 \notin stale' /\ fresh' \cap stale' = {}
      /\ \A x \in stale' : x >= ClearedTo
      /\ Covers("udp") \cap stale' = {} => right' = right \cup {"udp"}
    BY <1>1, <1>3, <1>4, SumBuffer
<1>6. Covers("udp") \cap stale' = {}
    <2>1. Covers("udp") = 27..(42 + tl.udp)
        BY DEF Covers
    <2>2. tl.udp \in Nat /\ tl.ip \in Nat /\ ClearedTo \in Nat
        BY <1>1, RepliesAssumption
    <2>3. 42 + tl.udp < ClearedTo
        BY <1>1, <1>2, <2>2, SMT
    <2> QED BY <1>5, <2>1, <2>2, <2>3, SMT
<1>7. right' = {"udp"}
    BY <1>1, <1>5, <1>6
<1>8. Last' = Last /\ OverUdp' /\ in.kind # "icmp" /\ in.kind # "arp"
    BY <1>1 DEF Last, AddedArguments, OverUdp
<1>9. fresh' = (1..Last') \ Missing'
    <2>1. Missing = {25, 26, 41, 42} /\ Missing' = {25, 26}
        BY <1>1, <1>8 DEF Missing
    <2> QED BY <1>1, <1>2, <1>5, <1>8, <2>1, SMT
<1>10. StageInv'
    BY <1>1, <1>8 DEF ReplyInv, StageInv, Stages, OverUdp
<1>11. BufferInv'
    BY <1>1, <1>5, <1>9 DEF BufferInv
<1>12. LengthInv'
    BY <1>1, <1>8 DEF ReplyInv, LengthInv, OverUdp
<1>13. SumInv'
    BY <1>1, <1>7, <1>8 DEF SumInv, ChecksumsRight
<1> QED BY <1>1, <1>10, <1>11, <1>12, <1>13 DEF ReplyInv, Stages

LEMMA IpSumReply ==
    ASSUME ReplyInv, IpSum
    PROVE  ReplyInv'
<1>1. /\ pc = "ipsum" /\ pc' = (IF in.kind = "icmp" THEN "icmpsum" ELSE "write")
      /\ Sum("ip", 25..26) /\ UNCHANGED <<in, tl>>
      /\ in.kind \in {"icmp", "discover", "control"}
      /\ in.kind = "control" => in.op \in {"info", "status"}
      /\ fresh = (1..Last) \ Missing
      /\ right = IF in.kind = "icmp" THEN {} ELSE {"udp"}
      /\ OverUdp => \A x \in stale : x >= ClearedTo
    BY DEF IpSum, ReplyOnly, ReplyInv, StageInv, BufferInv, SumInv, Stages
<1>2. Last \in Nat /\ Last >= 42
    <2>1. CASE in.kind = "icmp"
        <3>1. in.data \in Nat
            BY <2>1, PacketFields DEF ReplyInv
        <3>2. Last = 42 + in.data
            BY <2>1 DEF Last
        <3> QED BY <3>1, <3>2, SMT
    <2>2. CASE in.kind # "icmp"
        <3>1. OverUdp
            BY <1>1, <2>2 DEF OverUdp
        <3>2. Last \in Nat /\ Last >= 47
            BY <1>1, <3>1, RepliesFit DEF ReplyInv
        <3> QED BY <3>2, SMT
    <2> QED BY <2>1, <2>2
<1>3. 25..26 \subseteq Nat \ {0}
    BY SMT
<1>4. BufferInv
    BY DEF ReplyInv
<1>5. /\ fresh' = fresh \cup (25..26) /\ stale' = stale \ (25..26)
      /\ fresh' \subseteq Nat /\ stale' \subseteq Nat
      /\ 0 \notin fresh' /\ 0 \notin stale' /\ fresh' \cap stale' = {}
      /\ OverUdp => \A x \in stale' : x >= ClearedTo
      /\ Covers("ip") \cap stale' = {} => right' = right \cup {"ip"}
    BY <1>1, <1>3, <1>4, SumBuffer
<1>6. Covers("ip") \cap stale' = {}
    <2>1. Covers("ip") = 15..34
        BY DEF Covers
    <2>2. Missing = {25, 26} \cup (IF in.kind = "icmp" THEN {37, 38} ELSE {})
        BY <1>1 DEF Missing
    <2>3. 15..34 \subseteq fresh'
        BY <1>1, <1>2, <1>5, <2>2, SMT
    <2> QED BY <1>5, <2>1, <2>3
<1>7. right' = IF in.kind = "icmp" THEN {"ip"} ELSE {"udp", "ip"}
    BY <1>1, <1>5, <1>6
<1>8. Last' = Last
    BY <1>1 DEF Last, AddedArguments
<1>9. fresh' = (1..Last') \ Missing'
    <2>1. /\ Missing = {25, 26} \cup (IF in.kind = "icmp" THEN {37, 38} ELSE {})
          /\ Missing' = IF in.kind = "icmp" THEN {37, 38} ELSE {}
        BY <1>1 DEF Missing
    <2> QED BY <1>1, <1>2, <1>5, <1>8, <2>1, SMT
<1>10. StageInv'
    BY <1>1 DEF ReplyInv, StageInv, Stages, OverUdp
<1>11. BufferInv'
    BY <1>1, <1>5, <1>9 DEF BufferInv, OverUdp
<1>12. LengthInv'
    BY <1>1, <1>8 DEF ReplyInv, LengthInv, OverUdp
<1>13. SumInv'
    BY <1>1, <1>7 DEF SumInv, ChecksumsRight, OverUdp
<1> QED BY <1>1, <1>10, <1>11, <1>12, <1>13 DEF ReplyInv, Stages

LEMMA IcmpSumReply ==
    ASSUME ReplyInv, IcmpSum
    PROVE  ReplyInv'
<1>1. /\ pc = "icmpsum" /\ pc' = "write" /\ Sum("icmp", 37..38) /\ UNCHANGED <<in, tl>>
      /\ in.kind = "icmp" /\ fresh = (1..Last) \ Missing /\ right = {"ip"}
      /\ 14 + tl.ip = Last
    BY DEF IcmpSum, ReplyOnly, ReplyInv, StageInv, BufferInv, LengthInv, SumInv, Stages
<1>2. in.data \in Nat /\ Last = 42 + in.data
    BY <1>1, PacketFields DEF ReplyInv, Last
<1>3. 37..38 \subseteq Nat \ {0}
    BY SMT
<1>4. BufferInv
    BY DEF ReplyInv
<1>5. /\ fresh' = fresh \cup (37..38)
      /\ fresh' \subseteq Nat /\ stale' \subseteq Nat
      /\ 0 \notin fresh' /\ 0 \notin stale' /\ fresh' \cap stale' = {}
      /\ Covers("icmp") \cap stale' = {} => right' = right \cup {"icmp"}
    BY <1>1, <1>3, <1>4, SumBuffer
<1>6. Missing = {37, 38} /\ Missing' = {}
    BY <1>1 DEF Missing
<1>7. fresh' = 1..Last
    BY <1>1, <1>2, <1>5, <1>6, SMT
<1>8. Covers("icmp") \cap stale' = {}
    <2>1. Covers("icmp") = 35..Last
        BY <1>1 DEF Covers
    <2>2. 35..Last \subseteq fresh'
        BY <1>2, <1>7, SMT
    <2> QED BY <1>5, <2>1, <2>2
<1>9. right' = {"ip", "icmp"}
    BY <1>1, <1>5, <1>8
<1>10. Last' = Last /\ ~OverUdp'
    BY <1>1 DEF Last, OverUdp
<1>11. StageInv'
    BY <1>1 DEF ReplyInv, StageInv, Stages
<1>12. BufferInv'
    <2>1. fresh' = (1..Last') \ Missing'
        BY <1>6, <1>7, <1>10
    <2> QED BY <1>1, <1>5, <1>10, <2>1 DEF BufferInv
<1>13. LengthInv'
    BY <1>1, <1>10 DEF ReplyInv, LengthInv
<1>14. SumInv'
    BY <1>1, <1>9, <1>10 DEF SumInv, ChecksumsRight
<1> QED BY <1>1, <1>11, <1>12, <1>13, <1>14 DEF ReplyInv, Stages

LEMMA QuietReply ==
    ASSUME ReplyInv, enc28j60_write \/ UNCHANGED vars
    PROVE  ReplyInv'
<1>1. /\ UNCHANGED <<in, fresh, stale, tl, right>>
      /\ pc' = pc \/ pc' = "poll"
    BY DEF enc28j60_write, ReplyOnly, bufferVars, vars
<1>2. CASE pc' = pc
    BY <1>1, <1>2 DEF ReplyInv, Stages, StageInv, BufferInv, LengthInv, SumInv, ChecksumsRight,
       OverUdp, ForUs, ArpForUs, IcmpForUs, UdpForUs, Last, Missing, AddedArguments, Headers
<1>3. CASE pc' = "poll"
    BY <1>1, <1>3 DEF ReplyInv, Stages, StageInv, BufferInv, LengthInv, SumInv, ChecksumsRight
<1> QED BY <1>1, <1>2, <1>3

-----------------------------------------------------------------------------
(* ReplyInv is an invariant: what is known of the reply between its steps.   *)
THEOREM ReplyInvariance == Spec => []ReplyInv
<1>1. Init => ReplyInv
    BY InitReply
<1>2. ReplyInv /\ [Next]_vars => ReplyInv'
    BY TakeReply, ParseReply, BuildReply, PayloadReply, LengthsReply, UdpSumReply,
       IpSumReply, IcmpSumReply, QuietReply DEF Next
<1> QED BY <1>1, <1>2, PTL DEF Spec

(* Every checksum of a reply that is sent agrees with what is sent, the UDP  *)
(* one in spite of the eight bytes it takes too many (udp.c:30-34,           *)
(* main.c:164, 263, 321): behind the reply all is zero.                      *)
THEOREM ChecksumsAlwaysRight == Spec => []ChecksumsRight
<1>1. ReplyInv => ChecksumsRight
    BY DEF ReplyInv, SumInv
<1> QED BY <1>1, ReplyInvariance, PTL

LEMMA WholeReply ==
    ASSUME ReplyInv, pc = "write"
    PROVE  /\ fresh = 1..Last /\ Last \in Nat
           /\ in.kind = "arp" => Last = 42 /\ FrameOffsets = 0..57
           /\ in.kind # "arp" => FrameOffsets = 0..Last
           /\ stale \subseteq Nat /\ 0 \notin stale /\ fresh \cap stale = {}
<1>1. fresh = 1..Last
    <2>1. Missing = {}
        BY DEF Missing
    <2> QED BY <2>1 DEF ReplyInv, BufferInv
<1>2. in.kind = "arp" => Last = 42 /\ FrameOffsets = 0..57
    BY SMT DEF Last, FrameOffsets, WriteLength
<1>3. in.kind # "arp" => Last \in Nat /\ FrameOffsets = 0..Last
    <2>1. ASSUME in.kind # "arp" PROVE 14 + tl.ip = Last /\ tl.ip \in Nat
        BY <2>1 DEF ReplyInv, LengthInv
    <2> QED BY <2>1, SMT DEF FrameOffsets, WriteLength
<1> QED BY <1>1, <1>2, <1>3, SMT DEF ReplyInv, BufferInv

(* The lengths of a reply agree with one another and with what was written   *)
(* for it, whatever the number of motors or the vendor string                *)
(* (packet-builder.c:135-204).                                               *)
THEOREM LengthsAlwaysAgree == Spec => []LengthsAgree
<1>1. ReplyInv => LengthsAgree
    <2> SUFFICES ASSUME ReplyInv, pc = "write", in.kind # "arp"
                 PROVE  /\ fresh = FrameOffsets \ {0}
                        /\ OverUdp => tl.ip = 20 + tl.udp
                        /\ in.kind = "control" => tl.udp = 8 + tl.control
        BY DEF LengthsAgree
    <2>1. fresh = FrameOffsets \ {0}
        BY WholeReply, SMT
    <2> QED BY <2>1 DEF ReplyInv, LengthInv
<1> QED BY <1>1, ReplyInvariance, PTL

(* No reply carries bytes of an earlier one, but for the 15 at the end of an *)
(* ARP reply (manager.c:258).                                                *)
THEOREM NothingStaleEver == Spec => []NothingStale
<1>1. ReplyInv => NothingStale
    <2> SUFFICES ASSUME ReplyInv, pc = "write"
                 PROVE  FrameOffsets \cap stale \subseteq
                            (IF in.kind = "arp" THEN 43..57 ELSE {})
        BY DEF NothingStale
    <2>1. CASE in.kind = "arp"
        BY <2>1, WholeReply, SMT
    <2>2. CASE in.kind # "arp"
        BY <2>2, WholeReply, SMT
    <2> QED BY <2>1, <2>2
<1> QED BY <1>1, ReplyInvariance, PTL

-----------------------------------------------------------------------------
(* What is done *)

\* v is what the loop has found among the first n arguments.
FoundBy(type, n, v) ==
    \/ v = 0 /\ \A j \in 1..n : in.args[j].t # type
    \/ \E j \in 1..n : /\ in.args[j].t = type /\ v = in.args[j].val
                       /\ \A i \in 1..n : in.args[i].t = type => i <= j

\* motor and pos after n arguments.
ParsedBy(n) ==
    /\ FoundBy("u8", n, motor)
    /\ IF in.op = "move" THEN FoundBy("i32", n, pos) ELSE pos = 0

\* Arguments have values of their types.
Typed(list) ==
    \A j \in 1..Len(list) : /\ list[j].t = "u8" => list[j].val \in U8
                            /\ list[j].t = "i32" => list[j].val \in I32

\* The packet lies at the front of read_buffer, and what lies behind it ends.
ListInv ==
    /\ args \in Seq(Arguments \cup {End}) /\ Typed(args)
    /\ in.kind = "control" => /\ Len(in.args) + 2 <= Len(args)
                              /\ args[Len(args)] = End
                              /\ \A j \in 1..Len(in.args) : args[j] = in.args[j]
                              /\ args[Len(in.args) + 1] = End

\* What the loop has found of a list that is not empty.
Parsed(n) == in.args # <<>> => n \in 0..Len(in.args) /\ ParsedBy(n)

AskInv ==
    /\ ListInv
    /\ motor \in U8 /\ pos \in I32 /\ k \in Nat
    /\ pc # "poll" => ForUs(in) /\ done = Nothing
    /\ pc \in {"args", "act"} => (in.op # "move" => pos = 0)
    /\ pc = "args" => /\ k \in 1..(Len(args) - 1)
                      /\ in.args # <<>> => k <= Len(in.args)
                      /\ Parsed(k - 1)
    /\ pc = "act" => Parsed(Len(in.args))
    /\ pc \in Stages => IF in.kind = "control" /\ in.op = "status"
                        THEN Parsed(Len(in.args)) /\ Available /\ pos = 0
                        ELSE motor = 0 /\ pos = 0
    /\ DoesAsAsked

(* Where a place of a list with something behind it can be.                  *)
LEMMA Between ==
    ASSUME NEW m \in Nat, NEW l \in Nat, NEW h \in 1..l
    PROVE  (h \in 1..m) \/ (h = m + 1 \/ h = l) \/ (h > m + 1 /\ h < l)
<1>1. h \in Int /\ 1 <= h /\ h <= l
    BY SMT
<1>2. CASE h <= m
    BY <1>1, <1>2, SMT
<1>3. CASE ~(h <= m)
    BY <1>1, <1>3, SMT
<1> QED BY <1>2, <1>3, Zenon

(* A list with what lies behind it.                                          *)
LEMMA ListBehind ==
    ASSUME NEW a \in Seq(Arguments), NEW b \in Seq(Arguments), Typed(a), Typed(b),
           NEW s, s = a \o <<End>> \o b \o <<End>>
    PROVE  /\ s \in Seq(Arguments \cup {End}) /\ Typed(s)
           /\ Len(a) + 2 <= Len(s) /\ s[Len(s)] = End
           /\ \A j \in 1..Len(a) : s[j] = a[j]
           /\ s[Len(a) + 1] = End
<1>1. /\ s \in Seq(Arguments \cup {End}) /\ Len(s) = Len(a) + Len(b) + 2
      /\ Len(a) \in Nat /\ Len(b) \in Nat
    BY SMT
<1>2. /\ s[Len(s)] = End /\ s[Len(a) + 1] = End
      /\ \A j \in 1..Len(a) : s[j] = a[j]
      /\ \A j \in 1..Len(b) : s[Len(a) + 1 + j] = b[j]
    BY SMT
<1>3. ASSUME NEW j \in 1..Len(s)
      PROVE  /\ s[j].t = "u8" => s[j].val \in U8
             /\ s[j].t = "i32" => s[j].val \in I32
    <2>1. CASE j \in 1..Len(a)
        BY <1>2, <2>1 DEF Typed
    <2>2. CASE j = Len(a) + 1 \/ j = Len(s)
        BY <1>2, <2>2 DEF End
    <2>3. CASE j > Len(a) + 1 /\ j < Len(s)
        <3>1. j - (Len(a) + 1) \in 1..Len(b) /\ Len(a) + 1 + (j - (Len(a) + 1)) = j
            BY <1>1, <2>3, SMT
        <3>2. s[j] = b[j - (Len(a) + 1)]
            BY <1>2, <3>1
        <3> QED BY <3>1, <3>2 DEF Typed
    <2>4. \/ j \in 1..Len(a)
          \/ j = Len(a) + 1 \/ j = Len(s)
          \/ j > Len(a) + 1 /\ j < Len(s)
        <3>1. Len(a) \in Nat /\ Len(s) \in Nat
            BY <1>1, SMT
        <3> QED BY <3>1, Between, Zenon
    <2> QED BY <2>1, <2>2, <2>3, <2>4, Zenon
<1> QED BY <1>1, <1>2, <1>3, SMT DEF Typed

LEMMA FoundIsLast ==
    ASSUME in \in Packets \cup {None}, in.kind = "control",
           NEW type, NEW v, FoundBy(type, Len(in.args), v)
    PROVE  v = LastOf(type, in.args, 0)
<1> DEFINE S == {j \in DOMAIN in.args : in.args[j].t = type}
<1>1. in.args \in Seq(Arguments) /\ Len(in.args) \in Nat
    BY PacketFields
<1>2. DOMAIN in.args = 1..Len(in.args)
    BY <1>1, LenProperties
<1>3. CASE v = 0 /\ \A j \in 1..Len(in.args) : in.args[j].t # type
    <2>1. S = {}
        BY <1>2, <1>3
    <2> QED BY <1>3, <2>1 DEF LastOf
<1>4. ASSUME NEW j \in 1..Len(in.args), in.args[j].t = type, v = in.args[j].val,
             \A i \in 1..Len(in.args) : in.args[i].t = type => i <= j
      PROVE  v = LastOf(type, in.args, 0)
    <2>1. j \in S /\ \A i \in S : i <= j
        BY <1>2, <1>4
    <2>2. ASSUME NEW h \in S, \A i \in S : i <= h PROVE h = j
        <3>1. h <= j /\ j <= h /\ h \in Int /\ j \in Int
            BY <1>1, <1>2, <2>1, <2>2
        <3> QED BY <3>1, SMT
    <2>3. (CHOOSE h \in S : \A i \in S : i <= h) = j
        BY <2>1, <2>2
    <2> QED BY <1>4, <2>1, <2>3 DEF LastOf
<1> QED BY <1>3, <1>4 DEF FoundBy

(* One more argument.                                                        *)
LEMMA FoundStep ==
    ASSUME NEW n \in Nat, n >= 1, NEW type, NEW v, FoundBy(type, n - 1, v)
    PROVE  FoundBy(type, n, IF in.args[n].t = type THEN in.args[n].val ELSE v)
<1>1. 1..n = (1..(n - 1)) \cup {n} /\ \A i \in 1..(n - 1) : i <= n /\ n <= n
      /\ n <= n /\ n \in 1..n
    BY SMT
<1>2. CASE in.args[n].t = type
    BY <1>1, <1>2 DEF FoundBy
<1>3. CASE in.args[n].t # type
    BY <1>1, <1>3 DEF FoundBy
<1> QED BY <1>2, <1>3

LEMMA TakeAsks ==
    ASSUME ReplyInv, AskInv, NEW p \in Packets, Take(p)
    PROVE  AskInv'
<1>1. /\ in' = p /\ pc' = (IF ForUs(p) THEN FirstStep(p) ELSE "poll")
      /\ k' = 1 /\ motor' = 0 /\ pos' = 0 /\ done' = Nothing
      /\ IF p.kind = "control"
         THEN \E list \in Behind : args' = p.args \o <<End>> \o list \o <<End>>
         ELSE args' = <<>>
      /\ motor' \in U8 /\ pos' \in I32 /\ k' \in Nat
    BY RepliesAssumption DEF Take
<1>2. p.kind = "control" => /\ p.op \in Opcodes /\ p.args \in Seq(Arguments)
                            /\ Len(p.args) \in Nat /\ Typed(p.args)
                            /\ p.args = <<>> \/ Len(p.args) >= 1
    BY PacketFields DEF Typed
<1>4. ListInv'
    <2>1. CASE p.kind = "control"
        <3>1. PICK rest \in Behind : args' = p.args \o <<End>> \o rest \o <<End>>
            BY <1>1, <2>1
        <3>2. rest \in Seq(Arguments) /\ Typed(rest)
            <4>1. rest \in Seq(Arguments) /\ WellTyped(rest)
                BY RepliesAssumption
            <4> QED BY <4>1, LenProperties DEF WellTyped, Typed
        <3>3. p.args \in Seq(Arguments) /\ Typed(p.args)
            BY <1>2, <2>1
        <3>4. /\ args' \in Seq(Arguments \cup {End}) /\ Typed(args')
              /\ Len(p.args) + 2 <= Len(args') /\ args'[Len(args')] = End
              /\ \A j \in 1..Len(p.args) : args'[j] = p.args[j]
              /\ args'[Len(p.args) + 1] = End
            <4>1. ASSUME NEW j \in 1..Len(p.args)
                  PROVE  args'[j] = p.args[j]
                BY <3>1, <3>2, <3>3, ListBehind, Zenon
            <4>2. /\ args' \in Seq(Arguments \cup {End}) /\ Typed(args')
                  /\ Len(p.args) + 2 <= Len(args') /\ args'[Len(args')] = End
                  /\ args'[Len(p.args) + 1] = End
                BY <3>1, <3>2, <3>3, ListBehind, Zenon
            <4> QED BY <4>1, <4>2
        <3> QED BY <1>1, <3>4 DEF ListInv, Typed
    <2>2. CASE p.kind # "control"
        <3>1. args' = <<>>
            BY <1>1, <2>2
        <3>2. args' \in Seq(Arguments \cup {End}) /\ 1..Len(args') = {}
            BY <3>1, SMT
        <3> QED BY <1>1, <2>2, <3>2 DEF ListInv, Typed
    <2> QED BY <2>1, <2>2
<1>5. pc' = "args" => /\ p.kind = "control" /\ k' \in 1..(Len(args') - 1)
                      /\ in'.args # <<>> => k' <= Len(in'.args)
                      /\ Parsed(k - 1)'
    <2> SUFFICES ASSUME pc' = "args"
                 PROVE  /\ p.kind = "control" /\ k' \in 1..(Len(args') - 1)
                        /\ in'.args # <<>> => k' <= Len(in'.args)
                        /\ Parsed(k - 1)'
        OBVIOUS
    <2>1. p.kind = "control"
        BY <1>1 DEF FirstStep
    <2>2. Len(args') \in Nat /\ Len(p.args) + 2 <= Len(args')
        <3>1. args' \in Seq(Arguments \cup {End})
            BY <1>4 DEF ListInv
        <3> QED BY <1>1, <1>4, <2>1, <3>1, LenProperties DEF ListInv
    <2>3. 1 \in 1..(Len(args') - 1) /\ 1..(1 - 1) = {} /\ 0 \in 0..Len(p.args)
          /\ (p.args # <<>> => 1 <= Len(p.args)) /\ 1 - 1 = 0 /\ 1..0 = {}
        BY <1>2, <2>1, <2>2, SMT
    <2> QED BY <1>1, <2>1, <2>3 DEF Parsed, ParsedBy, FoundBy
<1>6. pc' # "act" /\ (pc' \in Stages => ~(in'.kind = "control" /\ in'.op = "status"))
    BY <1>1 DEF FirstStep, Stages
<1>7. pc' # "poll" => ForUs(in)' /\ done' = Nothing
    BY <1>1 DEF ForUs, ArpForUs, IcmpForUs, UdpForUs
<1>8. DoesAsAsked'
    <2>1. pc' = "poll" => ~ForUs(p) \/ (p.kind = "control" /\ p.op = "other")
        BY <1>1 DEF FirstStep
    <2> QED BY <1>1, <2>1
            DEF DoesAsAsked, NamesNone, Asked, ForUs, ArpForUs, IcmpForUs, UdpForUs
<1> QED BY <1>1, <1>4, <1>5, <1>6, <1>7, <1>8 DEF AskInv

LEMMA ParseAsks ==
    ASSUME ReplyInv, AskInv, ParseArgument
    PROVE  AskInv'
<1>1. /\ pc = "args" /\ UNCHANGED <<in, args, done>>
      /\ motor' = IF args[k].t = "u8" THEN args[k].val ELSE motor
      /\ pos' = IF args[k].t = "i32" /\ in.op = "move" THEN args[k].val ELSE pos
      /\ IF NoNext(k) THEN pc' = "act" /\ k' = k ELSE k' = k + 1 /\ pc' = "args"
      /\ in.kind = "control" /\ ForUs(in) /\ done = Nothing
    BY DEF ParseArgument, bufferVars, ReplyInv, StageInv, AskInv
<1>2. /\ k \in 1..(Len(args) - 1) /\ Parsed(k - 1) /\ ListInv
      /\ in.args # <<>> => k <= Len(in.args)
      /\ motor \in U8 /\ pos \in I32 /\ (in.op # "move" => pos = 0)
    BY <1>1 DEF AskInv
<1>3. /\ Len(in.args) \in Nat /\ Len(args) \in Nat /\ k \in Nat /\ k >= 1
      /\ k \in 1..Len(args)
    <2>1. Len(in.args) \in Nat
        BY <1>1, PacketFields DEF ReplyInv
    <2>2. Len(args) \in Nat
        BY <1>2, LenProperties DEF ListInv
    <2> QED BY <1>2, <2>1, <2>2, SMT
<1>4. in.args # <<>> => k \in 1..Len(in.args) /\ args[k] = in.args[k]
    BY <1>1, <1>2, <1>3 DEF ListInv
<1>5. motor' \in U8 /\ pos' \in I32 /\ (in.op # "move" => pos' = 0) /\ k' \in Nat
    <2>1. /\ args[k].t = "u8" => args[k].val \in U8
          /\ args[k].t = "i32" => args[k].val \in I32
        BY <1>2, <1>3 DEF ListInv, Typed
    <2>2. k + 1 \in Nat
        BY <1>3, SMT
    <2> QED BY <1>1, <1>2, <1>3, <2>1, <2>2
<1>6. ASSUME in.args # <<>> PROVE FoundBy("u8", k, motor')
    BY <1>1, <1>2, <1>3, <1>4, <1>6, FoundStep DEF Parsed, ParsedBy
<1>7. ASSUME in.args # <<>>
      PROVE  IF in.op = "move" THEN FoundBy("i32", k, pos') ELSE pos' = 0
    <2>1. CASE in.op = "move"
        BY <1>1, <1>2, <1>3, <1>4, <1>7, <2>1, FoundStep DEF Parsed, ParsedBy
    <2>2. CASE in.op # "move"
        BY <1>5, <2>2
    <2> QED BY <2>1, <2>2
<1>8. CASE NoNext(k)
    <2>1. in.args # <<>> => k = Len(in.args)
        <3> SUFFICES ASSUME in.args # <<>>, k # Len(in.args) PROVE FALSE
            OBVIOUS
        <3>1. k + 1 \in 1..Len(in.args)
            BY <1>3, <1>4, SMT
        <3>2. in.args[k + 1] = End
            BY <1>1, <1>2, <1>8, <3>1 DEF ListInv, NoNext
        <3>3. in.args[k + 1].t \in {"u8", "i32", "other"}
            BY <1>1, <3>1, PacketFields DEF ReplyInv
        <3> QED BY <3>2, <3>3 DEF End
    <2>2. Parsed(Len(in.args))'
        <3> SUFFICES ASSUME in.args # <<>>
                     PROVE  Len(in.args) \in 0..Len(in.args) /\ ParsedBy(Len(in.args))'
            BY <1>1 DEF Parsed
        <3>1. Len(in.args) \in 0..Len(in.args)
            BY <1>3, SMT
        <3> QED BY <1>1, <1>6, <1>7, <2>1, <3>1 DEF ParsedBy, FoundBy
    <2> QED BY <1>1, <1>2, <1>5, <1>8, <2>2
            DEF AskInv, ListInv, Typed, Stages, DoesAsAsked, ForUs, ArpForUs, IcmpForUs,
                UdpForUs
<1>9. CASE ~NoNext(k)
    <2>1. k # Len(in.args) /\ k + 1 # Len(args)
        BY <1>1, <1>2, <1>9 DEF ListInv, NoNext
    <2>2. /\ k + 1 \in 1..(Len(args) - 1) /\ (k + 1) - 1 = k
          /\ in.args # <<>> => k + 1 <= Len(in.args) /\ k \in 0..Len(in.args)
        BY <1>2, <1>3, <1>4, <2>1, SMT
    <2>3. k' = k + 1 /\ pc' = "args"
        BY <1>1, <1>9
    <2>4. Parsed(k - 1)'
        <3> SUFFICES ASSUME in.args # <<>>
                     PROVE  k \in 0..Len(in.args) /\ ParsedBy(k - 1)'
            BY <1>1, <2>2, <2>3 DEF Parsed
        <3> QED BY <1>1, <1>6, <1>7, <2>2, <2>3 DEF ParsedBy, FoundBy
    <2> QED BY <1>1, <1>2, <1>5, <2>2, <2>3, <2>4
            DEF AskInv, ListInv, Typed, Stages, DoesAsAsked, ForUs, ArpForUs, IcmpForUs,
                UdpForUs
<1> QED BY <1>8, <1>9

LEMMA ActAsks ==
    ASSUME ReplyInv, AskInv, Refuse \/ Command \/ Status
    PROVE  AskInv'
<1>1. /\ pc = "act" /\ UNCHANGED <<in, args, k, motor, pos>>
      /\ in.kind = "control" /\ ForUs(in) /\ done = Nothing
      /\ in.op \in {"move", "enable", "disable", "status"}
      /\ ListInv /\ Parsed(Len(in.args)) /\ in \in Packets \cup {None}
      /\ motor \in U8 /\ pos \in I32 /\ k \in Nat /\ (in.op # "move" => pos = 0)
    BY DEF Refuse, Command, Status, parseVars, ReplyInv, StageInv, AskInv
<1>2. ListInv'
    BY <1>1 DEF ListInv, Typed
<1>3. in.args # <<>> => motor = LastOf("u8", in.args, 0)
    BY <1>1, FoundIsLast DEF Parsed, ParsedBy
<1>4. in.args # <<>> => pos = IF in.op = "move" THEN LastOf("i32", in.args, 0) ELSE 0
    BY <1>1, FoundIsLast DEF Parsed, ParsedBy
<1>5. motor \in Nat /\ StepperCount \in Nat
    BY <1>1, RepliesAssumption
<1>6. CASE Refuse
    <2>1. pc' = "poll" /\ done' = Nothing /\ ~(motor < StepperCount)
        BY <1>1, <1>6 DEF Refuse, Available
    <2>2. motor >= StepperCount
        BY <1>5, <2>1, SMT
    <2>3. in.args # <<>> => Asked(in) = Nothing
        BY <1>1, <1>3, <2>2 DEF Asked
    <2>4. in.args = <<>> => NamesNone(in)
        BY <1>1 DEF NamesNone
    <2>5. DoesAsAsked'
        BY <1>1, <2>1, <2>3, <2>4
           DEF DoesAsAsked, NamesNone, Asked, ForUs, ArpForUs, IcmpForUs, UdpForUs
    <2> QED BY <1>1, <1>2, <2>1, <2>5 DEF AskInv, Stages
<1>7. CASE Command
    <2>1. /\ pc' = "poll" /\ motor < StepperCount
          /\ done' = [what |-> in.op, motor |-> motor, pos |-> pos]
        BY <1>7 DEF Command, Available
    <2>2. ~(motor >= StepperCount) /\ motor \in 0..(StepperCount - 1)
        BY <1>5, <2>1, SMT
    <2>3. in.args # <<>> => Asked(in) = [what |-> in.op, motor |-> motor, pos |-> pos]
        BY <1>1, <1>3, <1>4, <2>2 DEF Asked
    <2>4. in.args = <<>> => NamesNone(in)
        BY <1>1 DEF NamesNone
    <2>5. DoesAsAsked'
        BY <1>1, <2>1, <2>2, <2>3, <2>4
           DEF DoesAsAsked, NamesNone, Asked, ForUs, ArpForUs, IcmpForUs, UdpForUs
    <2> QED BY <1>1, <1>2, <2>1, <2>5 DEF AskInv, Stages
<1>8. CASE Status
    <2>1. pc' = "build" /\ done' = done /\ Available /\ in.op = "status"
        BY <1>8 DEF Status
    <2> QED BY <1>1, <1>2, <2>1
            DEF AskInv, DoesAsAsked, Stages, Parsed, ParsedBy, FoundBy, Available, ForUs,
                ArpForUs, IcmpForUs, UdpForUs
<1> QED BY <1>6, <1>7, <1>8

LEMMA StepAsks ==
    ASSUME ReplyInv, AskInv,
           Build \/ Payload \/ Lengths \/ UdpSum \/ IpSum \/ IcmpSum \/ UNCHANGED vars
    PROVE  AskInv'
<1>1. UNCHANGED <<in, args, k, motor, pos, done>>
    BY DEF Build, Payload, Lengths, UdpSum, IpSum, IcmpSum, ReplyOnly, parseVars, vars
<1>2. pc' = pc \/ (pc \in Stages /\ pc' \in Stages)
    BY DEF Build, Payload, Lengths, UdpSum, IpSum, IcmpSum, vars, Stages
<1> QED BY <1>1, <1>2
        DEF AskInv, ListInv, Typed, Parsed, ParsedBy, FoundBy, Available, DoesAsAsked,
            NamesNone, Asked, Stages, ForUs, ArpForUs, IcmpForUs, UdpForUs

LEMMA WriteAsks ==
    ASSUME ReplyInv, AskInv, enc28j60_write
    PROVE  AskInv'
<1>1. /\ pc = "write" /\ pc' = "poll" /\ UNCHANGED <<in, args, k, motor, pos>>
      /\ done' = [what |-> IF in.kind = "control" THEN in.op ELSE in.kind,
                  motor |-> motor, pos |-> pos]
      /\ in \in Packets \cup {None} /\ ForUs(in) /\ ListInv
      /\ in.kind = "control" => in.op \in {"info", "status"}
      /\ IF in.kind = "control" /\ in.op = "status"
         THEN Parsed(Len(in.args)) /\ Available /\ pos = 0
         ELSE motor = 0 /\ pos = 0
      /\ motor \in U8 /\ pos \in I32 /\ k \in Nat
    BY DEF enc28j60_write, ReplyOnly, parseVars, ReplyInv, StageInv, AskInv, Stages
<1>2. ListInv'
    BY <1>1 DEF ListInv, Typed
<1>3. CASE in.kind = "control" /\ in.op = "status"
    <2>1. motor \in Nat /\ StepperCount \in Nat
        BY <1>1, RepliesAssumption
    <2>2. ~(motor >= StepperCount) /\ motor \in 0..(StepperCount - 1)
        BY <1>1, <1>3, <2>1, SMT DEF Available
    <2>3. in.args # <<>> => done' = Asked(in)
        <3>1. in.args # <<>> => motor = LastOf("u8", in.args, 0) /\ pos = 0
            BY <1>1, <1>3, FoundIsLast DEF Parsed, ParsedBy
        <3> QED BY <1>1, <1>3, <2>2, <3>1 DEF Asked
    <2>4. in.args = <<>> => NamesNone(in)
        BY <1>1, <1>3 DEF NamesNone
    <2>5. DoesAsAsked'
        BY <1>1, <1>3, <2>2, <2>3, <2>4
           DEF DoesAsAsked, NamesNone, Asked, ForUs, ArpForUs, IcmpForUs, UdpForUs
    <2> QED BY <1>1, <1>2, <2>5 DEF AskInv, Stages
<1>4. CASE ~(in.kind = "control" /\ in.op = "status")
    <2>1. done' = Asked(in) /\ ~NamesNone(in)
        BY <1>1, <1>4 DEF Asked, NamesNone
    <2>2. DoesAsAsked'
        BY <1>1, <2>1
           DEF DoesAsAsked, NamesNone, Asked, ForUs, ArpForUs, IcmpForUs, UdpForUs
    <2> QED BY <1>1, <1>2, <2>2 DEF AskInv, Stages
<1> QED BY <1>3, <1>4

LEMMA InitAsks == Init => AskInv
<1> SUFFICES ASSUME Init PROVE AskInv
    OBVIOUS
<1>1. args \in Seq(Arguments \cup {End}) /\ 1..Len(args) = {}
    BY SMT DEF Init
<1> QED BY <1>1, RepliesAssumption
        DEF Init, AskInv, ListInv, Typed, Stages, DoesAsAsked, NamesNone, Asked, ForUs,
            ArpForUs, IcmpForUs, UdpForUs

LEMMA NextAsks == ReplyInv /\ AskInv /\ [Next]_vars => AskInv'
BY TakeAsks, ParseAsks, ActAsks, StepAsks, WriteAsks DEF Next

(* When main goes back to polling it has done exactly what the packet asked  *)
(* for: the loop over the arguments reads none that an earlier packet has    *)
(* left behind (main.c:197-299, control.c:46-52), for lists of any length    *)
(* but zero.  For the empty list, after whatever lies behind it, it has done *)
(* nothing else than the operation asked for, on a motor there is.           *)
THEOREM AlwaysDoesAsAsked == Spec => []DoesAsAsked
<1>1. Init => AskInv
    BY InitAsks
<1>2. ReplyInv /\ AskInv /\ [Next]_vars => AskInv'
    BY NextAsks
<1>3. AskInv => DoesAsAsked
    BY DEF AskInv
<1> QED BY <1>1, <1>2, <1>3, ReplyInvariance, PTL DEF Spec

(* TypeOK, for packets of any length and any values.                         *)
THEOREM TypeCorrect == Spec => []TypeOK
<1> DEFINE Types == right \subseteq {"ip", "udp", "icmp"}
<1>1. Init => Types
    BY DEF Init
<1>2. ReplyInv /\ AskInv /\ Types /\ [Next]_vars => Types'
    <2> SUFFICES ASSUME ReplyInv, AskInv, Types, [Next]_vars PROVE Types'
        OBVIOUS
    <2>1. ASSUME NEW p \in Packets, Take(p) PROVE Types'
        BY <2>1 DEF Take
    <2>2. CASE ParseArgument
        BY <2>2 DEF ParseArgument, bufferVars
    <2>3. CASE Refuse \/ Command \/ Status \/ enc28j60_write \/ UNCHANGED vars
        BY <2>3 DEF Refuse, Command, Status, enc28j60_write, ReplyOnly, parseVars, bufferVars,
                    vars
    <2>4. CASE Build \/ Payload \/ Lengths
        <3>1. UNCHANGED <<k, motor, pos>>
            BY <2>4 DEF Build, Payload, Lengths, ReplyOnly, parseVars
        <3>2. pc = "payload" => in.kind \in {"icmp", "discover", "control"}
            BY DEF ReplyInv, StageInv, Stages
        <3>3. right' \subseteq right
            BY <2>4, <3>2 DEF Build, Payload, Lengths, Fill
        <3> QED BY <3>1, <3>3
    <2>5. CASE UdpSum \/ IpSum \/ IcmpSum
        <3>1. UNCHANGED <<k, motor, pos>>
            BY <2>5 DEF UdpSum, IpSum, IcmpSum, ReplyOnly, parseVars
        <3>2. PICK sum \in {"ip", "udp", "icmp"} : \E R : Sum(sum, R)
            BY <2>5 DEF UdpSum, IpSum, IcmpSum
        <3>3. right' \subseteq right \cup {sum}
            BY <3>2 DEF Sum
        <3> QED BY <3>1, <3>2, <3>3
    <2> QED BY <2>1, <2>2, <2>3, <2>4, <2>5 DEF Next
<1>3. ReplyInv /\ AskInv /\ Types => TypeOK
    BY DEF ReplyInv, BufferInv, LengthInv, AskInv, ListInv, TypeOK, None, Stages
<1> HIDE DEF Types
<1>4. Init => AskInv
    BY InitAsks
<1>5. ReplyInv /\ AskInv /\ [Next]_vars => AskInv'
    BY NextAsks
<1> QED BY <1>1, <1>2, <1>3, <1>4, <1>5, ReplyInvariance, PTL DEF Spec
=============================================================================
