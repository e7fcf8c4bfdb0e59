------------------------------ MODULE Replies ------------------------------
(***************************************************************************)
(* What main does with a packet it has taken from a FIFO: the checks that  *)
(* decide whether it is for us, the loop over the arguments of a control   *)
(* request, the call of the stepper driver or the reply.                   *)
(*                                                                         *)
(* All replies are built in one buffer, write_buffer, one after the other. *)
(* Its contents are abstracted to the offsets written for this reply       *)
(* (fresh) and those that hold bytes of earlier ones (stale); all other    *)
(* bytes are zero.  Offsets are those of enc28j60_pkt_t: the control byte  *)
(* is 0, the Ethernet header 1..14, the IP header 15..34.                  *)
(***************************************************************************)
EXTENDS Integers, Sequences

CONSTANTS
    StepperCount,   \* stepper_motors_count: 4
    Vendor,         \* length of config.vstring: 12
    ClearedTo,      \* bytes zeroed before a reply over UDP: 1000
    U8, I32,        \* values of arguments
    EchoLengths,    \* bytes of data in echo requests
    Packets,        \* packets that arrive
    Behind          \* what may lie in read_buffer behind a packet's arguments

Arguments == [t : {"u8", "i32"}, val : U8 \cup I32] \cup [t : {"other"}]
Opcodes == {"info", "move", "enable", "disable", "status", "other"}

\* A packet with what the checks look at.  The arguments of a request are those
\* before the one of type END; there may be none.
Packet ==
    [kind : {"arp"}, request : BOOLEAN]
      \cup [kind : {"icmp"}, intact : BOOLEAN, echo : BOOLEAN, data : EchoLengths]
      \cup [kind : {"discover"}, intact : BOOLEAN, request : BOOLEAN, prefix : BOOLEAN]
      \cup [kind : {"control"}, intact : BOOLEAN, request : BOOLEAN, prefix : BOOLEAN,
            op : Opcodes, args : Seq(Arguments)]
      \cup [kind : {"other"}]

WellTyped(list) ==
    \A j \in DOMAIN list : /\ list[j].t = "u8" => list[j].val \in U8
                           /\ list[j].t = "i32" => list[j].val \in I32

ASSUME RepliesAssumption ==
    /\ StepperCount \in Nat /\ Vendor \in Nat
    /\ U8 \subseteq Nat /\ 0 \in U8 /\ I32 \subseteq Int /\ 0 \in I32
    /\ EchoLengths \subseteq Nat
    /\ Packets \subseteq Packet
    /\ \A p \in Packets : p.kind = "control" => WellTyped(p.args)
    /\ Behind \subseteq Seq(Arguments) /\ \A list \in Behind : WellTyped(list)
    \* the zeroed part holds every reply over UDP and the eight bytes behind it
    /\ ClearedTo \in Nat
    /\ ClearedTo >= 65 + 11 * StepperCount + 8
    /\ ClearedTo >= 81 + 8 /\ ClearedTo >= 48 + Vendor + 8

VARIABLES
    in,         \* read_buffer: the packet being handled
    args,       \* ... the arguments of a request, with what lies behind them
    pc,         \* "poll", "args", "act", or the next step of the reply
    k,          \* the argument the loop is at
    motor, pos, \* what it has found
    fresh, stale,   \* write_buffer
    tl,         \* control_pkt->tl, udp_pkt->hdr.l, ip_pkt->hdr.tl
    right,      \* checksums that agree with what they cover
    done        \* history: what was done for this packet

parseVars == <<k, motor, pos>>
bufferVars == <<fresh, stale, tl, right>>
vars == <<in, args, pc, parseVars, bufferVars, done>>

End == [t |-> "end"]
Nothing == [what |-> "nothing"]
NoLengths == [control |-> 0, udp |-> 0, ip |-> 0]

-----------------------------------------------------------------------------
(* A packet is taken from its FIFO *)

\* manager_poll's switch, manager_handle_icmp, udp_packet_callback: the checks
\* before anything is done.
ArpForUs(p) == p.kind = "arp" /\ p.request
IcmpForUs(p) == p.kind = "icmp" /\ p.intact /\ p.echo
UdpForUs(p) ==
    p.kind \in {"discover", "control"} /\ p.intact /\ p.prefix /\ p.request
ForUs(p) == ArpForUs(p) \/ IcmpForUs(p) \/ UdpForUs(p)

\* What manager_handle_control_packet does first.
FirstStep(p) ==
    IF p.kind # "control" \/ p.op = "info" THEN "build"
    ELSE IF p.op = "other" THEN "poll" ELSE "args"

\* The packet overwrites what was in read_buffer as far as it goes.  Behind its
\* END lie the frame's check sequence and what earlier packets left, read as
\* arguments up to the next END.
Take(p) ==
    /\ pc = "poll"
    /\ in' = p
    /\ IF p.kind = "control"
       THEN \E list \in Behind : args' = p.args \o <<End>> \o list \o <<End>>
       ELSE args' = <<>>
    /\ pc' = IF ForUs(p) THEN FirstStep(p) ELSE "poll"
    /\ k' = 1 /\ motor' = 0 /\ pos' = 0
    /\ fresh' = {} /\ stale' = stale \cup fresh
    /\ tl' = NoLengths /\ right' = {}
    /\ done' = Nothing

-----------------------------------------------------------------------------
(* Control requests *)

\* control_pkt_arg_parse_next returns NULL.  It never looks at the type of the
\* first argument: when that is END, the loop goes on behind it.
NoNext_Never(j) == j = Len(args)
NoNext(j) == args[j + 1] = End

\* One round of the loop.  Only MOVE_TO looks at I32 arguments.
ParseArgument ==
    /\ pc = "args"
    /\ motor' = IF args[k].t = "u8" THEN args[k].val ELSE motor
    /\ pos' = IF args[k].t = "i32" /\ in.op = "move" THEN args[k].val ELSE pos
    /\ IF NoNext(k) THEN pc' = "act" /\ UNCHANGED k
                    ELSE k' = k + 1 /\ UNCHANGED pc
    /\ UNCHANGED <<in, args, bufferVars, done>>

\* "Checks if the motor number is actually available".
Available == motor < StepperCount

Refuse ==
    /\ pc = "act" /\ ~Available
    /\ pc' = "poll"
    /\ UNCHANGED <<in, args, parseVars, bufferVars, done>>

\* stepper_enable, stepper_disable, stepper_simple_move
Command ==
    /\ pc = "act" /\ Available /\ in.op # "status"
    /\ done' = [what |-> in.op, motor |-> motor, pos |-> pos]
    /\ pc' = "poll"
    /\ UNCHANGED <<in, args, parseVars, bufferVars>>

Status ==
    /\ pc = "act" /\ Available /\ in.op = "status"
    /\ pc' = "build"
    /\ UNCHANGED <<in, args, parseVars, bufferVars, done>>

-----------------------------------------------------------------------------
(* Replies *)

OverUdp == in.kind \in {"discover", "control"}

\* What a checksum is computed over.  That of UDP takes the addresses too, and
\* runs for udp.l bytes behind the header: eight more than there are.
Covers(sum) ==
    CASE sum = "ip"   -> 15..34
      [] sum = "icmp" -> 35..(14 + tl.ip)
      [] sum = "udp"  -> 27..(42 + tl.udp)

\* Bytes are written at the offsets; a checksum that covers one of them is wrong
\* from now on, until it is computed.
Fill(offsets) ==
    /\ fresh' = fresh \cup offsets
    /\ stale' = stale \ offsets
    /\ right' = {s \in right : Covers(s) \cap offsets = {}}

Sum(sum, field) ==
    /\ fresh' = fresh \cup field
    /\ stale' = stale \ field
    /\ right' = IF Covers(sum) \cap stale' = {}
                THEN right \cup {sum} ELSE right \ {sum}

ReplyOnly == UNCHANGED <<in, args, parseVars>>

\* memset, and pkt_builder_arp, _icmp, _control_reply or pkt_builer_discover as
\* far as the headers go, without lengths and checksums.
MemSet_Nothing(offsets) == offsets
MemSet(offsets) == IF OverUdp THEN offsets \ (0..(ClearedTo - 1)) ELSE offsets

Headers ==
    CASE in.kind = "arp"  -> 1..42
      [] in.kind = "icmp" -> (1..16) \cup (19..24) \cup (27..36)
      [] OverUdp          -> (1..16) \cup (19..24) \cup (27..38)

Build ==
    /\ pc = "build"
    /\ fresh' = Headers
    /\ stale' = MemSet(stale) \ Headers
    /\ pc' = IF in.kind = "arp" THEN "write" ELSE "payload"
    /\ ReplyOnly /\ UNCHANGED <<tl, right, done>>

\* Arguments of a control reply, the last one of type END: what
\* control_pkt_arg_add_stepper_status, _add_motor and _end write ...
AddedArguments ==
    IF in.op = "status" THEN 4 + 12 + 4 ELSE StepperCount * (4 + 7) + 4

\* ... and resp_payload_size.
ReplyArguments_NoEnd ==
    IF in.op = "status" THEN 4 + 12 ELSE StepperCount * (4 + 7)
ReplyArguments ==
    IF in.op = "status" THEN 4 + 12 + 4 ELSE StepperCount * (4 + 7) + 4

\* The data of an echo reply: as many bytes as ip.tl has beyond the headers.
EchoData_Short(n) == n - 8
EchoData(n) == n

\* ip.tl is that of the request.
EchoLength(n) == n + 20 + 8

Payload ==
    /\ pc = "payload"
    /\ CASE in.kind = "icmp" ->
                /\ Fill((17..18) \cup (39..(42 + EchoData(in.data))))
                /\ tl' = [tl EXCEPT !.ip = EchoLength(in.data)]
         [] in.kind = "control" ->
                /\ Fill((43..58) \cup (61..(60 + AddedArguments)))
                /\ UNCHANGED tl
         [] in.kind = "discover" ->
                /\ Fill(43..(47 + Vendor))
                /\ UNCHANGED tl
    /\ pc' = IF in.kind = "icmp" THEN "ipsum" ELSE "lengths"
    /\ ReplyOnly /\ UNCHANGED done

\* The first half of pkt_builder_control_reply_finish, pkt_builer_discover_finish.
UdpPayload == IF in.kind = "control" THEN 18 + ReplyArguments ELSE 5 + Vendor

Lengths ==
    /\ pc = "lengths"
    /\ Fill((IF in.kind = "control" THEN 59..60 ELSE {}) \cup (39..40) \cup (17..18))
    /\ tl' = [control |-> IF in.kind = "control" THEN UdpPayload ELSE 0,
              udp |-> 8 + UdpPayload, ip |-> 20 + 8 + UdpPayload]
    /\ pc' = "udpsum"
    /\ ReplyOnly /\ UNCHANGED done

UdpSum ==
    /\ pc = "udpsum"
    /\ Sum("udp", 41..42)
    /\ pc' = "ipsum"
    /\ ReplyOnly /\ UNCHANGED <<tl, done>>

IpSum ==
    /\ pc = "ipsum"
    /\ Sum("ip", 25..26)
    /\ pc' = IF in.kind = "icmp" THEN "icmpsum" ELSE "write"
    /\ ReplyOnly /\ UNCHANGED <<tl, done>>

IcmpSum ==
    /\ pc = "icmpsum"
    /\ Sum("icmp", 37..38)
    /\ pc' = "write"
    /\ ReplyOnly /\ UNCHANGED <<tl, done>>

\* The argument of enc28j60_write, which sends the 15 bytes of enc28j60_pkt_t and
\* as many after them.
WriteLength == IF in.kind = "arp" THEN 15 + 28 ELSE tl.ip
FrameOffsets == 0..(14 + WriteLength)

enc28j60_write ==
    /\ pc = "write"
    /\ done' = [what |-> IF in.kind = "control" THEN in.op ELSE in.kind,
                motor |-> motor, pos |-> pos]
    /\ pc' = "poll"
    /\ ReplyOnly /\ UNCHANGED bufferVars

-----------------------------------------------------------------------------
Init ==
    /\ in = [kind |-> "other"] /\ args = <<>> /\ pc = "poll"
    /\ k = 1 /\ motor = 0 /\ pos = 0
    /\ fresh = {} /\ stale = {} /\ tl = NoLengths /\ right = {}
    /\ done = Nothing

Next ==
    \/ \E p \in Packets : Take(p)
    \/ ParseArgument \/ Refuse \/ Command \/ Status
    \/ Build \/ Payload \/ Lengths \/ UdpSum \/ IpSum \/ IcmpSum \/ enc28j60_write

Spec == Init /\ [][Next]_vars

-----------------------------------------------------------------------------
TypeOK ==
    /\ in \in Packets \cup {[kind |-> "other"]}
    /\ args \in Seq(Arguments \cup {End})
    /\ pc \in {"poll", "args", "act", "build", "payload", "lengths", "udpsum",
               "ipsum", "icmpsum", "write"}
    /\ k \in Nat /\ motor \in U8 /\ pos \in I32
    /\ fresh \subseteq Nat /\ stale \subseteq Nat
    /\ tl \in [control : Nat, udp : Nat, ip : Nat]
    /\ right \subseteq {"ip", "udp", "icmp"}

(* Every checksum of a reply that is sent agrees with what is sent, though    *)
(* the one of UDP takes eight bytes behind the datagram, where an earlier and *)
(* longer reply may have left something (udp.c:30-34, main.c:164, 263, 321).  *)
ChecksumsRight ==
    pc = "write" =>
        right = CASE in.kind = "arp"  -> {}
                  [] in.kind = "icmp" -> {"ip", "icmp"}
                  [] OverUdp          -> {"ip", "udp"}

(* The three lengths of a reply agree with one another, and the frame is what *)
(* was written for it, from the header to the last byte of the payload.       *)
LengthsAgree ==
    pc = "write" /\ in.kind # "arp" =>
        /\ fresh = FrameOffsets \ {0}
        /\ OverUdp => tl.ip = 20 + tl.udp
        /\ in.kind = "control" => tl.udp = 8 + tl.control

(* No reply carries bytes of an earlier one, but for the 15 that an ARP reply *)
(* is too long (manager.c:258); the control byte stays zero.                  *)
NothingStale ==
    pc = "write" =>
        FrameOffsets \cap stale \subseteq (IF in.kind = "arp" THEN 43..57 ELSE {})

(* What a request asks for: the last argument of each type counts, motors      *)
(* that do not exist are left alone.                                           *)
LastOf(type, list, default) ==
    LET S == {j \in DOMAIN list : list[j].t = type}
    IN  IF S = {} THEN default
        ELSE list[CHOOSE j \in S : \A i \in S : i <= j].val

Asked(p) ==
    IF ~ForUs(p) \/ (p.kind = "control" /\ p.op = "other") THEN Nothing
    ELSE IF p.kind # "control" \/ p.op = "info"
         THEN [what |-> IF p.kind = "control" THEN "info" ELSE p.kind,
               motor |-> 0, pos |-> 0]
    ELSE LET m == LastOf("u8", p.args, 0) IN
         IF m >= StepperCount THEN Nothing
         ELSE [what |-> p.op, motor |-> m,
               pos |-> IF p.op = "move" THEN LastOf("i32", p.args, 0) ELSE 0]

\* A request that names no motor, for an operation on one.
NamesNone(p) ==
    /\ ForUs(p) /\ p.kind = "control" /\ p.op \notin {"info", "other"}
    /\ p.args = <<>>

(* When main goes back to polling it has done exactly what the packet asked   *)
(* for, and nothing that an earlier packet has left in read_buffer: no list   *)
(* of arguments is read past its END (control.c:46-52).  The exception is the *)
(* empty list, whose END is the first argument: what lies behind it is used   *)
(* (main.c:129-134), but even then no other operation is done than the one    *)
(* asked for, and only on a motor there is.                                   *)
DoesAsAsked ==
    pc = "poll" =>
        IF NamesNone(in)
        THEN done # Nothing =>
                /\ done.what = in.op /\ done.motor \in 0..(StepperCount - 1)
                /\ in.op # "move" => done.pos = 0
        ELSE done = Asked(in)
=============================================================================
