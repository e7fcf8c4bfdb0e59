----------------------------- MODULE EthReceive -----------------------------
(***************************************************************************)
(* Reception: the ENC28J60, its interrupt handler EXTI0_IRQHandler, the    *)
(* two receive FIFOs and the main loop's manager_poll with its watchdog.   *)
(*                                                                         *)
(* The chip holds INT low while an enabled interrupt flag is set; EXTI0    *)
(* triggers on the falling edge only, so the handler has to leave no flag  *)
(* behind.  The main loop runs while the handler does not.  A packet is    *)
(* what the handler makes of it (Kinds), a FIFO is its number of packets   *)
(* (PacketFifo has the bytes).  The handler begins between two accesses of *)
(* main to the chip, and then reads what the chip has, or inside of one,   *)
(* and then it may read and leave anything.                                *)
(***************************************************************************)
EXTENDS Integers, Sequences

CONSTANTS
    Kinds,      \* kinds of packets the network sends
    Garbled,    \* ... and that a handler may find at a wrong place in the chip
    Events,     \* flags the link and the transmitter may raise
    ChipRoom,   \* packets the chip's receive buffer holds
    FifoRoom,   \* packets a FIFO holds
    MaxReads,   \* the 10 in manager_poll's loops
    CheckEvery, \* polls between two watchdog checks: 1000000
    Burst       \* packets and events between two steps of the main loop

AllKinds == {"ip", "arp", "foreign", "other"}
AllFlags == {"LINKIF", "TXERIF", "RXERIF"}

ASSUME ReceiveAssumption ==
    /\ Kinds \subseteq AllKinds /\ Garbled \subseteq Kinds
    /\ Events \subseteq {"LINKIF", "TXERIF"}
    /\ ChipRoom \in Nat \ {0} /\ FifoRoom \in Nat \ {0}
    /\ MaxReads \in Nat \ {0} /\ CheckEvery \in Nat \ {0} /\ Burst \in Nat \ {0}

VARIABLES
    \* the chip
    bank1,    \* the bank of EPKTCNT is selected; FALSE but where main goes on to
              \* read it
    rx,       \* packets in the receive buffer; EPKTCNT is its length
    flags,    \* EIR without PKTIF
    rxen,     \* ECON1.RXEN
    intie,    \* EIE is set up
    \* the handler
    pending,  \* EXTI_PR bit 0
    isr,      \* where the handler is: off, events, clear, packets, finish,
              \* or hung, in a loop it never leaves
    cause,    \* the event it found in EIR and has not cleared yet
    early,    \* history: its last run ended at a packet that is not for us
    torn,     \* history: it has begun inside an access of main, since the
              \* chip was reset
    \* the main loop
    main,     \* where it is: reset, rx_enable, interrupt_init, filters; poll,
              \* select, count, check, system, arp, ip, udp
    i,        \* manager_poll's i
    pkti,     \* manager_poll's pkti
    prev_pkt_count,
    pkt_count,              \* ... between the read and the check
    system_fifo, ip_fifo,   \* packets in the FIFOs
    \* the network
    burst     \* packets and events since the last step of the main loop

registers == <<rx, flags, rxen, intie>>
chipVars == <<bank1, registers>>
isrVars == <<isr, cause, early, torn>>
countVars == <<i, pkti, prev_pkt_count, pkt_count>>
fifoVars == <<system_fifo, ip_fifo>>
mainVars == <<main, countVars>>
vars == <<chipVars, pending, isrVars, mainVars, fifoVars, burst>>

-----------------------------------------------------------------------------
(* The chip *)

\* INT is low; PKTIF is set while EPKTCNT is not 0.
Asserted == intie /\ (rx # <<>> \/ flags # {})

\* EXTI0 latches a falling edge of INT.
Edge == pending' = (pending \/ (~Asserted /\ Asserted'))

\* A packet arrives; without room it raises RXERIF.
Arrive(kind) ==
    /\ rxen /\ burst < Burst
    /\ burst' = burst + 1
    /\ IF Len(rx) < ChipRoom
       THEN rx' = Append(rx, kind) /\ UNCHANGED flags
       ELSE flags' = flags \cup {"RXERIF"} /\ UNCHANGED rx
    /\ UNCHANGED <<bank1, rxen, intie, isrVars, mainVars, fifoVars>>
    /\ Edge

\* The link changes or a transmission fails.
Raise(event) ==
    /\ burst < Burst
    /\ burst' = burst + 1
    /\ flags' = flags \cup {event}
    /\ UNCHANGED <<bank1, rx, rxen, intie, isrVars, mainVars, fifoVars>>
    /\ Edge

-----------------------------------------------------------------------------
(* EXTI0_IRQHandler *)

Handler == UNCHANGED <<rxen, intie, torn, mainVars, burst>>

\* Entry: the pending flag is cleared.
Enter ==
    /\ isr = "off" /\ pending
    /\ isr' = "events"
    /\ pending' = FALSE
    /\ early' = FALSE
    /\ Handler /\ UNCHANGED <<bank1, rx, flags, cause, fifoVars>>

\* EIR is read once, and one event is handled.
FirstOf(set) ==
    CASE "LINKIF" \in set -> "LINKIF"
      [] "LINKIF" \notin set /\ "TXERIF" \in set -> "TXERIF"
      [] OTHER -> "RXERIF"

ReadEir ==
    /\ isr = "events"
    /\ IF flags = {}
       THEN isr' = "packets" /\ UNCHANGED cause
       ELSE isr' = "clear" /\ cause' = FirstOf(flags)
    /\ Handler /\ UNCHANGED <<bank1, rx, flags, early, fifoVars>>
    /\ Edge

ClearEvent ==
    /\ isr = "clear"
    /\ flags' = flags \ {cause}
    /\ isr' = "packets" /\ cause' = "none"
    /\ Handler /\ UNCHANGED <<bank1, rx, early, fifoVars>>
    /\ Edge

\* enc28j60_fifo_write_packet: a packet is dropped when the FIFO is full.
Written(fifo) == IF fifo < FifoRoom THEN fifo + 1 ELSE fifo

\* enc28j60_read and the switch.  A packet that is not for us ends the
\* handler, one of another type does not.  enc28j60_read selects bank 0.
AfterPacket(kind) == IF kind = "foreign" THEN "off" ELSE "packets"

ReadPacket ==
    /\ isr = "packets" /\ rx # <<>>
    /\ rx' = Tail(rx)
    /\ bank1' = FALSE
    /\ isr' = AfterPacket(Head(rx))
    /\ early' = (isr' = "off")
    /\ ip_fifo' = IF Head(rx) = "ip" THEN Written(ip_fifo) ELSE ip_fifo
    /\ system_fifo' =
           IF Head(rx) = "arp" THEN Written(system_fifo) ELSE system_fifo
    /\ Handler /\ UNCHANGED <<flags, cause>>
    /\ Edge

NoMorePackets ==
    /\ isr = "packets" /\ rx = <<>>
    /\ bank1' = (main = "count")
    /\ isr' = "finish"
    /\ Handler /\ UNCHANGED <<rx, flags, cause, early, fifoVars>>
    /\ Edge

\* ESTAT.INT cannot be cleared: it mirrors the pin.
Finish_Clears ==
    /\ isr = "finish"
    /\ isr' = "off" /\ pending' = FALSE
    /\ Handler /\ UNCHANGED <<bank1, rx, flags, cause, early, fifoVars>>

Finish ==
    /\ isr = "finish"
    /\ isr' = "off"
    /\ Handler /\ UNCHANGED <<bank1, rx, flags, cause, early, fifoVars>>
    /\ Edge

\* The loop of a handler that hangs: see Hang.
Spin ==
    /\ isr = "hung"
    /\ burst' = 0
    /\ UNCHANGED <<chipVars, pending, isrVars, mainVars, fifoVars>>

EXTI0_IRQHandler ==
    \/ Enter \/ ReadEir \/ ClearEvent \/ ReadPacket \/ NoMorePackets \/ Finish \/ Spin

-----------------------------------------------------------------------------
(* The main loop.  A pending interrupt is taken before its next step. *)

MainRuns == isr = "off" /\ ~pending /\ burst' = 0 /\ UNCHANGED <<isr, cause, early>>

\* A reset of the chip, from which nothing is enabled.
enc28j60_src ==
    /\ main = "reset" /\ MainRuns
    /\ bank1' = FALSE
    /\ rx' = <<>> /\ flags' = {} /\ rxen' = FALSE /\ intie' = FALSE
    /\ torn' = FALSE
    /\ main' = "rx_enable"
    /\ UNCHANGED <<countVars, fifoVars>>
    /\ Edge

\* The rest of enc28j60_init up to the PHY setup.
enc28j60_rx_enable ==
    /\ main = "rx_enable" /\ MainRuns
    /\ rxen' = TRUE
    /\ main' = "interrupt_init"
    /\ UNCHANGED <<bank1, rx, flags, intie, torn, countVars, fifoVars>>
    /\ Edge

enc28j60_interrupt_init ==
    /\ main = "interrupt_init" /\ MainRuns
    /\ intie' = TRUE
    /\ main' = "filters"
    /\ UNCHANGED <<bank1, rx, flags, rxen, torn, countVars, fifoVars>>
    /\ Edge

\* The watchdog's call of enc28j60_init goes back into the poll; the first
\* one, by manager_init, comes before the first poll, when prev_pkt_count is 0.
enc28j60_filters_init ==
    /\ main = "filters" /\ MainRuns
    /\ main' = IF prev_pkt_count = 0 THEN "poll" ELSE "system"
    /\ UNCHANGED <<chipVars, torn, countVars, fifoVars>>
    /\ Edge

\* The watchdog, every CheckEvery-th poll ...
Poll ==
    /\ main = "poll" /\ MainRuns
    /\ IF pkti + 1 > CheckEvery
       THEN pkti' = 0 /\ main' = "select"
       ELSE pkti' = pkti + 1 /\ main' = "system"
    /\ i' = 0
    /\ UNCHANGED <<chipVars, torn, prev_pkt_count, pkt_count, fifoVars>>
    /\ Edge

\* ... looks at EPKTCNT: enc28j60_packet_count selects its bank ...
SelectBank ==
    /\ main = "select" /\ MainRuns
    /\ bank1' = TRUE
    /\ main' = "count"
    /\ UNCHANGED <<registers, torn, countVars, fifoVars>>
    /\ Edge

\* What a byte read for EPKTCNT may be: one more than there is room for stands
\* for all larger ones.
Counts == 0..(ChipRoom + 1)

\* ... and reads it.  A handler that has returned early has left bank 0, where
\* nothing is at its address; one inside an access may have left any.
ReadCount ==
    /\ main = "count" /\ MainRuns
    /\ pkt_count' \in (IF bank1 THEN {Len(rx)} ELSE IF torn THEN Counts ELSE {0})
    /\ main' = "check" /\ bank1' = FALSE
    /\ UNCHANGED <<registers, torn, i, pkti, prev_pkt_count, fifoVars>>
    /\ Edge

\* ... and resets the chip if it has not changed.
Suspicious_Always == pkt_count = prev_pkt_count
Suspicious == pkt_count > 0 /\ pkt_count = prev_pkt_count

Check_Forgets ==
    /\ main = "check" /\ MainRuns
    /\ main' = IF Suspicious THEN "reset" ELSE "system"
    /\ pkt_count' = 0
    /\ UNCHANGED <<chipVars, torn, i, pkti, prev_pkt_count, fifoVars>>
    /\ Edge

Check ==
    /\ main = "check" /\ MainRuns
    /\ IF Suspicious
       THEN main' = "reset" /\ UNCHANGED prev_pkt_count
       ELSE /\ main' = "system"
            /\ prev_pkt_count' =
                   IF pkt_count > 0 THEN pkt_count ELSE prev_pkt_count
    /\ pkt_count' = 0
    /\ UNCHANGED <<chipVars, torn, i, pkti, fifoVars>>
    /\ Edge

\* while (i++ < 10 && len > 0), after a read with len > 0.
Again == i < MaxReads

\* One read of the system FIFO, of a packet that is then handled if any.
ReadSystem ==
    /\ main = "system" /\ MainRuns
    /\ IF system_fifo > 0
       THEN main' = "arp" /\ system_fifo' = system_fifo - 1 /\ UNCHANGED i
       ELSE main' = "ip" /\ i' = 0 /\ UNCHANGED system_fifo
    /\ UNCHANGED <<chipVars, torn, pkti, prev_pkt_count, pkt_count, ip_fifo>>
    /\ Edge

\* manager_handle_arp_request or _reply, and the loop's condition.
HandleArp_Unbounded ==
    /\ main = "arp" /\ MainRuns
    /\ main' = "system"
    /\ UNCHANGED <<chipVars, torn, countVars, fifoVars>>
    /\ Edge

HandleArp ==
    /\ main = "arp" /\ MainRuns
    /\ IF Again THEN main' = "system" /\ i' = i + 1
                   ELSE main' = "ip" /\ i' = 0
    /\ UNCHANGED <<chipVars, torn, pkti, prev_pkt_count, pkt_count, fifoVars>>
    /\ Edge

ReadIp ==
    /\ main = "ip" /\ MainRuns
    /\ IF ip_fifo > 0
       THEN main' = "udp" /\ ip_fifo' = ip_fifo - 1
       ELSE main' = "poll" /\ UNCHANGED ip_fifo
    /\ UNCHANGED <<chipVars, torn, countVars, system_fifo>>
    /\ Edge

\* manager_handle_ip, and the loop's condition.
HandleIp ==
    /\ main = "udp" /\ MainRuns
    /\ IF Again THEN main' = "ip" /\ i' = i + 1
                   ELSE main' = "poll" /\ UNCHANGED i
    /\ UNCHANGED <<chipVars, torn, pkti, prev_pkt_count, pkt_count, fifoVars>>
    /\ Edge

enc28j60_init ==
    \/ enc28j60_src \/ enc28j60_rx_enable \/ enc28j60_interrupt_init
    \/ enc28j60_filters_init

manager_poll ==
    Poll \/ SelectBank \/ ReadCount \/ Check \/ ReadSystem \/ HandleArp \/ ReadIp \/ HandleIp

Main == enc28j60_init \/ manager_poll

-----------------------------------------------------------------------------
(* A handler that begins inside an access of main: SpiBus has the bytes.    *)
(* It reads EIR and EPKTCNT one byte late, or with main's byte for its own  *)
(* command; it clears an event or none, takes packets or none, by a length  *)
(* and a pointer that may be anything, and stores ECON1, which holds RXEN,  *)
(* as it has read it.  Main's access is not heard, or is answered by junk.  *)

\* Main's steps that talk to the chip, and where main is when it goes on: a
\* step of several accesses may still have the one that matters before it.
Inside ==
    {<<"reset", "rx_enable">>, <<"rx_enable", "rx_enable">>,
     <<"rx_enable", "interrupt_init">>, <<"interrupt_init", "interrupt_init">>,
     <<"interrupt_init", "filters">>, <<"filters", "filters">>,
     <<"select", "count">>, <<"count", "check">>, <<"arp", "arp">>, <<"udp", "udp">>}

HandlerInside ==
    /\ isr = "off" /\ pending
    /\ \E step \in Inside : main = step[1] /\ main' = step[2]
    /\ \E n \in 0..Len(rx) :
           rx' = SubSeq(rx, n + 1, Len(rx)) \/ rx' \in [1..n -> Garbled]
    /\ flags' \in SUBSET flags
    /\ rxen' \in BOOLEAN /\ intie' \in BOOLEAN
    /\ bank1' \in (IF main' = "count" THEN BOOLEAN ELSE {FALSE})
    /\ system_fifo' \in system_fifo..FifoRoom /\ ip_fifo' \in ip_fifo..FifoRoom
    /\ IF main = "count" THEN pkt_count' \in Counts ELSE UNCHANGED pkt_count
    /\ pending' = (~Asserted /\ Asserted')
    /\ early' = FALSE /\ torn' = TRUE
    /\ UNCHANGED <<isr, cause, i, pkti, prev_pkt_count, burst>>

\* ... and never leaves its loop, if what it reads for EPKTCNT stays the same.
Hang ==
    /\ isr = "off" /\ pending
    /\ \E step \in Inside : main = step[1]
    /\ isr' = "hung" /\ pending' = FALSE /\ torn' = TRUE
    /\ UNCHANGED <<chipVars, cause, early, mainVars, fifoVars, burst>>

-----------------------------------------------------------------------------
Init ==
    /\ bank1 = FALSE
    /\ rx = <<>> /\ flags = {} /\ rxen = FALSE /\ intie = FALSE
    /\ pending = FALSE
    /\ isr = "off" /\ cause = "none" /\ early = FALSE /\ torn = FALSE
    /\ main = "reset"
    /\ i = 0 /\ pkti = 0 /\ prev_pkt_count = 0 /\ pkt_count = 0
    /\ system_fifo = 0 /\ ip_fifo = 0
    /\ burst = 0

Next ==
    \/ \E kind \in Kinds : Arrive(kind)
    \/ \E event \in Events : Raise(event)
    \/ EXTI0_IRQHandler
    \/ HandlerInside \/ Hang
    \/ Main

Spec == Init /\ [][Next]_vars

(* A handler once entered, or pending, runs; the main loop never waits.     *)
FairSpec ==
    /\ Spec
    /\ WF_vars(EXTI0_IRQHandler \/ HandlerInside \/ Hang)
    /\ WF_vars(Main)

-----------------------------------------------------------------------------
TypeOK ==
    /\ bank1 \in BOOLEAN
    /\ rx \in Seq(Kinds) /\ Len(rx) <= ChipRoom
    /\ flags \subseteq AllFlags
    /\ rxen \in BOOLEAN /\ intie \in BOOLEAN /\ pending \in BOOLEAN
    /\ isr \in {"off", "events", "clear", "packets", "finish", "hung"}
    /\ cause \in AllFlags \cup {"none"} /\ early \in BOOLEAN /\ torn \in BOOLEAN
    /\ main \in {"reset", "rx_enable", "interrupt_init", "filters", "poll", "select",
                 "count", "check", "system", "arp", "ip", "udp"}
    /\ i \in 0..MaxReads
    /\ pkti \in 0..CheckEvery
    /\ prev_pkt_count \in Counts /\ pkt_count \in Counts
    /\ system_fifo \in 0..FifoRoom /\ ip_fifo \in 0..FifoRoom
    /\ burst \in 0..Burst

\* enc28j60_init has not yet come to the interrupts.
Initialising == main \in {"reset", "rx_enable", "interrupt_init"}

(* There is something to handle, INT is low or would be if EIE were what it *)
(* was set to, and no edge is or will be noticed: reception has stalled.    *)
Deaf ==
    /\ intie \/ ~Initialising
    /\ rx # <<>> \/ flags # {}
    /\ ~pending /\ isr = "off"

(* Reception stalls for three reasons only: an event the handler left       *)
(* behind, because it came after EIR was read or was not the first one set  *)
(* there; packets behind one that is not for us, at which the handler       *)
(* returns; or a handler that has begun inside an access of main since the  *)
(* last reset.  At every other point of the handler a packet that arrives   *)
(* is read by it or raises a new edge (enc28j60.c:101-208).                 *)
DeafHasCause == Deaf => flags # {} \/ early \/ torn

(* The watchdog resets the chip, and drops what it holds, only if reception *)
(* has stalled or a handler has begun inside an access, which may have      *)
(* spoilt the count: not because the handler ran between the choice of the  *)
(* bank and the read, or packets came and went since the check before       *)
(* (manager.c:57-76, enc28j60.c:833-837).                                   *)
ResetsOnlyWhenDeaf ==
    [][main = "check" /\ main' = "reset" => Deaf \/ torn]_vars

(* Packets in a chip that has stalled do not stay there for ever: the       *)
(* watchdog resets it, whatever made it stall, a handler inside an access   *)
(* included, and whatever arrives meanwhile.                                *)
Recovers == Deaf /\ rx # <<>> ~> ~Deaf

(* A flood of one kind does not keep the main loop from the other FIFO      *)
(* (manager.c:79-119), unless a handler that has begun inside an access     *)
(* never ends.                                                              *)
ServesBoth ==
    /\ ip_fifo > 0 ~> main = "udp" \/ isr = "hung"
    /\ system_fifo > 0 ~> main = "arp" \/ isr = "hung"
=============================================================================
