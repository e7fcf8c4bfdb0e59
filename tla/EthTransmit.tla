---------------------------- MODULE EthTransmit ----------------------------
(***************************************************************************)
(* Transmission: enc28j60_write in the main loop, the registers of the     *)
(* chip it programs and the interrupt handler, which uses the same chip    *)
(* without saving anything.                                                *)
(*                                                                         *)
(* ECON1 holds the register bank and TXRTS, the bit that starts a          *)
(* transmission and that the chip clears at its end.  bank_select reads    *)
(* ECON1 and writes it back, in main and in the handler, while the chip    *)
(* may finish in between.  The handler leaves bank 1, or bank 0 if it      *)
(* returns early.  The handler begins between any two register accesses of *)
(* main, and then does what it should; or inside of one, and then it may   *)
(* leave anything in the chip.  An access of main, to a byte or to a pair, *)
(* is one step if no handler begins inside of it.                          *)
(***************************************************************************)
EXTENDS Integers, Sequences

CONSTANTS
    MemSize,        \* the chip's buffer: 8192 bytes
    tx_buff_start,  \* config.tx_buff_start
    Packets,        \* packets that main writes, with their control byte
    Handlers,       \* bank switches of handlers during one write or count, of
                    \* which one inside an access makes two
    Junk            \* bank, pointers and buffer that a handler inside an
                    \* access may leave behind

Addresses == 0..(MemSize - 1)
Start == tx_buff_start

ASSUME TransmitAssumption ==
    /\ MemSize \in Nat /\ tx_buff_start \in 1..(MemSize - 1) /\ Handlers \in Nat
    /\ Packets \subseteq Seq(Nat)
    /\ \A p \in Packets : Len(p) > 0 /\ tx_buff_start + Len(p) < MemSize
    /\ Junk \subseteq [bank : 0..3, ETXST : Addresses, ETXND : Addresses,
                      EWRPT : Addresses, mem : [Addresses -> Nat]]

VARIABLES
    \* the chip
    bank, txrts,    \* ECON1
    ETXST, ETXND,   \* first and last byte of the frame to send
    EWRPT,          \* where wbm writes
    mem,            \* the buffer
    \* main
    pc,             \* the next register access
    pkt,            \* enc28j60_write's argument
    reg,            \* ECON1 as bank_select has read it
    end,            \* enc28j60_write's reg16
    \* the handler
    isr,            \* its next register access
    isr_reg,        \* ECON1 as its bank_select has read it
    \* history
    switches,       \* bank switches of handlers so far in this write or count
    clean,          \* no handler has run since a write selected bank 0
    committed,      \* the packet whose transmission main started last, since
                    \* the chip was reset
    intact,         \* ... and whether that write was clean
    torn            \* a handler has begun inside an access of main, since the
                    \* chip was reset

chipVars == <<ETXST, ETXND, EWRPT, mem>>
mainVars == <<pc, pkt, reg, end>>
isrVars == <<isr, isr_reg>>
history == <<committed, intact, torn>>
vars == <<bank, txrts, chipVars, mainVars, isrVars, switches, clean, history>>

\* A write to or read from a register of bank 0 reaches it in bank 0 only.
Bank0 == bank = 0

-----------------------------------------------------------------------------
(* The chip *)

\* What it sends: the buffer from ETXST to ETXND.
Frame == [k \in 1..(ETXND - ETXST + 1) |-> mem[ETXST + k - 1]]

TxDone ==
    /\ txrts
    /\ txrts' = FALSE
    /\ UNCHANGED <<bank, chipVars, mainVars, isrVars, switches, clean, history>>

-----------------------------------------------------------------------------
(* The handler: EXTI0_IRQHandler from the point of view of the bank.       *)

InHandler == UNCHANGED <<chipVars, mainVars, history>>

\* The handler looks at EPKTCNT first: enc28j60_packet_count.
Interrupt ==
    /\ isr = "off" /\ switches < Handlers
    /\ isr' = "count"
    /\ clean' = FALSE
    /\ InHandler /\ UNCHANGED <<bank, txrts, isr_reg, switches>>

\* bank_select reads ECON1 ...
IsrLoad ==
    /\ isr \in {"count", "read"}
    /\ isr_reg' = txrts
    /\ isr' = IF isr = "count" THEN "countStore" ELSE "readStore"
    /\ InHandler /\ UNCHANGED <<bank, txrts, switches, clean>>

\* ... and writes it: bank 1 for EPKTCNT, and the handler is done or reads a
\* packet; bank 0 for the packet, and the handler returns or counts again.
IsrStore ==
    /\ isr \in {"countStore", "readStore"}
    /\ txrts' = isr_reg /\ isr_reg' = FALSE
    /\ switches' = switches + 1
    /\ \/ isr = "countStore" /\ bank' = 1 /\ isr' = "off"
       \/ isr = "countStore" /\ bank' = 1 /\ isr' = "read" /\ switches' < Handlers
       \/ isr = "readStore" /\ bank' = 0 /\ isr' = "off"
       \/ isr = "readStore" /\ bank' = 0 /\ isr' = "count" /\ switches' < Handlers
    /\ InHandler /\ UNCHANGED clean

EXTI0_IRQHandler == Interrupt \/ IsrLoad \/ IsrStore

-----------------------------------------------------------------------------
(* Main *)

MainRuns == isr = "off" /\ UNCHANGED isrVars
KeepMost == UNCHANGED <<switches, history>>

\* enc28j60_write is called, with any packet; or the watchdog counts packets.
Write(p) ==
    /\ pc = "idle" /\ MainRuns
    /\ pkt' = p
    /\ pc' = "select"
    /\ switches' = 0
    /\ UNCHANGED <<bank, txrts, chipVars, reg, end, clean, history>>

Count ==
    /\ pc = "idle" /\ MainRuns
    /\ pc' = "count"
    /\ switches' = 0
    /\ UNCHANGED <<bank, txrts, chipVars, pkt, reg, end, clean, history>>

\* bank_select: at the start of enc28j60_write, in enc28j60_set_wbm_address,
\* in enc28j60_packet_count and in __enc28j60_filters_init.
Load ==
    /\ pc \in {"select", "wbmSelect", "count", "filters"} /\ MainRuns
    /\ reg' = txrts
    /\ pc' = CASE pc = "select"    -> "selectStore"
               [] pc = "wbmSelect" -> "wbmStore"
               [] pc = "count"     -> "countStore"
               [] pc = "filters"   -> "filtersStore"
    /\ KeepMost /\ UNCHANGED <<bank, txrts, chipVars, pkt, end, clean>>

\* ... and writes it back, with the bank's number.
StoreTxrts_Clear == txrts' = FALSE /\ reg' = FALSE
StoreTxrts == txrts' = reg /\ reg' = FALSE

SelectStore ==
    /\ pc = "selectStore" /\ MainRuns
    /\ bank' = 0 /\ StoreTxrts
    /\ clean' = TRUE
    /\ pc' = "wait"
    /\ KeepMost /\ UNCHANGED <<chipVars, pkt, end>>

\* "Waits until we can transmit safely".
MayGoOn_Always == TRUE
MayGoOn == ~txrts

Wait_Reselect ==
    /\ pc = "wait" /\ MainRuns
    /\ pc' = IF MayGoOn THEN "etxst" ELSE "select"
    /\ KeepMost /\ UNCHANGED <<bank, txrts, chipVars, pkt, reg, end, clean>>

Wait ==
    /\ pc = "wait" /\ MainRuns
    /\ MayGoOn
    /\ pc' = "etxst"
    /\ KeepMost /\ UNCHANGED <<bank, txrts, chipVars, pkt, reg, end, clean>>

\* ETXST is set to the start of the transmit buffer.
SetStart ==
    /\ pc = "etxst" /\ MainRuns
    /\ ETXST' = IF Bank0 THEN Start ELSE ETXST
    /\ pc' = "wbmSelect"
    /\ KeepMost /\ UNCHANGED <<bank, txrts, ETXND, EWRPT, mem, pkt, reg, end, clean>>

\* enc28j60_set_wbm_address
WbmStore ==
    /\ pc = "wbmStore" /\ MainRuns
    /\ bank' = 0 /\ StoreTxrts
    /\ pc' = "ewrpt"
    /\ KeepMost /\ UNCHANGED <<chipVars, pkt, end, clean>>

SetWrite ==
    /\ pc = "ewrpt" /\ MainRuns
    /\ EWRPT' = IF Bank0 THEN Start ELSE EWRPT
    /\ pc' = "wbm"
    /\ KeepMost /\ UNCHANGED <<bank, txrts, ETXST, ETXND, mem, pkt, reg, end, clean>>

\* enc28j60_wbm, header and payload; no register of a bank is involved.
WriteBuffer ==
    /\ pc = "wbm" /\ MainRuns
    /\ mem' = [a \in Addresses |->
                   LET k == (a - EWRPT) % MemSize
                   IN  IF k < Len(pkt) THEN pkt[k + 1] ELSE mem[a]]
    /\ EWRPT' = (EWRPT + Len(pkt)) % MemSize
    /\ pc' = "end"
    /\ KeepMost /\ UNCHANGED <<bank, txrts, ETXST, ETXND, pkt, reg, end, clean>>

\* reg16: EWRPT less one, or what another bank has at its address.
LastOf_Next(a) == a
LastOf(a) == a - 1

ReadEnd ==
    /\ pc = "end" /\ MainRuns
    /\ IF Bank0 THEN end' = LastOf(EWRPT) ELSE \E a \in Addresses : end' = LastOf(a)
    /\ pc' = "etxnd"
    /\ KeepMost /\ UNCHANGED <<bank, txrts, chipVars, pkt, reg, clean>>

SetEnd ==
    /\ pc = "etxnd" /\ MainRuns
    /\ ETXND' = IF Bank0 THEN end ELSE ETXND
    /\ pc' = "start"
    /\ KeepMost /\ UNCHANGED <<bank, txrts, ETXST, EWRPT, mem, pkt, reg, end, clean>>

\* bfs of TXRTS; enc28j60_write returns without waiting.
StartTransmission ==
    /\ pc = "start" /\ MainRuns
    /\ txrts' = TRUE
    /\ committed' = pkt /\ intact' = clean
    /\ pc' = "idle"
    /\ pkt' = <<>> /\ end' = 0 /\ clean' = FALSE
    /\ UNCHANGED <<bank, chipVars, reg, switches, torn>>

enc28j60_write ==
    \/ Load \/ SelectStore \/ Wait \/ SetStart \/ WbmStore \/ SetWrite
    \/ WriteBuffer \/ ReadEnd \/ SetEnd \/ StartTransmission

\* The rest of enc28j60_packet_count, which reads EPKTCNT; the watchdog may
\* then find that the chip has to be initialised again.
CountStore ==
    /\ pc = "countStore" /\ MainRuns
    /\ bank' = 1 /\ StoreTxrts
    /\ pc' \in {"idle", "reset"}
    /\ KeepMost /\ UNCHANGED <<chipVars, pkt, end, clean>>

\* enc28j60_init: whatever the chip was sending is lost, the buffer keeps its
\* bytes.  No handler runs before EIE is set; the last bank_select, for the
\* filters, comes after that.
Reset ==
    /\ pc = "reset" /\ MainRuns
    /\ bank' = 3 /\ txrts' = FALSE
    /\ ETXST' = 0 /\ ETXND' = 0 /\ EWRPT' = 0
    /\ committed' = <<>> /\ intact' = FALSE /\ torn' = FALSE
    /\ pc' = "filters"
    /\ UNCHANGED <<mem, pkt, reg, end, switches, clean>>

FiltersStore ==
    /\ pc = "filtersStore" /\ MainRuns
    /\ bank' = 1 /\ StoreTxrts
    /\ pc' = "idle"
    /\ KeepMost /\ UNCHANGED <<chipVars, pkt, end, clean>>

enc28j60_init == Reset \/ FiltersStore

Main ==
    \/ \E p \in Packets : Write(p)
    \/ Count
    \/ enc28j60_write
    \/ CountStore
    \/ enc28j60_init

-----------------------------------------------------------------------------
(* A handler that begins inside an access of main: SpiBus has the bytes.    *)
(* Its first byte may be taken for main's data (0x1C in ECON1 sets TXRTS),  *)
(* it may read every answer one byte late, a byte of it may be cut, and it  *)
(* stores ECON1 as it has read it and reads packets by the lengths it has   *)
(* read; nobody hears the rest of main's access.  So what the chip holds    *)
(* afterwards is open, and so is what main has read.                        *)

\* An access of main, and the next one.
Order ==
    {<<"select", "selectStore">>, <<"selectStore", "wait">>, <<"wait", "wait">>,
     <<"wait", "etxst">>, <<"etxst", "wbmSelect">>, <<"wbmSelect", "wbmStore">>,
     <<"wbmStore", "ewrpt">>, <<"ewrpt", "wbm">>, <<"wbm", "end">>,
     <<"end", "etxnd">>, <<"etxnd", "start">>, <<"start", "idle">>,
     <<"count", "countStore">>, <<"countStore", "idle">>, <<"countStore", "reset">>,
     <<"reset", "filters">>, <<"filters", "filtersStore">>, <<"filtersStore", "idle">>}

\* At "reset" the chip does not hear the reset, and the rest of enc28j60_init
\* runs with interrupts.
HandlerInside ==
    /\ isr = "off" /\ switches + 2 <= Handlers
    /\ \E step \in Order : pc = step[1] /\ pc' = step[2]
    /\ txrts' \in BOOLEAN
    /\ \/ bank' \in {0, 1} /\ UNCHANGED chipVars
       \/ \E c \in Junk : /\ bank' = c.bank /\ ETXST' = c.ETXST
                          /\ ETXND' = c.ETXND /\ EWRPT' = c.EWRPT /\ mem' = c.mem
    /\ reg' \in (IF pc \in {"select", "wbmSelect", "count", "filters"}
                  THEN BOOLEAN ELSE {FALSE})
    /\ end' \in (CASE pc = "end" -> -1..(MemSize - 1)
                  [] pc = "start" -> {0}
                  [] OTHER -> {end})
    /\ pkt' = IF pc = "start" THEN <<>> ELSE pkt
    /\ switches' = switches + 2
    /\ clean' = FALSE /\ intact' = FALSE /\ torn' = TRUE
    /\ UNCHANGED <<isrVars, committed>>

-----------------------------------------------------------------------------
Init ==
    /\ bank = 3 /\ txrts = FALSE
    /\ ETXST = 0 /\ ETXND = 0 /\ EWRPT = 0
    /\ mem = [a \in Addresses |-> 0]
    /\ pc = "idle" /\ pkt = <<>> /\ reg = FALSE /\ end = 0
    /\ isr = "off" /\ isr_reg = FALSE
    /\ switches = 0 /\ clean = FALSE
    /\ committed = <<>> /\ intact = FALSE /\ torn = FALSE

Next == TxDone \/ EXTI0_IRQHandler \/ Main \/ HandlerInside

Spec == Init /\ [][Next]_vars

(* The chip finishes what it sends if its registers are what they should    *)
(* be, a handler ends, main does not stop in the middle of enc28j60_write   *)
(* or enc28j60_init.                                                        *)
FairSpec ==
    /\ Spec
    /\ WF_vars(~torn /\ TxDone)
    /\ WF_vars(IsrLoad \/ IsrStore)
    /\ WF_vars(enc28j60_write \/ CountStore \/ enc28j60_init)

-----------------------------------------------------------------------------
TypeOK ==
    /\ bank \in 0..3 /\ txrts \in BOOLEAN
    /\ ETXST \in Addresses /\ ETXND \in -1..(MemSize - 1) /\ EWRPT \in Addresses
    /\ mem \in [Addresses -> Nat]
    /\ pc \in {"idle", "select", "selectStore", "wait", "etxst", "wbmSelect",
               "wbmStore", "ewrpt", "wbm", "end", "etxnd", "start", "count",
               "countStore", "reset", "filters", "filtersStore"}
    /\ pkt \in Packets \cup {<<>>} /\ committed \in Packets \cup {<<>>}
    /\ reg \in BOOLEAN /\ end \in -1..(MemSize - 1)
    /\ isr \in {"off", "count", "countStore", "read", "readStore"}
    /\ isr_reg \in BOOLEAN
    /\ switches \in 0..Handlers
    /\ clean \in BOOLEAN /\ intact \in BOOLEAN /\ torn \in BOOLEAN

(* While the chip sends, main changes neither the frame's bytes nor its     *)
(* bounds, though bank_select can set TXRTS again after the chip has        *)
(* cleared it, in main and in the handler (enc28j60.c:514-520, 848-911):    *)
(* only the watchdog's reset does (manager.c:67-71).  It takes a handler    *)
(* inside an access of main to change them, and from the next reset on it   *)
(* takes another one.                                                       *)
FrameIsStable ==
    [][txrts /\ ~torn' => Reset \/ UNCHANGED <<ETXST, ETXND, mem>>]_vars

(* No bank_select of main or of the handler, storing an ECON1 it has read   *)
(* earlier, calls off a transmission: unless a handler has begun inside an  *)
(* access since the last reset, TXRTS is cleared by the chip at its end, or *)
(* by a reset.                                                              *)
NeverCancelled ==
    [][txrts /\ ~txrts' /\ ~torn' => Reset \/ TxDone]_vars

(* What the chip sends is the packet of the last enc28j60_write, whole and  *)
(* nothing else, if no handler interrupted that write and none has begun    *)
(* inside an access since the last reset; a transmission that bank_select   *)
(* restarted sends the same packet again, and one that a reset cut off is   *)
(* never taken up again (manager.c:71).                                     *)
SendsThePacket ==
    txrts /\ ~torn => committed # <<>> /\ (intact => Frame = committed)

(* Main never waits for TXRTS for ever, though bank_select sets it again    *)
(* (enc28j60.c:855), if no handler has begun inside an access.              *)
WaitEnds == pc = "wait" ~> pc = "idle" \/ torn

(* enc28j60.c:887-889, of reg16: "we will get the address of the final byte *)
(* in the packet".  Handlers that begin inside an access are not needed to  *)
(* refute it.                                                               *)
EndIsFinalByte == pc = "start" /\ ~torn => ETXND = Start + Len(pkt) - 1
=============================================================================
