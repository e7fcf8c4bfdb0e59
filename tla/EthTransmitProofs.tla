-------------------------- MODULE EthTransmitProofs --------------------------
(***************************************************************************)
(* Transmission for every packet and every number of handlers: the buffer  *)
(* is left alone while the chip sends it, no transmission is called off,   *)
(* and an uninterrupted write sends its packet.                            *)
(***************************************************************************)
EXTENDS EthTransmit, SequenceTheorems, TLAPS

(* Where main programs a transmission, after its wait for TXRTS.            *)
Programming == {"etxst", "wbmSelect", "wbmStore", "ewrpt", "wbm", "end", "etxnd",
                "start"}

(* What makes the read-modify-writes of ECON1 harmless to TXRTS: main       *)
(* programs with TXRTS clear, a handler that has read it set finds main     *)
(* elsewhere, and one that is to store it clear finds it clear.  Of all     *)
(* that, a handler inside an access of main leaves only that nobody keeps   *)
(* ECON1 for longer than a bank_select.                                     *)
RmwInv ==
    /\ isr_reg => isr \in {"countStore", "readStore"}
    /\ reg => pc \in {"selectStore", "wbmStore", "countStore", "filtersStore"}
    /\ ~torn =>
        /\ pc \in Programming => ~txrts /\ ~isr_reg /\ ~reg
        /\ isr \in {"countStore", "readStore"} /\ ~isr_reg => ~txrts
        /\ pc \in {"selectStore", "wbmStore", "countStore", "filtersStore"} /\ ~reg =>
               ~txrts /\ ~isr_reg

(* A write that no handler has interrupted has done what it should so far.  *)
PacketInBuffer(p) == \A k \in 1..Len(p) : mem[Start + k - 1] = p[k]

CleanInv ==
    /\ pc \in Programming \cup {"select", "selectStore", "wait"} => pkt \in Packets
    /\ clean => isr = "off"
    /\ clean /\ pc \in Programming \cup {"wait"} =>
           /\ bank = 0
           /\ pc \notin {"wait", "etxst"} => ETXST = Start
           /\ pc = "wbm" => EWRPT = Start
           /\ pc \in {"end", "etxnd", "start"} => PacketInBuffer(pkt)
           /\ pc = "end" => EWRPT = Start + Len(pkt)
           /\ pc \in {"etxnd", "start"} => end = Start + Len(pkt) - 1
           /\ pc = "start" => ETXND = end

(* The packet of an uninterrupted write stays what the chip's registers     *)
(* describe until main programs the next one.                               *)
CommittedInv ==
    intact /\ pc \notin Programming =>
        /\ committed \in Packets
        /\ ETXST = Start /\ ETXND = Start + Len(committed) - 1
        /\ PacketInBuffer(committed)

FrameInv == CleanInv /\ CommittedInv

-----------------------------------------------------------------------------
(* TXRTS                                                                    *)

(* Booleans, the only part of the types that RmwInv needs.                  *)
Flags ==
    /\ txrts \in BOOLEAN /\ reg \in BOOLEAN /\ isr_reg \in BOOLEAN
    /\ isr \in {"off", "count", "countStore", "read", "readStore"}
    /\ torn \in BOOLEAN

(* A step keeps RmwInv.                                                     *)
LEMMA RmwStep == Flags /\ RmwInv /\ [Next]_vars => Flags' /\ RmwInv'
<1> SUFFICES ASSUME Flags, RmwInv, [Next]_vars PROVE Flags' /\ RmwInv'
  OBVIOUS
<1>1. CASE TxDone
  BY <1>1 DEF TxDone, chipVars, mainVars, isrVars, history, Flags, RmwInv, Programming
<1>2. CASE Interrupt
  BY <1>2 DEF Interrupt, InHandler, chipVars, mainVars, history, Flags, RmwInv, Programming
<1>3. CASE IsrLoad
  BY <1>3 DEF IsrLoad, InHandler, chipVars, mainVars, history, Flags, RmwInv, Programming
<1>4. CASE IsrStore
  BY <1>4 DEF IsrStore, InHandler, chipVars, mainVars, history, Flags, RmwInv, Programming
<1>5. ASSUME NEW p \in Packets, Write(p) PROVE Flags' /\ RmwInv'
  BY <1>5 DEF Write, MainRuns, isrVars, chipVars, history, Flags, RmwInv, Programming
<1>6. CASE Count
  BY <1>6 DEF Count, MainRuns, isrVars, chipVars, history, Flags, RmwInv, Programming
<1>7. CASE Load
  BY <1>7 DEF Load, MainRuns, KeepMost, isrVars, chipVars, history, Flags, RmwInv, Programming
<1>8. CASE SelectStore
  BY <1>8 DEF SelectStore, StoreTxrts, MainRuns, KeepMost, isrVars, chipVars, history, Flags, RmwInv, Programming
<1>9. CASE Wait
  BY <1>9 DEF Wait, MayGoOn, MainRuns, KeepMost, isrVars, chipVars, history, Flags, RmwInv, Programming
<1>10. CASE SetStart
  BY <1>10 DEF SetStart, Bank0, MainRuns, KeepMost, isrVars, history, Flags, RmwInv, Programming
<1>11. CASE WbmStore
  BY <1>11 DEF WbmStore, StoreTxrts, MainRuns, KeepMost, isrVars, chipVars, history, Flags, RmwInv, Programming
<1>12. CASE SetWrite
  BY <1>12 DEF SetWrite, Bank0, MainRuns, KeepMost, isrVars, history, Flags, RmwInv, Programming
<1>13. CASE WriteBuffer
  BY <1>13 DEF WriteBuffer, MainRuns, KeepMost, isrVars, history, Flags, RmwInv, Programming
<1>14. CASE ReadEnd
  BY <1>14 DEF ReadEnd, LastOf, Bank0, MainRuns, KeepMost, isrVars, chipVars, history, Flags, RmwInv, Programming
<1>15. CASE SetEnd
  BY <1>15 DEF SetEnd, Bank0, MainRuns, KeepMost, isrVars, history, Flags, RmwInv, Programming
<1>16. CASE StartTransmission
  BY <1>16 DEF StartTransmission, MainRuns, isrVars, chipVars, Flags, RmwInv, Programming
<1>17. CASE CountStore
  BY <1>17 DEF CountStore, StoreTxrts, MainRuns, KeepMost, isrVars, chipVars, history, Flags, RmwInv, Programming
<1>18. CASE Reset
  BY <1>18 DEF Reset, MainRuns, isrVars, Flags, RmwInv, Programming
<1>19. CASE FiltersStore
  BY <1>19 DEF FiltersStore, StoreTxrts, MainRuns, KeepMost, isrVars, chipVars, history, Flags, RmwInv, Programming
<1>20. CASE UNCHANGED vars
  BY <1>20 DEF vars, isrVars, mainVars, chipVars, history, Flags, RmwInv, Programming
<1>21. CASE HandlerInside
  <2>1. torn' = TRUE /\ txrts' \in BOOLEAN /\ reg' \in BOOLEAN /\ UNCHANGED isrVars
    BY <1>21, Zenon DEF HandlerInside
  <2>2. PICK step \in Order : pc = step[1] /\ pc' = step[2]
    BY <1>21, Zenon DEF HandlerInside
  <2>3. reg' => pc' \in {"selectStore", "wbmStore", "countStore", "filtersStore"}
    <3>1. reg' => pc \in {"select", "wbmSelect", "count", "filters"}
      BY <1>21, Zenon DEF HandlerInside
    <3>2. QED
      BY <2>2, <3>1, SMT DEF Order
  <2>4. QED
    BY <2>1, <2>3, Zenon DEF isrVars, Flags, RmwInv
<1>22. QED
  BY <1>1, <1>2, <1>3, <1>4, <1>5, <1>6, <1>7, <1>8, <1>9, <1>10, <1>11, <1>12, <1>13, <1>14, <1>15, <1>16, <1>17, <1>18, <1>19, <1>20, <1>21 DEF Next, EXTI0_IRQHandler, Main, enc28j60_write, enc28j60_init

(* Main and the handler never disagree about TXRTS.                         *)
THEOREM Rmw == Spec => [](Flags /\ RmwInv)
<1>1. Init => Flags /\ RmwInv
  BY DEF Init, Flags, RmwInv, Programming
<1>2. QED
  BY <1>1, RmwStep, PTL DEF Spec

(* No bank_select calls off a transmission, neither main's nor a handler's  *)
(* between any two of main's accesses (enc28j60.c:514-520): until a handler *)
(* begins inside an access, only a reset does.                              *)
THEOREM NoneCancelled == Spec => NeverCancelled
<1>1. Flags /\ RmwInv /\ [Next]_vars =>
          [txrts /\ ~txrts' /\ ~torn' => Reset \/ TxDone]_vars
  <2> SUFFICES ASSUME Flags, RmwInv, Next, txrts, ~txrts', ~torn', ~Reset PROVE TxDone
    OBVIOUS
  <2>1. CASE EXTI0_IRQHandler
    BY <2>1 DEF EXTI0_IRQHandler, Interrupt, IsrLoad, IsrStore, InHandler, history, Flags, RmwInv
  <2>2. CASE Main
    <3>1. torn' = torn
      BY <2>2 DEF Main, Write, Count, enc28j60_write, Load, SelectStore, Wait, SetStart,
            WbmStore, SetWrite, WriteBuffer, ReadEnd, SetEnd, StartTransmission,
            CountStore, enc28j60_init, FiltersStore, KeepMost, history
    <3>2. ~SelectStore /\ ~WbmStore /\ ~CountStore /\ ~FiltersStore
      BY <3>1 DEF SelectStore, WbmStore, CountStore, FiltersStore, StoreTxrts, Flags, RmwInv
    <3>3. QED
      BY <2>2, <3>2 DEF Main, Write, Count, enc28j60_write, enc28j60_init, Load, Wait, SetStart,
            SetWrite, WriteBuffer, ReadEnd, SetEnd, StartTransmission
  <2>3. CASE HandlerInside
    BY <2>3 DEF HandlerInside
  <2>4. QED
    BY <2>1, <2>2, <2>3 DEF Next
<1>2. QED
  BY <1>1, Rmw, PTL DEF Spec, NeverCancelled

(* Main leaves the frame alone while the chip sends it, even if a           *)
(* bank_select has started it again, unless it resets the chip or a handler *)
(* begins inside one of its accesses (enc28j60.c:848-911).                  *)
THEOREM FramesStable == Spec => FrameIsStable
<1>1. Flags /\ RmwInv /\ [Next]_vars =>
          [txrts /\ ~torn' => Reset \/ UNCHANGED <<ETXST, ETXND, mem>>]_vars
  <2> SUFFICES ASSUME Flags, RmwInv, Next, txrts, ~torn', ~Reset
               PROVE UNCHANGED <<ETXST, ETXND, mem>>
    BY DEF vars, chipVars
  <2>1. CASE TxDone
    BY <2>1 DEF TxDone, chipVars
  <2>2. CASE EXTI0_IRQHandler
    BY <2>2 DEF EXTI0_IRQHandler, Interrupt, IsrLoad, IsrStore, InHandler, chipVars
  <2>3. CASE Main
    <3>1. torn' = torn
      BY <2>3 DEF Main, Write, Count, enc28j60_write, Load, SelectStore, Wait, SetStart,
            WbmStore, SetWrite, WriteBuffer, ReadEnd, SetEnd, StartTransmission,
            CountStore, enc28j60_init, FiltersStore, KeepMost, history
    <3>2. pc \notin Programming
      BY <3>1 DEF Flags, RmwInv
    <3>3. QED
      BY <2>3, <3>2 DEF Main, Write, Count, enc28j60_write, Load, SelectStore, Wait,
            SetStart, WbmStore, SetWrite, WriteBuffer, ReadEnd, SetEnd,
            StartTransmission, CountStore, enc28j60_init, FiltersStore, Programming,
            chipVars
  <2>4. CASE HandlerInside
    BY <2>4 DEF HandlerInside
  <2>5. QED
    BY <2>1, <2>2, <2>3, <2>4 DEF Next
<1>2. QED
  BY <1>1, Rmw, PTL DEF Spec, FrameIsStable

-----------------------------------------------------------------------------
(* The frame                                                                *)

(* WriteBuffer at Start: the packet is in the buffer, EWRPT right after it. *)
LEMMA Written ==
  ASSUME NEW p \in Packets, pkt = p, EWRPT = Start, WriteBuffer
  PROVE  /\ \A k \in 1..Len(p) : mem'[Start + k - 1] = p[k]
         /\ EWRPT' = Start + Len(p)
<1>0. Start \in Nat \ {0} /\ MemSize \in Nat /\ Len(p) \in Nat /\ Start + Len(p) < MemSize
  BY TransmitAssumption, LenProperties DEF Start
<1>1. ASSUME NEW k \in 1..Len(p) PROVE mem'[Start + k - 1] = p[k]
  <2>1. Start + k - 1 \in Addresses
    BY <1>0 DEF Addresses
  <2>2. (Start + k - 1) - Start = k - 1 /\ k - 1 \in Nat /\ k - 1 < MemSize
    BY <1>0
  <2>3. (k - 1) % MemSize = k - 1
    BY <1>0, <2>2
  <2>4. ((Start + k - 1) - EWRPT) % MemSize = k - 1
    BY <2>2, <2>3
  <2>5. k - 1 < Len(pkt) /\ (k - 1) + 1 = k
    BY <1>0
  <2>6. mem'[Start + k - 1] =
          LET j == ((Start + k - 1) - EWRPT) % MemSize
          IN  IF j < Len(pkt) THEN pkt[j + 1] ELSE mem[Start + k - 1]
    BY <2>1 DEF WriteBuffer
  <2>7. QED
    BY <2>4, <2>5, <2>6
<1>2. EWRPT' = (Start + Len(p)) % MemSize
  BY DEF WriteBuffer
<1>3. (Start + Len(p)) % MemSize = Start + Len(p)
  BY <1>0
<1>4. QED
  BY <1>1, <1>2, <1>3

(* A step keeps FrameInv.                                                   *)
LEMMA FrameStep == FrameInv /\ [Next]_vars => FrameInv'
<1> SUFFICES ASSUME FrameInv, [Next]_vars PROVE FrameInv'
  OBVIOUS
<1> USE DEF FrameInv, CleanInv, CommittedInv, PacketInBuffer, Programming
<1>1. CASE TxDone
  BY <1>1 DEF TxDone, chipVars, mainVars, isrVars, history
<1>2. CASE Interrupt
  BY <1>2 DEF Interrupt, InHandler, chipVars, mainVars, history
<1>3. CASE IsrLoad
  BY <1>3 DEF IsrLoad, InHandler, chipVars, mainVars, history
<1>4. CASE IsrStore
  BY <1>4 DEF IsrStore, InHandler, chipVars, mainVars, history
<1>5. ASSUME NEW p \in Packets, Write(p) PROVE FrameInv'
  BY <1>5 DEF Write, MainRuns, isrVars, chipVars, history
<1>6. CASE Count
  BY <1>6 DEF Count, MainRuns, isrVars, chipVars, history
<1>7. CASE Load
  BY <1>7 DEF Load, MainRuns, KeepMost, isrVars, chipVars, history
<1>8. CASE SelectStore
  BY <1>8 DEF SelectStore, MainRuns, KeepMost, isrVars, chipVars, history
<1>9. CASE Wait
  BY <1>9 DEF Wait, MainRuns, KeepMost, isrVars, chipVars, history
<1>10. CASE SetStart
  BY <1>10 DEF SetStart, Bank0, MainRuns, KeepMost, isrVars, history
<1>11. CASE WbmStore
  BY <1>11 DEF WbmStore, MainRuns, KeepMost, isrVars, chipVars, history
<1>12. CASE SetWrite
  BY <1>12 DEF SetWrite, Bank0, MainRuns, KeepMost, isrVars, history
<1>13. CASE WriteBuffer
  <2>1. pkt \in Packets /\ pkt' = pkt /\ clean' = clean /\ bank' = bank /\ ETXST' = ETXST
        /\ pc = "wbm" /\ pc' = "end" /\ isr' = isr
    BY <1>13 DEF WriteBuffer, MainRuns, KeepMost, isrVars
  <2>2. ASSUME clean
        PROVE  /\ bank = 0 /\ ETXST = Start /\ isr = "off"
               /\ \A k \in 1..Len(pkt) : mem'[Start + k - 1] = pkt[k]
               /\ EWRPT' = Start + Len(pkt)
    <3>1. EWRPT = Start /\ bank = 0 /\ ETXST = Start /\ isr = "off"
      BY <2>1, <2>2
    <3>2. QED
      BY <1>13, <2>1, <3>1, Written
  <2>3. QED
    BY <2>1, <2>2
<1>14. CASE ReadEnd
  <2>1. /\ pc = "end" /\ pc' = "etxnd" /\ isr' = isr /\ clean' = clean /\ pkt' = pkt
        /\ UNCHANGED <<bank, ETXST, ETXND, EWRPT, mem, committed, intact>>
    BY <1>14 DEF ReadEnd, MainRuns, KeepMost, isrVars, chipVars, history
  <2>2. ASSUME clean PROVE end' = Start + Len(pkt) - 1
    <3>1. bank = 0 /\ EWRPT = Start + Len(pkt)
      BY <2>1, <2>2
    <3>2. end' = EWRPT - 1
      BY <1>14, <3>1 DEF ReadEnd, LastOf, Bank0
    <3>3. Start \in Nat /\ Len(pkt) \in Nat
      BY <2>1, TransmitAssumption, LenProperties DEF Start
    <3>4. QED
      BY <3>1, <3>2, <3>3
  <2>3. QED
    BY <2>1, <2>2
<1>15. CASE SetEnd
  BY <1>15 DEF SetEnd, Bank0, MainRuns, KeepMost, isrVars, history
<1>16. CASE StartTransmission
  BY <1>16 DEF StartTransmission, MainRuns, isrVars, chipVars
<1>17. CASE CountStore
  BY <1>17 DEF CountStore, MainRuns, KeepMost, isrVars, chipVars, history
<1>18. CASE Reset
  BY <1>18 DEF Reset, MainRuns, isrVars
<1>19. CASE FiltersStore
  BY <1>19 DEF FiltersStore, MainRuns, KeepMost, isrVars, chipVars, history
<1>20. CASE UNCHANGED vars
  BY <1>20 DEF vars, isrVars, mainVars, chipVars, history
<1>21. CASE HandlerInside
  BY <1>21 DEF HandlerInside, Order, isrVars
<1>22. QED
  BY <1>1, <1>2, <1>3, <1>4, <1>5, <1>6, <1>7, <1>8, <1>9, <1>10, <1>11, <1>12, <1>13, <1>14, <1>15, <1>16, <1>17, <1>18, <1>19, <1>20, <1>21 DEF Next, EXTI0_IRQHandler, Main, enc28j60_write, enc28j60_init

(* What bank_select may have set TXRTS for is a packet that main has        *)
(* started since the last reset: no ECON1 that was read before a reset is   *)
(* stored after it, and no handler has begun inside an access.              *)
Started == ~torn /\ (txrts \/ reg \/ isr_reg) => committed # <<>>

LEMMA StartedStep == Flags /\ RmwInv /\ FrameInv /\ Started /\ [Next]_vars => Started'
<1> SUFFICES ASSUME Flags, RmwInv, FrameInv, Started, [Next]_vars PROVE Started'
  OBVIOUS
<1>1. CASE TxDone
  BY <1>1 DEF TxDone, mainVars, isrVars, history, Started
<1>2. CASE EXTI0_IRQHandler
  BY <1>2 DEF EXTI0_IRQHandler, Interrupt, IsrLoad, IsrStore, InHandler, mainVars, history, Flags, Started
<1>3. CASE Main /\ ~StartTransmission /\ ~Reset
  <2>1. UNCHANGED <<isrVars, history>>
    BY <1>3 DEF Main, Write, Count, enc28j60_write, enc28j60_init, Load, SelectStore,
          Wait, SetStart, WbmStore, SetWrite, WriteBuffer, ReadEnd, SetEnd,
          CountStore, FiltersStore, MainRuns, KeepMost
  <2>2. txrts' \/ reg' => txrts \/ reg
    BY <1>3 DEF Main, Write, Count, enc28j60_write, enc28j60_init, Load, SelectStore,
          Wait, SetStart, WbmStore, SetWrite, WriteBuffer, ReadEnd, SetEnd,
          CountStore, FiltersStore, StoreTxrts, Flags
  <2>3. QED
    BY <2>1, <2>2 DEF isrVars, history, Started
<1>4. CASE StartTransmission
  <2>1. pkt \in Packets /\ committed' = pkt
    BY <1>4 DEF StartTransmission, FrameInv, CleanInv, Programming
  <2>2. Len(pkt) > 0
    BY <2>1, TransmitAssumption
  <2>3. QED
    BY <2>1, <2>2, EmptySeq DEF Started
<1>5. CASE Reset
  BY <1>5 DEF Reset, MainRuns, isrVars, RmwInv, Started
<1>6. CASE UNCHANGED vars
  BY <1>6 DEF vars, isrVars, mainVars, history, Started
<1>7. CASE HandlerInside
  BY <1>7 DEF HandlerInside, Started
<1>8. QED
  BY <1>1, <1>2, <1>3, <1>4, <1>5, <1>6, <1>7 DEF Next

(* The chip's registers describe the packet of an uninterrupted write.      *)
LEMMA FrameIsPacket ==
  ASSUME CommittedInv, intact, pc \notin Programming
  PROVE  Frame = committed
<1>1. committed \in Packets /\ ETXST = Start /\ ETXND = Start + Len(committed) - 1
      /\ PacketInBuffer(committed)
  BY DEF CommittedInv
<1>2. committed \in Seq(Nat) /\ Len(committed) \in Nat /\ Start \in Nat
  BY <1>1, TransmitAssumption, LenProperties DEF Start
<1>3. ETXND - ETXST + 1 = Len(committed)
  BY <1>1, <1>2
<1>4. Frame = [k \in 1..Len(committed) |-> mem[Start + k - 1]]
  BY <1>1, <1>3 DEF Frame
<1>5. Frame = [k \in 1..Len(committed) |-> committed[k]]
  BY <1>1, <1>4 DEF PacketInBuffer
<1>6. committed = [k \in 1..Len(committed) |-> committed[k]]
  BY <1>2
<1>7. QED
  BY <1>5, <1>6

(* An uninterrupted enc28j60_write puts its packet, whole and nothing else, *)
(* between ETXST and ETXND, and there it stays while the chip sends it,     *)
(* whatever handlers do after the write (enc28j60.c:848-911); and the chip  *)
(* sends nothing that main has not started since the last reset, unless a   *)
(* handler has begun inside an access since.                                *)
THEOREM PacketSent == Spec => []SendsThePacket
<1>1. Init => FrameInv /\ Started
  BY DEF Init, FrameInv, CleanInv, CommittedInv, Programming, Started
<1>2. FrameInv /\ Started /\ Flags /\ RmwInv => SendsThePacket
  BY FrameIsPacket DEF Flags, FrameInv, RmwInv, Started, SendsThePacket
<1>3. QED
  BY <1>1, <1>2, FrameStep, StartedStep, Rmw, PTL DEF Spec

-----------------------------------------------------------------------------
(* Types                                                                    *)

(* A handler that has begun still has a bank switch to do.                  *)
Budget == isr # "off" => switches < Handlers

LEMMA BudgetStep == TypeOK /\ Budget /\ [Next]_vars => Budget'
<1> SUFFICES ASSUME TypeOK, Budget, [Next]_vars PROVE Budget'
  OBVIOUS
<1>1. CASE TxDone
  BY <1>1 DEF TxDone, isrVars, Budget
<1>2. CASE EXTI0_IRQHandler
  BY <1>2 DEF EXTI0_IRQHandler, Interrupt, IsrLoad, IsrStore, Budget
<1>3. CASE Main
  BY <1>3 DEF Main, Write, Count, enc28j60_write, Load, SelectStore, Wait, SetStart,
        WbmStore, SetWrite, WriteBuffer, ReadEnd, SetEnd, StartTransmission,
        CountStore, enc28j60_init, Reset, FiltersStore, MainRuns, isrVars, Budget
<1>6. CASE HandlerInside
  BY <1>6 DEF HandlerInside, isrVars, Budget
<1>4. CASE UNCHANGED vars
  BY <1>4 DEF vars, isrVars, Budget
<1>5. QED
  BY <1>1, <1>2, <1>3, <1>4, <1>6 DEF Next

(* A step keeps TypeOK.                                                     *)
LEMMA TypeStep == TypeOK /\ Budget /\ [Next]_vars => TypeOK'
<1> SUFFICES ASSUME TypeOK, Budget, [Next]_vars PROVE TypeOK'
  OBVIOUS
<1>0. /\ MemSize \in Nat /\ Start \in Nat /\ 0 < Start /\ Start < MemSize /\ Handlers \in Nat
      /\ Start \in Addresses
      /\ \A a : a \in Addresses <=> a \in Int /\ 0 <= a /\ a < MemSize
  BY TransmitAssumption DEF Start, Addresses
<1>1. CASE TxDone
  <2>1. txrts' \in BOOLEAN
    BY <1>1 DEF TxDone
  <2>2. UNCHANGED <<bank, chipVars, mainVars, isrVars, switches, clean, history>>
    BY <1>1 DEF TxDone
  <2>3. QED
    BY <2>1, <2>2, SMTT(30) DEF chipVars, mainVars, isrVars, history, TypeOK
<1>2. CASE Interrupt
  <2>1. clean' \in BOOLEAN /\ isr' = "count"
    BY <1>2 DEF Interrupt
  <2>2. UNCHANGED <<chipVars, mainVars, history, bank, txrts, isr_reg, switches>>
    BY <1>2 DEF Interrupt, InHandler
  <2>3. QED
    BY <2>1, <2>2, SMTT(30) DEF chipVars, mainVars, history, TypeOK
<1>3. CASE IsrLoad
  BY <1>3, SMTT(30) DEF IsrLoad, InHandler, chipVars, mainVars, history, TypeOK
<1>4. CASE IsrStore
  <2>1. switches' \in 0..Handlers
    BY <1>0, <1>4, SMTT(30) DEF IsrStore, Budget, TypeOK
  <2>2. txrts' \in BOOLEAN /\ isr_reg' \in BOOLEAN /\ clean' \in BOOLEAN
    BY <1>4, Zenon DEF IsrStore, TypeOK
  <2>3. QED
    BY <1>4, <2>1, <2>2, SMTT(30) DEF IsrStore, InHandler, chipVars, mainVars, history, TypeOK
<1>5. ASSUME NEW p \in Packets, Write(p) PROVE TypeOK'
  BY <1>0, <1>5, SMTT(30) DEF Write, MainRuns, isrVars, chipVars, history, TypeOK
<1>6. CASE Count
  BY <1>0, <1>6, SMTT(30) DEF Count, MainRuns, isrVars, chipVars, history, TypeOK
<1>7. CASE Load
  BY <1>7, SMTT(30) DEF Load, MainRuns, KeepMost, isrVars, chipVars, history, TypeOK
<1>8. CASE SelectStore
  <2>1. txrts' \in BOOLEAN /\ reg' \in BOOLEAN /\ clean' \in BOOLEAN
    BY <1>8, Zenon DEF SelectStore, StoreTxrts, TypeOK
  <2>2. QED
    BY <1>8, <2>1, SMTT(30) DEF SelectStore, MainRuns, KeepMost, isrVars, chipVars, history, TypeOK
<1>9. CASE Wait
  BY <1>9, SMTT(30) DEF Wait, MainRuns, KeepMost, isrVars, chipVars, history, TypeOK
<1>10. CASE SetStart
  BY <1>0, <1>10, SMTT(30) DEF SetStart, MainRuns, KeepMost, isrVars, history, TypeOK
<1>11. CASE WbmStore
  <2>1. txrts' \in BOOLEAN /\ reg' \in BOOLEAN /\ clean' \in BOOLEAN
    BY <1>11, Zenon DEF WbmStore, StoreTxrts, TypeOK
  <2>2. QED
    BY <1>11, <2>1, SMTT(30) DEF WbmStore, MainRuns, KeepMost, isrVars, chipVars, history, TypeOK
<1>12. CASE SetWrite
  BY <1>0, <1>12, SMTT(30) DEF SetWrite, MainRuns, KeepMost, isrVars, history, TypeOK
<1>13. CASE WriteBuffer
  <2>1. pkt \in Seq(Nat) /\ Len(pkt) \in Nat /\ Len(pkt) < MemSize
    <3>1. CASE pkt = <<>>
      BY <1>0, <3>1, EmptySeq
    <3>2. CASE pkt \in Packets
      BY <1>0, <3>2, TransmitAssumption, LenProperties DEF Start
    <3>3. QED
      BY <3>1, <3>2, SMTT(30) DEF TypeOK
  <2>2. EWRPT' \in Addresses
    <3>1. EWRPT \in 0..(MemSize - 1) /\ EWRPT' = (EWRPT + Len(pkt)) % MemSize
      BY <1>13 DEF WriteBuffer, TypeOK, Addresses
    <3>2. EWRPT + Len(pkt) \in Int
      BY <2>1, <3>1
    <3>3. (EWRPT + Len(pkt)) % MemSize \in 0..(MemSize - 1)
      BY <1>0, <3>2
    <3>4. QED
      BY <3>1, <3>3 DEF Addresses
  <2>3. mem' \in [Addresses -> Nat]
    <3>1. ASSUME NEW a \in Addresses
          PROVE  LET k == (a - EWRPT) % MemSize
                 IN  (IF k < Len(pkt) THEN pkt[k + 1] ELSE mem[a]) \in Nat
      <4> DEFINE k == (a - EWRPT) % MemSize
      <4>1. a - EWRPT \in Int
        BY <1>0, SMTT(30) DEF TypeOK
      <4>2. k \in 0..(MemSize - 1)
        BY <1>0, <4>1
      <4>3. ASSUME k < Len(pkt) PROVE pkt[k + 1] \in Nat
        <5>1. k + 1 \in 1..Len(pkt)
          BY <1>0, <2>1, <4>2, <4>3
        <5>2. QED
          BY <2>1, <5>1, ElementOfSeq
      <4>4. mem[a] \in Nat
        BY DEF TypeOK
      <4>5. QED
        BY <4>3, <4>4
    <3>2. QED
      BY <1>13, <3>1 DEF WriteBuffer
  <2>4. QED
    BY <1>13, <2>2, <2>3, SMTT(30) DEF WriteBuffer, MainRuns, KeepMost, isrVars, history, TypeOK
<1>14. CASE ReadEnd
  <2>1. end' \in -1..(MemSize - 1)
    <3>1. \E a \in Addresses : end' = a - 1
      BY <1>14, SMTT(30) DEF ReadEnd, LastOf, TypeOK
    <3>2. QED
      BY <1>0, <3>1
  <2>2. QED
    BY <1>14, <2>1, SMTT(30) DEF ReadEnd, MainRuns, KeepMost, isrVars, chipVars, history, TypeOK
<1>15. CASE SetEnd
  BY <1>15, SMTT(30) DEF SetEnd, MainRuns, KeepMost, isrVars, history, TypeOK
<1>16. CASE StartTransmission
  <2>1. txrts' \in BOOLEAN /\ clean' \in BOOLEAN /\ intact' \in BOOLEAN
    BY <1>16, Zenon DEF StartTransmission, TypeOK
  <2>2. QED
    BY <1>0, <1>16, <2>1, SMTT(30) DEF StartTransmission, MainRuns, isrVars, chipVars, TypeOK
<1>17. CASE CountStore
  <2>1. txrts' \in BOOLEAN /\ reg' \in BOOLEAN /\ clean' \in BOOLEAN
    BY <1>17, Zenon DEF CountStore, StoreTxrts, TypeOK
  <2>2. QED
    BY <1>17, <2>1, SMTT(30) DEF CountStore, MainRuns, KeepMost, isrVars, chipVars, history, TypeOK
<1>18. CASE Reset
  <2>1. 0 \in Addresses /\ 0 \in -1..(MemSize - 1)
    BY <1>0
  <2>2. QED
    <3>1. intact' \in BOOLEAN /\ torn' \in BOOLEAN /\ txrts' \in BOOLEAN
      BY <1>18, Zenon DEF Reset
    <3>2. QED
      BY <1>18, <2>1, <3>1, SMTT(30) DEF Reset, MainRuns, isrVars, TypeOK
<1>19. CASE FiltersStore
  <2>1. txrts' \in BOOLEAN /\ reg' \in BOOLEAN /\ clean' \in BOOLEAN
    BY <1>19, Zenon DEF FiltersStore, StoreTxrts, TypeOK
  <2>2. QED
    BY <1>19, <2>1, SMTT(30) DEF FiltersStore, MainRuns, KeepMost, isrVars, chipVars, history, TypeOK
<1>20. CASE UNCHANGED vars
  BY <1>20, SMTT(30) DEF vars, isrVars, mainVars, chipVars, history, TypeOK
<1>21. CASE HandlerInside
  <2>1. /\ bank' \in 0..3 /\ ETXST' \in Addresses /\ ETXND' \in -1..(MemSize - 1)
        /\ EWRPT' \in Addresses /\ mem' \in [Addresses -> Nat]
    <3>1. CASE bank' \in {0, 1} /\ UNCHANGED chipVars
      BY <3>1, SMTT(30) DEF chipVars, TypeOK
    <3>2. ASSUME NEW c \in Junk, bank' = c.bank, ETXST' = c.ETXST, ETXND' = c.ETXND,
                 EWRPT' = c.EWRPT, mem' = c.mem
          PROVE  <2>1
      <4>1. c \in [bank : 0..3, ETXST : Addresses, ETXND : Addresses,
                   EWRPT : Addresses, mem : [Addresses -> Nat]]
        BY TransmitAssumption, Zenon
      <4>2. Addresses \subseteq -1..(MemSize - 1)
        BY <1>0 DEF Addresses
      <4>3. QED
        BY <3>2, <4>1, <4>2, SMTT(30)
    <3>3. QED
      BY <1>21, <3>1, <3>2, Zenon DEF HandlerInside
  <2>2. pc' \in {"idle", "select", "selectStore", "wait", "etxst", "wbmSelect",
               "wbmStore", "ewrpt", "wbm", "end", "etxnd", "start", "count",
               "countStore", "reset", "filters", "filtersStore"}
    BY <1>21, SMTT(30) DEF HandlerInside, Order, TypeOK
  <2>3. /\ txrts' \in BOOLEAN /\ reg' \in BOOLEAN /\ clean' \in BOOLEAN
        /\ intact' \in BOOLEAN /\ torn' \in BOOLEAN
    BY <1>21, Zenon DEF HandlerInside
  <2>4. end' \in -1..(MemSize - 1) /\ switches' \in 0..Handlers
        /\ pkt' \in Packets \cup {<<>>}
    BY <1>0, <1>21, SMTT(30) DEF HandlerInside, TypeOK
  <2>5. UNCHANGED <<isrVars, committed>>
    BY <1>21 DEF HandlerInside
  <2>6. QED
    BY <2>1, <2>2, <2>3, <2>4, <2>5, SMTT(30) DEF isrVars, TypeOK
<1>22. QED
  BY <1>21, <1>1, <1>2, <1>3, <1>4, <1>5, <1>6, <1>7, <1>8, <1>9, <1>10, <1>11, <1>12, <1>13, <1>14, <1>15, <1>16, <1>17, <1>18, <1>19, <1>20 DEF Next, EXTI0_IRQHandler, Main, enc28j60_write, enc28j60_init

(* The chip's pointers stay within its buffer, whatever bank the writes of  *)
(* main find selected.                                                      *)
THEOREM TypeCorrect == Spec => []TypeOK
<1>1. Init => TypeOK /\ Budget
  <2> SUFFICES ASSUME Init PROVE TypeOK /\ Budget
    OBVIOUS
  <2>1. 0 \in Addresses /\ 0 \in -1..(MemSize - 1) /\ 0 \in 0..Handlers
    BY TransmitAssumption DEF Addresses
  <2>2. mem \in [Addresses -> Nat]
    BY DEF Init
  <2>3. QED
    BY <2>1, <2>2 DEF Init, TypeOK, Budget
<1>2. QED
  BY <1>1, TypeStep, BudgetStep, PTL DEF Spec
=============================================================================
