-------------------------- MODULE EthReceiveProofs --------------------------
(***************************************************************************)
(* Reception for every size of the buffers, budget and period: as long as  *)
(* no handler has begun inside an access of main since the last reset, the *)
(* watchdog resets the chip only if reception has stalled, and reception   *)
(* stalls for two reasons only, which a quiet network does not give.       *)
(***************************************************************************)
EXTENDS EthReceive, SequenceTheorems, TLAPS

(* How far enc28j60_init has come, and that a count the watchdog took is    *)
(* the count of a chip that has stalled: main only runs while the handler   *)
(* neither runs nor is pending, so a packet it sees is one nobody will read.*)
(* A handler that begins inside an access may upset all of it; a reset      *)
(* restores it.                                                             *)
Phase ==
    ~torn =>
        /\ ~Initialising => intie
        /\ main \in {"rx_enable", "interrupt_init"} => ~intie
        /\ main = "rx_enable" => ~rxen
        /\ isr # "hung"
        /\ pending \/ isr # "off" => intie
        /\ ~rxen => rx = <<>>
        /\ main = "check" /\ pkt_count > 0 => Deaf

(* DeafHasCause, and what makes it last: once the handler has found no      *)
(* packet and nothing is left behind, only an edge can lower INT again.     *)
CauseInv ==
    /\ DeafHasCause
    /\ isr = "finish" /\ Asserted /\ ~torn => pending \/ flags # {}

(* All packets are for us or of other types, there are no events and the    *)
(* chip has room for two bursts.                                            *)
Quiet == "foreign" \notin Kinds /\ Events = {} /\ 2 * Burst <= ChipRoom
NeverDeaf == Deaf => torn

(* What a quiet network adds: no event, and room for another burst.         *)
QuietInv ==
    /\ ~early
    /\ ~torn => /\ flags = {} /\ isr # "clear"
                /\ Len(rx) <= burst + (IF intie THEN Burst ELSE 0)

-----------------------------------------------------------------------------
(* Types                                                                    *)

(* A step keeps the types.                                                  *)
LEMMA TypeStep == TypeOK /\ [Next]_vars => TypeOK'
<1> SUFFICES ASSUME TypeOK, [Next]_vars PROVE TypeOK'
  OBVIOUS
<1> USE ReceiveAssumption DEF AllFlags, AllKinds, Counts
<1>1. ASSUME NEW kind \in Kinds, Arrive(kind) PROVE TypeOK'
  <2>1. pending' \in BOOLEAN
    BY <1>1 DEF Arrive, Edge, TypeOK
  <2>2. rx' \in Seq(Kinds) /\ Len(rx') <= ChipRoom
    BY <1>1 DEF Arrive, TypeOK
  <2>3. flags' \subseteq AllFlags
    BY <1>1 DEF Arrive, TypeOK
  <2>4. QED
    BY <1>1, <2>1, <2>2, <2>3 DEF Arrive, isrVars, mainVars, countVars, fifoVars, TypeOK
<1>2. ASSUME NEW event \in Events, Raise(event) PROVE TypeOK'
  BY <1>2 DEF Raise, Edge, Asserted, chipVars, registers, isrVars, mainVars, countVars, fifoVars, TypeOK
<1>3. CASE Enter
  BY <1>3 DEF Enter, Handler, Edge, Asserted, chipVars, registers, isrVars, mainVars, countVars, fifoVars, TypeOK
<1>4. CASE ReadEir
  BY <1>4 DEF ReadEir, Handler, FirstOf, Edge, Asserted, chipVars, registers, isrVars, mainVars, countVars, fifoVars, TypeOK
<1>5. CASE ClearEvent
  BY <1>5 DEF ClearEvent, Handler, Edge, Asserted, chipVars, registers, isrVars, mainVars, countVars, fifoVars, TypeOK
<1>6. CASE ReadPacket
  <2>1. rx' \in Seq(Kinds) /\ Len(rx') <= ChipRoom
    BY <1>6 DEF ReadPacket, TypeOK
  <2>2. system_fifo' \in 0..FifoRoom /\ ip_fifo' \in 0..FifoRoom
    BY <1>6 DEF ReadPacket, Written, TypeOK
  <2>3. pending' \in BOOLEAN /\ early' \in BOOLEAN /\ bank1' \in BOOLEAN
    BY <1>6 DEF ReadPacket, Edge, TypeOK
  <2>4. isr' \in {"off", "packets"}
    BY <1>6 DEF ReadPacket, AfterPacket
  <2>5. UNCHANGED <<flags, cause, rxen, intie, torn, mainVars, burst>>
    BY <1>6 DEF ReadPacket, Handler
  <2>6. QED
    BY <2>1, <2>2, <2>3, <2>4, <2>5 DEF mainVars, countVars, TypeOK
<1>7. CASE NoMorePackets
  BY <1>7 DEF NoMorePackets, Handler, Edge, Asserted, chipVars, registers, isrVars, mainVars, countVars, fifoVars, TypeOK
<1>8. CASE Finish
  BY <1>8 DEF Finish, Handler, Edge, Asserted, chipVars, registers, isrVars, mainVars, countVars, fifoVars, TypeOK
<1>9. CASE Spin
  BY <1>9 DEF Spin, Edge, Asserted, chipVars, registers, isrVars, mainVars, countVars, fifoVars, TypeOK
<1>10. CASE enc28j60_src
  <2>1. pending' \in BOOLEAN
    BY <1>10 DEF enc28j60_src, Edge, TypeOK
  <2>2. rx' \in Seq(Kinds) /\ Len(rx') <= ChipRoom
    BY <1>10 DEF enc28j60_src
  <2>3. /\ flags' \subseteq AllFlags /\ rxen' \in BOOLEAN /\ intie' \in BOOLEAN
        /\ torn' \in BOOLEAN /\ bank1' \in BOOLEAN
    BY <1>10 DEF enc28j60_src
  <2>4. isr' = isr /\ cause' = cause /\ early' = early /\ burst' \in 0..Burst
    BY <1>10 DEF enc28j60_src, MainRuns
  <2>5. QED
    BY <1>10, <2>1, <2>2, <2>3, <2>4 DEF enc28j60_src, countVars, fifoVars, TypeOK
<1>11. CASE enc28j60_rx_enable
  BY <1>11 DEF enc28j60_rx_enable, MainRuns, Edge, Asserted, chipVars, registers, isrVars, mainVars, countVars, fifoVars, TypeOK
<1>12. CASE enc28j60_interrupt_init
  BY <1>12 DEF enc28j60_interrupt_init, MainRuns, Edge, Asserted, chipVars, registers, isrVars, mainVars, countVars, fifoVars, TypeOK
<1>13. CASE enc28j60_filters_init
  BY <1>13 DEF enc28j60_filters_init, MainRuns, Edge, Asserted, chipVars, registers, isrVars, mainVars, countVars, fifoVars, TypeOK
<1>14. CASE Poll
  BY <1>14 DEF Poll, MainRuns, Edge, Asserted, chipVars, registers, isrVars, mainVars, countVars, fifoVars, TypeOK
<1>15. CASE SelectBank
  BY <1>15 DEF SelectBank, MainRuns, Edge, Asserted, chipVars, registers, isrVars, mainVars, countVars, fifoVars, TypeOK
<1>16. CASE ReadCount
  <2>1. pkt_count' \in 0..(ChipRoom + 1)
    <3>1. Len(rx) \in 0..(ChipRoom + 1) /\ 0 \in 0..(ChipRoom + 1)
      BY LenProperties DEF TypeOK
    <3>2. QED
      BY <1>16, <3>1, Zenon DEF ReadCount
  <2>2. /\ bank1' = FALSE /\ burst' = 0 /\ main' = "check"
        /\ pending' = (pending \/ (~Asserted /\ Asserted'))
    BY <1>16, Zenon DEF ReadCount, MainRuns, Edge
  <2>3. UNCHANGED <<registers, torn, i, pkti, prev_pkt_count, fifoVars, isr, cause, early>>
    BY <1>16 DEF ReadCount, MainRuns
  <2>4. pending' \in BOOLEAN /\ bank1' \in BOOLEAN /\ burst' \in 0..Burst
    <3>1. pending' \in BOOLEAN /\ bank1' \in BOOLEAN
      BY <2>2, Zenon
    <3>2. QED
      BY <2>2, <3>1
  <2>5. QED
    BY <2>1, <2>2, <2>3, <2>4, Zenon DEF registers, fifoVars, TypeOK
<1>17. CASE Check
  BY <1>17 DEF Check, MainRuns, Suspicious, Edge, Asserted, chipVars, registers, isrVars, mainVars, countVars, fifoVars, TypeOK
<1>18. CASE ReadSystem
  BY <1>18 DEF ReadSystem, MainRuns, Edge, Asserted, chipVars, registers, isrVars, mainVars, countVars, fifoVars, TypeOK
<1>19. CASE HandleArp
  BY <1>19 DEF HandleArp, MainRuns, Again, Edge, Asserted, chipVars, registers, isrVars, mainVars, countVars, fifoVars, TypeOK
<1>20. CASE ReadIp
  BY <1>20 DEF ReadIp, MainRuns, Edge, Asserted, chipVars, registers, isrVars, mainVars, countVars, fifoVars, TypeOK
<1>21. CASE HandleIp
  BY <1>21 DEF HandleIp, MainRuns, Again, Edge, Asserted, chipVars, registers, isrVars, mainVars, countVars, fifoVars, TypeOK
<1>22. CASE HandlerInside
  <2>1. rx' \in Seq(Kinds) /\ Len(rx') <= ChipRoom
    <3>1. PICK n \in 0..Len(rx) :
              rx' = SubSeq(rx, n + 1, Len(rx)) \/ rx' \in [1..n -> Garbled]
      BY <1>22 DEF HandlerInside
    <3>2. rx \in Seq(Kinds) /\ Len(rx) \in Nat /\ Len(rx) <= ChipRoom
      BY LenProperties DEF TypeOK
    <3>3. CASE rx' = SubSeq(rx, n + 1, Len(rx))
      <4>1. n + 1 \in 1..(Len(rx) + 1) /\ Len(rx) - (n + 1) + 1 <= Len(rx)
        BY <3>1, <3>2, SMT
      <4>2. QED
        BY <3>1, <3>2, <3>3, <4>1, SMT
    <3>4. CASE rx' \in [1..n -> Garbled]
      <4>1. Garbled \subseteq Kinds
        BY Zenon
      <4>2. n \in Nat /\ n <= ChipRoom
        BY <3>1, <3>2, SMT
      <4>3. rx' \in [1..n -> Kinds]
        BY <3>4, <4>1, Zenon
      <4>4. rx' \in Seq(Kinds) /\ Len(rx') = n
        <5>1. rx' \in Seq(Kinds)
          BY <4>2, <4>3, SeqDef
        <5>2. 1..n = 1..Len(rx') /\ Len(rx') \in Nat
          BY <4>3, <5>1, LenProperties, Zenon
        <5>3. Len(rx') = n
          BY <4>2, <5>2, SMT
        <5>4. QED
          BY <5>1, <5>3
      <4>5. QED
        BY <4>2, <4>4
    <3>5. QED
      BY <3>1, <3>3, <3>4
  <2>2. /\ flags' \subseteq AllFlags /\ rxen' \in BOOLEAN /\ intie' \in BOOLEAN
        /\ bank1' \in BOOLEAN /\ torn' \in BOOLEAN /\ early' \in BOOLEAN
        /\ pending' \in BOOLEAN
    BY <1>22 DEF HandlerInside, TypeOK
  <2>3. /\ system_fifo' \in 0..FifoRoom /\ ip_fifo' \in 0..FifoRoom
        /\ pkt_count' \in 0..(ChipRoom + 1)
    BY <1>22 DEF HandlerInside, TypeOK
  <2>4. main' \in {"rx_enable", "interrupt_init", "filters", "count", "check", "arp", "udp"}
    BY <1>22 DEF HandlerInside, Inside
  <2>5. UNCHANGED <<isr, cause, i, pkti, prev_pkt_count, burst>>
    BY <1>22 DEF HandlerInside
  <2>6. QED
    BY <2>1, <2>2, <2>3, <2>4, <2>5 DEF TypeOK
<1>23. CASE Hang
  BY <1>23 DEF Hang, Inside, Edge, Asserted, chipVars, registers, isrVars, mainVars, countVars, fifoVars, TypeOK
<1>24. CASE UNCHANGED vars
  BY <1>24 DEF vars, Edge, Asserted, chipVars, registers, isrVars, mainVars, countVars, fifoVars, TypeOK
<1>25. QED
  BY <1>1, <1>2, <1>3, <1>4, <1>5, <1>6, <1>7, <1>8, <1>9, <1>10, <1>11, <1>12, <1>13, <1>14, <1>15, <1>16, <1>17, <1>18, <1>19, <1>20, <1>21, <1>22, <1>23, <1>24 DEF Next, EXTI0_IRQHandler, Main, enc28j60_init, manager_poll

(* Every variable keeps its type, whatever the network sends and a handler  *)
(* inside an access leaves.                                                 *)
THEOREM TypeCorrect == Spec => []TypeOK
<1>1. Init => TypeOK
  <2>1. <<>> \in Seq(Kinds) /\ Len(<<>>) = 0
    BY EmptySeq
  <2>2. 0 \in 0..ChipRoom /\ 0 \in 0..FifoRoom /\ 0 \in 0..MaxReads
          /\ 0 \in 0..CheckEvery /\ 0 \in 0..Burst /\ 0 \in Counts
    BY ReceiveAssumption DEF Counts
  <2>3. ASSUME Init PROVE rx \in Seq(Kinds) /\ Len(rx) <= ChipRoom
    BY <2>1, <2>3, ReceiveAssumption DEF Init
  <2>4. QED
    BY <2>2, <2>3 DEF Init, TypeOK, AllFlags
<1>2. QED
  BY <1>1, TypeStep, PTL DEF Spec

-----------------------------------------------------------------------------
(* The watchdog                                                             *)

(* A step keeps Phase.                                                      *)
LEMMA PhaseStep == TypeOK /\ Phase /\ [Next]_vars => Phase'
<1> SUFFICES ASSUME TypeOK, Phase, [Next]_vars PROVE Phase'
  OBVIOUS
<1> USE ReceiveAssumption
<1>1. ASSUME NEW kind \in Kinds, Arrive(kind) PROVE Phase'
  BY <1>1 DEF Arrive, Edge, Asserted, chipVars, registers, isrVars, mainVars, countVars, fifoVars, Phase, Deaf, Initialising, TypeOK
<1>2. ASSUME NEW event \in Events, Raise(event) PROVE Phase'
  BY <1>2 DEF Raise, Edge, Asserted, chipVars, registers, isrVars, mainVars, countVars, fifoVars, Phase, Deaf, Initialising, TypeOK
<1>3. CASE Enter
  BY <1>3 DEF Enter, Handler, Edge, Asserted, chipVars, registers, isrVars, mainVars, countVars, fifoVars, Phase, Deaf, Initialising, TypeOK
<1>4. CASE ReadEir
  BY <1>4 DEF ReadEir, Handler, FirstOf, Edge, Asserted, chipVars, registers, isrVars, mainVars, countVars, fifoVars, Phase, Deaf, Initialising, TypeOK
<1>5. CASE ClearEvent
  BY <1>5 DEF ClearEvent, Handler, Edge, Asserted, chipVars, registers, isrVars, mainVars, countVars, fifoVars, Phase, Deaf, Initialising, TypeOK
<1>6. CASE ReadPacket
  BY <1>6 DEF ReadPacket, Handler, AfterPacket, Written, Edge, Asserted, chipVars, registers, isrVars, mainVars, countVars, fifoVars, Phase, Deaf, Initialising, TypeOK
<1>7. CASE NoMorePackets
  BY <1>7 DEF NoMorePackets, Handler, Edge, Asserted, chipVars, registers, isrVars, mainVars, countVars, fifoVars, Phase, Deaf, Initialising, TypeOK
<1>8. CASE Finish
  BY <1>8 DEF Finish, Handler, Edge, Asserted, chipVars, registers, isrVars, mainVars, countVars, fifoVars, Phase, Deaf, Initialising, TypeOK
<1>9. CASE Spin
  BY <1>9 DEF Spin, Edge, Asserted, chipVars, registers, isrVars, mainVars, countVars, fifoVars, Phase, Deaf, Initialising, TypeOK
<1>10. CASE enc28j60_src
  BY <1>10 DEF enc28j60_src, MainRuns, Edge, Asserted, chipVars, registers, isrVars, mainVars, countVars, fifoVars, Phase, Deaf, Initialising, TypeOK
<1>11. CASE enc28j60_rx_enable
  BY <1>11 DEF enc28j60_rx_enable, MainRuns, Edge, Asserted, chipVars, registers, isrVars, mainVars, countVars, fifoVars, Phase, Deaf, Initialising, TypeOK
<1>12. CASE enc28j60_interrupt_init
  BY <1>12 DEF enc28j60_interrupt_init, MainRuns, Edge, Asserted, chipVars, registers, isrVars, mainVars, countVars, fifoVars, Phase, Deaf, Initialising, TypeOK
<1>13. CASE enc28j60_filters_init
  BY <1>13 DEF enc28j60_filters_init, MainRuns, Edge, Asserted, chipVars, registers, isrVars, mainVars, countVars, fifoVars, Phase, Deaf, Initialising, TypeOK
<1>14. CASE Poll
  BY <1>14 DEF Poll, MainRuns, Edge, Asserted, chipVars, registers, isrVars, mainVars, countVars, fifoVars, Phase, Deaf, Initialising, TypeOK
<1>15. CASE SelectBank
  BY <1>15 DEF SelectBank, MainRuns, Edge, Asserted, chipVars, registers, isrVars, mainVars, countVars, fifoVars, Phase, Deaf, Initialising, TypeOK
<1>16. CASE ReadCount
  BY <1>16 DEF ReadCount, MainRuns, Counts, Edge, Asserted, chipVars, registers, isrVars, mainVars, countVars, fifoVars, Phase, Deaf, Initialising, TypeOK
<1>17. CASE Check
  BY <1>17 DEF Check, MainRuns, Suspicious, Edge, Asserted, chipVars, registers, isrVars, mainVars, countVars, fifoVars, Phase, Deaf, Initialising, TypeOK
<1>18. CASE ReadSystem
  BY <1>18 DEF ReadSystem, MainRuns, Edge, Asserted, chipVars, registers, isrVars, mainVars, countVars, fifoVars, Phase, Deaf, Initialising, TypeOK
<1>19. CASE HandleArp
  BY <1>19 DEF HandleArp, MainRuns, Again, Edge, Asserted, chipVars, registers, isrVars, mainVars, countVars, fifoVars, Phase, Deaf, Initialising, TypeOK
<1>20. CASE ReadIp
  BY <1>20 DEF ReadIp, MainRuns, Edge, Asserted, chipVars, registers, isrVars, mainVars, countVars, fifoVars, Phase, Deaf, Initialising, TypeOK
<1>21. CASE HandleIp
  BY <1>21 DEF HandleIp, MainRuns, Again, Edge, Asserted, chipVars, registers, isrVars, mainVars, countVars, fifoVars, Phase, Deaf, Initialising, TypeOK
<1>22. CASE HandlerInside
  BY <1>22 DEF HandlerInside, Inside, Edge, Asserted, chipVars, registers, isrVars, mainVars, countVars, fifoVars, Phase, Deaf, Initialising, TypeOK
<1>23. CASE Hang
  BY <1>23 DEF Hang, Inside, Edge, Asserted, chipVars, registers, isrVars, mainVars, countVars, fifoVars, Phase, Deaf, Initialising, TypeOK
<1>24. CASE UNCHANGED vars
  BY <1>24 DEF vars, Edge, Asserted, chipVars, registers, isrVars, mainVars, countVars, fifoVars, Phase, Deaf, Initialising, TypeOK
<1>25. QED
  BY <1>1, <1>2, <1>3, <1>4, <1>5, <1>6, <1>7, <1>8, <1>9, <1>10, <1>11, <1>12, <1>13, <1>14, <1>15, <1>16, <1>17, <1>18, <1>19, <1>20, <1>21, <1>22, <1>23, <1>24 DEF Next, EXTI0_IRQHandler, Main, enc28j60_init, manager_poll

(* The phases of initialisation, and stalled chips under the watchdog, hold *)
(* while no handler has begun inside an access.                             *)
THEOREM Phases == Spec => []Phase
<1>1. Init => Phase
  BY DEF Init, Phase, Deaf, Initialising
<1>2. QED
  BY <1>1, TypeCorrect, PhaseStep, PTL DEF Spec

(* Until a handler begins inside an access of main, the watchdog never      *)
(* resets, and never loses a packet of, a chip whose interrupts still work, *)
(* however packets, events and handlers interleave with its choice of the   *)
(* bank and its look at EPKTCNT (manager.c:57-76, enc28j60.c:833-837).      *)
THEOREM WatchdogJustified == Spec => ResetsOnlyWhenDeaf
<1>1. TypeOK /\ Phase /\ [Next]_vars
        => [main = "check" /\ main' = "reset" => Deaf \/ torn]_vars
  <2> SUFFICES ASSUME TypeOK, Phase, Next, main = "check", main' = "reset", ~torn
               PROVE  Deaf
    BY DEF vars, TypeOK
  <2>1. Check
    BY DEF Next, Arrive, Raise, EXTI0_IRQHandler, Enter, ReadEir, ClearEvent,
           ReadPacket, NoMorePackets, Finish, Spin, Handler, HandlerInside, Hang,
           Inside, Main, enc28j60_init, manager_poll, enc28j60_src,
           enc28j60_rx_enable, enc28j60_interrupt_init, enc28j60_filters_init, Poll,
           SelectBank, ReadCount, ReadSystem, HandleArp, ReadIp, HandleIp, mainVars
  <2>2. pkt_count > 0
    BY <2>1 DEF Check, Suspicious
  <2>3. QED
    BY <2>2 DEF Phase
<1>2. QED
  BY <1>1, TypeCorrect, Phases, PTL DEF Spec, ResetsOnlyWhenDeaf

-----------------------------------------------------------------------------
(* Why reception stalls                                                     *)

(* A step keeps CauseInv.                                                   *)
LEMMA CauseStep == TypeOK /\ Phase /\ CauseInv /\ [Next]_vars => CauseInv'
<1> SUFFICES ASSUME TypeOK, Phase, CauseInv, [Next]_vars PROVE CauseInv'
  OBVIOUS
<1> USE ReceiveAssumption DEF CauseInv, DeafHasCause, Deaf, Initialising
<1>1. ASSUME NEW kind \in Kinds, Arrive(kind) PROVE CauseInv'
  BY <1>1 DEF Arrive, Edge, Asserted, chipVars, registers, isrVars, mainVars, countVars, fifoVars, Phase, TypeOK
<1>2. ASSUME NEW event \in Events, Raise(event) PROVE CauseInv'
  BY <1>2 DEF Raise, Edge, Asserted, chipVars, registers, isrVars, mainVars, countVars, fifoVars, Phase, TypeOK
<1>3. CASE Enter
  BY <1>3 DEF Enter, Handler, Edge, Asserted, chipVars, registers, isrVars, mainVars, countVars, fifoVars, Phase, TypeOK
<1>4. CASE ReadEir
  BY <1>4 DEF ReadEir, Handler, FirstOf, Edge, Asserted, chipVars, registers, isrVars, mainVars, countVars, fifoVars, Phase, TypeOK
<1>5. CASE ClearEvent
  BY <1>5 DEF ClearEvent, Handler, Edge, Asserted, chipVars, registers, isrVars, mainVars, countVars, fifoVars, Phase, TypeOK
<1>6. CASE ReadPacket
  BY <1>6 DEF ReadPacket, Handler, AfterPacket, Written, Edge, Asserted, chipVars, registers, isrVars, mainVars, countVars, fifoVars, Phase, TypeOK
<1>7. CASE NoMorePackets
  BY <1>7 DEF NoMorePackets, Handler, Edge, Asserted, chipVars, registers, isrVars, mainVars, countVars, fifoVars, Phase, TypeOK
<1>8. CASE Finish
  BY <1>8 DEF Finish, Handler, Edge, Asserted, chipVars, registers, isrVars, mainVars, countVars, fifoVars, Phase, TypeOK
<1>9. CASE Spin
  BY <1>9 DEF Spin, Edge, Asserted, chipVars, registers, isrVars, mainVars, countVars, fifoVars, Phase, TypeOK
<1>10. CASE enc28j60_src
  BY <1>10 DEF enc28j60_src, MainRuns, Edge, Asserted, chipVars, registers, isrVars, mainVars, countVars, fifoVars, Phase, TypeOK
<1>11. CASE enc28j60_rx_enable
  BY <1>11 DEF enc28j60_rx_enable, MainRuns, Edge, Asserted, chipVars, registers, isrVars, mainVars, countVars, fifoVars, Phase, TypeOK
<1>12. CASE enc28j60_interrupt_init
  BY <1>12 DEF enc28j60_interrupt_init, MainRuns, Edge, Asserted, chipVars, registers, isrVars, mainVars, countVars, fifoVars, Phase, TypeOK
<1>13. CASE enc28j60_filters_init
  BY <1>13 DEF enc28j60_filters_init, MainRuns, Edge, Asserted, chipVars, registers, isrVars, mainVars, countVars, fifoVars, Phase, TypeOK
<1>14. CASE Poll
  BY <1>14 DEF Poll, MainRuns, Edge, Asserted, chipVars, registers, isrVars, mainVars, countVars, fifoVars, Phase, TypeOK
<1>15. CASE SelectBank
  BY <1>15 DEF SelectBank, MainRuns, Edge, Asserted, chipVars, registers, isrVars, mainVars, countVars, fifoVars, Phase, TypeOK
<1>16. CASE ReadCount
  BY <1>16 DEF ReadCount, MainRuns, Counts, Edge, Asserted, chipVars, registers, isrVars, mainVars, countVars, fifoVars, Phase, TypeOK
<1>17. CASE Check
  BY <1>17 DEF Check, MainRuns, Suspicious, Edge, Asserted, chipVars, registers, isrVars, mainVars, countVars, fifoVars, Phase, TypeOK
<1>18. CASE ReadSystem
  BY <1>18 DEF ReadSystem, MainRuns, Edge, Asserted, chipVars, registers, isrVars, mainVars, countVars, fifoVars, Phase, TypeOK
<1>19. CASE HandleArp
  BY <1>19 DEF HandleArp, MainRuns, Again, Edge, Asserted, chipVars, registers, isrVars, mainVars, countVars, fifoVars, Phase, TypeOK
<1>20. CASE ReadIp
  BY <1>20 DEF ReadIp, MainRuns, Edge, Asserted, chipVars, registers, isrVars, mainVars, countVars, fifoVars, Phase, TypeOK
<1>21. CASE HandleIp
  BY <1>21 DEF HandleIp, MainRuns, Again, Edge, Asserted, chipVars, registers, isrVars, mainVars, countVars, fifoVars, Phase, TypeOK
<1>22. CASE HandlerInside
  BY <1>22 DEF HandlerInside, Inside, Edge, Asserted, chipVars, registers, isrVars, mainVars, countVars, fifoVars, Phase, TypeOK
<1>23. CASE Hang
  BY <1>23 DEF Hang, Inside, Edge, Asserted, chipVars, registers, isrVars, mainVars, countVars, fifoVars, Phase, TypeOK
<1>24. CASE UNCHANGED vars
  BY <1>24 DEF vars, Edge, Asserted, chipVars, registers, isrVars, mainVars, countVars, fifoVars, Phase, TypeOK
<1>25. QED
  BY <1>1, <1>2, <1>3, <1>4, <1>5, <1>6, <1>7, <1>8, <1>9, <1>10, <1>11, <1>12, <1>13, <1>14, <1>15, <1>16, <1>17, <1>18, <1>19, <1>20, <1>21, <1>22, <1>23, <1>24 DEF Next, EXTI0_IRQHandler, Main, enc28j60_init, manager_poll

(* Until a handler begins inside an access of main, reception stalls only   *)
(* behind an event the handler left or a packet that is not for us,         *)
(* wherever in the handler packets arrive (enc28j60.c:101-208).             *)
THEOREM StallsHaveCause == Spec => []DeafHasCause
<1>1. Init => CauseInv
  BY DEF Init, CauseInv, DeafHasCause, Deaf, Asserted
<1>2. CauseInv => DeafHasCause
  BY DEF CauseInv
<1>3. QED
  BY <1>1, <1>2, TypeCorrect, Phases, CauseStep, PTL DEF Spec

-----------------------------------------------------------------------------
(* A quiet network                                                          *)

(* A step keeps QuietInv.                                                   *)
LEMMA QuietStep ==
    ASSUME Quiet
    PROVE  TypeOK /\ Phase /\ DeafHasCause /\ QuietInv /\ [Next]_vars => QuietInv'
<1> SUFFICES ASSUME TypeOK, Phase, DeafHasCause, QuietInv, [Next]_vars PROVE QuietInv'
  OBVIOUS
<1> USE ReceiveAssumption, Quiet DEF Quiet
<1>0. ~Initialising /\ isr = "off" /\ ~pending /\ ~torn => rx = <<>>
  BY DEF QuietInv, DeafHasCause, Deaf, Phase
<1>1. ASSUME NEW kind \in Kinds, Arrive(kind) PROVE QuietInv'
  BY <1>1 DEF Arrive, Edge, Asserted, chipVars, registers, isrVars, mainVars, countVars, fifoVars, QuietInv, Phase, Initialising, TypeOK
<1>2. ASSUME NEW event \in Events, Raise(event) PROVE QuietInv'
  BY <1>2 DEF Raise, Edge, Asserted, chipVars, registers, isrVars, mainVars, countVars, fifoVars, QuietInv, Phase, Initialising, TypeOK
<1>3. CASE Enter
  BY <1>3 DEF Enter, Handler, Edge, Asserted, chipVars, registers, isrVars, mainVars, countVars, fifoVars, QuietInv, Phase, Initialising, TypeOK
<1>4. CASE ReadEir
  BY <1>4 DEF ReadEir, Handler, FirstOf, Edge, Asserted, chipVars, registers, isrVars, mainVars, countVars, fifoVars, QuietInv, Phase, Initialising, TypeOK
<1>5. CASE ClearEvent
  BY <1>5 DEF ClearEvent, Handler, Edge, Asserted, chipVars, registers, isrVars, mainVars, countVars, fifoVars, QuietInv, Phase, Initialising, TypeOK
<1>6. CASE ReadPacket
  BY <1>6 DEF ReadPacket, Handler, AfterPacket, Written, Edge, Asserted, chipVars, registers, isrVars, mainVars, countVars, fifoVars, QuietInv, Phase, Initialising, TypeOK
<1>7. CASE NoMorePackets
  BY <1>7 DEF NoMorePackets, Handler, Edge, Asserted, chipVars, registers, isrVars, mainVars, countVars, fifoVars, QuietInv, Phase, Initialising, TypeOK
<1>8. CASE Finish
  BY <1>8 DEF Finish, Handler, Edge, Asserted, chipVars, registers, isrVars, mainVars, countVars, fifoVars, QuietInv, Phase, Initialising, TypeOK
<1>9. CASE Spin
  BY <1>9 DEF Spin, Edge, Asserted, chipVars, registers, isrVars, mainVars, countVars, fifoVars, QuietInv, Phase, Initialising, TypeOK
<1>10. CASE enc28j60_src
  BY <1>10 DEF enc28j60_src, MainRuns, Edge, Asserted, chipVars, registers, isrVars, mainVars, countVars, fifoVars, QuietInv, Phase, Initialising, TypeOK
<1>11. CASE enc28j60_rx_enable
  BY <1>11 DEF enc28j60_rx_enable, MainRuns, Edge, Asserted, chipVars, registers, isrVars, mainVars, countVars, fifoVars, QuietInv, Phase, Initialising, TypeOK
<1>12. CASE enc28j60_interrupt_init
  <2>1. ~torn => Len(rx') <= burst' + Burst
    BY <1>12 DEF enc28j60_interrupt_init, MainRuns, QuietInv, Phase, TypeOK
  <2>2. QED
    BY <1>12, <2>1 DEF enc28j60_interrupt_init, MainRuns, QuietInv, TypeOK
<1>13. CASE enc28j60_filters_init
  BY <1>0, <1>13 DEF enc28j60_filters_init, MainRuns, Edge, Asserted, chipVars, registers, isrVars, mainVars, countVars, fifoVars, QuietInv, Phase, Initialising, TypeOK
<1>14. CASE Poll
  BY <1>0, <1>14 DEF Poll, MainRuns, Edge, Asserted, chipVars, registers, isrVars, mainVars, countVars, fifoVars, QuietInv, Phase, Initialising, TypeOK
<1>15. CASE SelectBank
  BY <1>0, <1>15 DEF SelectBank, MainRuns, Edge, Asserted, chipVars, registers, isrVars, mainVars, countVars, fifoVars, QuietInv, Phase, Initialising, TypeOK
<1>16. CASE ReadCount
  BY <1>0, <1>16 DEF ReadCount, MainRuns, Counts, Edge, Asserted, chipVars, registers, isrVars, mainVars, countVars, fifoVars, QuietInv, Phase, Initialising, TypeOK
<1>17. CASE Check
  BY <1>0, <1>17 DEF Check, MainRuns, Suspicious, Edge, Asserted, chipVars, registers, isrVars, mainVars, countVars, fifoVars, QuietInv, Phase, Initialising, TypeOK
<1>18. CASE ReadSystem
  BY <1>0, <1>18 DEF ReadSystem, MainRuns, Edge, Asserted, chipVars, registers, isrVars, mainVars, countVars, fifoVars, QuietInv, Phase, Initialising, TypeOK
<1>19. CASE HandleArp
  BY <1>0, <1>19 DEF HandleArp, MainRuns, Again, Edge, Asserted, chipVars, registers, isrVars, mainVars, countVars, fifoVars, QuietInv, Phase, Initialising, TypeOK
<1>20. CASE ReadIp
  BY <1>0, <1>20 DEF ReadIp, MainRuns, Edge, Asserted, chipVars, registers, isrVars, mainVars, countVars, fifoVars, QuietInv, Phase, Initialising, TypeOK
<1>21. CASE HandleIp
  BY <1>0, <1>21 DEF HandleIp, MainRuns, Again, Edge, Asserted, chipVars, registers, isrVars, mainVars, countVars, fifoVars, QuietInv, Phase, Initialising, TypeOK
<1>22. CASE HandlerInside
  BY <1>22 DEF HandlerInside, Inside, Edge, Asserted, chipVars, registers, isrVars, mainVars, countVars, fifoVars, QuietInv, Phase, Initialising, TypeOK
<1>23. CASE Hang
  BY <1>23 DEF Hang, Inside, Edge, Asserted, chipVars, registers, isrVars, mainVars, countVars, fifoVars, QuietInv, Phase, Initialising, TypeOK
<1>24. CASE UNCHANGED vars
  BY <1>24 DEF vars, Edge, Asserted, chipVars, registers, isrVars, mainVars, countVars, fifoVars, QuietInv, Phase, Initialising, TypeOK
<1>25. QED
  BY <1>1, <1>2, <1>3, <1>4, <1>5, <1>6, <1>7, <1>8, <1>9, <1>10, <1>11, <1>12, <1>13, <1>14, <1>15, <1>16, <1>17, <1>18, <1>19, <1>20, <1>21, <1>22, <1>23, <1>24 DEF Next, EXTI0_IRQHandler, Main, enc28j60_init, manager_poll

(* On a quiet network, and until a handler begins inside an access of main, *)
(* no packet is left in the chip unnoticed: at every point of the handler a *)
(* packet that arrives is read by it or raises a new edge                   *)
(* (enc28j60.c:101-208).                                                    *)
THEOREM NoLostWakeup == ASSUME Quiet PROVE Spec => []NeverDeaf
<1>1. Init => QuietInv
  BY DEF Init, QuietInv
<1>2. QuietInv /\ DeafHasCause => NeverDeaf
  BY DEF QuietInv, NeverDeaf, DeafHasCause
<1>3. QED
  BY <1>1, <1>2, TypeCorrect, Phases, StallsHaveCause, QuietStep, PTL DEF Spec
=============================================================================
