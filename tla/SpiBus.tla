------------------------------- MODULE SpiBus -------------------------------
(***************************************************************************)
(* The transfers by which main and EXTI0_IRQHandler talk to the ENC28J60:  *)
(* chip select and SPI1, byte by byte.  Neither knows of the other: the    *)
(* handler may begin anywhere in a transfer of main, selects a chip that   *)
(* is selected already and deselects it under main.                        *)
(*                                                                         *)
(* SPI1 shifts one byte out and one in at a time; it has room for one more *)
(* to go out and for one that came in.  A byte that came in is known by    *)
(* the byte that went out meanwhile.                                       *)
(***************************************************************************)
EXTENDS Integers, Sequences

CONSTANTS
    Lengths,            \* bytes in a transfer: 1 (enc28j60_src) or more
    HandlerTransfers,   \* transfers of a handler, bound
    Handlers            \* handlers from one transfer of main to the next, bound

ASSUME SpiAssumption ==
    Lengths \subseteq Nat \ {0} /\ HandlerTransfers \in Nat \ {0} /\ Handlers \in Nat

VARIABLES
    pc, n, i,           \* main: where it is, length of the transfer, its byte
    replies,            \* what it has read in this transfer
    hpc, hn, hi, hreplies,  \* the handler, likewise
    done,               \* transfers this handler has made
    left,               \* handlers still to come before main's next transfer
    cs,                 \* level of the pin: chip select is active low
    cut,                \* it changed while this byte was shifted
    cmd,                \* what the chip received since it was selected
    tx, shift, dr,      \* to go out next, going out and in, come in last
    rxne,               \* RXNE of SPI_SR
    ovr,                \* OVR of SPI_SR was set: a byte came in and was lost
    alone, apart        \* history: no handler began in this transfer of main;
                        \* this handler began in none

mainVars == <<pc, n, i, replies>>
handlerVars == <<hpc, hn, hi, hreplies, done, left>>
chipVars == <<cs, cut, cmd>>
spiVars == <<tx, shift, dr, rxne, ovr>>
historyVars == <<alone, apart>>
vars == <<mainVars, handlerVars, chipVars, spiVars, historyVars>>

Bytes == [by : {"none", "old", "cut", "main", "handler"}, i : Nat]
None == [by |-> "none", i |-> 0]
Cut == [by |-> "cut", i |-> 0]          \* some of the bits of a byte
Main(j) == [by |-> "main", i |-> j]
Handler(j) == [by |-> "handler", i |-> j]

\* A byte of an earlier transfer.
Old(b, who) == IF b.by = who THEN [by |-> "old", i |-> 0] ELSE b

MainRuns == hpc = "off"

-----------------------------------------------------------------------------
(* SPI1 and the chip *)

(* A definition named Name_X is Name with a plausible mistake, X, in it: no  *)
(* specification uses it.                                                    *)

\* *SPI_DR = byte.
Write(byte) ==
    IF shift = None THEN shift' = byte /\ UNCHANGED tx
                    ELSE tx' = byte /\ UNCHANGED shift

\* The pin changes, which a byte on its way does not survive.
Drive(level) ==
    /\ cs' = level
    /\ cut' = (cut \/ (shift # None /\ cs # level))
    /\ cmd' = IF cs # level /\ level = "low" THEN <<>> ELSE cmd

\* A byte takes 64 cycles of the processor: the handler, which nothing interrupts,
\* has fetched a byte before the next one is through.
Fetching == hpc = "rxne" /\ rxne

\* A byte is through.
ShiftDone ==
    /\ shift # None /\ ~Fetching
    /\ IF rxne THEN ovr' = TRUE /\ UNCHANGED <<dr, rxne>>
               ELSE dr' = shift /\ rxne' = TRUE /\ UNCHANGED ovr
    /\ cmd' = IF cs = "low" THEN Append(cmd, IF cut THEN Cut ELSE shift) ELSE cmd
    /\ shift' = tx /\ tx' = None /\ cut' = FALSE
    /\ UNCHANGED <<mainVars, handlerVars, cs, historyVars>>

-----------------------------------------------------------------------------
(* A transfer of main: enc28j60_wbm, _rbm, _wcr, _bfs, _bfc, _eth_rcr,       *)
(* _mac_rcr or _src                                                          *)

\* enc28j60_spi_select
Select ==
    /\ MainRuns /\ pc = "idle"
    /\ n' \in Lengths /\ i' = 1 /\ replies' = <<>>
    /\ Drive("low")
    /\ dr' = Old(dr, "main")
    /\ alone' = TRUE /\ left' = Handlers
    /\ pc' = "txe"
    /\ UNCHANGED <<hpc, hn, hi, hreplies, done, tx, shift, rxne, ovr, apart>>

\* enc28j60_spi_transceive, in the pieces between its accesses to SPI1.
TestTxe ==
    /\ MainRuns /\ pc = "txe" /\ tx = None
    /\ pc' = "write"
    /\ UNCHANGED <<n, i, replies, handlerVars, chipVars, spiVars, historyVars>>

WriteByte ==
    /\ MainRuns /\ pc = "write"
    /\ Write(Main(i)) /\ pc' = "rxne"
    /\ UNCHANGED <<n, i, replies, handlerVars, chipVars, dr, rxne, ovr, historyVars>>

TestRxne_Txe ==
    /\ MainRuns /\ pc = "rxne" /\ tx = None
    /\ pc' = "read"
    /\ UNCHANGED <<n, i, replies, handlerVars, chipVars, spiVars, historyVars>>

TestRxne ==
    /\ MainRuns /\ pc = "rxne" /\ rxne
    /\ pc' = "read"
    /\ UNCHANGED <<n, i, replies, handlerVars, chipVars, spiVars, historyVars>>

ReadByte_Countdown ==
    /\ MainRuns /\ pc = "read"
    /\ rxne' = FALSE /\ replies' = Append(replies, dr)
    /\ IF i < n THEN i' = i - 1 /\ pc' = "txe" ELSE pc' = "deselect" /\ UNCHANGED i
    /\ UNCHANGED <<n, handlerVars, chipVars, tx, shift, dr, ovr, historyVars>>

ReadByte ==
    /\ MainRuns /\ pc = "read"
    /\ rxne' = FALSE /\ replies' = Append(replies, dr)
    /\ IF i < n THEN i' = i + 1 /\ pc' = "txe" ELSE pc' = "deselect" /\ UNCHANGED i
    /\ UNCHANGED <<n, handlerVars, chipVars, tx, shift, dr, ovr, historyVars>>

\* enc28j60_spi_deselect
Deselect_Never ==
    /\ MainRuns /\ pc = "deselect"
    /\ pc' = "idle"
    /\ UNCHANGED <<n, i, replies, handlerVars, chipVars, spiVars, historyVars>>

Deselect ==
    /\ MainRuns /\ pc = "deselect"
    /\ Drive("high") /\ pc' = "idle"
    /\ UNCHANGED <<n, i, replies, handlerVars, spiVars, historyVars>>

Transfer == Select \/ TestTxe \/ WriteByte \/ TestRxne \/ ReadByte \/ Deselect

-----------------------------------------------------------------------------
(* EXTI0_IRQHandler: any transfers, one after the other                      *)

Enter ==
    /\ hpc = "off" /\ left > 0
    /\ hpc' = "select" /\ done' = 0 /\ left' = left - 1
    /\ alone' = FALSE /\ apart' = (pc = "idle")
    /\ UNCHANGED <<mainVars, hn, hi, hreplies, chipVars, spiVars>>

HandlerSelect ==
    /\ hpc = "select"
    /\ hn' \in Lengths /\ hi' = 1 /\ hreplies' = <<>>
    /\ Drive("low")
    /\ dr' = Old(dr, "handler")
    /\ hpc' = "txe"
    /\ UNCHANGED <<mainVars, done, left, tx, shift, rxne, ovr, historyVars>>

HandlerWrite ==
    /\ hpc = "txe" /\ tx = None
    /\ Write(Handler(hi)) /\ hpc' = "rxne"
    /\ UNCHANGED <<mainVars, hn, hi, hreplies, done, left, chipVars, dr, rxne, ovr, historyVars>>

HandlerRead ==
    /\ hpc = "rxne" /\ rxne
    /\ rxne' = FALSE /\ hreplies' = Append(hreplies, dr)
    /\ IF hi < hn THEN hi' = hi + 1 /\ hpc' = "txe" ELSE hpc' = "deselect" /\ UNCHANGED hi
    /\ UNCHANGED <<mainVars, hn, done, left, chipVars, tx, shift, dr, ovr, historyVars>>

HandlerDeselect_Flush ==
    /\ hpc = "deselect"
    /\ Drive("high") /\ done' = done + 1
    /\ hpc' \in {"return"} \cup (IF done' < HandlerTransfers THEN {"select"} ELSE {})
    /\ rxne' = FALSE
    /\ UNCHANGED <<mainVars, hn, hi, hreplies, left, tx, shift, dr, ovr, historyVars>>

HandlerDeselect_Restore ==
    /\ hpc = "deselect"
    /\ Drive(IF pc = "idle" THEN "high" ELSE "low") /\ done' = done + 1
    /\ hpc' \in {"return"} \cup (IF done' < HandlerTransfers THEN {"select"} ELSE {})
    /\ UNCHANGED <<mainVars, hn, hi, hreplies, left, spiVars, historyVars>>

HandlerDeselect ==
    /\ hpc = "deselect"
    /\ Drive("high") /\ done' = done + 1
    /\ hpc' \in {"return"} \cup (IF done' < HandlerTransfers THEN {"select"} ELSE {})
    /\ UNCHANGED <<mainVars, hn, hi, hreplies, left, spiVars, historyVars>>

\* The NOPs of that, the rest of the handler and the return from it take longer
\* than a byte.
Return ==
    /\ hpc = "return" /\ shift = None
    /\ hpc' = "off"
    /\ UNCHANGED <<mainVars, hn, hi, hreplies, done, left, chipVars, spiVars, historyVars>>

EXTI0_IRQHandler ==
    HandlerSelect \/ HandlerWrite \/ HandlerRead \/ HandlerDeselect \/ Return

-----------------------------------------------------------------------------
Init ==
    /\ pc = "idle" /\ n \in Lengths /\ i = 1 /\ replies = <<>>
    /\ hpc = "off" /\ hn = 1 /\ hi = 1 /\ hreplies = <<>> /\ done = 0 /\ left = Handlers
    /\ cs = "high" /\ cut = FALSE /\ cmd = <<>>
    /\ tx = None /\ shift = None /\ dr = None /\ rxne = FALSE /\ ovr = FALSE
    /\ alone = TRUE /\ apart = TRUE

Next == Transfer \/ Enter \/ EXTI0_IRQHandler \/ ShiftDone

\* The clock of SPI1 runs, a handler goes on, and main does when none runs.
Spec ==
    /\ Init /\ [][Next]_vars
    /\ WF_vars(ShiftDone) /\ WF_vars(EXTI0_IRQHandler) /\ WF_vars(Transfer)

-----------------------------------------------------------------------------
TypeOK ==
    /\ pc \in {"idle", "txe", "write", "rxne", "read", "deselect"}
    /\ n \in Lengths /\ i \in Nat \ {0} /\ replies \in Seq(Bytes)
    /\ hpc \in {"off", "select", "txe", "rxne", "deselect", "return"}
    /\ hn \in Nat /\ hi \in Nat /\ hreplies \in Seq(Bytes)
    /\ done \in 0..HandlerTransfers /\ left \in 0..Handlers
    /\ cs \in {"low", "high"} /\ cut \in BOOLEAN /\ cmd \in Seq(Bytes)
    /\ {tx, shift, dr} \subseteq Bytes
    /\ {rxne, ovr, alone, apart} \subseteq BOOLEAN

(* No wait for a byte lasts for ever, whatever a handler took of main's bytes *)
(* or left behind: main's transfers end (enc28j60.c:306, 308).                *)
WaitEnds == pc # "idle" ~> pc = "idle"

(* Nobody inherits a byte: between the transfers of main, when no handler     *)
(* runs, SPI1 is at rest, although a handler that began in the middle of one  *)
(* reads every byte one too late; and no byte that came in is ever lost.      *)
RestsBetween ==
    /\ ~ovr
    /\ pc = "idle" /\ hpc = "off" => shift = None /\ tx = None /\ ~rxne

(* What one of them does alone reaches the chip as it is, and the answers are *)
(* those to its own bytes, whatever was torn before: a transfer of main in    *)
(* which no handler begins, and those of a handler that begins between them.  *)
AloneIsExact ==
    /\ pc = "deselect" /\ alone =>
           cmd = [j \in 1..n |-> Main(j)] /\ replies = cmd
    /\ hpc = "deselect" /\ apart =>
           cmd = [j \in 1..hn |-> Handler(j)] /\ hreplies = cmd

(* Of a transfer of main that a handler cuts in two the chip gets the         *)
(* beginning: main does not select it again, and what is left of the transfer *)
(* is never taken for a command or for data of the handler's.                 *)
TailIsUnheard ==
    \A j \in DOMAIN cmd : cmd[j].by = "main" =>
        cmd[j] = Main(j) /\ (j > 1 => cmd[j - 1] = Main(j - 1))
=============================================================================
