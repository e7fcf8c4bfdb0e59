---------------------------- MODULE SpiBusProofs ----------------------------
(***************************************************************************)
(* Proofs about SpiBus, for transfers of any lengths and any number of     *)
(* handlers: no byte is lost or inherited, what is done alone is exact,    *)
(* and the rest of a transfer that was cut in two goes unheard.            *)
(***************************************************************************)
EXTENDS SpiBus, TLAPS

-----------------------------------------------------------------------------
(* The inductive invariant, in five parts *)

\* A byte was written to SPI1 and not yet read.
MainOwed == pc \in {"rxne", "read"}
HandlerOwed == hpc = "rxne"

Empty == shift = None /\ tx = None /\ ~rxne
One == tx = None /\ ((shift # None /\ ~rxne) \/ (shift = None /\ rxne))
Two == shift # None /\ ((tx # None /\ ~rxne) \/ (tx = None /\ rxne))

(* Every byte written and not read is in SPI1, and no other: it never loses  *)
(* one, although the handler reads main's and leaves main its own.           *)
FlowInv ==
    /\ MainOwed /\ HandlerOwed => Two
    /\ (MainOwed /\ ~HandlerOwed) \/ (~MainOwed /\ HandlerOwed) => One
    /\ ~MainOwed /\ ~HandlerOwed => Empty
    /\ pc = "read" /\ hpc = "off" => rxne
    /\ shift = None => ~cut
    /\ ~ovr

(* Where the handler is, and the pin: a handler leaves the chip deselected,  *)
(* so main's own selection lasts only as long as no handler began.           *)
PlaceInv ==
    /\ alone => hpc = "off"
    /\ apart /\ hpc # "off" => pc = "idle"
    /\ hpc = "off" /\ (pc = "idle" \/ ~alone) => cs = "high"
    /\ hpc \in {"select", "return"} /\ pc = "idle" => cs = "high"
    /\ hpc = "return" => cs = "high"
    /\ hpc \in {"txe", "rxne", "deselect"} => cs = "low"
    /\ hpc \in {"select", "txe", "rxne", "deselect"} => done < HandlerTransfers

MainBytes(k) == [j \in 1..k |-> Main(j)]
HandlerBytes(k) == [j \in 1..k |-> Handler(j)]

\* What a transfer of main has got done that no handler interrupted.
MainInv ==
    alone /\ pc # "idle" =>
        /\ cs = "low" /\ i \in 1..n
        /\ replies = MainBytes(IF pc = "deselect" THEN i ELSE i - 1)
        /\ pc = "deselect" => i = n
        /\ (shift = Main(i) /\ ~cut) \/ shift = None
        /\ cmd = MainBytes(IF rxne \/ pc = "deselect" THEN i ELSE i - 1)
        /\ rxne => dr = Main(i)

\* Likewise a transfer of a handler that interrupted none.
HandlerInv ==
    apart /\ hpc \in {"txe", "rxne", "deselect"} =>
        /\ hi \in 1..hn
        /\ hreplies = HandlerBytes(IF hpc = "deselect" THEN hi ELSE hi - 1)
        /\ hpc = "deselect" => hi = hn
        /\ (shift = Handler(hi) /\ ~cut) \/ shift = None
        /\ cmd = HandlerBytes(IF rxne \/ hpc = "deselect" THEN hi ELSE hi - 1)
        /\ rxne => dr = Handler(hi)

\* A byte of main's that is going out whole to the selected chip is the next
\* one of what the chip has from main.
TailInv ==
    /\ tx.by # "main"
    /\ shift.by = "main" =>
          /\ shift = Main(i) /\ pc = "rxne"
          /\ cs = "low" /\ ~cut => cmd = MainBytes(i - 1)

BusInv == TypeOK /\ FlowInv /\ PlaceInv /\ MainInv /\ HandlerInv /\ TailInv /\ TailIsUnheard

-----------------------------------------------------------------------------
(* Bytes and sequences of them *)

LEMMA ByteKinds ==
    ASSUME NEW j
    PROVE  /\ Main(j).by = "main" /\ Main(j) # None
           /\ Handler(j).by = "handler" /\ Handler(j) # None
           /\ None.by = "none" /\ Cut.by = "cut"
           /\ \A k : Main(j) = Main(k) => j = k
           /\ \A k : Handler(j) = Handler(k) => j = k
  BY DEF Main, Handler, None, Cut

LEMMA ByteTypes ==
    /\ \A j \in Nat : Main(j) \in Bytes /\ Handler(j) \in Bytes
    /\ None \in Bytes /\ Cut \in Bytes
    /\ \A b \in Bytes, who \in {"main", "handler"} : Old(b, who) \in Bytes
  BY DEF Main, Handler, None, Cut, Old, Bytes

LEMMA MainBytesGrow ==
    /\ MainBytes(0) = <<>>
    /\ \A k \in Nat : /\ MainBytes(k) \in Seq(Bytes)
                      /\ Append(MainBytes(k), Main(k + 1)) = MainBytes(k + 1)
  <1>1. MainBytes(0) = <<>>
    BY DEF MainBytes
  <1>2. ASSUME NEW k \in Nat
        PROVE  /\ MainBytes(k) \in Seq(Bytes)
               /\ Append(MainBytes(k), Main(k + 1)) = MainBytes(k + 1)
    <2>1. \A j \in 1..k : Main(j) \in Bytes
      BY ByteTypes
    <2>2. MainBytes(k) \in Seq(Bytes) /\ Len(MainBytes(k)) = k
      BY <2>1 DEF MainBytes
    <2>3. Append(MainBytes(k), Main(k + 1)) = MainBytes(k + 1)
      BY <2>2 DEF MainBytes
    <2> QED
      BY <2>2, <2>3
  <1> QED
    BY <1>1, <1>2

LEMMA HandlerBytesGrow ==
    /\ HandlerBytes(0) = <<>>
    /\ \A k \in Nat : /\ HandlerBytes(k) \in Seq(Bytes)
                      /\ Append(HandlerBytes(k), Handler(k + 1)) = HandlerBytes(k + 1)
  <1>1. HandlerBytes(0) = <<>>
    BY DEF HandlerBytes
  <1>2. ASSUME NEW k \in Nat
        PROVE  /\ HandlerBytes(k) \in Seq(Bytes)
               /\ Append(HandlerBytes(k), Handler(k + 1)) = HandlerBytes(k + 1)
    <2>1. \A j \in 1..k : Handler(j) \in Bytes
      BY ByteTypes
    <2>2. HandlerBytes(k) \in Seq(Bytes) /\ Len(HandlerBytes(k)) = k
      BY <2>1 DEF HandlerBytes
    <2>3. Append(HandlerBytes(k), Handler(k + 1)) = HandlerBytes(k + 1)
      BY <2>2 DEF HandlerBytes
    <2> QED
      BY <2>2, <2>3
  <1> QED
    BY <1>1, <1>2

-----------------------------------------------------------------------------
(* No byte is lost or inherited *)

LEMMA FlowKept ==
    ASSUME FlowInv, [Next]_vars
    PROVE  FlowInv'
  <1> USE DEF FlowInv, MainOwed, HandlerOwed, Empty, One, Two, MainRuns, Fetching
  <1>1. CASE UNCHANGED vars
    BY <1>1 DEF vars, mainVars, handlerVars, chipVars, spiVars
  <1>2. CASE Select
    BY <1>2 DEF Select, Drive
  <1>3. CASE TestTxe
    BY <1>3 DEF TestTxe, handlerVars, chipVars, spiVars
  <1>4. CASE WriteByte
    BY <1>4, ByteKinds DEF WriteByte, Write, handlerVars, chipVars
  <1>5. CASE TestRxne
    BY <1>5 DEF TestRxne, handlerVars, chipVars, spiVars
  <1>6. CASE ReadByte
    BY <1>6 DEF ReadByte, handlerVars, chipVars
  <1>7. CASE Deselect
    BY <1>7 DEF Deselect, Drive, handlerVars, spiVars
  <1>8. CASE Enter
    BY <1>8 DEF Enter, mainVars, chipVars, spiVars
  <1>9. CASE HandlerSelect
    BY <1>9 DEF HandlerSelect, Drive, mainVars
  <1>10. CASE HandlerWrite
    BY <1>10, ByteKinds DEF HandlerWrite, Write, mainVars, chipVars
  <1>11. CASE HandlerRead
    BY <1>11 DEF HandlerRead, mainVars, chipVars
  <1>12. CASE HandlerDeselect
    BY <1>12 DEF HandlerDeselect, Drive, mainVars, spiVars
  <1>13. CASE Return
    BY <1>13 DEF Return, mainVars, chipVars, spiVars
  <1>14. CASE ShiftDone
    BY <1>14 DEF ShiftDone, mainVars, handlerVars
  <1> QED
    BY <1>1, <1>2, <1>3, <1>4, <1>5, <1>6, <1>7, <1>8, <1>9, <1>10, <1>11, <1>12, <1>13, <1>14
       DEF Next, Transfer, EXTI0_IRQHandler

LEMMA PlaceKept ==
    ASSUME TypeOK, PlaceInv, [Next]_vars
    PROVE  PlaceInv'
  <1> USE SpiAssumption DEF PlaceInv, MainRuns
  <1>1. CASE UNCHANGED vars
    BY <1>1 DEF vars, mainVars, handlerVars, chipVars, historyVars
  <1>2. CASE Select
    BY <1>2 DEF Select, Drive
  <1>3. CASE TestTxe
    BY <1>3 DEF TestTxe, handlerVars, chipVars, historyVars
  <1>4. CASE WriteByte
    BY <1>4 DEF WriteByte, handlerVars, chipVars, historyVars
  <1>5. CASE TestRxne
    BY <1>5 DEF TestRxne, handlerVars, chipVars, historyVars
  <1>6. CASE ReadByte
    BY <1>6 DEF ReadByte, handlerVars, chipVars, historyVars
  <1>7. CASE Deselect
    BY <1>7 DEF Deselect, Drive, handlerVars, historyVars
  <1>8. CASE Enter
    <2>1. 0 < HandlerTransfers
      OBVIOUS
    <2>2. /\ hpc = "off" /\ hpc' = "select" /\ done' = 0 /\ ~alone'
          /\ apart' = (pc = "idle") /\ pc' = pc /\ cs' = cs
      BY <1>8, Zenon DEF Enter, mainVars, chipVars
    <2>3. done' < HandlerTransfers
      BY <2>1, <2>2
    <2>4. apart' => pc' = "idle"
      BY <2>2, Zenon
    <2> QED
      BY <2>2, <2>3, <2>4
  <1>9. CASE HandlerSelect
    BY <1>9 DEF HandlerSelect, Drive, mainVars, historyVars
  <1>10. CASE HandlerWrite
    BY <1>10 DEF HandlerWrite, mainVars, chipVars, historyVars
  <1>11. CASE HandlerRead
    BY <1>11 DEF HandlerRead, mainVars, chipVars, historyVars
  <1>12. CASE HandlerDeselect
    BY <1>12 DEF HandlerDeselect, Drive, mainVars, historyVars
  <1>13. CASE Return
    BY <1>13 DEF Return, mainVars, chipVars, historyVars
  <1>14. CASE ShiftDone
    BY <1>14 DEF ShiftDone, mainVars, handlerVars, historyVars
  <1> QED
    BY <1>1, <1>2, <1>3, <1>4, <1>5, <1>6, <1>7, <1>8, <1>9, <1>10, <1>11, <1>12, <1>13, <1>14
       DEF Next, Transfer, EXTI0_IRQHandler

-----------------------------------------------------------------------------
(* What is done alone is exact *)

LEMMA MainAloneKept ==
    ASSUME TypeOK, FlowInv, PlaceInv, MainInv, [Next]_vars
    PROVE  MainInv'
  <1> SUFFICES ASSUME alone', pc' # "idle"
               PROVE  MainInv'
    BY DEF MainInv
  <1> USE SpiAssumption DEF MainInv, MainRuns
  <1>1. CASE UNCHANGED vars
    BY <1>1 DEF vars, mainVars, chipVars, spiVars, historyVars
  <1>2. CASE Select
    <2>1. /\ pc' = "txe" /\ n' \in Lengths /\ i' = 1 /\ replies' = <<>> /\ cs' = "low"
          /\ cs = "high" /\ Empty /\ UNCHANGED <<shift, rxne>>
      BY <1>2 DEF Select, Drive, FlowInv, PlaceInv, MainOwed, HandlerOwed
    <2>2. cmd' = <<>>
      BY <1>2, <2>1 DEF Select, Drive
    <2>3. i' \in 1..n'
      BY <2>1
    <2> QED
      BY <2>1, <2>2, <2>3, MainBytesGrow DEF Empty
  <1>3. CASE TestTxe
    BY <1>3 DEF TestTxe, handlerVars, chipVars, spiVars, historyVars
  <1>4. CASE WriteByte
    <2>1. /\ pc = "write" /\ pc' = "rxne" /\ Empty /\ ~cut /\ alone
          /\ UNCHANGED <<n, i, replies, cs, cut, cmd, dr, rxne>>
      BY <1>4 DEF WriteByte, chipVars, historyVars, FlowInv, MainOwed, HandlerOwed, Empty
    <2>2. shift' = Main(i)
      BY <1>4, <2>1 DEF WriteByte, Write, Empty
    <2> QED
      BY <2>1, <2>2 DEF Empty
  <1>5. CASE TestRxne
    BY <1>5 DEF TestRxne, handlerVars, chipVars, spiVars, historyVars
  <1>6. CASE ReadByte
    <2>1. /\ pc = "read" /\ alone /\ rxne /\ shift = None /\ ~rxne' /\ replies' = Append(replies, dr)
          /\ UNCHANGED <<n, cs, cut, cmd, shift, dr>>
      BY <1>6 DEF ReadByte, chipVars, historyVars, FlowInv, MainOwed, HandlerOwed, One
    <2>2. /\ dr = Main(i) /\ i \in 1..n /\ n \in Nat /\ replies = MainBytes(i - 1)
          /\ cmd = MainBytes(i) /\ cs = "low"
      BY <2>1 DEF TypeOK
    <2>3. i - 1 \in Nat /\ (i - 1) + 1 = i
      BY <2>2
    <2>4. replies' = MainBytes(i)
      BY <2>1, <2>2, <2>3, MainBytesGrow
    <2>5. CASE i < n /\ i' = i + 1 /\ pc' = "txe"
      <3>1. i' \in 1..n' /\ i' - 1 = i
        BY <2>1, <2>2, <2>5
      <3> QED
        BY <2>1, <2>2, <2>4, <2>5, <3>1
    <2>6. CASE ~(i < n) /\ i' = i /\ pc' = "deselect"
      <3>1. i' = n' /\ i' \in 1..n'
        BY <2>1, <2>2, <2>6
      <3> QED
        BY <2>1, <2>2, <2>4, <2>6, <3>1
    <2> QED
      BY <1>6, <2>5, <2>6 DEF ReadByte
  <1>7. CASE Deselect
    BY <1>7 DEF Deselect
  <1>8. CASE Enter
    BY <1>8 DEF Enter
  <1>9. CASE EXTI0_IRQHandler
    <2>1. hpc # "off" /\ alone' = alone
      BY <1>9 DEF EXTI0_IRQHandler, HandlerSelect, HandlerWrite, HandlerRead, HandlerDeselect,
         Return, historyVars
    <2> QED
      BY <2>1 DEF PlaceInv
  <1>10. CASE ShiftDone
    <2>1. /\ shift # None /\ ~cut' /\ shift' = tx
          /\ UNCHANGED <<pc, n, i, replies, hpc, cs, alone>>
          /\ hpc = "off"
      BY <1>10 DEF ShiftDone, mainVars, handlerVars, historyVars, PlaceInv
    <2>2. MainOwed /\ One
      BY <2>1 DEF FlowInv, HandlerOwed, Empty
    <2>3. ~rxne /\ tx = None
      BY <2>1, <2>2 DEF One
    <2>4. /\ shift = Main(i) /\ ~cut /\ i \in 1..n /\ n \in Nat /\ cs = "low"
          /\ pc # "deselect" /\ cmd = MainBytes(i - 1)
      BY <2>1, <2>2, <2>3 DEF MainOwed, TypeOK
    <2>5. rxne' /\ dr' = Main(i) /\ cmd' = Append(cmd, Main(i))
      BY <1>10, <2>3, <2>4 DEF ShiftDone
    <2>6. i - 1 \in Nat /\ (i - 1) + 1 = i
      BY <2>4
    <2>7. cmd' = MainBytes(i)
      BY <2>4, <2>5, <2>6, MainBytesGrow
    <2> QED
      BY <2>1, <2>3, <2>4, <2>5, <2>7
  <1> QED
    BY <1>1, <1>2, <1>3, <1>4, <1>5, <1>6, <1>7, <1>8, <1>9, <1>10 DEF Next, Transfer

LEMMA HandlerAloneKept ==
    ASSUME TypeOK, FlowInv, PlaceInv, HandlerInv, [Next]_vars
    PROVE  HandlerInv'
  <1> SUFFICES ASSUME apart', hpc' \in {"txe", "rxne", "deselect"}
               PROVE  HandlerInv'
    BY DEF HandlerInv
  <1> USE SpiAssumption DEF HandlerInv, MainRuns
  <1>1. CASE UNCHANGED vars
    BY <1>1 DEF vars, handlerVars, chipVars, spiVars, historyVars
  <1>2. CASE Transfer
    <2>1. hpc = "off" /\ hpc' = hpc
      BY <1>2 DEF Transfer, Select, TestTxe, WriteByte, TestRxne, ReadByte, Deselect, handlerVars
    <2> QED
      BY <2>1
  <1>3. CASE Enter
    BY <1>3 DEF Enter
  <1>4. CASE HandlerSelect
    <2>1. /\ hpc = "select" /\ hpc' = "txe" /\ hn' \in Lengths /\ hi' = 1 /\ hreplies' = <<>>
          /\ apart /\ cs' = "low" /\ UNCHANGED <<shift, rxne>>
      BY <1>4 DEF HandlerSelect, Drive, historyVars
    <2>2. cs = "high" /\ Empty
      BY <2>1 DEF FlowInv, PlaceInv, MainOwed, HandlerOwed
    <2>3. cmd' = <<>>
      BY <1>4, <2>2 DEF HandlerSelect, Drive
    <2>4. hi' \in 1..hn'
      BY <2>1
    <2> QED
      BY <2>1, <2>2, <2>3, <2>4, HandlerBytesGrow DEF Empty
  <1>5. CASE HandlerWrite
    <2>1. /\ hpc = "txe" /\ hpc' = "rxne" /\ apart /\ pc = "idle"
          /\ UNCHANGED <<hn, hi, hreplies, cs, cut, cmd, dr, rxne>>
      BY <1>5 DEF HandlerWrite, chipVars, historyVars, PlaceInv
    <2>2. Empty /\ ~cut
      BY <2>1 DEF FlowInv, MainOwed, HandlerOwed, Empty
    <2>3. shift' = Handler(hi)
      BY <1>5, <2>2 DEF HandlerWrite, Write, Empty
    <2> QED
      BY <2>1, <2>2, <2>3 DEF Empty
  <1>6. CASE HandlerRead
    <2>1. /\ hpc = "rxne" /\ apart /\ rxne /\ ~rxne' /\ hreplies' = Append(hreplies, dr)
          /\ pc = "idle" /\ UNCHANGED <<hn, cs, cut, cmd, shift, dr>>
      BY <1>6 DEF HandlerRead, chipVars, historyVars, PlaceInv
    <2>2. /\ dr = Handler(hi) /\ hi \in 1..hn /\ hn \in Nat /\ hreplies = HandlerBytes(hi - 1)
          /\ cmd = HandlerBytes(hi) /\ shift = None
      BY <2>1 DEF TypeOK, FlowInv, MainOwed, HandlerOwed, One
    <2>3. hi - 1 \in Nat /\ (hi - 1) + 1 = hi
      BY <2>2
    <2>4. hreplies' = HandlerBytes(hi)
      BY <2>1, <2>2, <2>3, HandlerBytesGrow
    <2>5. CASE hi < hn /\ hi' = hi + 1 /\ hpc' = "txe"
      <3>1. hi' \in 1..hn' /\ hi' - 1 = hi
        BY <2>1, <2>2, <2>5
      <3> QED
        BY <2>1, <2>2, <2>4, <2>5, <3>1
    <2>6. CASE ~(hi < hn) /\ hi' = hi /\ hpc' = "deselect"
      <3>1. hi' = hn' /\ hi' \in 1..hn'
        BY <2>1, <2>2, <2>6
      <3> QED
        BY <2>1, <2>2, <2>4, <2>6, <3>1
    <2> QED
      BY <1>6, <2>5, <2>6 DEF HandlerRead
  <1>7. CASE HandlerDeselect
    BY <1>7 DEF HandlerDeselect
  <1>8. CASE Return
    BY <1>8 DEF Return
  <1>9. CASE ShiftDone
    <2>1. /\ shift # None /\ ~cut' /\ shift' = tx /\ pc = "idle"
          /\ UNCHANGED <<hpc, hn, hi, hreplies, cs, apart>>
      BY <1>9 DEF ShiftDone, handlerVars, historyVars, PlaceInv
    <2>2. HandlerOwed /\ One
      BY <2>1 DEF FlowInv, MainOwed, Empty
    <2>3. ~rxne /\ tx = None
      BY <2>1, <2>2 DEF One
    <2>4. /\ shift = Handler(hi) /\ ~cut /\ hi \in 1..hn /\ hn \in Nat
          /\ hpc # "deselect" /\ cmd = HandlerBytes(hi - 1)
      BY <2>1, <2>2, <2>3 DEF HandlerOwed, TypeOK
    <2>5. cs = "low"
      BY <2>1, <2>2 DEF PlaceInv, HandlerOwed
    <2>6. rxne' /\ dr' = Handler(hi) /\ cmd' = Append(cmd, Handler(hi))
      BY <1>9, <2>3, <2>4, <2>5 DEF ShiftDone
    <2>7. hi - 1 \in Nat /\ (hi - 1) + 1 = hi
      BY <2>4
    <2>8. cmd' = HandlerBytes(hi)
      BY <2>4, <2>6, <2>7, HandlerBytesGrow
    <2> QED
      BY <2>1, <2>3, <2>4, <2>6, <2>8
  <1> QED
    BY <1>1, <1>2, <1>3, <1>4, <1>5, <1>6, <1>7, <1>8, <1>9 DEF Next, EXTI0_IRQHandler

-----------------------------------------------------------------------------
(* What is left of a transfer goes unheard *)

\* Main writes only when nothing is going out; a handler leaves what is.
LEMMA TailKept ==
    ASSUME TypeOK, FlowInv, PlaceInv, MainInv, TailInv, [Next]_vars
    PROVE  TailInv'
  <1> USE DEF TailInv, MainRuns
  <1>1. CASE UNCHANGED vars
    BY <1>1 DEF vars, mainVars, chipVars, spiVars
  <1>2. CASE Select
    <2>1. Empty /\ UNCHANGED <<shift, tx>>
      BY <1>2 DEF Select, FlowInv, MainOwed, HandlerOwed
    <2> QED
      BY <2>1, ByteKinds DEF Empty
  <1>3. CASE TestTxe
    BY <1>3 DEF TestTxe, chipVars, spiVars
  <1>4. CASE WriteByte
    <2>1. /\ pc = "write" /\ pc' = "rxne" /\ hpc = "off" /\ Empty
          /\ UNCHANGED <<i, cs, cut, cmd>>
      BY <1>4 DEF WriteByte, chipVars, FlowInv, MainOwed, HandlerOwed
    <2>2. shift' = Main(i) /\ tx' = tx
      BY <1>4, <2>1 DEF WriteByte, Write, Empty
    <2>3. cs = "low" => cmd = MainBytes(i - 1)
      BY <2>1 DEF PlaceInv, MainInv, Empty
    <2> QED
      BY <2>1, <2>2, <2>3
  <1>5. CASE TestRxne
    <2>1. pc = "rxne" /\ rxne /\ hpc = "off" /\ UNCHANGED <<shift, tx>>
      BY <1>5 DEF TestRxne, spiVars
    <2>2. shift = None
      BY <2>1 DEF FlowInv, MainOwed, HandlerOwed, One
    <2> QED
      BY <2>1, <2>2, ByteKinds
  <1>6. CASE ReadByte
    <2>1. pc = "read" /\ UNCHANGED <<shift, tx>>
      BY <1>6 DEF ReadByte
    <2> QED
      BY <2>1
  <1>7. CASE Deselect
    <2>1. pc = "deselect" /\ UNCHANGED <<shift, tx>>
      BY <1>7 DEF Deselect, spiVars
    <2> QED
      BY <2>1
  <1>8. CASE Enter
    BY <1>8 DEF Enter, mainVars, chipVars, spiVars
  <1>9. CASE HandlerSelect
    <2>1. /\ UNCHANGED <<shift, tx, pc, i>> /\ cut' = (cut \/ (shift # None /\ cs # "low"))
          /\ cmd' = IF cs # "low" /\ "low" = "low" THEN <<>> ELSE cmd
      BY <1>9 DEF HandlerSelect, Drive, mainVars
    <2>2. shift.by = "main" /\ ~cut' => shift # None /\ cs = "low" /\ ~cut /\ cmd' = cmd
      BY <2>1, ByteKinds
    <2> QED
      BY <2>1, <2>2
  <1>10. CASE HandlerWrite
    <2>1. UNCHANGED <<pc, i, cs, cut, cmd>>
      BY <1>10 DEF HandlerWrite, mainVars, chipVars
    <2>2. (shift' = Handler(hi) /\ tx' = tx) \/ (tx' = Handler(hi) /\ shift' = shift)
      BY <1>10 DEF HandlerWrite, Write
    <2> QED
      BY <2>1, <2>2, ByteKinds
  <1>11. CASE HandlerRead
    BY <1>11 DEF HandlerRead, mainVars, chipVars
  <1>12. CASE HandlerDeselect
    <2>1. UNCHANGED <<shift, tx, pc, i>> /\ cs' = "high"
      BY <1>12 DEF HandlerDeselect, Drive, mainVars, spiVars
    <2> QED
      BY <2>1
  <1>13. CASE Return
    BY <1>13 DEF Return, mainVars, chipVars, spiVars
  <1>14. CASE ShiftDone
    <2>1. shift' = tx /\ tx' = None
      BY <1>14 DEF ShiftDone
    <2> QED
      BY <2>1, ByteKinds
  <1> QED
    BY <1>1, <1>2, <1>3, <1>4, <1>5, <1>6, <1>7, <1>8, <1>9, <1>10, <1>11, <1>12, <1>13, <1>14
       DEF Next, Transfer, EXTI0_IRQHandler

LEMMA UnheardKept ==
    ASSUME TypeOK, TailInv, TailIsUnheard, [Next]_vars
    PROVE  TailIsUnheard'
  <1>1. CASE cmd' = cmd \/ cmd' = <<>>
    BY <1>1 DEF TailIsUnheard
  <1>2. ASSUME ShiftDone, cs = "low"
        PROVE  TailIsUnheard'
    <2> DEFINE b == IF cut THEN Cut ELSE shift
    <2>1. cmd \in Seq(Bytes) /\ cmd' = Append(cmd, b) /\ i \in Nat \ {0}
      BY <1>2 DEF ShiftDone, TypeOK
    <2>2. b.by = "main" => ~cut /\ shift.by = "main" /\ b = shift
      BY ByteKinds
    <2>3. b.by = "main" => b = Main(i) /\ cmd = MainBytes(i - 1)
      BY <1>2, <2>2 DEF TailInv
    <2> HIDE DEF b
    <2> SUFFICES ASSUME NEW j \in 1..(Len(cmd) + 1), cmd'[j].by = "main"
                 PROVE  cmd'[j] = Main(j) /\ (j > 1 => cmd'[j - 1] = Main(j - 1))
      BY <2>1 DEF TailIsUnheard
    <2>4. CASE j \in 1..Len(cmd)
      <3>1. cmd'[j] = cmd[j] /\ (j > 1 => cmd'[j - 1] = cmd[j - 1])
        BY <2>1, <2>4
      <3>2. j \in DOMAIN cmd
        BY <2>1, <2>4
      <3> QED
        BY <3>1, <3>2 DEF TailIsUnheard
    <2>5. CASE j = Len(cmd) + 1
      <3>1. cmd'[j] = b
        BY <2>1, <2>5
      <3>2. b = Main(i) /\ cmd = MainBytes(i - 1)
        BY <2>3, <3>1
      <3>3. i - 1 \in Nat /\ Len(cmd) = i - 1 /\ j = i
        BY <2>1, <2>5, <3>2 DEF MainBytes
      <3>4. j > 1 => cmd'[j - 1] = cmd[j - 1] /\ cmd[j - 1] = Main(j - 1)
        <4> SUFFICES ASSUME j > 1
                     PROVE  cmd'[j - 1] = cmd[j - 1] /\ cmd[j - 1] = Main(j - 1)
          OBVIOUS
        <4>1. j - 1 \in 1..Len(cmd) /\ j - 1 \in 1..(i - 1)
          BY <3>3, <2>1
        <4>2. cmd'[j - 1] = cmd[j - 1]
          BY <2>1, <4>1
        <4>3. cmd[j - 1] = Main(j - 1)
          BY <3>2, <4>1 DEF MainBytes
        <4> QED
          BY <4>2, <4>3
      <3> QED
        BY <3>1, <3>2, <3>3, <3>4
    <2> QED
      BY <2>1, <2>4, <2>5
  <1>3. cmd' = cmd \/ cmd' = <<>> \/ (ShiftDone /\ cs = "low")
    BY DEF Next, Transfer, EXTI0_IRQHandler, vars, Select, TestTxe, WriteByte, TestRxne, ReadByte,
           Deselect, Enter, HandlerSelect, HandlerWrite, HandlerRead, HandlerDeselect, Return,
           ShiftDone, Drive, chipVars
  <1> QED
    BY <1>1, <1>2, <1>3

-----------------------------------------------------------------------------
(* Types *)

LEMMA WriteType ==
    ASSUME NEW b \in Bytes, Write(b), {tx, shift} \subseteq Bytes
    PROVE  {tx', shift'} \subseteq Bytes
  BY DEF Write

LEMMA DriveType ==
    ASSUME NEW level \in {"low", "high"}, Drive(level), cut \in BOOLEAN, cmd \in Seq(Bytes)
    PROVE  cs' \in {"low", "high"} /\ cut' \in BOOLEAN /\ cmd' \in Seq(Bytes)
  <1>1. <<>> \in Seq(Bytes)
    OBVIOUS
  <1>2. cmd' \in Seq(Bytes)
    BY <1>1 DEF Drive
  <1>3. cut' \in BOOLEAN
    BY Zenon DEF Drive
  <1> QED
    BY <1>2, <1>3 DEF Drive

LEMMA TypesKept ==
    ASSUME TypeOK, PlaceInv, [Next]_vars
    PROVE  TypeOK'
  <1> USE DEF TypeOK
  <1>1. CASE UNCHANGED vars
    BY <1>1 DEF vars, mainVars, handlerVars, chipVars, spiVars, historyVars
  <1>2. CASE Select
    <2>1. <<>> \in Seq(Bytes) /\ 1 \in Nat \ {0} /\ Handlers \in 0..Handlers
      BY SpiAssumption
    <2>2. Old(dr, "main") \in Bytes
      BY ByteTypes
    <2>3. cs' \in {"low", "high"} /\ cut' \in BOOLEAN /\ cmd' \in Seq(Bytes)
      BY <1>2, DriveType DEF Select
    <2> QED
      BY <1>2, <2>1, <2>2, <2>3 DEF Select
  <1>3. CASE TestTxe
    BY <1>3 DEF TestTxe, handlerVars, chipVars, spiVars, historyVars
  <1>4. CASE WriteByte
    <2>1. Main(i) \in Bytes
      BY ByteTypes
    <2>2. {tx', shift'} \subseteq Bytes
      BY <1>4, <2>1, WriteType DEF WriteByte
    <2> QED
      BY <1>4, <2>2 DEF WriteByte, handlerVars, chipVars, historyVars
  <1>5. CASE TestRxne
    BY <1>5 DEF TestRxne, handlerVars, chipVars, spiVars, historyVars
  <1>6. CASE ReadByte
    <2>1. replies' \in Seq(Bytes)
      BY <1>6 DEF ReadByte
    <2>2. i' \in Nat \ {0}
      BY <1>6 DEF ReadByte
    <2> QED
      BY <1>6, <2>1, <2>2 DEF ReadByte, handlerVars, chipVars, historyVars
  <1>7. CASE Deselect
    <2>1. cs' \in {"low", "high"} /\ cut' \in BOOLEAN /\ cmd' \in Seq(Bytes)
      BY <1>7, DriveType DEF Deselect
    <2> QED
      BY <1>7, <2>1 DEF Deselect, handlerVars, spiVars, historyVars
  <1>8. CASE Enter
    <2>1. left' \in 0..Handlers /\ done' \in 0..HandlerTransfers
      BY <1>8, SpiAssumption DEF Enter
    <2>2. apart' \in BOOLEAN /\ alone' \in BOOLEAN /\ hpc' = "select"
      BY <1>8, Zenon DEF Enter
    <2>3. UNCHANGED <<mainVars, hn, hi, hreplies, chipVars, spiVars>>
      BY <1>8 DEF Enter
    <2> QED
      BY <2>1, <2>2, <2>3 DEF mainVars, chipVars, spiVars
  <1>9. CASE HandlerSelect
    <2>1. <<>> \in Seq(Bytes)
      OBVIOUS
    <2>2. Old(dr, "handler") \in Bytes
      BY ByteTypes
    <2>3. cs' \in {"low", "high"} /\ cut' \in BOOLEAN /\ cmd' \in Seq(Bytes)
      BY <1>9, DriveType DEF HandlerSelect
    <2>4. hn' \in Nat /\ hi' \in Nat
      BY <1>9, SpiAssumption DEF HandlerSelect
    <2> QED
      BY <1>9, <2>1, <2>2, <2>3, <2>4 DEF HandlerSelect, mainVars, historyVars
  <1>10. CASE HandlerWrite
    <2>1. Handler(hi) \in Bytes
      BY ByteTypes
    <2>2. {tx', shift'} \subseteq Bytes
      BY <1>10, <2>1, WriteType DEF HandlerWrite
    <2> QED
      BY <1>10, <2>2 DEF HandlerWrite, mainVars, chipVars, historyVars
  <1>11. CASE HandlerRead
    <2>1. hreplies' \in Seq(Bytes)
      BY <1>11 DEF HandlerRead
    <2>2. hi' \in Nat
      BY <1>11 DEF HandlerRead
    <2> QED
      BY <1>11, <2>1, <2>2 DEF HandlerRead, mainVars, chipVars, historyVars
  <1>12. CASE HandlerDeselect
    <2>1. cs' \in {"low", "high"} /\ cut' \in BOOLEAN /\ cmd' \in Seq(Bytes)
      BY <1>12, DriveType DEF HandlerDeselect
    <2>2. done' \in 0..HandlerTransfers
      BY <1>12, SpiAssumption DEF HandlerDeselect, PlaceInv
    <2>3. hpc' \in {"return", "select"}
      BY <1>12 DEF HandlerDeselect
    <2> QED
      BY <1>12, <2>1, <2>2, <2>3 DEF HandlerDeselect, mainVars, spiVars, historyVars
  <1>13. CASE Return
    BY <1>13 DEF Return, mainVars, chipVars, spiVars, historyVars
  <1>14. CASE ShiftDone
    <2>1. cmd' \in Seq(Bytes)
      BY <1>14, ByteTypes DEF ShiftDone
    <2>2. {tx', shift', dr'} \subseteq Bytes
      BY <1>14, ByteTypes DEF ShiftDone
    <2>3. {rxne', ovr'} \subseteq BOOLEAN /\ cut' \in BOOLEAN
      BY <1>14 DEF ShiftDone
    <2> QED
      BY <1>14, <2>1, <2>2, <2>3 DEF ShiftDone, mainVars, handlerVars, historyVars
  <1> QED
    BY <1>1, <1>2, <1>3, <1>4, <1>5, <1>6, <1>7, <1>8, <1>9, <1>10, <1>11, <1>12, <1>13, <1>14
       DEF Next, Transfer, EXTI0_IRQHandler

-----------------------------------------------------------------------------
LEMMA BusInvInit == Init => BusInv
  <1> SUFFICES ASSUME Init
               PROVE  BusInv
    OBVIOUS
  <1>1. TypeOK
    <2>1. <<>> \in Seq(Bytes) /\ 1 \in Nat \ {0} /\ 1 \in Nat
      OBVIOUS
    <2>2. done \in 0..HandlerTransfers /\ left \in 0..Handlers
      BY SpiAssumption DEF Init
    <2>3. {tx, shift, dr} \subseteq Bytes
      BY ByteTypes DEF Init
    <2>4. {rxne, ovr, alone, apart} \subseteq BOOLEAN /\ cut \in BOOLEAN
      BY DEF Init
    <2> QED
      BY <2>1, <2>2, <2>3, <2>4, Zenon DEF Init, TypeOK
  <1>2. FlowInv
    BY DEF Init, FlowInv, MainOwed, HandlerOwed, Empty
  <1>3. PlaceInv
    BY DEF Init, PlaceInv
  <1>4. MainInv /\ HandlerInv
    BY DEF Init, MainInv, HandlerInv
  <1>5. TailInv
    BY ByteKinds DEF Init, TailInv
  <1>6. TailIsUnheard
    BY DEF Init, TailIsUnheard
  <1> QED
    BY <1>1, <1>2, <1>3, <1>4, <1>5, <1>6 DEF BusInv

LEMMA BusInvariant == Spec => []BusInv
  <1>1. BusInv /\ [Next]_vars => BusInv'
    BY FlowKept, PlaceKept, MainAloneKept, HandlerAloneKept, TailKept, UnheardKept, TypesKept
       DEF BusInv
  <1> QED
    BY <1>1, BusInvInit, PTL DEF Spec

(* Every variable has its type, whatever a handler interrupts.              *)
THEOREM BusTypes == Spec => []TypeOK
  <1>1. BusInv => TypeOK
    BY DEF BusInv
  <1> QED
    BY <1>1, BusInvariant, PTL

(* SPI1 has no overrun and is at rest between the transfers of main, for    *)
(* any number of handlers and transfers of any lengths (enc28j60.c:292-310). *)
THEOREM NothingInherited == Spec => []RestsBetween
  <1>1. BusInv => RestsBetween
    BY DEF BusInv, RestsBetween, FlowInv, MainOwed, HandlerOwed, Empty
  <1> QED
    BY <1>1, BusInvariant, PTL

(* A transfer of main that no handler begins in, and those of a handler that *)
(* begins in none, are exact in both directions (enc28j60.c:292-426).        *)
THEOREM AloneExact == Spec => []AloneIsExact
  <1>1. BusInv => AloneIsExact
    BY DEF BusInv, AloneIsExact, MainInv, HandlerInv, MainBytes, HandlerBytes
  <1> QED
    BY <1>1, BusInvariant, PTL

(* The chip takes nothing of what is left of a transfer that a handler cut   *)
(* in two: what it has from main is the beginning of it (enc28j60.c:298-302). *)
THEOREM TailUnheard == Spec => []TailIsUnheard
  <1>1. BusInv => TailIsUnheard
    BY DEF BusInv
  <1> QED
    BY <1>1, BusInvariant, PTL
=============================================================================
