----------------------------- MODULE PacketFifo -----------------------------
(***************************************************************************)
(* A receive FIFO of the Ethernet driver (enc28j60_fifo_t: __ip_fifo or    *)
(* __system_fifo): a ring of bytes that holds packets, each behind its     *)
(* length in two bytes, high byte first.                                   *)
(*                                                                         *)
(* The interrupt handler writes whole packets, the main loop reads byte by *)
(* byte.  The main loop never sees the handler half way; the handler may   *)
(* run between any two bytes of the main loop, while the packet that is    *)
(* being read occupies the ring in part.                                   *)
(***************************************************************************)
EXTENDS Integers, Sequences

CONSTANTS
    Size,       \* fifo->size: 4096 and 2048
    ByteBase,   \* number of values of a byte: 256, smaller in runs
    Packets     \* packets the network may deliver

Bytes == 0..(ByteBase - 1)

ASSUME FifoAssumption ==
    /\ Size \in Nat /\ Size >= 2
    /\ ByteBase \in Nat /\ ByteBase >= 2
    /\ Packets \subseteq Seq(Bytes)
    /\ \A p \in Packets : Len(p) \in 1..(ByteBase * ByteBase - 1)

Slots == 0..(Size - 1)

VARIABLES
    data,      \* fifo->data
    write,     \* fifo->write
    read,      \* fifo->read
    pc,        \* what the main loop does next: look, take a length byte, copy
    len,       \* the length it has read so far
    buf,       \* what it has copied into read_buffer
    got,       \* the packet it copied last
    pending    \* history: packets written and not yet returned

ringVars == <<data, write, read>>
readerVars == <<pc, len, buf, got>>
vars == <<ringVars, readerVars, pending>>

\* The slot k places behind slot i.
Slot_Unwrapped(i, k) == i + k
Slot(i, k) == (i + k) % Size

\* A packet as it stands in the ring.
Encode_LowFirst(p) == <<Len(p) % ByteBase, Len(p) \div ByteBase>> \o p
Encode(p) == <<Len(p) \div ByteBase, Len(p) % ByteBase>> \o p

\* "Checks if the packet fits in the FIFO": advancing write over the packet
\* and its length never meets read.
Fits_NoLength(p) == \A k \in 1..Len(p) : Slot(write, k) # read
Fits_Late(p) == \A k \in 1..(Len(p) + 1) : Slot(write, k) # read
Fits(p) == \A k \in 1..(Len(p) + 2) : Slot(write, k) # read

Init ==
    /\ data = [i \in Slots |-> 0]
    /\ write = 0
    /\ read = 0
    /\ pc = "look"
    /\ len = 0
    /\ buf = <<>>
    /\ got = <<>>
    /\ pending = <<>>

\* enc28j60_fifo_write_packet, in the handler.
WritePacket(p) ==
    LET bytes == Encode(p)
        \* how far slot i is behind write
        d(i) == (i - write) % Size
    IN
    /\ Fits(p)
    /\ data' = [i \in Slots |-> IF d(i) < Len(bytes) THEN bytes[d(i) + 1]
                                                     ELSE data[i]]
    /\ write' = Slot(write, Len(bytes))
    /\ pending' = Append(pending, p)
    /\ UNCHANGED <<read, readerVars>>

\* A packet that does not fit is dropped ("FIFO Full").
DropPacket(p) ==
    /\ ~Fits(p)
    /\ UNCHANGED vars

\* enc28j60_fifo_read_packet, in the main loop: returns 0 if there is nothing.
Look ==
    /\ pc = "look"
    /\ read # write
    /\ pc' = "high"
    /\ UNCHANGED <<ringVars, len, buf, got, pending>>

\* __enc28j60_fifo_read_byte: the byte at read, and read moves on.
NextByte == data[read]
Advance == read' = Slot(read, 1)

ReadHigh ==
    /\ pc = "high"
    /\ len' = NextByte * ByteBase
    /\ Advance
    /\ pc' = "low"
    /\ UNCHANGED <<data, write, buf, got, pending>>

ReadLow ==
    /\ pc = "low"
    /\ len' = len + NextByte
    /\ Advance
    /\ buf' = <<>>
    /\ pc' = "copy"
    /\ UNCHANGED <<data, write, got, pending>>

CopyByte ==
    /\ pc = "copy" /\ Len(buf) < len
    /\ buf' = Append(buf, NextByte)
    /\ Advance
    /\ UNCHANGED <<data, write, pc, len, got, pending>>

\* The packet is in read_buffer; the caller handles it and looks again.
ReturnPacket ==
    /\ pc = "copy" /\ Len(buf) = len
    /\ got' = buf
    /\ pending' = Tail(pending)
    /\ len' = 0
    /\ buf' = <<>>
    /\ pc' = "look"
    /\ UNCHANGED ringVars

Reader == Look \/ ReadHigh \/ ReadLow \/ CopyByte \/ ReturnPacket

Next == Reader \/ \E p \in Packets : WritePacket(p) \/ DropPacket(p)

Spec == Init /\ [][Next]_vars

(* The main loop polls for ever and a handler always ends: WF of the reader.*)
FairSpec == Spec /\ WF_vars(Reader)

-----------------------------------------------------------------------------
\* Occupied slots.
Used == (write - read) % Size

\* What the ring holds, from read on.
Contents == [k \in 1..Used |-> data[Slot(read, k - 1)]]

\* What the reader has taken out of the packet it is reading.
Taken ==
    CASE pc \in {"look", "high"} -> <<>>
      [] pc = "low"              -> <<len \div ByteBase>>
      [] pc = "copy"             -> <<len \div ByteBase, len % ByteBase>> \o buf

\* The bytes of the packets not yet returned, end to end.
Stream[n \in 0..Len(pending)] ==
    IF n = 0 THEN <<>> ELSE Stream[n - 1] \o Encode(pending[n])

\* Every variable has its type.
TypeOK ==
    /\ data \in [Slots -> Bytes]
    /\ write \in Slots
    /\ read \in Slots
    /\ pc \in {"look", "high", "low", "copy"}
    /\ len \in 0..(ByteBase * ByteBase - 1)
    /\ buf \in Seq(Bytes)
    /\ got \in Seq(Bytes)
    /\ pending \in Seq(Packets)

(* Nothing is lost, overwritten or read twice: the bytes taken out of the   *)
(* packet being read and those in the ring are those of the packets written *)
(* and not yet returned, wherever in the ring they wrap around and however  *)
(* often the handler runs in the middle of a packet (enc28j60.c:39-92).     *)
RingHoldsStream == Taken \o Contents = Stream[Len(pending)]

(* The loop at enc28j60.c:50-56 refuses a packet exactly if the packet, its *)
(* two length bytes and what the ring holds would fill all slots: the ring  *)
(* never becomes full, which read = write would take for empty, and no room *)
(* is wasted.                                                               *)
RefusesOnlyWhenFull ==
    \A p \in Packets : Fits(p) <=> Used + Len(p) + 2 <= Size - 1

Queue == INSTANCE PacketQueue WITH queue <- pending

(* Packets come out whole, unchanged and in order, and every packet that   *)
(* was accepted comes out in the end.                                      *)
ImplementsQueue == Queue!FairSpec
=============================================================================
