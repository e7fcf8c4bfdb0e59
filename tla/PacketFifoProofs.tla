-------------------------- MODULE PacketFifoProofs --------------------------
(***************************************************************************)
(* Proofs about PacketFifo, for all sizes of the ring and all packets: its *)
(* pointers, the bytes it holds, and that it implements PacketQueue.       *)
(***************************************************************************)
EXTENDS PacketFifo, WellFoundedInduction, TLAPS

PointersOK == write \in Slots /\ read \in Slots

\* Advancing by at most Size wraps around at most once.
LEMMA SlotValue ==
    ASSUME NEW i \in Slots, NEW k \in 0..Size
    PROVE  /\ Slot(i, k) \in Slots
           /\ Slot(i, k) = IF i + k < Size THEN i + k ELSE (i + k) - Size
  <1>1. /\ Size \in Nat /\ Size >= 1 /\ i \in 0..(Size - 1)
        /\ Slots = 0..(Size - 1) /\ Slot(i, k) = (i + k) % Size
    BY FifoAssumption DEF Slots, Slot
  <1>2. (i + k) % Size \in 0..(Size - 1)
    BY <1>1, SMT
  <1>3. CASE i + k < Size
    BY <1>1, <1>2, <1>3, SMT
  <1>4. CASE ~(i + k < Size)
    <2>1. (i + k) % Size = (i + k) - Size
      BY <1>1, <1>4, SMT
    <2> QED
      BY <1>1, <1>2, <1>4, <2>1
  <1> QED
    BY <1>3, <1>4

LEMMA SlotInRing ==
    ASSUME NEW i \in Slots, NEW k \in Nat
    PROVE  Slot(i, k) \in Slots
  <1>1. Size \in Nat /\ Size >= 1
    BY FifoAssumption
  <1>2. ASSUME NEW n \in Nat, n >= 1, NEW x \in Int
        PROVE  x % n \in 0..(n - 1)
    BY <1>2, SMT
  <1>3. i + k \in Int
    BY <1>1 DEF Slots
  <1> QED
    BY <1>1, <1>2, <1>3 DEF Slot, Slots

\* The number of occupied slots, without a remainder.
LEMMA UsedValue ==
    ASSUME PointersOK
    PROVE  /\ Used \in Slots
           /\ Used = IF write >= read THEN write - read ELSE (write - read) + Size
  <1>1. /\ Size \in Nat /\ Size >= 1 /\ Slots = 0..(Size - 1)
        /\ write \in 0..(Size - 1) /\ read \in 0..(Size - 1)
    BY FifoAssumption DEF PointersOK, Slots
  <1>2. (write - read) % Size \in 0..(Size - 1)
    BY <1>1, SMT
  <1>3. CASE write >= read
    <2>1. (write - read) % Size = write - read
      BY <1>1, <1>3, SMT
    <2> QED
      BY <1>1, <1>2, <1>3, <2>1 DEF Used
  <1>4. CASE ~(write >= read)
    <2>1. (write - read) % Size = (write - read) + Size
      BY <1>1, <1>4, SMT
    <2> QED
      BY <1>1, <1>2, <1>4, <2>1 DEF Used
  <1> QED
    BY <1>3, <1>4

\* Advancing write by k slots, at most once around, meets read just when k is
\* the number of free slots.
LEMMA MeetsRead ==
    ASSUME PointersOK, NEW k \in 1..Size
    PROVE  Slot(write, k) = read <=> k = Size - Used
  <1>1. Size \in Nat /\ write \in 0..(Size - 1) /\ read \in 0..(Size - 1)
    BY FifoAssumption DEF PointersOK, Slots
  <1>2. Slot(write, k) = IF write + k < Size THEN write + k ELSE (write + k) - Size
    BY <1>1, SlotValue DEF PointersOK
  <1>3. Used = IF write >= read THEN write - read ELSE (write - read) + Size
    BY UsedValue
  <1> QED
    BY <1>1, <1>2, <1>3

\* The loop that looks for room counts the occupied slots.
LEMMA FitsCounts ==
    ASSUME PointersOK, NEW p \in Packets
    PROVE  Fits(p) <=> Used + Len(p) + 2 <= Size - 1
  <1>1. Len(p) \in Nat /\ Size \in Nat /\ Size >= 2
    BY FifoAssumption
  <1>2. Used \in 0..(Size - 1)
    BY UsedValue DEF Slots
  <1>3. ASSUME Fits(p)
        PROVE  Used + Len(p) + 2 <= Size - 1
    <2> SUFFICES ASSUME ~(Used + Len(p) + 2 <= Size - 1)
                 PROVE  FALSE
      OBVIOUS
    <2>1. Size - Used \in 1..Size /\ Size - Used \in 1..(Len(p) + 2)
      BY <1>1, <1>2
    <2>2. Slot(write, Size - Used) = read
      BY <2>1, MeetsRead
    <2> QED
      BY <1>3, <2>1, <2>2 DEF Fits
  <1>4. ASSUME Used + Len(p) + 2 <= Size - 1
        PROVE  Fits(p)
    <2> SUFFICES ASSUME NEW k \in 1..(Len(p) + 2)
                 PROVE  Slot(write, k) # read
      BY DEF Fits
    <2>1. k \in 1..Size /\ k # Size - Used
      BY <1>1, <1>2, <1>4
    <2> QED
      BY <2>1, MeetsRead
  <1> QED
    BY <1>3, <1>4

LEMMA EncodeLength ==
    ASSUME NEW p \in Packets
    PROVE  Len(Encode(p)) = Len(p) + 2 /\ Len(p) \in Nat
  <1>1. p \in Seq(Bytes)
    BY FifoAssumption
  <1> QED
    BY <1>1 DEF Encode

(* Both pointers stay inside the ring (enc28j60.c:42, :72).                 *)
THEOREM Pointers == Spec => []PointersOK
  <1>1. Init => PointersOK
    BY FifoAssumption DEF Init, PointersOK, Slots
  <1>2. PointersOK /\ [Next]_vars => PointersOK'
    <2> SUFFICES ASSUME PointersOK, [Next]_vars
                 PROVE  PointersOK'
      OBVIOUS
    <2>1. CASE UNCHANGED ringVars
      BY <2>1 DEF ringVars, PointersOK
    <2>2. ASSUME Advance, write' = write
          PROVE  PointersOK'
      BY <2>2, SlotInRing DEF Advance, PointersOK
    <2>3. ASSUME NEW p \in Packets, WritePacket(p)
          PROVE  PointersOK'
      BY <2>3, EncodeLength, SlotInRing DEF WritePacket, PointersOK
    <2> QED
      BY <2>1, <2>2, <2>3
         DEF Next, Reader, Look, ReadHigh, ReadLow, CopyByte, ReturnPacket,
             DropPacket, vars
  <1> QED
    BY <1>1, <1>2, PTL DEF Spec

(* A packet is refused exactly when there is no room for it, in a ring of   *)
(* any size at any position of its pointers.                                *)
THEOREM RefusalExact == Spec => []RefusesOnlyWhenFull
  <1>1. PointersOK => RefusesOnlyWhenFull
    BY FitsCounts DEF RefusesOnlyWhenFull
  <1> QED
    BY <1>1, Pointers, PTL

(* Writing a packet takes exactly its room: the ring never fills up, which  *)
(* read = write would show as empty (enc28j60.c:78).                        *)
THEOREM WriteTakesItsRoom ==
    Spec => [][\A p \in Packets : WritePacket(p) => Used' = Used + Len(p) + 2]_vars
  <1>1. PointersOK /\ [Next]_vars =>
          [\A p \in Packets : WritePacket(p) => Used' = Used + Len(p) + 2]_vars
    <2> SUFFICES ASSUME PointersOK, NEW p \in Packets, WritePacket(p)
                 PROVE  Used' = Used + Len(p) + 2
      OBVIOUS
    <2>1. /\ Size \in Nat /\ Len(p) \in Nat
          /\ write \in 0..(Size - 1) /\ read \in 0..(Size - 1)
      BY FifoAssumption, EncodeLength DEF PointersOK, Slots
    <2>2. Used + Len(p) + 2 <= Size - 1
      BY FitsCounts DEF WritePacket
    <2>3. Used = IF write >= read THEN write - read ELSE (write - read) + Size
      BY UsedValue
    <2>4. Len(p) + 2 \in 0..Size
      BY <2>1, <2>2, <2>3
    <2>5. /\ write' = Slot(write, Len(p) + 2) /\ read' = read
      BY EncodeLength DEF WritePacket
    <2>6. write' = IF write + (Len(p) + 2) < Size THEN write + (Len(p) + 2)
                   ELSE (write + (Len(p) + 2)) - Size
      BY <2>4, <2>5, SlotValue DEF PointersOK
    <2>7. PointersOK'
      BY <2>1, <2>4, <2>5, SlotInRing DEF PointersOK
    <2>8. Used' = IF write' >= read' THEN write' - read' ELSE (write' - read') + Size
      <3>1. ASSUME NEW w \in Slots, NEW r \in Slots
            PROVE  (w - r) % Size = IF w >= r THEN w - r ELSE (w - r) + Size
        <4>1. Size \in Nat /\ Size >= 1 /\ w \in 0..(Size - 1) /\ r \in 0..(Size - 1)
          BY FifoAssumption DEF Slots
        <4> QED
          BY <4>1, SMT
      <3> QED
        BY <2>7, <3>1 DEF Used, PointersOK
    <2> QED
      BY <2>1, <2>2, <2>3, <2>5, <2>6, <2>8
  <1> QED
    BY <1>1, Pointers, PTL DEF Spec

-----------------------------------------------------------------------------
(* Induction over the naturals, with a set for the predicate: a nonempty set *)
(* of naturals has a least element.                                          *)

LEMMA LeastElement ==
    ASSUME NEW T, T \subseteq Nat, T # {}
    PROVE  \E x \in T : \A y \in T : x <= y
  <1>1. PICK x \in T : \A y \in T : ~(<<y, x>> \in OpToRel(<, Nat))
    <2> HIDE DEF OpToRel
    <2> QED
      BY NatLessThanWellFounded, WFMin, Zenon
  <1>2. ASSUME NEW y \in T
        PROVE  x <= y
    <2>1. ~(y < x)
      BY <1>1, Zenon DEF OpToRel
    <2> QED
      BY <2>1
  <1> QED
    BY <1>2

LEMMA SetInduction ==
    ASSUME NEW S, 0 \in S, \A n \in Nat : n \in S => n + 1 \in S
    PROVE  Nat \subseteq S
  <1> SUFFICES ASSUME Nat \ S # {}
               PROVE  FALSE
    OBVIOUS
  <1>1. PICK x \in Nat \ S : \A y \in Nat \ S : x <= y
    BY LeastElement
  <1>2. x - 1 \in Nat
    BY <1>1
  <1>3. x - 1 \in S
    BY <1>1, <1>2
  <1> QED
    BY <1>1, <1>2, <1>3

-----------------------------------------------------------------------------
(* The stream of a sequence of packets *)

IsStream(f, s) ==
    f = [n \in 0..Len(s) |-> IF n = 0 THEN <<>> ELSE f[n - 1] \o Encode(s[n])]

\* A length takes two bytes, and they give it back.
LEMMA LengthBytes ==
    ASSUME NEW l \in 0..(ByteBase * ByteBase - 1)
    PROVE  /\ l \div ByteBase \in Bytes /\ l % ByteBase \in Bytes
           /\ (l \div ByteBase) * ByteBase + (l % ByteBase) = l
  <1>1. ByteBase \in Nat /\ ByteBase >= 2
    BY FifoAssumption
  <1>2. ASSUME NEW b \in Nat, b >= 2, NEW x \in 0..(b * b - 1)
        PROVE  x \div b \in 0..(b - 1)
    BY <1>2
  <1>3. ASSUME NEW b \in Nat, b >= 2, NEW x \in 0..(b * b - 1)
        PROVE  (x \div b) * b + (x % b) = x
    BY <1>3
  <1>4. ASSUME NEW b \in Nat, b >= 2, NEW x \in Nat
        PROVE  x % b \in 0..(b - 1)
    BY <1>4
  <1>5. l \in Nat
    BY <1>1
  <1> QED
    BY <1>1, <1>2, <1>3, <1>4, <1>5 DEF Bytes

LEMMA TwoBytesLength ==
    ASSUME NEW h \in Bytes, NEW l \in Bytes
    PROVE  /\ h * ByteBase \in 0..(ByteBase * ByteBase - 1)
           /\ h * ByteBase + l \in 0..(ByteBase * ByteBase - 1)
           /\ (h * ByteBase) \div ByteBase = h
           /\ (h * ByteBase + l) \div ByteBase = h
           /\ (h * ByteBase + l) % ByteBase = l
  <1>1. ByteBase \in Nat /\ ByteBase >= 2
    BY FifoAssumption
  <1>2. ASSUME NEW b \in Nat, b >= 2, NEW x \in 0..(b - 1), NEW y \in 0..(b - 1)
        PROVE  x * b + y \in 0..(b * b - 1)
    BY <1>2
  <1>3. ASSUME NEW b \in Nat, b >= 2, NEW x \in 0..(b - 1), NEW y \in 0..(b - 1)
        PROVE  (x * b + y) \div b = x
    BY <1>3
  <1>4. ASSUME NEW b \in Nat, b >= 2, NEW x \in 0..(b - 1), NEW y \in 0..(b - 1)
        PROVE  (x * b + y) % b = y
    BY <1>4
  <1>5. 0 \in 0..(ByteBase - 1) /\ h * ByteBase + 0 = h * ByteBase
    BY <1>1 DEF Bytes
  <1> QED
    BY <1>1, <1>2, <1>3, <1>4, <1>5 DEF Bytes

LEMMA EncodeType ==
    ASSUME NEW p \in Packets
    PROVE  /\ p \in Seq(Bytes) /\ Encode(p) \in Seq(Bytes)
           /\ Len(Encode(p)) = Len(p) + 2
           /\ Len(p) \in 1..(ByteBase * ByteBase - 1)
           /\ Encode(p) = <<Len(p) \div ByteBase, Len(p) % ByteBase>> \o p
  <1>1. p \in Seq(Bytes) /\ Len(p) \in 1..(ByteBase * ByteBase - 1)
    BY FifoAssumption
  <1>2. Len(p) \in 0..(ByteBase * ByteBase - 1)
    BY <1>1, FifoAssumption
  <1>3. Len(p) \div ByteBase \in Bytes /\ Len(p) % ByteBase \in Bytes
    BY <1>2, LengthBytes
  <1>4. <<Len(p) \div ByteBase, Len(p) % ByteBase>> \in Seq(Bytes)
    BY <1>3
  <1> QED
    BY <1>1, <1>4, EncodeLength DEF Encode

LEMMA StreamExists ==
    ASSUME NEW s \in Seq(Packets)
    PROVE  \E f : IsStream(f, s)
  <1> DEFINE Upto(k) == \E f : f = [n \in 0..k |-> IF n = 0 THEN <<>> ELSE f[n - 1] \o Encode(s[n])]
             S == {k \in Nat : Upto(k)}
  <1>1. 0 \in S
    <2>1. [n \in {0} |-> <<>>] = [n \in 0..0 |-> IF n = 0 THEN <<>>
                                  ELSE [m \in {0} |-> <<>>][n - 1] \o Encode(s[n])]
      OBVIOUS
    <2> QED
      BY <2>1
  <1>2. ASSUME NEW k \in Nat, k \in S
        PROVE  k + 1 \in S
    <2>1. PICK f : f = [n \in 0..k |-> IF n = 0 THEN <<>> ELSE f[n - 1] \o Encode(s[n])]
      BY <1>2
    <2> DEFINE g == [n \in 0..(k + 1) |-> IF n = k + 1 THEN f[k] \o Encode(s[n]) ELSE f[n]]
               h == [n \in 0..(k + 1) |-> IF n = 0 THEN <<>> ELSE g[n - 1] \o Encode(s[n])]
    <2>2. ASSUME NEW n \in 0..(k + 1)
          PROVE  g[n] = h[n]
      <3>1. CASE n = k + 1
        BY <3>1
      <3>2. CASE n # k + 1 /\ n = 0
        BY <2>1, <3>2
      <3>3. CASE n # k + 1 /\ n # 0
        BY <2>1, <3>3
      <3> QED
        BY <3>1, <3>2, <3>3
    <2>3. g = h
      BY <2>2
    <2>4. Upto(k + 1)
      BY <2>3
    <2> QED
      BY <2>4
  <1>3. Nat \subseteq S
    <2> HIDE DEF S
    <2> QED
      BY <1>1, <1>2, SetInduction
  <1>4. Len(s) \in Nat => Upto(Len(s))
    BY <1>3
  <1>5. Len(s) \in Nat
    OBVIOUS
  <1> QED
    BY <1>4, <1>5 DEF IsStream

LEMMA ElementType ==
    ASSUME NEW T, NEW s \in Seq(T), NEW n \in 1..Len(s)
    PROVE  s[n] \in T
  OBVIOUS

LEMMA ConcatType ==
    ASSUME NEW T, NEW a \in Seq(T), NEW b \in Seq(T)
    PROVE  /\ a \o b \in Seq(T)
           /\ Len(a) \in Nat /\ Len(b) \in Nat
           /\ Len(a \o b) = Len(a) + Len(b)
           /\ \A n \in 1..Len(a) : (a \o b)[n] = a[n]
           /\ \A n \in 1..Len(b) : (a \o b)[Len(a) + n] = b[n]
  <1>1. ASSUME NEW n \in 1..Len(b)
        PROVE  (a \o b)[Len(a) + n] = b[n]
    OBVIOUS
  <1> QED
    BY <1>1

LEMMA StreamUnfolds ==
    ASSUME NEW s \in Seq(Packets), NEW f, IsStream(f, s)
    PROVE  /\ f[0] = <<>>
           /\ \A n \in 0..(Len(s) - 1) : f[n + 1] = f[n] \o Encode(s[n + 1])
  <1>1. Len(s) \in Nat
    OBVIOUS
  <1>2. f[0] = <<>>
    BY <1>1 DEF IsStream
  <1>3. ASSUME NEW n \in 0..(Len(s) - 1)
        PROVE  f[n + 1] = f[n] \o Encode(s[n + 1])
    <2>1. n + 1 \in 0..Len(s) /\ n + 1 # 0 /\ (n + 1) - 1 = n
      BY <1>1
    <2> QED
      BY <2>1 DEF IsStream
  <1> QED
    BY <1>2, <1>3

LEMMA StreamType ==
    ASSUME NEW s \in Seq(Packets), NEW f, IsStream(f, s)
    PROVE  \A n \in 0..Len(s) : f[n] \in Seq(Bytes)
  <1>1. Len(s) \in Nat
    OBVIOUS
  <1> DEFINE S == {n \in Nat : n <= Len(s) => f[n] \in Seq(Bytes)}
  <1>2. 0 \in S
    <2>1. f[0] = <<>>
      BY StreamUnfolds
    <2>2. <<>> \in Seq(Bytes)
      OBVIOUS
    <2> QED
      BY <2>1, <2>2, Zenon
  <1>3. ASSUME NEW n \in Nat, n \in S
        PROVE  n + 1 \in S
    <2> SUFFICES ASSUME n + 1 <= Len(s)
                 PROVE  f[n + 1] \in Seq(Bytes)
      OBVIOUS
    <2>1. n \in 0..(Len(s) - 1) /\ n + 1 \in 1..Len(s) /\ n <= Len(s)
      BY <1>1
    <2>2. f[n] \in Seq(Bytes)
      BY <1>3, <2>1
    <2>3. Encode(s[n + 1]) \in Seq(Bytes)
      <3>1. s[n + 1] \in Packets
        BY <2>1, ElementType
      <3> QED
        BY <3>1, EncodeType
    <2>4. f[n + 1] = f[n] \o Encode(s[n + 1])
      BY <2>1, StreamUnfolds
    <2> QED
      BY <2>2, <2>3, <2>4
  <1>4. Nat \subseteq S
    <2> HIDE DEF S
    <2> QED
      BY <1>2, <1>3, SetInduction
  <1> QED
    BY <1>1, <1>4

\* A packet appended to the packets is appended to the stream.
LEMMA StreamAppends ==
    ASSUME NEW s \in Seq(Packets), NEW p \in Packets,
           NEW f, IsStream(f, s), NEW g, IsStream(g, Append(s, p))
    PROVE  g[Len(s) + 1] = f[Len(s)] \o Encode(p)
  <1> DEFINE t == Append(s, p)
  <1>1. /\ Len(s) \in Nat /\ t \in Seq(Packets) /\ Len(t) = Len(s) + 1
        /\ t[Len(s) + 1] = p /\ \A n \in 1..Len(s) : t[n] = s[n]
    OBVIOUS
  <1>2. IsStream(g, t)
    OBVIOUS
  <1> HIDE DEF t
  <1> DEFINE S == {n \in Nat : n <= Len(s) => g[n] = f[n]}
  <1>3. 0 \in S
    <2>1. f[0] = <<>> /\ g[0] = <<>>
      BY <1>1, <1>2, StreamUnfolds
    <2> QED
      BY <2>1
  <1>4. ASSUME NEW n \in Nat, n \in S
        PROVE  n + 1 \in S
    <2> SUFFICES ASSUME n + 1 <= Len(s)
                 PROVE  g[n + 1] = f[n + 1]
      OBVIOUS
    <2>1. n \in 0..(Len(s) - 1) /\ n \in 0..(Len(t) - 1) /\ n + 1 \in 1..Len(s)
      BY <1>1
    <2>2. g[n] = f[n] /\ t[n + 1] = s[n + 1]
      BY <1>1, <1>4, <2>1
    <2>3. f[n + 1] = f[n] \o Encode(s[n + 1])
      BY <2>1, StreamUnfolds
    <2>4. g[n + 1] = g[n] \o Encode(t[n + 1])
      BY <1>1, <1>2, <2>1, StreamUnfolds
    <2> QED
      BY <2>2, <2>3, <2>4
  <1>5. Nat \subseteq S
    <2> HIDE DEF S
    <2> QED
      BY <1>3, <1>4, SetInduction
  <1>6. g[Len(s)] = f[Len(s)]
    BY <1>1, <1>5
  <1>7. g[Len(s) + 1] = g[Len(s)] \o Encode(t[Len(s) + 1])
    <2>1. Len(s) \in 0..(Len(t) - 1)
      BY <1>1
    <2> QED
      BY <1>1, <1>2, <2>1, StreamUnfolds
  <1> QED
    BY <1>1, <1>6, <1>7

LEMMA ConcatAssociative ==
    ASSUME NEW S, NEW a \in Seq(S), NEW b \in Seq(S), NEW c \in Seq(S)
    PROVE  (a \o b) \o c = a \o (b \o c)
  OBVIOUS

LEMMA BytesAssociative ==
    \A a, b, c \in Seq(Bytes) : (a \o b) \o c = a \o (b \o c)
  BY ConcatAssociative

LEMMA ConcatEmpty ==
    ASSUME NEW S, NEW a \in Seq(S)
    PROVE  a \o <<>> = a /\ <<>> \o a = a
  OBVIOUS

LEMMA SeqEqual ==
    ASSUME NEW S, NEW a \in Seq(S), NEW b \in Seq(S),
           Len(a) = Len(b), \A i \in 1..Len(a) : a[i] = b[i]
    PROVE  a = b
  OBVIOUS

\* Two ways to cut a sequence at the same place.
LEMMA ConcatCancels ==
    ASSUME NEW S, NEW a \in Seq(S), NEW b \in Seq(S), NEW c \in Seq(S), NEW d \in Seq(S),
           Len(a) = Len(c), a \o b = c \o d
    PROVE  a = c /\ b = d
  <1>1. /\ Len(a) \in Nat /\ Len(b) \in Nat /\ Len(d) \in Nat
        /\ Len(a \o b) = Len(a) + Len(b) /\ Len(c \o d) = Len(c) + Len(d)
    BY ConcatType
  <1>2. Len(b) = Len(d)
    BY <1>1
  <1>3. ASSUME NEW i \in 1..Len(a)
        PROVE  a[i] = c[i]
    <2>1. (a \o b)[i] = a[i] /\ (c \o d)[i] = c[i]
      OBVIOUS
    <2> QED
      BY <2>1
  <1>4. ASSUME NEW i \in 1..Len(b)
        PROVE  b[i] = d[i]
    <2>1. (a \o b)[Len(a) + i] = b[i]
      <3>1. ASSUME NEW T, NEW x \in Seq(T), NEW y \in Seq(T), NEW n \in 1..Len(y)
            PROVE  (x \o y)[Len(x) + n] = y[n]
        BY <3>1, ConcatType
      <3> QED
        BY <3>1, Zenon
    <2>2. (c \o d)[Len(c) + i] = d[i]
      <3>1. i \in 1..Len(d)
        BY <1>2
      <3> QED
        BY <3>1, ConcatType
    <2> QED
      BY <2>1, <2>2
  <1>5. a = c
    BY <1>3
  <1>6. b = d
    BY <1>2, <1>4, SeqEqual
  <1> QED
    BY <1>5, <1>6

\* The stream begins with the first packet and goes on with those behind it.
LEMMA StreamBeginsWithFirst ==
    ASSUME NEW s \in Seq(Packets), s # <<>>,
           NEW f, IsStream(f, s), NEW g, IsStream(g, Tail(s))
    PROVE  f[Len(s)] = Encode(s[1]) \o g[Len(s) - 1]
  <1> DEFINE t == Tail(s)
  <1>1. /\ Len(s) \in Nat \ {0} /\ t \in Seq(Packets) /\ Len(t) = Len(s) - 1
        /\ \A n \in 1..Len(t) : t[n] = s[n + 1]
    OBVIOUS
  <1>2. IsStream(g, t)
    OBVIOUS
  <1> HIDE DEF t
  <1>3. s[1] \in Packets /\ Encode(s[1]) \in Seq(Bytes)
    <2>1. s[1] \in Packets
      BY <1>1, ElementType
    <2> QED
      BY <2>1, EncodeType
  <1> DEFINE S == {n \in Nat : n <= Len(t) => f[n + 1] = Encode(s[1]) \o g[n]}
  <1>4. 0 \in S
    <2>1. f[0] = <<>> /\ g[0] = <<>>
      BY <1>1, <1>2, StreamUnfolds
    <2>2. f[0 + 1] = f[0] \o Encode(s[0 + 1])
      <3>1. 0 \in 0..(Len(s) - 1)
        BY <1>1
      <3> QED
        BY <3>1, StreamUnfolds
    <2>3. f[0 + 1] = Encode(s[1]) \o g[0]
      BY <1>3, <2>1, <2>2, ConcatEmpty
    <2> QED
      BY <2>3
  <1>5. ASSUME NEW n \in Nat, n \in S
        PROVE  n + 1 \in S
    <2> SUFFICES ASSUME n + 1 <= Len(t)
                 PROVE  f[(n + 1) + 1] = Encode(s[1]) \o g[n + 1]
      <3>1. n + 1 \in Nat
        OBVIOUS
      <3> QED
        BY <3>1, Zenon
    <2>1. /\ n \in 0..Len(t) /\ n \in 0..(Len(t) - 1) /\ n + 1 \in 1..Len(t)
          /\ n + 1 \in 0..(Len(s) - 1) /\ (n + 1) + 1 \in 1..Len(s)
      BY <1>1
    <2>2. f[n + 1] = Encode(s[1]) \o g[n]
      <3>1. n <= Len(t)
        BY <1>1, <2>1
      <3> QED
        BY <1>5, <3>1, Zenon
    <2>7. t[n + 1] = s[(n + 1) + 1]
      BY <1>1, <2>1, Zenon
    <2>3. f[(n + 1) + 1] = f[n + 1] \o Encode(s[(n + 1) + 1])
      BY <2>1, StreamUnfolds
    <2>4. g[n + 1] = g[n] \o Encode(t[n + 1])
      BY <1>1, <1>2, <2>1, StreamUnfolds
    <2>5. g[n] \in Seq(Bytes)
      BY <1>1, <1>2, <2>1, StreamType
    <2>6. Encode(t[n + 1]) \in Seq(Bytes)
      <3>1. t[n + 1] \in Packets
        BY <1>1, <2>1, ElementType
      <3> QED
        BY <3>1, EncodeType
    <2>8. f[(n + 1) + 1] = (Encode(s[1]) \o g[n]) \o Encode(t[n + 1])
      BY <2>2, <2>3, <2>7, Zenon
    <2>9. f[(n + 1) + 1] = Encode(s[1]) \o (g[n] \o Encode(t[n + 1]))
      <3>1. (Encode(s[1]) \o g[n]) \o Encode(t[n + 1])
              = Encode(s[1]) \o (g[n] \o Encode(t[n + 1]))
        <4>1. ASSUME NEW x \in Seq(Bytes), NEW y \in Seq(Bytes), NEW z \in Seq(Bytes)
              PROVE  (x \o y) \o z = x \o (y \o z)
          BY ONLY <4>1, ConcatAssociative
        <4> QED
          BY <1>3, <2>5, <2>6, <4>1, Zenon
      <3> QED
        BY <2>8, <3>1, Zenon
    <2> QED
      BY <2>4, <2>9, Zenon
  <1>6. Nat \subseteq S
    <2> HIDE DEF S
    <2> QED
      BY <1>4, <1>5, SetInduction
  <1>7. f[Len(t) + 1] = Encode(s[1]) \o g[Len(t)]
    <2>1. Len(t) \in Nat /\ Len(t) <= Len(t)
      BY <1>1
    <2> QED
      BY <1>6, <2>1, Zenon
  <1>8. Len(t) + 1 = Len(s) /\ Len(t) = Len(s) - 1
    BY <1>1
  <1> QED
    BY <1>7, <1>8, Zenon

-----------------------------------------------------------------------------
(* What the ring holds *)

ContentsOf(dt, w, r) == [k \in 1..((w - r) % Size) |-> dt[Slot(r, k - 1)]]

\* How far a slot is behind another, without a remainder.
LEMMA Distance ==
    ASSUME NEW w \in Slots, NEW r \in Slots
    PROVE  /\ (w - r) % Size \in 0..(Size - 1)
           /\ (w - r) % Size = IF w >= r THEN w - r ELSE (w - r) + Size
  <1>1. /\ Size \in Nat /\ Size >= 2
        /\ w \in 0..(Size - 1) /\ r \in 0..(Size - 1)
    BY FifoAssumption DEF Slots
  <1>2. ASSUME NEW n \in Nat, n >= 2, NEW x \in 0..(n - 1), NEW y \in 0..(n - 1)
        PROVE  /\ (x - y) % n \in 0..(n - 1)
               /\ (x - y) % n = IF x >= y THEN x - y ELSE (x - y) + n
    BY <1>2, SMT
  <1> QED
    BY <1>1, <1>2

LEMMA ContentsType ==
    ASSUME NEW dt \in [Slots -> Bytes], NEW w \in Slots, NEW r \in Slots
    PROVE  /\ ContentsOf(dt, w, r) \in Seq(Bytes)
           /\ Len(ContentsOf(dt, w, r)) = (w - r) % Size
           /\ (w - r) % Size \in 0..(Size - 1)
  <1>1. (w - r) % Size \in 0..(Size - 1) /\ Size \in Nat
    BY Distance, FifoAssumption
  <1>2. ASSUME NEW k \in 1..((w - r) % Size)
        PROVE  dt[Slot(r, k - 1)] \in Bytes
    <2>1. k - 1 \in Nat
      BY <1>1
    <2> QED
      BY <2>1, SlotInRing
  <1> DEFINE u == (w - r) % Size
  <1>3. u \in Nat /\ ContentsOf(dt, w, r) = [k \in 1..u |-> dt[Slot(r, k - 1)]]
    BY <1>1 DEF ContentsOf
  <1>4. \A k \in 1..u : dt[Slot(r, k - 1)] \in Bytes
    BY <1>2
  <1> HIDE DEF u
  <1>5. ContentsOf(dt, w, r) \in Seq(Bytes) /\ Len(ContentsOf(dt, w, r)) = u
    BY <1>3, <1>4
  <1> QED
    BY <1>1, <1>5 DEF u

\* Reading a byte takes the first one away.
LEMMA ContentsAdvance ==
    ASSUME NEW dt \in [Slots -> Bytes], NEW w \in Slots, NEW r \in Slots, w # r
    PROVE  /\ Slot(r, 1) \in Slots /\ dt[r] \in Bytes
           /\ ContentsOf(dt, w, r) = <<dt[r]>> \o ContentsOf(dt, w, Slot(r, 1))
  <1> DEFINE a == Slot(r, 1)
             u == (w - r) % Size
             C == ContentsOf(dt, w, r)
             D == ContentsOf(dt, w, a)
  <1>1. /\ Size \in Nat /\ Size >= 2 /\ Slots = 0..(Size - 1)
        /\ w \in 0..(Size - 1) /\ r \in 0..(Size - 1)
    BY FifoAssumption DEF Slots
  <1>2. a \in Slots /\ a = IF r + 1 < Size THEN r + 1 ELSE (r + 1) - Size
    <2>1. 1 \in 0..Size
      BY <1>1
    <2> QED
      BY <2>1, SlotValue
  <1>3. u \in 0..(Size - 1) /\ u = IF w >= r THEN w - r ELSE (w - r) + Size
    BY Distance
  <1>4. (w - a) % Size = IF w >= a THEN w - a ELSE (w - a) + Size
    BY <1>2, Distance
  <1>5. u >= 1 /\ (w - a) % Size = u - 1
    BY <1>1, <1>2, <1>3, <1>4
  <1>6. C \in Seq(Bytes) /\ Len(C) = u /\ D \in Seq(Bytes) /\ Len(D) = u - 1
    BY <1>2, <1>5, ContentsType
  <1>7. dt[r] \in Bytes /\ <<dt[r]>> \in Seq(Bytes) /\ Len(<<dt[r]>>) = 1
    OBVIOUS
  <1>8. ASSUME NEW k \in 1..u
        PROVE  C[k] = (<<dt[r]>> \o D)[k]
    <2>1. C[k] = dt[Slot(r, k - 1)]
      BY DEF ContentsOf
    <2>2. CASE k = 1
      <3>1. Slot(r, 0) = r
        BY <1>1, SlotValue
      <3>2. (<<dt[r]>> \o D)[1] = dt[r]
        BY <1>6, <1>7, ConcatType
      <3> QED
        BY <2>1, <2>2, <3>1, <3>2
    <2>3. CASE k # 1
      <3>1. k - 1 \in 1..(u - 1) /\ k - 1 \in 0..Size /\ (k - 1) - 1 \in 0..Size /\ 1 + (k - 1) = k
        BY <1>1, <1>3, <2>3
      <3>2. (<<dt[r]>> \o D)[1 + (k - 1)] = D[k - 1]
        BY <1>6, <1>7, <3>1, ConcatType
      <3>3. D[k - 1] = dt[Slot(a, (k - 1) - 1)]
        BY <1>5, <3>1 DEF ContentsOf
      <3>4. Slot(a, (k - 1) - 1) = IF a + ((k - 1) - 1) < Size THEN a + ((k - 1) - 1)
                                   ELSE (a + ((k - 1) - 1)) - Size
        BY <1>2, <3>1, SlotValue
      <3>5. Slot(r, k - 1) = IF r + (k - 1) < Size THEN r + (k - 1)
                             ELSE (r + (k - 1)) - Size
        BY <3>1, SlotValue
      <3>6. Slot(a, (k - 1) - 1) = Slot(r, k - 1)
        BY <1>1, <1>2, <1>3, <3>1, <3>4, <3>5
      <3> QED
        BY <2>1, <3>1, <3>2, <3>3, <3>6
    <2> QED
      BY <2>2, <2>3
  <1> HIDE DEF C, D, a
  <1>9. <<dt[r]>> \o D \in Seq(Bytes) /\ Len(<<dt[r]>> \o D) = u
    <2>1. Len(<<dt[r]>> \o D) = 1 + (u - 1)
      BY <1>6, <1>7, ConcatType
    <2> QED
      BY <1>3, <1>6, <1>7, <2>1, ConcatType
  <1>10. C = <<dt[r]>> \o D
    BY <1>6, <1>8, <1>9, SeqEqual
  <1> QED
    BY <1>2, <1>7, <1>10 DEF C, D, a

Written(dt, w, b) ==
    [i \in Slots |-> IF (i - w) % Size < Len(b) THEN b[((i - w) % Size) + 1] ELSE dt[i]]

\* Writing bytes appends them.
LEMMA ContentsWrite ==
    ASSUME NEW dt \in [Slots -> Bytes], NEW w \in Slots, NEW r \in Slots,
           NEW b \in Seq(Bytes), ((w - r) % Size) + Len(b) <= Size - 1
    PROVE  /\ Written(dt, w, b) \in [Slots -> Bytes] /\ Slot(w, Len(b)) \in Slots
           /\ ContentsOf(Written(dt, w, b), Slot(w, Len(b)), r) = ContentsOf(dt, w, r) \o b
  <1> SUFFICES ASSUME NEW e, e = Written(dt, w, b)
               PROVE  /\ e \in [Slots -> Bytes] /\ Slot(w, Len(b)) \in Slots
                      /\ ContentsOf(e, Slot(w, Len(b)), r) = ContentsOf(dt, w, r) \o b
    BY Zenon
  <1> DEFINE v == Slot(w, Len(b))
             u == (w - r) % Size
             C == ContentsOf(dt, w, r)
             D == ContentsOf(e, v, r)
  <1>1. /\ Size \in Nat /\ Size >= 2 /\ Slots = 0..(Size - 1)
        /\ w \in 0..(Size - 1) /\ r \in 0..(Size - 1)
        /\ Len(b) \in Nat
    BY FifoAssumption DEF Slots
  <1>2. u \in 0..(Size - 1) /\ u = IF w >= r THEN w - r ELSE (w - r) + Size
    BY Distance
  <1>3. u + Len(b) <= Size - 1 /\ Len(b) \in 0..Size
    BY <1>1, <1>2
  <1>4. v \in Slots /\ v = IF w + Len(b) < Size THEN w + Len(b) ELSE (w + Len(b)) - Size
    BY <1>3, SlotValue
  <1>5. (v - r) % Size = IF v >= r THEN v - r ELSE (v - r) + Size
    BY <1>4, Distance
  <1>6. (v - r) % Size = u + Len(b)
    <2> DEFINE x == (v - r) % Size
               l == Len(b)
    <2>1. /\ x = IF v >= r THEN v - r ELSE (v - r) + Size
          /\ l \in Nat /\ u + l <= Size - 1
          /\ v = IF w + l < Size THEN w + l ELSE (w + l) - Size
      BY <1>1, <1>3, <1>4, <1>5, Zenon
    <2> HIDE DEF u, v, x, l
    <2>2. x = u + l
      BY <1>1, <1>2, <2>1
    <2> QED
      BY <2>2, Zenon DEF x, l
  <1>7. ASSUME NEW i \in Slots
        PROVE  e[i] \in Bytes
    <2>1. (i - w) % Size \in 0..(Size - 1)
      BY Distance
    <2>4. e[i] = IF (i - w) % Size < Len(b) THEN b[((i - w) % Size) + 1] ELSE dt[i]
      BY DEF Written
    <2>2. CASE (i - w) % Size < Len(b)
      <3>1. ((i - w) % Size) + 1 \in 1..Len(b)
        BY <1>1, <2>1, <2>2
      <3>2. b[((i - w) % Size) + 1] \in Bytes
        BY <3>1, ElementType
      <3> QED
        BY <2>2, <2>4, <3>2
    <2>3. CASE ~((i - w) % Size < Len(b))
      BY <2>3, <2>4
    <2> QED
      BY <2>2, <2>3
  <1>8. e \in [Slots -> Bytes]
    BY <1>7 DEF Written
  <1>9. C \in Seq(Bytes) /\ Len(C) = u /\ D \in Seq(Bytes) /\ Len(D) = u + Len(b)
    BY <1>4, <1>6, <1>8, ContentsType
  <1>10. ASSUME NEW k \in 1..(u + Len(b))
         PROVE  D[k] = (C \o b)[k]
    <2> DEFINE i == Slot(r, k - 1)
    <2>1. D[k] = e[i]
      BY <1>6 DEF ContentsOf
    <2>2. k - 1 \in 0..Size
      BY <1>1, <1>2, <1>3
    <2>3. i \in Slots /\ i = IF r + (k - 1) < Size THEN r + (k - 1) ELSE (r + (k - 1)) - Size
      BY <2>2, SlotValue
    <2>4. (i - w) % Size = IF i >= w THEN i - w ELSE (i - w) + Size
      BY <2>3, Distance
    <2> HIDE DEF i
    <2>5. CASE k <= u
      <3>1. ~((i - w) % Size < Len(b))
        <4> DEFINE x == (i - w) % Size
        <4>1. x = IF i >= w THEN i - w ELSE (i - w) + Size
          BY <2>4, Zenon
        <4> HIDE DEF u, x
        <4>2. ~(x < Len(b))
          BY <1>1, <1>2, <1>3, <2>2, <2>3, <2>5, <4>1
        <4> QED
          BY <4>2, Zenon DEF x
      <3>2. e[i] = dt[i]
        BY <2>3, <3>1 DEF Written
      <3>3. k \in 1..u /\ k \in 1..Len(C)
        BY <1>2, <1>9, <2>5
      <3>4. C[k] = dt[i]
        BY <3>3 DEF ContentsOf, i
      <3>5. (C \o b)[k] = C[k]
        BY <1>9, <3>3, ConcatType
      <3> QED
        BY <2>1, <3>2, <3>4, <3>5
    <2>6. CASE ~(k <= u)
      <3>1. (i - w) % Size = (k - u) - 1 /\ k - u \in 1..Len(b) /\ Len(C) + (k - u) = k
        <4> DEFINE x == (i - w) % Size
        <4>1. x = IF i >= w THEN i - w ELSE (i - w) + Size
          BY <2>4, Zenon
        <4>2. Len(C) = u
          BY <1>9
        <4> HIDE DEF u, C, D, v, x
        <4>3. x = (k - u) - 1 /\ k - u \in 1..Len(b) /\ Len(C) + (k - u) = k
          BY <1>1, <1>2, <1>3, <2>2, <2>3, <2>6, <4>1, <4>2
        <4> QED
          BY <4>3, Zenon DEF x
      <3>2. (i - w) % Size < Len(b) /\ ((i - w) % Size) + 1 = k - u
        BY <1>1, <1>2, <3>1
      <3>3. e[i] = b[k - u]
        BY <2>3, <3>2 DEF Written
      <3>4. (C \o b)[Len(C) + (k - u)] = b[k - u]
        BY <1>9, <3>1, ConcatType
      <3> QED
        BY <2>1, <3>1, <3>3, <3>4
    <2> QED
      BY <2>5, <2>6
  <1> HIDE DEF C, D, v
  <1>11. C \o b \in Seq(Bytes) /\ Len(C \o b) = u + Len(b)
    BY <1>9, ConcatType
  <1>12. D = C \o b
    BY <1>9, <1>10, <1>11, SeqEqual
  <1> QED
    BY <1>4, <1>8, <1>12 DEF C, D, v

-----------------------------------------------------------------------------
(* The inductive invariant: besides the type and the stream itself, what the *)
(* reader has begun to take out is there.                                    *)

ReaderBusy ==
    /\ pc # "look" => pending # <<>>
    /\ pc = "low" => \E h \in Bytes : len = h * ByteBase

RingInv == TypeOK /\ RingHoldsStream /\ ReaderBusy

LEMMA ChosenStream ==
    ASSUME NEW s \in Seq(Packets), NEW f,
           f = CHOOSE g : g = [n \in 0..Len(s) |-> IF n = 0 THEN <<>>
                                                   ELSE g[n - 1] \o Encode(s[n])]
    PROVE  IsStream(f, s)
  <1>1. \E g : g = [n \in 0..Len(s) |-> IF n = 0 THEN <<>> ELSE g[n - 1] \o Encode(s[n])]
    BY StreamExists DEF IsStream
  <1> QED
    BY <1>1, Zenon DEF IsStream

LEMMA StreamIs ==
    ASSUME pending \in Seq(Packets)
    PROVE  IsStream(Stream, pending)
  BY ChosenStream, Zenon DEF Stream

LEMMA StreamNextIs ==
    ASSUME pending' \in Seq(Packets)
    PROVE  IsStream(Stream', pending')
  BY ChosenStream, Zenon DEF Stream

LEMMA ContentsAre ==
    /\ Contents = ContentsOf(data, write, read)
    /\ Contents' = ContentsOf(data', write', read')
  BY DEF Contents, ContentsOf, Used, Slot

\* What is taken, by the place where the reader is.
LEMMA TakenType ==
    ASSUME TypeOK, ReaderBusy
    PROVE  /\ Taken \in Seq(Bytes)
           /\ pc \in {"look", "high"} => Taken = <<>> /\ Len(Taken) = 0
           /\ pc = "low" => Taken = <<len \div ByteBase>> /\ Len(Taken) = 1
           /\ pc = "copy" => /\ Taken = <<len \div ByteBase, len % ByteBase>> \o buf
                             /\ Len(Taken) = 2 + Len(buf)
  <1>1. /\ pc \in {"look", "high", "low", "copy"} /\ buf \in Seq(Bytes)
        /\ len \in 0..(ByteBase * ByteBase - 1)
    BY DEF TypeOK
  <1>2. len \div ByteBase \in Bytes /\ len % ByteBase \in Bytes
    BY <1>1, LengthBytes
  <1>3. CASE pc \in {"look", "high"}
    <2>1. Taken = <<>>
      BY <1>3 DEF Taken
    <2> QED
      BY <1>3, <2>1
  <1>4. CASE pc = "low"
    <2>1. Taken = <<len \div ByteBase>>
      BY <1>4 DEF Taken
    <2>2. <<len \div ByteBase>> \in Seq(Bytes) /\ Len(<<len \div ByteBase>>) = 1
      BY <1>2
    <2> QED
      BY <1>4, <2>1, <2>2
  <1>5. CASE pc = "copy"
    <2> DEFINE h == <<len \div ByteBase, len % ByteBase>>
    <2>1. Taken = h \o buf
      BY <1>5 DEF Taken
    <2>2. h \in Seq(Bytes) /\ Len(h) = 2
      BY <1>2
    <2> HIDE DEF h
    <2>3. h \o buf \in Seq(Bytes) /\ Len(h \o buf) = 2 + Len(buf)
      <3>1. h \o buf \in Seq(Bytes) /\ Len(h \o buf) = Len(h) + Len(buf)
        BY <1>1, <2>2, ConcatType, Zenon
      <3> QED
        BY <2>2, <3>1
    <2> QED
      BY <1>5, <2>1, <2>3 DEF h
  <1> QED
    BY <1>1, <1>3, <1>4, <1>5

\* While packets are pending, the bytes taken and those in the ring begin with
\* the first of them: there are more in the ring if not all of it is taken, and
\* once its length is taken it is the right one.
LEMMA FirstPacket ==
    ASSUME RingInv, pending # <<>>
    PROVE  LET p == pending[1] IN
           /\ p \in Packets /\ Len(pending) \in Nat /\ Len(pending) >= 1
           /\ \E rest \in Seq(Bytes) :
                 /\ Taken \o Contents = Encode(p) \o rest
                 /\ \A g : IsStream(g, Tail(pending)) => g[Len(pending) - 1] = rest
           /\ Len(Taken) < Len(Encode(p)) => read # write
           /\ pc = "copy" => len = Len(p)
  <1> DEFINE p == pending[1]
  <1>1. /\ pending \in Seq(Packets) /\ Len(pending) \in Nat /\ Len(pending) >= 1
        /\ Tail(pending) \in Seq(Packets) /\ Len(Tail(pending)) = Len(pending) - 1
        /\ data \in [Slots -> Bytes] /\ read \in Slots /\ write \in Slots
        /\ len \in 0..(ByteBase * ByteBase - 1)
    BY DEF RingInv, TypeOK
  <1>2. p \in Packets
    BY <1>1, ElementType
  <1> HIDE DEF p
  <1>3. /\ Encode(p) \in Seq(Bytes) /\ Len(Encode(p)) = Len(p) + 2
        /\ Len(p) \in 0..(ByteBase * ByteBase - 1) /\ p \in Seq(Bytes)
        /\ Encode(p) = <<Len(p) \div ByteBase, Len(p) % ByteBase>> \o p
    BY <1>2, EncodeType, FifoAssumption
  <1>4. Taken \in Seq(Bytes) /\ Len(Taken) \in Nat
    BY TakenType DEF RingInv
  <1>5. Contents \in Seq(Bytes) /\ Len(Contents) = (write - read) % Size
    BY <1>1, ContentsAre, ContentsType
  <1>6. PICK g0 : IsStream(g0, Tail(pending))
    BY <1>1, StreamExists
  <1> DEFINE rest == g0[Len(pending) - 1]
  <1>7. rest \in Seq(Bytes)
    <2>1. Len(pending) - 1 \in 0..Len(Tail(pending))
      BY <1>1
    <2> QED
      BY <1>1, <1>6, <2>1, StreamType
  <1>8. Taken \o Contents = Stream[Len(pending)]
    BY DEF RingInv, RingHoldsStream
  <1>9. ASSUME NEW g, IsStream(g, Tail(pending))
        PROVE  Stream[Len(pending)] = Encode(p) \o g[Len(pending) - 1] /\ g[Len(pending) - 1] \in Seq(Bytes)
    <2>1. Len(pending) - 1 \in 0..Len(Tail(pending))
      BY <1>1
    <2>2. g[Len(pending) - 1] \in Seq(Bytes)
      BY <1>1, <1>9, <2>1, StreamType
    <2> QED
      BY <1>1, <1>9, <2>2, StreamIs, StreamBeginsWithFirst DEF p
  <1>10. Taken \o Contents = Encode(p) \o rest
    BY <1>6, <1>8, <1>9
  <1>11. ASSUME NEW g, IsStream(g, Tail(pending))
         PROVE  g[Len(pending) - 1] = rest
    <2> HIDE DEF rest
    <2>1. Encode(p) \o g[Len(pending) - 1] = Encode(p) \o rest
      BY <1>8, <1>9, <1>10, <1>11
    <2> QED
      BY <1>3, <1>7, <1>9, <1>11, <2>1, ConcatCancels
  <1> HIDE DEF rest
  <1>12. ASSUME Len(Taken) < Len(Encode(p))
         PROVE  read # write
    <2>1. Len(Taken \o Contents) = Len(Taken) + Len(Contents) /\ Len(Contents) \in Nat
      BY <1>4, <1>5, ConcatType
    <2>2. Len(Encode(p) \o rest) = Len(Encode(p)) + Len(rest) /\ Len(rest) \in Nat
          /\ Len(Encode(p)) \in Nat
      BY <1>3, <1>7, ConcatType
    <2>3. Len(Contents) # 0
      BY <1>4, <1>10, <1>12, <2>1, <2>2
    <2>4. read = write => (write - read) % Size = 0
      BY <1>1, Distance, FifoAssumption DEF Slots
    <2> QED
      BY <1>5, <2>3, <2>4
  <1>13. ASSUME pc = "copy"
         PROVE  len = Len(p)
    <2> DEFINE h == <<len \div ByteBase, len % ByteBase>>
               q == <<Len(p) \div ByteBase, Len(p) % ByteBase>>
    <2>1. Taken = h \o buf /\ Encode(p) = q \o p /\ buf \in Seq(Bytes)
      BY <1>3, <1>13, TakenType DEF RingInv, TypeOK
    <2>2. /\ len \div ByteBase \in Bytes /\ len % ByteBase \in Bytes
          /\ Len(p) \div ByteBase \in Bytes /\ Len(p) % ByteBase \in Bytes
          /\ (len \div ByteBase) * ByteBase + (len % ByteBase) = len
          /\ (Len(p) \div ByteBase) * ByteBase + (Len(p) % ByteBase) = Len(p)
      BY <1>1, <1>3, LengthBytes
    <2>3. h \in Seq(Bytes) /\ q \in Seq(Bytes) /\ Len(h) = Len(q)
      BY <2>2
    <2>4. h = q
      <3> HIDE DEF h, q
      <3>1. (h \o buf) \o Contents = h \o (buf \o Contents)
        BY <1>5, <2>1, <2>3, BytesAssociative, Zenon
      <3>2. (q \o p) \o rest = q \o (p \o rest)
        BY <1>3, <1>7, <2>3, BytesAssociative, Zenon
      <3>3. h \o (buf \o Contents) = q \o (p \o rest)
        BY <1>10, <2>1, <3>1, <3>2
      <3>4. buf \o Contents \in Seq(Bytes) /\ p \o rest \in Seq(Bytes)
        BY <1>3, <1>5, <1>7, <2>1, ConcatType
      <3> QED
        BY <2>3, <3>3, <3>4, ConcatCancels
    <2>5. len \div ByteBase = Len(p) \div ByteBase /\ len % ByteBase = Len(p) % ByteBase
      BY <2>4
    <2> QED
      BY <2>2, <2>5, Zenon
  <1> QED
    BY <1>1, <1>2, <1>7, <1>10, <1>11, <1>12, <1>13, Zenon DEF p

\* The reader takes a byte out of the ring.
LEMMA ReaderTakes ==
    ASSUME RingInv, pending # <<>>, Len(Taken) < Len(Encode(pending[1])),
           Advance, UNCHANGED <<data, write, pending>>
    PROVE  /\ NextByte \in Bytes /\ read' \in Slots
           /\ \A t \in Seq(Bytes) :
                 t = Taken /\ t \o <<NextByte>> = Taken' => RingHoldsStream'
  <1>1. /\ data \in [Slots -> Bytes] /\ read \in Slots /\ write \in Slots
        /\ pending \in Seq(Packets)
    BY DEF RingInv, TypeOK
  <1>2. read # write
    BY FirstPacket, Zenon
  <1>3. read' = Slot(read, 1) /\ data' = data /\ write' = write /\ pending' = pending
    BY DEF Advance
  <1>4. /\ read' \in Slots /\ NextByte \in Bytes
        /\ Contents = <<NextByte>> \o Contents'
    BY <1>1, <1>2, <1>3, ContentsAre, ContentsAdvance DEF NextByte
  <1>5. Contents' \in Seq(Bytes)
    BY <1>1, <1>3, <1>4, ContentsAre, ContentsType
  <1>6. ASSUME NEW t \in Seq(Bytes), t \o <<NextByte>> = Taken', t = Taken
        PROVE  RingHoldsStream'
    <2>1. <<NextByte>> \in Seq(Bytes)
      BY <1>4
    <2>2. Taken' \o Contents' = t \o (<<NextByte>> \o Contents')
      <3>1. (t \o <<NextByte>>) \o Contents' = t \o (<<NextByte>> \o Contents')
        BY <1>5, <2>1, BytesAssociative, Zenon
      <3> QED
        BY <1>6, <3>1, Zenon
    <2>3. Taken' \o Contents' = Stream[Len(pending)]
      BY <1>4, <1>6, <2>2 DEF RingInv, RingHoldsStream
    <2>4. Stream' = Stream
      BY <1>3 DEF Stream
    <2> QED
      BY <1>3, <2>3, <2>4 DEF RingHoldsStream
  <1> QED
    BY <1>4, <1>6

LEMMA WriteKeepsRing ==
    ASSUME RingInv, NEW p \in Packets, WritePacket(p)
    PROVE  RingInv'
  <1>1. /\ data \in [Slots -> Bytes] /\ read \in Slots /\ write \in Slots
        /\ pending \in Seq(Packets) /\ PointersOK
    BY DEF RingInv, TypeOK, PointersOK
  <1>2. Encode(p) \in Seq(Bytes) /\ Len(Encode(p)) = Len(p) + 2 /\ Len(p) \in Nat
    BY EncodeType, EncodeLength
  <1>3. /\ UNCHANGED <<read, pc, len, buf, got>> /\ Fits(p)
        /\ pending' = Append(pending, p) /\ write' = Slot(write, Len(Encode(p)))
        /\ data' = Written(data, write, Encode(p))
    BY DEF WritePacket, readerVars, Written
  <1>4. ((write - read) % Size) + Len(Encode(p)) <= Size - 1
    <2>1. Used + Len(p) + 2 <= Size - 1 /\ Used \in Slots
      BY <1>1, <1>3, FitsCounts, UsedValue
    <2>2. Used \in Nat /\ Size \in Nat
      BY <2>1, FifoAssumption DEF Slots
    <2>3. Used + Len(Encode(p)) <= Size - 1
      <3> HIDE DEF Used
      <3> QED
        BY <1>2, <2>1, <2>2
    <2> QED
      BY <2>3, Zenon DEF Used
  <1>5. /\ data' \in [Slots -> Bytes] /\ write' \in Slots /\ read' \in Slots
        /\ Contents' = Contents \o Encode(p)
    <2>1. /\ data' \in [Slots -> Bytes] /\ Slot(write, Len(Encode(p))) \in Slots
          /\ ContentsOf(data', Slot(write, Len(Encode(p))), read)
                = ContentsOf(data, write, read) \o Encode(p)
      BY <1>1, <1>2, <1>3, <1>4, ContentsWrite
    <2>2. /\ Contents = ContentsOf(data, write, read)
          /\ Contents' = ContentsOf(data', write', read')
      BY ContentsAre
    <2>3. read' = read /\ write' = Slot(write, Len(Encode(p)))
      BY <1>3
    <2> QED
      BY <1>1, <2>1, <2>2, <2>3, Zenon
  <1>6. pending' \in Seq(Packets) /\ pending' # <<>> /\ Len(pending') = Len(pending) + 1
    BY <1>1, <1>3
  <1>7. TypeOK'
    BY <1>3, <1>5, <1>6 DEF RingInv, TypeOK
  <1>8. ReaderBusy'
    BY <1>3, <1>6 DEF RingInv, ReaderBusy
  <1>9. RingHoldsStream'
    <2>1. Taken' = Taken
      BY <1>3 DEF Taken
    <2>2. Taken \in Seq(Bytes) /\ Contents \in Seq(Bytes)
      BY <1>1, TakenType, ContentsAre, ContentsType DEF RingInv
    <2>3. Taken' \o Contents' = (Taken \o Contents) \o Encode(p)
      <3>1. (Taken \o Contents) \o Encode(p) = Taken \o (Contents \o Encode(p))
        BY <1>2, <2>2, BytesAssociative, Zenon
      <3> QED
        BY <1>5, <2>1, <3>1, Zenon
    <2>4. Taken \o Contents = Stream[Len(pending)]
      BY DEF RingInv, RingHoldsStream
    <2>5. IsStream(Stream, pending) /\ IsStream(Stream', Append(pending, p))
      BY <1>1, <1>3, <1>6, StreamIs, StreamNextIs
    <2>6. Stream'[Len(pending) + 1] = Stream[Len(pending)] \o Encode(p)
      BY <1>1, <2>5, StreamAppends
    <2> QED
      BY <1>6, <2>3, <2>4, <2>6 DEF RingHoldsStream
  <1> QED
    BY <1>7, <1>8, <1>9 DEF RingInv

\* The packet that is returned is the first one pending.
LEMMA ReturnsFirst ==
    ASSUME RingInv, ReturnPacket
    PROVE  /\ pending # <<>> /\ buf = pending[1] /\ buf \in Seq(Bytes)
           /\ \A g : IsStream(g, Tail(pending)) => Contents = g[Len(pending) - 1]
  <1>1. /\ pc = "copy" /\ Len(buf) = len /\ pending # <<>> /\ buf \in Seq(Bytes)
        /\ data \in [Slots -> Bytes] /\ read \in Slots /\ write \in Slots
        /\ len \in 0..(ByteBase * ByteBase - 1)
    BY DEF ReturnPacket, RingInv, TypeOK, ReaderBusy
  <1> DEFINE p == pending[1]
             h == <<len \div ByteBase, len % ByteBase>>
  <1>2. /\ p \in Packets /\ len = Len(p)
        /\ \E r \in Seq(Bytes) :
              /\ Taken \o Contents = Encode(p) \o r
              /\ \A g : IsStream(g, Tail(pending)) => g[Len(pending) - 1] = r
    BY <1>1, FirstPacket, Zenon
  <1> HIDE DEF p
  <1>3. PICK rest \in Seq(Bytes) :
              /\ Taken \o Contents = Encode(p) \o rest
              /\ \A g : IsStream(g, Tail(pending)) => g[Len(pending) - 1] = rest
    BY <1>2
  <1>4. /\ p \in Seq(Bytes) /\ Encode(p) \in Seq(Bytes)
        /\ Encode(p) = <<Len(p) \div ByteBase, Len(p) % ByteBase>> \o p
    BY <1>2, EncodeType
  <1>5. Encode(p) = h \o p
    BY <1>2, <1>4, Zenon
  <1>6. Taken = h \o buf /\ Taken \in Seq(Bytes)
    BY <1>1, TakenType DEF RingInv
  <1>7. Contents \in Seq(Bytes)
    BY <1>1, ContentsAre, ContentsType
  <1>8. h \in Seq(Bytes) /\ Len(h) = 2
    <2>1. len \div ByteBase \in Bytes /\ len % ByteBase \in Bytes
      BY <1>1, LengthBytes
    <2> QED
      BY <2>1
  <1> HIDE DEF h
  <1>9. Len(Taken) = Len(Encode(p))
    <2>1. Len(h \o buf) = Len(h) + Len(buf)
      BY <1>1, <1>8, ConcatType, Zenon
    <2>2. Len(h \o p) = Len(h) + Len(p)
      BY <1>4, <1>8, ConcatType, Zenon
    <2> QED
      BY <1>1, <1>2, <1>5, <1>6, <2>1, <2>2
  <1>10. Taken = Encode(p) /\ Contents = rest
    BY <1>3, <1>4, <1>6, <1>7, <1>9, ConcatCancels
  <1>11. buf = p
    <2>1. h \o buf = h \o p
      BY <1>5, <1>6, <1>10
    <2> QED
      BY <1>1, <1>4, <1>8, <2>1, ConcatCancels
  <1> QED
    BY <1>1, <1>3, <1>10, <1>11, Zenon DEF p

LEMMA ReturnKeepsRing ==
    ASSUME RingInv, ReturnPacket
    PROVE  RingInv'
  <1>1. /\ pending \in Seq(Packets) /\ pending # <<>> /\ buf \in Seq(Bytes)
        /\ data \in [Slots -> Bytes] /\ read \in Slots /\ write \in Slots
    BY ReturnsFirst DEF RingInv, TypeOK
  <1>2. /\ got' = buf /\ pending' = Tail(pending) /\ len' = 0 /\ buf' = <<>>
        /\ pc' = "look" /\ UNCHANGED <<data, write, read>>
    BY DEF ReturnPacket, ringVars
  <1>3. pending' \in Seq(Packets) /\ Len(pending') = Len(pending) - 1
    BY <1>1, <1>2
  <1>4. 0 \in 0..(ByteBase * ByteBase - 1)
    <2>1. 0 \in Bytes /\ 0 * ByteBase = 0
      BY FifoAssumption DEF Bytes
    <2> QED
      BY <2>1, TwoBytesLength
  <1>5. TypeOK'
    BY <1>1, <1>2, <1>3, <1>4 DEF TypeOK
  <1>6. ReaderBusy'
    BY <1>2 DEF ReaderBusy
  <1>7. RingHoldsStream'
    <2>1. Taken' = <<>>
      BY <1>2 DEF Taken
    <2>2. Contents' = Contents
      BY <1>2, ContentsAre
    <2>3. Contents \in Seq(Bytes)
      BY <1>1, ContentsAre, ContentsType
    <2>4. IsStream(Stream', Tail(pending))
      BY <1>2, <1>3, StreamNextIs
    <2>5. Contents = Stream'[Len(pending) - 1]
      BY <2>4, ReturnsFirst
    <2>6. Taken' \o Contents' = Contents
      BY <2>1, <2>2, <2>3, ConcatEmpty
    <2> QED
      BY <1>3, <2>5, <2>6 DEF RingHoldsStream
  <1> QED
    BY <1>5, <1>6, <1>7 DEF RingInv

LEMMA LookKeepsRing ==
    ASSUME RingInv, Look
    PROVE  RingInv'
  <1>1. /\ pc = "look" /\ pc' = "high" /\ read # write
        /\ UNCHANGED <<data, write, read, len, buf, got, pending>>
    BY DEF Look, ringVars
  <1>2. /\ data \in [Slots -> Bytes] /\ read \in Slots /\ write \in Slots
        /\ pending \in Seq(Packets)
    BY DEF RingInv, TypeOK
  <1>3. TypeOK'
    BY <1>1 DEF RingInv, TypeOK
  <1>4. pending # <<>>
    <2> SUFFICES ASSUME pending = <<>>
                 PROVE  FALSE
      OBVIOUS
    <2>1. Stream[Len(pending)] = <<>>
      BY <1>2, StreamIs, StreamUnfolds
    <2>2. Taken = <<>>
      BY <1>1 DEF Taken
    <2>3. Contents \in Seq(Bytes) /\ Len(Contents) = (write - read) % Size
      BY <1>2, ContentsAre, ContentsType
    <2>4. Contents = <<>>
      BY <2>1, <2>2, <2>3, ConcatEmpty DEF RingInv, RingHoldsStream
    <2>5. (write - read) % Size = 0
      BY <2>3, <2>4
    <2>6. (write - read) % Size = IF write >= read THEN write - read ELSE (write - read) + Size
      BY <1>2, Distance
    <2>7. Size \in Nat /\ write \in 0..(Size - 1) /\ read \in 0..(Size - 1)
      BY <1>2, FifoAssumption DEF Slots
    <2> QED
      BY <1>1, <2>5, <2>6, <2>7
  <1>5. ReaderBusy'
    BY <1>1, <1>4 DEF ReaderBusy
  <1>6. RingHoldsStream'
    <2>1. Taken' = Taken
      BY <1>1 DEF Taken
    <2>2. Contents' = Contents
      BY <1>1, ContentsAre
    <2>3. Stream' = Stream
      BY <1>1 DEF Stream
    <2> QED
      BY <1>1, <2>1, <2>2, <2>3 DEF RingInv, RingHoldsStream
  <1> QED
    BY <1>3, <1>5, <1>6 DEF RingInv

LEMMA ReadHighKeepsRing ==
    ASSUME RingInv, ReadHigh
    PROVE  RingInv'
  <1>1. /\ pc = "high" /\ pc' = "low" /\ len' = NextByte * ByteBase /\ Advance
        /\ UNCHANGED <<data, write, buf, got, pending>>
    BY DEF ReadHigh
  <1>2. pending # <<>> /\ pending[1] \in Packets
    BY <1>1, FirstPacket, Zenon DEF RingInv, ReaderBusy
  <1>3. Taken = <<>> /\ Len(Taken) < Len(Encode(pending[1]))
    <2>1. Taken = <<>> /\ Len(Taken) = 0
      BY <1>1, TakenType DEF RingInv
    <2>2. Len(Encode(pending[1])) = Len(pending[1]) + 2 /\ Len(pending[1]) \in Nat
      BY <1>2, EncodeLength
    <2> QED
      BY <2>1, <2>2
  <1>4. /\ NextByte \in Bytes /\ read' \in Slots
        /\ \A t \in Seq(Bytes) :
                 t = Taken /\ t \o <<NextByte>> = Taken' => RingHoldsStream'
    BY <1>1, <1>2, <1>3, ReaderTakes
  <1>5. len' \in 0..(ByteBase * ByteBase - 1) /\ len' \div ByteBase = NextByte
    BY <1>1, <1>4, TwoBytesLength
  <1>6. TypeOK'
    BY <1>1, <1>4, <1>5 DEF RingInv, TypeOK
  <1>7. ReaderBusy'
    BY <1>1, <1>2, <1>4 DEF ReaderBusy
  <1>8. RingHoldsStream'
    <2>1. Taken' = <<NextByte>>
      BY <1>1, <1>5 DEF Taken
    <2>2. <<>> \o <<NextByte>> = <<NextByte>> /\ <<>> \in Seq(Bytes)
      <3>1. <<NextByte>> \in Seq(Bytes)
        BY <1>4
      <3> QED
        BY <3>1, ConcatEmpty
    <2> QED
      BY <1>3, <1>4, <2>1, <2>2, Zenon
  <1> QED
    BY <1>6, <1>7, <1>8 DEF RingInv

LEMMA ReadLowKeepsRing ==
    ASSUME RingInv, ReadLow
    PROVE  RingInv'
  <1>1. /\ pc = "low" /\ pc' = "copy" /\ len' = len + NextByte /\ Advance /\ buf' = <<>>
        /\ UNCHANGED <<data, write, got, pending>>
    BY DEF ReadLow
  <1>2. pending # <<>> /\ pending[1] \in Packets
    BY <1>1, FirstPacket, Zenon DEF RingInv, ReaderBusy
  <1>3. PICK h \in Bytes : len = h * ByteBase
    BY <1>1 DEF RingInv, ReaderBusy
  <1>4. len \div ByteBase = h
    BY <1>3, TwoBytesLength
  <1>5. Taken = <<h>> /\ Len(Taken) < Len(Encode(pending[1]))
    <2>1. Taken = <<len \div ByteBase>> /\ Len(Taken) = 1
      BY <1>1, TakenType DEF RingInv
    <2>2. Len(Encode(pending[1])) = Len(pending[1]) + 2 /\ Len(pending[1]) \in Nat
      BY <1>2, EncodeLength
    <2> QED
      BY <1>4, <2>1, <2>2
  <1>6. /\ NextByte \in Bytes /\ read' \in Slots
        /\ \A t \in Seq(Bytes) :
                 t = Taken /\ t \o <<NextByte>> = Taken' => RingHoldsStream'
    BY <1>1, <1>2, <1>5, ReaderTakes
  <1>7. /\ len' \in 0..(ByteBase * ByteBase - 1)
        /\ len' \div ByteBase = h /\ len' % ByteBase = NextByte
    BY <1>1, <1>3, <1>6, TwoBytesLength
  <1>8. TypeOK'
    <2>1. <<>> \in Seq(Bytes)
      OBVIOUS
    <2> QED
      BY <1>1, <1>6, <1>7, <2>1 DEF RingInv, TypeOK
  <1>9. ReaderBusy'
    BY <1>1, <1>2 DEF ReaderBusy
  <1>10. RingHoldsStream'
    <2>1. Taken' = <<h, NextByte>> \o <<>>
      BY <1>1, <1>7 DEF Taken
    <2>2. <<h, NextByte>> \in Seq(Bytes) /\ <<h>> \in Seq(Bytes)
      BY <1>6
    <2>3. Taken' = <<h>> \o <<NextByte>>
      <3>1. Taken' = <<h, NextByte>>
        BY <2>1, <2>2, ConcatEmpty
      <3>2. <<h, NextByte>> = <<h>> \o <<NextByte>>
        BY <1>6
      <3> QED
        BY <3>1, <3>2
    <2> QED
      BY <1>5, <1>6, <2>2, <2>3, Zenon
  <1> QED
    BY <1>8, <1>9, <1>10 DEF RingInv

LEMMA CopyByteKeepsRing ==
    ASSUME RingInv, CopyByte
    PROVE  RingInv'
  <1>1. /\ pc = "copy" /\ pc' = "copy" /\ Len(buf) < len /\ Advance
        /\ buf' = Append(buf, NextByte)
        /\ UNCHANGED <<data, write, len, got, pending>>
    BY DEF CopyByte
  <1>2. /\ pending # <<>> /\ pending[1] \in Packets /\ len = Len(pending[1])
    BY <1>1, FirstPacket, Zenon DEF RingInv, ReaderBusy
  <1> DEFINE h == <<len \div ByteBase, len % ByteBase>>
  <1>3. /\ Taken = h \o buf /\ Len(Taken) = 2 + Len(buf) /\ buf \in Seq(Bytes)
        /\ Taken \in Seq(Bytes)
    BY <1>1, TakenType DEF RingInv, TypeOK
  <1>4. Len(Taken) < Len(Encode(pending[1]))
    <2>1. Len(Encode(pending[1])) = Len(pending[1]) + 2 /\ Len(pending[1]) \in Nat
      BY <1>2, EncodeLength
    <2>2. Len(buf) \in Nat
      BY <1>3
    <2> QED
      BY <1>1, <1>2, <1>3, <2>1, <2>2
  <1>5. /\ NextByte \in Bytes /\ read' \in Slots
        /\ \A t \in Seq(Bytes) :
                 t = Taken /\ t \o <<NextByte>> = Taken' => RingHoldsStream'
    BY <1>1, <1>2, <1>4, ReaderTakes
  <1>6. TypeOK'
    <2>1. buf' \in Seq(Bytes)
      BY <1>1, <1>3, <1>5
    <2> QED
      BY <1>1, <1>5, <2>1 DEF RingInv, TypeOK
  <1>7. ReaderBusy'
    BY <1>1, <1>2 DEF ReaderBusy
  <1>8. h \in Seq(Bytes)
    <2>1. len \div ByteBase \in Bytes /\ len % ByteBase \in Bytes
      BY LengthBytes DEF RingInv, TypeOK
    <2> QED
      BY <2>1
  <1>9. RingHoldsStream'
    <2>1. Taken' = h \o buf'
      BY <1>1 DEF Taken
    <2> HIDE DEF h
    <2>2. <<NextByte>> \in Seq(Bytes) /\ buf' = buf \o <<NextByte>>
      BY <1>1, <1>3, <1>5
    <2>3. Taken' = Taken \o <<NextByte>>
      BY <1>3, <1>8, <2>1, <2>2, ConcatAssociative
    <2> QED
      BY <1>3, <1>5, <2>3, Zenon
  <1> QED
    BY <1>6, <1>7, <1>9 DEF RingInv

LEMMA RingInvStep == RingInv /\ [Next]_vars => RingInv'
  <1> SUFFICES ASSUME RingInv, [Next]_vars
               PROVE  RingInv'
    OBVIOUS
  <1>1. CASE UNCHANGED vars
    <2>1. UNCHANGED <<data, write, read, pc, len, buf, got, pending>>
      BY <1>1 DEF vars, ringVars, readerVars
    <2>2. TypeOK' /\ ReaderBusy'
      BY <2>1 DEF RingInv, TypeOK, ReaderBusy
    <2>3. Taken' = Taken /\ Stream' = Stream
      BY <2>1 DEF Taken, Stream
    <2>4. Contents' = Contents
      BY <2>1, ContentsAre
    <2> QED
      BY <2>1, <2>2, <2>3, <2>4 DEF RingInv, RingHoldsStream
  <1>2. CASE \E p \in Packets : WritePacket(p)
    BY <1>2, WriteKeepsRing
  <1>3. CASE Reader
    BY <1>3, LookKeepsRing, ReadHighKeepsRing, ReadLowKeepsRing, CopyByteKeepsRing,
       ReturnKeepsRing DEF Reader
  <1> QED
    BY <1>1, <1>2, <1>3 DEF Next, DropPacket

LEMMA RingInvInit == Init => RingInv
  <1> SUFFICES ASSUME Init
               PROVE  RingInv
    OBVIOUS
  <1>1. /\ data = [i \in Slots |-> 0] /\ write = 0 /\ read = 0 /\ pc = "look" /\ len = 0
        /\ buf = <<>> /\ got = <<>> /\ pending = <<>>
    BY DEF Init
  <1>2. 0 \in Slots /\ 0 \in Bytes /\ 0 * ByteBase = 0
    BY FifoAssumption DEF Slots, Bytes
  <1>3. 0 \in 0..(ByteBase * ByteBase - 1)
    BY <1>2, TwoBytesLength
  <1>4. <<>> \in Seq(Bytes) /\ <<>> \in Seq(Packets) /\ Len(<<>>) = 0
    OBVIOUS
  <1>5. TypeOK
    BY <1>1, <1>2, <1>3, <1>4 DEF TypeOK
  <1>6. ReaderBusy
    BY <1>1 DEF ReaderBusy
  <1>7. RingHoldsStream
    <2>1. Stream[Len(pending)] = <<>>
      BY <1>1, <1>4, StreamIs, StreamUnfolds
    <2>2. Taken = <<>>
      BY <1>1 DEF Taken
    <2>3. (write - read) % Size = 0
      BY <1>1, <1>2, Distance
    <2>4. Contents \in Seq(Bytes) /\ Len(Contents) = (write - read) % Size
      BY <1>1, <1>2, <1>5, ContentsAre, ContentsType DEF TypeOK
    <2>5. Contents = <<>>
      BY <2>3, <2>4
    <2> QED
      BY <1>4, <2>1, <2>2, <2>5, ConcatEmpty DEF RingHoldsStream
  <1> QED
    BY <1>5, <1>6, <1>7 DEF RingInv

LEMMA RingInvariant == Spec => []RingInv
  BY RingInvInit, RingInvStep, PTL DEF Spec

(* Every variable keeps its type: the length read never exceeds two bytes,  *)
(* and nothing but bytes is copied (enc28j60.c:69-92).                      *)
THEOREM TypeCorrect == Spec => []TypeOK
  <1>1. RingInv => TypeOK
    BY DEF RingInv
  <1> QED
    BY <1>1, RingInvariant, PTL

(* In a ring of any size, with any packets that two length bytes can        *)
(* describe, no byte is lost, overwritten or read twice (enc28j60.c:39-92).  *)
THEOREM RingIsExact == Spec => []RingHoldsStream
  <1>1. RingInv => RingHoldsStream
    BY DEF RingInv
  <1> QED
    BY <1>1, RingInvariant, PTL

(* The FIFO implements the queue of packets: what main gets is the packet   *)
(* that has waited longest, whole and unchanged, and the handler's writes in *)
(* the middle of it only append (enc28j60.c:45-92).                          *)
THEOREM QueueImplemented == Spec => Queue!Spec
  <1>1. Init => Queue!Init
    BY DEF Init, Queue!Init
  <1>2. RingInv /\ [Next]_vars => [Queue!Next]_(Queue!vars)
    <2> SUFFICES ASSUME RingInv, [Next]_vars
                 PROVE  [Queue!Next]_(Queue!vars)
      OBVIOUS
    <2>1. CASE UNCHANGED <<pending, got>>
      BY <2>1 DEF Queue!vars
    <2>2. ASSUME NEW p \in Packets, WritePacket(p)
          PROVE  Queue!Next
      BY <2>2 DEF WritePacket, readerVars, Queue!Next, Queue!Put
    <2>3. CASE ReturnPacket
      <3>1. pending # <<>> /\ buf = pending[1] /\ got' = buf /\ pending' = Tail(pending)
        BY <2>3, ReturnsFirst DEF ReturnPacket
      <3>2. pending \in Seq(Packets)
        BY DEF RingInv, TypeOK
      <3>3. Head(pending) = pending[1]
        BY <3>1, <3>2
      <3> QED
        BY <3>1, <3>3 DEF Queue!Next, Queue!Get
    <2> QED
      BY <2>1, <2>2, <2>3
         DEF Next, Reader, Look, ReadHigh, ReadLow, CopyByte, DropPacket, vars, readerVars
  <1> QED
    BY <1>1, <1>2, RingInvariant, PTL DEF Spec, Queue!Spec
=============================================================================
