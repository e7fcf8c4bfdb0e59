--------------------------- MODULE ChecksumProofs ---------------------------
(***************************************************************************)
(* Theorems about Checksum: every sum of words is kept as its one residue  *)
(* below 0xFFFF, no checksum that is stored is zero, every datagram that   *)
(* is sent is valid to any other host, and one that arrives is handled     *)
(* exactly if it is what a host has sent.                                  *)
(***************************************************************************)
EXTENDS Checksum, SequenceTheorems, WellFoundedInduction, TLAPS

(* The bytes of a word, and the words two bytes make.                        *)
LEMMA OnesNat == Ones \in Nat /\ Ones >= 3 /\ Words \subseteq Nat
<1> USE ChecksumAssumption
<1>1. ByteBase * ByteBase \in Nat /\ ByteBase * ByteBase >= 4
    BY SMT
<1> QED BY <1>1, SMT DEF Ones, Words

LEMMA WordOfBytes ==
    ASSUME NEW lo \in Bytes, NEW hi \in Bytes
    PROVE  lo + ByteBase * hi \in Words
<1> USE ChecksumAssumption
<1>1. lo \in Nat /\ hi \in Nat /\ lo <= ByteBase - 1 /\ hi <= ByteBase - 1
    BY SMT DEF Bytes
<1>2. ByteBase * hi \in Nat /\ ByteBase * hi <= ByteBase * (ByteBase - 1)
    BY <1>1, SMT
<1>3. ByteBase * (ByteBase - 1) = ByteBase * ByteBase - ByteBase
    BY SMT
<1>4. ByteBase * ByteBase \in Nat
    BY SMT
<1> HIDE ChecksumAssumption
<1> QED BY <1>1, <1>2, <1>3, <1>4, ChecksumAssumption, SMT DEF Words, Ones

LEMMA BytesOfWord ==
    ASSUME NEW w \in Words
    PROVE  /\ w % ByteBase \in Bytes /\ w \div ByteBase \in Bytes
           /\ (w % ByteBase) + ByteBase * (w \div ByteBase) = w
<1> USE ChecksumAssumption
<1>1. w \in Nat /\ w <= Ones
    BY OnesNat DEF Words
<1>2. w % ByteBase \in 0..(ByteBase - 1) /\ w \div ByteBase \in Nat
    BY <1>1, SMT
<1>3. (w % ByteBase) + ByteBase * (w \div ByteBase) = w
    BY <1>1, SMT
<1>4. w \div ByteBase <= ByteBase - 1
    <2>1. SUFFICES ASSUME w \div ByteBase >= ByteBase PROVE FALSE
        BY <1>2, SMT
    <2>2. ByteBase * (w \div ByteBase) >= ByteBase * ByteBase
        BY <1>2, <2>1, SMT
    <2>3. ByteBase * ByteBase \in Nat /\ ByteBase * (w \div ByteBase) \in Nat
        BY <1>2, SMT
    <2> QED BY <1>1, <1>2, <1>3, <2>2, <2>3, SMT DEF Ones
<1> QED BY <1>2, <1>3, <1>4, SMT DEF Bytes

(* checksum_oc16_add keeps the accumulator below 0xFFFF and takes off 0xFFFF *)
(* exactly when there is a carry.                                            *)
LEMMA AddIsModular ==
    ASSUME NEW s \in Nat, s < Ones, NEW val \in Words
    PROVE  /\ checksum_oc16_add(s, val) \in Nat
           /\ checksum_oc16_add(s, val) < Ones
           /\ s + val >= Ones => checksum_oc16_add(s, val) = s + val - Ones
           /\ s + val < Ones => checksum_oc16_add(s, val) = s + val
<1>1. val \in Nat /\ val <= Ones /\ Ones \in Nat
    BY OnesNat DEF Words
<1>2. CASE s + val >= Ones
    <2>1. (s + 1 + val) = (Ones + 1) + (s + val - Ones)
        BY <1>1, SMT
    <2>2. s + val - Ones \in 0..(Ones - 1)
        BY <1>1, <1>2, SMT
    <2>3. (s + 1 + val) % (Ones + 1) = s + val - Ones
        BY <1>1, <2>1, <2>2, SMT
    <2> QED BY <1>1, <1>2, <2>2, <2>3, SMT DEF checksum_oc16_add
<1>3. CASE s + val < Ones
    <2>1. (s + val) % (Ones + 1) = s + val
        BY <1>1, <1>3, SMT
    <2> QED BY <1>1, <1>3, <2>1, SMT DEF checksum_oc16_add
<1> QED BY <1>1, <1>2, <1>3, SMT

-----------------------------------------------------------------------------
(* Induction over the naturals, with a set for the predicate.                *)
LEMMA LeastElement ==
    ASSUME NEW T, T \subseteq Nat, T # {}
    PROVE  \E x \in T : \A y \in T : x <= y
<1>1. PICK x \in T : \A y \in T : ~(<<y, x>> \in OpToRel(<, Nat))
    <2> HIDE DEF OpToRel
    <2> QED BY NatLessThanWellFounded, WFMin, Zenon
<1>2. ASSUME NEW y \in T PROVE x <= y
    <2>1. ~(y < x)
        BY <1>1, Zenon DEF OpToRel
    <2> QED BY <2>1
<1> QED BY <1>2

LEMMA SetInduction ==
    ASSUME NEW S, 0 \in S, \A n \in Nat : n \in S => n + 1 \in S
    PROVE  Nat \subseteq S
<1> SUFFICES ASSUME Nat \ S # {} PROVE FALSE
    OBVIOUS
<1>1. PICK x \in Nat \ S : \A y \in Nat \ S : x <= y
    BY LeastElement
<1>2. x - 1 \in Nat
    BY <1>1
<1>3. x - 1 \in S
    BY <1>1, <1>2
<1> QED BY <1>1, <1>2, <1>3

-----------------------------------------------------------------------------
(* Sums.                                                                     *)
IsSum(f, c, n) == f = [i \in 0..n |-> IF i = 0 THEN 0 ELSE f[i - 1] + c[i]]

LEMMA SumIs ==
    ASSUME NEW c, NEW n
    PROVE  SumTo(c, n) = (CHOOSE h : IsSum(h, c, n))[n]
BY DEF SumTo, IsSum

LEMMA SumExists ==
    ASSUME NEW c, NEW n \in Nat
    PROVE  \E f : IsSum(f, c, n)
<1> DEFINE S == {m \in Nat : \E f : IsSum(f, c, m)}
<1>1. 0 \in S
    <2>1. IsSum([i \in 0..0 |-> 0], c, 0)
        BY DEF IsSum
    <2> QED BY <2>1
<1>2. ASSUME NEW m \in Nat, m \in S PROVE m + 1 \in S
    <2>1. PICK f : IsSum(f, c, m)
        BY <1>2
    <2> DEFINE g == [i \in 0..(m + 1) |-> IF i = m + 1 THEN f[m] + c[i] ELSE f[i]]
               h == [i \in 0..(m + 1) |-> IF i = 0 THEN 0 ELSE g[i - 1] + c[i]]
    <2>2. ASSUME NEW i \in 0..(m + 1) PROVE g[i] = h[i]
        <3>1. CASE i = m + 1
            BY <3>1
        <3>2. CASE i # m + 1 /\ i = 0
            BY <2>1, <3>2 DEF IsSum
        <3>3. CASE i # m + 1 /\ i # 0
            BY <2>1, <3>3 DEF IsSum
        <3> QED BY <3>1, <3>2, <3>3
    <2>3. g = h
        BY <2>2
    <2>4. IsSum(g, c, m + 1)
        BY <2>3 DEF IsSum
    <2> HIDE DEF g
    <2> QED BY <2>4
<1>3. Nat \subseteq S
    <2> HIDE DEF S
    <2> QED BY <1>1, <1>2, SetInduction
<1> QED BY <1>3

LEMMA SumUnique ==
    ASSUME NEW c, NEW n \in Nat, NEW f, NEW g, NEW p \in Nat,
           IsSum(f, c, n), IsSum(g, c, p), n <= p
    PROVE  \A i \in 0..n : f[i] = g[i]
<1> DEFINE S == {i \in Nat : i <= n => f[i] = g[i]}
<1>1. 0 \in S
    BY DEF IsSum
<1>2. ASSUME NEW i \in Nat, i \in S PROVE i + 1 \in S
    <2> SUFFICES ASSUME i + 1 <= n PROVE f[i + 1] = g[i + 1]
        OBVIOUS
    <2>1. f[i] = g[i] /\ i + 1 \in 0..n /\ i + 1 \in 0..p /\ i + 1 # 0 /\ (i + 1) - 1 = i
        BY <1>2
    <2>2. f[i + 1] = f[(i + 1) - 1] + c[i + 1] /\ g[i + 1] = g[(i + 1) - 1] + c[i + 1]
        BY <2>1, Zenon DEF IsSum
    <2> QED BY <2>1, <2>2, Zenon
<1>3. Nat \subseteq S
    <2> HIDE DEF S
    <2> QED BY <1>1, <1>2, SetInduction
<1> QED BY <1>3

\* The equations of a sum.
LEMMA SumUnfolds ==
    ASSUME NEW c, NEW n \in Nat
    PROVE  /\ SumTo(c, 0) = 0
           /\ SumTo(c, n + 1) = SumTo(c, n) + c[n + 1]
<1>1. ASSUME NEW p \in Nat PROVE IsSum(CHOOSE h : IsSum(h, c, p), c, p)
    BY SumExists, Zenon
<1>2. SumTo(c, 0) = 0
    <2>1. IsSum(CHOOSE h : IsSum(h, c, 0), c, 0)
        BY <1>1
    <2> DEFINE f == CHOOSE h : IsSum(h, c, 0)
    <2>2. IsSum(f, c, 0) /\ SumTo(c, 0) = f[0]
        BY <2>1, SumIs
    <2> HIDE DEF f
    <2> QED BY <2>2 DEF IsSum
<1>3. SumTo(c, n + 1) = SumTo(c, n) + c[n + 1]
    <2> DEFINE f == CHOOSE h : IsSum(h, c, n)
               g == CHOOSE h : IsSum(h, c, n + 1)
    <2>1. IsSum(f, c, n) /\ SumTo(c, n) = f[n]
        BY <1>1, SumIs
    <2>2. IsSum(g, c, n + 1) /\ SumTo(c, n + 1) = g[n + 1]
        <3>1. n + 1 \in Nat
            OBVIOUS
        <3> QED BY <1>1, <3>1, SumIs
    <2> HIDE DEF f, g
    <2>3. f[n] = g[n]
        BY <2>1, <2>2, SumUnique
    <2>4. n + 1 \in 0..(n + 1) /\ n + 1 # 0 /\ (n + 1) - 1 = n
        OBVIOUS
    <2>5. g[n + 1] = g[(n + 1) - 1] + c[n + 1]
        BY <2>2, <2>4, Zenon DEF IsSum
    <2> QED BY <2>1, <2>2, <2>3, <2>4, <2>5, Zenon
<1> QED BY <1>2, <1>3

LEMMA SumInt ==
    ASSUME NEW c, NEW n \in Nat, \A i \in 1..n : c[i] \in Int
    PROVE  SumTo(c, n) \in Int
<1> DEFINE S == {i \in Nat : i <= n => SumTo(c, i) \in Int}
<1>1. 0 \in S
    BY SumUnfolds
<1>2. ASSUME NEW i \in Nat, i \in S PROVE i + 1 \in S
    <2>1. SumTo(c, i + 1) = SumTo(c, i) + c[i + 1]
        BY SumUnfolds
    <2> QED BY <1>2, <2>1
<1>3. Nat \subseteq S
    <2> HIDE DEF S
    <2> QED BY <1>1, <1>2, SetInduction
<1> QED BY <1>3

\* Equal terms, equal sums.
LEMMA SumSame ==
    ASSUME NEW c, NEW e, NEW n \in Nat, \A i \in 1..n : c[i] = e[i]
    PROVE  SumTo(c, n) = SumTo(e, n)
<1> DEFINE S == {i \in Nat : i <= n => SumTo(c, i) = SumTo(e, i)}
<1>1. 0 \in S
    BY SumUnfolds
<1>2. ASSUME NEW i \in Nat, i \in S PROVE i + 1 \in S
    <2>1. SumTo(c, i + 1) = SumTo(c, i) + c[i + 1] /\ SumTo(e, i + 1) = SumTo(e, i) + e[i + 1]
        BY SumUnfolds
    <2> QED BY <1>2, <2>1
<1>3. Nat \subseteq S
    <2> HIDE DEF S
    <2> QED BY <1>1, <1>2, SetInduction
<1> QED BY <1>3

\* One term changed.
LEMMA SumChange ==
    ASSUME NEW c, NEW e, NEW n \in Nat, NEW j \in 1..n,
           \A i \in 1..n : c[i] \in Int /\ e[i] \in Int,
           \A i \in 1..n : i # j => c[i] = e[i]
    PROVE  SumTo(e, n) = SumTo(c, n) + (e[j] - c[j])
<1> DEFINE S == {i \in Nat : i <= n => SumTo(e, i) = SumTo(c, i) + (IF j <= i THEN e[j] - c[j] ELSE 0)}
<1>1. 0 \in S
    BY SumUnfolds
<1>2. ASSUME NEW i \in Nat, i \in S PROVE i + 1 \in S
    <2> SUFFICES ASSUME i + 1 <= n
                 PROVE  SumTo(e, i + 1) = SumTo(c, i + 1) + (IF j <= i + 1 THEN e[j] - c[j] ELSE 0)
        OBVIOUS
    <2>1. SumTo(c, i + 1) = SumTo(c, i) + c[i + 1] /\ SumTo(e, i + 1) = SumTo(e, i) + e[i + 1]
        BY SumUnfolds
    <2>2. SumTo(c, i) \in Int /\ SumTo(e, i) \in Int
        BY SumInt
    <2>3. c[i + 1] \in Int /\ e[i + 1] \in Int /\ c[j] \in Int /\ e[j] \in Int
        OBVIOUS
    <2>4. SumTo(e, i) = SumTo(c, i) + (IF j <= i THEN e[j] - c[j] ELSE 0)
        BY <1>2
    <2>5. CASE j = i + 1
        BY <2>1, <2>2, <2>3, <2>4, <2>5
    <2>6. CASE j # i + 1
        <3>1. c[i + 1] = e[i + 1]
            BY <2>6
        <3> QED BY <2>1, <2>2, <2>3, <2>4, <2>6, <3>1
    <2> QED BY <2>5, <2>6
<1>3. Nat \subseteq S
    <2> HIDE DEF S
    <2> QED BY <1>1, <1>2, SetInduction
<1>4. n \in S /\ j <= n
    BY <1>3
<1> QED BY <1>4

\* Terms of zero at the end.
LEMMA SumZeros ==
    ASSUME NEW c, NEW n \in Nat, NEW p \in Nat, n <= p,
           \A i \in 1..p : c[i] \in Int, \A i \in (n + 1)..p : c[i] = 0
    PROVE  SumTo(c, p) = SumTo(c, n)
<1> DEFINE S == {i \in Nat : n + i <= p => SumTo(c, n + i) = SumTo(c, n)}
<1>1. 0 \in S
    OBVIOUS
<1>2. ASSUME NEW i \in Nat, i \in S PROVE i + 1 \in S
    <2> SUFFICES ASSUME n + (i + 1) <= p PROVE SumTo(c, n + (i + 1)) = SumTo(c, n)
        OBVIOUS
    <2>1. SumTo(c, (n + i) + 1) = SumTo(c, n + i) + c[(n + i) + 1]
        BY SumUnfolds
    <2>2. SumTo(c, n) \in Int
        BY SumInt
    <2>3. c[(n + i) + 1] = 0 /\ SumTo(c, n + i) = SumTo(c, n) /\ (n + i) + 1 = n + (i + 1)
        BY <1>2
    <2> QED BY <2>1, <2>2, <2>3
<1>3. Nat \subseteq S
    <2> HIDE DEF S
    <2> QED BY <1>1, <1>2, SetInduction
<1>4. p - n \in Nat /\ n + (p - n) = p
    OBVIOUS
<1>5. p - n \in S
    BY <1>3, <1>4
<1> QED BY <1>4, <1>5

Total(s) == SumTo(s, Len(s))

\* The sum of a concatenation.
LEMMA TotalConcat ==
    ASSUME NEW s \in Seq(Int), NEW t \in Seq(Int)
    PROVE  /\ Total(s \o t) = Total(s) + Total(t)
           /\ Total(s) \in Int /\ s \o t \in Seq(Int)
<1> DEFINE n == Len(s)
           p == Len(t)
           u == s \o t
           S == {i \in Nat : i <= p => SumTo(u, n + i) = SumTo(s, n) + SumTo(t, i)}
<1>1. /\ n \in Nat /\ p \in Nat /\ u \in Seq(Int) /\ Len(u) = n + p
      /\ \A i \in 1..n : s[i] \in Int /\ u[i] = s[i]
      /\ \A i \in 1..p : t[i] \in Int /\ u[n + i] = t[i]
    OBVIOUS
<1> HIDE DEF n, p, u
<1>2. SumTo(s, n) \in Int
    BY <1>1, SumInt
<1>3. 0 \in S
    <2>1. SumTo(u, n) = SumTo(s, n)
        BY <1>1, SumSame
    <2>2. SumTo(t, 0) = 0
        BY <1>1, SumUnfolds
    <2>3. n + 0 = n /\ SumTo(s, n) + 0 = SumTo(s, n)
        BY <1>1, <1>2
    <2> QED BY <2>1, <2>2, <2>3
<1>4. ASSUME NEW i \in Nat, i \in S PROVE i + 1 \in S
    <2> SUFFICES ASSUME i + 1 <= p PROVE SumTo(u, n + (i + 1)) = SumTo(s, n) + SumTo(t, i + 1)
        OBVIOUS
    <2>1. SumTo(u, (n + i) + 1) = SumTo(u, n + i) + u[(n + i) + 1]
        BY <1>1, SumUnfolds
    <2>2. SumTo(t, i + 1) = SumTo(t, i) + t[i + 1]
        BY SumUnfolds
    <2>3. u[n + (i + 1)] = t[i + 1] /\ t[i + 1] \in Int /\ (n + i) + 1 = n + (i + 1)
        BY <1>1
    <2>4. SumTo(t, i) \in Int
        BY <1>1, SumInt
    <2>5. SumTo(u, n + i) = SumTo(s, n) + SumTo(t, i)
        BY <1>4, <1>1
    <2> QED BY <1>2, <2>1, <2>2, <2>3, <2>4, <2>5
<1>5. Nat \subseteq S
    <2> HIDE DEF S
    <2> QED BY <1>3, <1>4, SetInduction
<1>6. SumTo(u, n + p) = SumTo(s, n) + SumTo(t, p)
    BY <1>1, <1>5
<1> QED BY <1>1, <1>2, <1>6 DEF Total, n, p, u

LEMMA TotalOne ==
    ASSUME NEW x \in Int
    PROVE  Total(<<x>>) = x /\ Total(<< >>) = 0 /\ <<x>> \in Seq(Int) /\ << >> \in Seq(Int)
<1>1. SumTo(<<x>>, 0 + 1) = SumTo(<<x>>, 0) + <<x>>[0 + 1]
    BY SumUnfolds
<1>2. SumTo(<<x>>, 0) = 0 /\ SumTo(<< >>, 0) = 0
    BY SumUnfolds
<1> QED BY <1>1, <1>2 DEF Total

LEMMA TotalTwo ==
    ASSUME NEW x \in Int, NEW y \in Int
    PROVE  Total(<<x, y>>) = x + y /\ <<x, y>> \in Seq(Int)
<1> DEFINE c == <<x, y>>
<1>1. c[1] = x /\ c[2] = y /\ Len(c) = 2 /\ c \in Seq(Int)
    OBVIOUS
<1> HIDE DEF c
<1>2. SumTo(c, 0) = 0 /\ SumTo(c, 0 + 1) = SumTo(c, 0) + c[0 + 1]
    BY SumUnfolds
<1>3. SumTo(c, 1 + 1) = SumTo(c, 1) + c[1 + 1]
    BY SumUnfolds
<1>4. SumTo(c, 2) = x + y
    BY <1>1, <1>2, <1>3
<1> QED BY <1>1, <1>4 DEF Total, c

-----------------------------------------------------------------------------
(* The bytes of a buffer, added as the words of memory they are halves of.   *)
Typed(b) == b \in [0..(Room - 1) -> Bytes]

Weight(o) == IF o % 2 = 0 THEN 1 ELSE ByteBase

Terms(b) == [i \in 1..Room |-> b[i - 1] * Weight(i - 1)]

Mem(b, n) == SumTo(Terms(b), n)

LEMMA Base == ByteBase \in Nat /\ ByteBase >= 2 /\ Room \in Nat /\ Bytes \subseteq Nat
BY ChecksumAssumption DEF Bytes

\* 0x10000 is one more than a multiple of 0xFFFF.
LEMMA SwapTwice ==
    ASSUME NEW x \in Int
    PROVE  ByteBase * (ByteBase * x) = x + Ones * x
<1>1. ASSUME NEW b \in Nat PROVE b * (b * x) = x + (b * b - 1) * x
    BY <1>1, SMT
<1> QED BY <1>1, Base DEF Ones

LEMMA OddEven ==
    ASSUME NEW i \in Nat
    PROVE  (i % 2 = 1) <=> ((i - 1) % 2 = 0)
BY SMT

LEMMA TermsAre ==
    ASSUME NEW b, Typed(b), NEW i \in 1..Room
    PROVE  /\ b[i - 1] \in Nat /\ Weight(i - 1) \in Nat
           /\ Terms(b)[i] = b[i - 1] * Weight(i - 1) /\ Terms(b)[i] \in Int
<1>1. i - 1 \in 0..(Room - 1)
    BY Base
<1>2. b[i - 1] \in Nat /\ Weight(i - 1) \in Nat
    BY <1>1, Base DEF Typed, Weight
<1>3. b[i - 1] * Weight(i - 1) \in Int
    BY <1>2, SMT
<1> QED BY <1>2, <1>3 DEF Terms

LEMMA MemInt ==
    ASSUME NEW b, Typed(b), NEW n \in Nat, n <= Room
    PROVE  Mem(b, n) \in Int
<1>1. \A i \in 1..n : Terms(b)[i] \in Int
    BY TermsAre, Base
<1> QED BY <1>1, SumInt DEF Mem

\* A word more.
LEMMA MemWord ==
    ASSUME NEW b, Typed(b), NEW o \in Nat, o % 2 = 0, o + 2 <= Room
    PROVE  /\ Mem(b, o + 2) = Mem(b, o) + (b[o] + ByteBase * b[o + 1])
           /\ b[o] \in Nat /\ b[o + 1] \in Nat /\ b[o] + ByteBase * b[o + 1] \in Int
<1>1. /\ o + 1 \in 1..Room /\ o + 2 \in 1..Room /\ (o + 1) - 1 = o /\ (o + 2) - 1 = o + 1
      /\ (o + 1) + 1 = o + 2 /\ (o + 1) % 2 # 0 /\ o + 1 \in Nat
    BY Base
<1>2. Mem(b, o + 1) = Mem(b, o) + Terms(b)[o + 1]
    BY SumUnfolds DEF Mem
<1>3. Mem(b, o + 2) = Mem(b, o + 1) + Terms(b)[o + 2]
    <2>1. SumTo(Terms(b), (o + 1) + 1) = SumTo(Terms(b), o + 1) + Terms(b)[(o + 1) + 1]
        BY <1>1, SumUnfolds
    <2> QED BY <1>1, <2>1, Zenon DEF Mem
<1>4. /\ Terms(b)[o + 1] = b[o] * 1 /\ b[o] \in Nat
      /\ Terms(b)[o + 2] = b[o + 1] * ByteBase /\ b[o + 1] \in Nat
    <2>1. Terms(b)[o + 1] = b[(o + 1) - 1] * Weight((o + 1) - 1) /\ b[(o + 1) - 1] \in Nat
        BY <1>1, TermsAre
    <2>2. Terms(b)[o + 2] = b[(o + 2) - 1] * Weight((o + 2) - 1) /\ b[(o + 2) - 1] \in Nat
        BY <1>1, TermsAre
    <2>3. Weight(o) = 1 /\ Weight(o + 1) = ByteBase
        BY <1>1, Zenon DEF Weight
    <2> QED BY <1>1, <2>1, <2>2, <2>3, Zenon
<1>5. Mem(b, o) \in Int
    BY MemInt, Base
<1>6. b[o + 1] * ByteBase = ByteBase * b[o + 1] /\ ByteBase * b[o + 1] \in Int
    BY <1>4, Base, SMT
<1> QED BY <1>2, <1>3, <1>4, <1>5, <1>6

\* Words from an even offset on.
LEMMA TotalWords ==
    ASSUME Typed(buf), NEW o \in Nat, o % 2 = 0, NEW count \in Nat, o + 2 * count <= Room
    PROVE  /\ WordsAt(o, count) \in Seq(Int)
           /\ Total(WordsAt(o, count)) = Mem(buf, o + 2 * count) - Mem(buf, o)
<1> DEFINE w == WordsAt(o, count)
           S == {i \in Nat : i <= count => SumTo(w, i) = Mem(buf, o + 2 * i) - Mem(buf, o)}
<1>1. ASSUME NEW i \in 1..count
      PROVE  /\ w[i] = buf[o + 2 * (i - 1)] + ByteBase * buf[o + 2 * (i - 1) + 1]
             /\ w[i] \in Int
             /\ Mem(buf, o + 2 * i) = Mem(buf, o + 2 * (i - 1)) + w[i]
    <2>1. /\ o + 2 * (i - 1) \in Nat /\ (o + 2 * (i - 1)) % 2 = 0
          /\ (o + 2 * (i - 1)) + 2 <= Room /\ (o + 2 * (i - 1)) + 2 = o + 2 * i
        BY Base
    <2>2. w[i] = WordAt(o + 2 * (i - 1))
        BY DEF WordsAt
    <2> QED BY <2>1, <2>2, MemWord, Zenon DEF WordAt
<1>2. w \in [1..count -> Int] /\ Len(w) = count /\ w \in Seq(Int)
    <2>1. w = [j \in 1..count |-> WordAt(o + 2 * (j - 1))]
        BY DEF WordsAt
    <2>2. w \in [1..count -> Int]
        BY <1>1, <2>1
    <2> QED BY <2>2, SeqDef
<1> HIDE DEF w
<1>3. 0 \in S
    <2>1. SumTo(w, 0) = 0
        BY SumUnfolds
    <2>2. Mem(buf, o) \in Int
        BY MemInt, Base
    <2>3. o + 2 * 0 = o /\ Mem(buf, o) - Mem(buf, o) = 0
        BY <2>2
    <2> QED BY <2>1, <2>3
<1>4. ASSUME NEW i \in Nat, i \in S PROVE i + 1 \in S
    <2> SUFFICES ASSUME i + 1 <= count
                 PROVE  SumTo(w, i + 1) = Mem(buf, o + 2 * (i + 1)) - Mem(buf, o)
        OBVIOUS
    <2>1. i + 1 \in 1..count /\ (i + 1) - 1 = i /\ o + 2 * i <= Room /\ o + 2 * i \in Nat /\ o <= Room
        BY Base
    <2>2. w[i + 1] \in Int /\ Mem(buf, o + 2 * (i + 1)) = Mem(buf, o + 2 * i) + w[i + 1]
        BY <1>1, <2>1, Zenon
    <2>3. SumTo(w, i + 1) = SumTo(w, i) + w[i + 1]
        BY SumUnfolds
    <2>4. SumTo(w, i) = Mem(buf, o + 2 * i) - Mem(buf, o)
        BY <1>4, <2>1
    <2>5. Mem(buf, o + 2 * i) \in Int /\ Mem(buf, o) \in Int
        BY <2>1, MemInt
    <2> QED BY <2>2, <2>3, <2>4, <2>5
<1>5. Nat \subseteq S
    <2> HIDE DEF S
    <2> QED BY <1>3, <1>4, SetInduction
<1>6. SumTo(w, count) = Mem(buf, o + 2 * count) - Mem(buf, o)
    BY <1>5
<1> QED BY <1>2, <1>6 DEF Total, w

\* The sum in network order is that in the order of memory, times 0x100.
LEMMA MemNetwork ==
    ASSUME NEW b, Typed(b), NEW s \in Seq(Bytes), Len(s) <= Room,
           \A j \in 1..Len(s) : s[j] = b[j - 1]
    PROVE  /\ NetworkSum(s) \in Int
           /\ \E e \in Int : ByteBase * Mem(b, Len(s)) = NetworkSum(s) + Ones * e
<1> DEFINE n == Len(s)
           c == [j \in 1..Len(s) |-> s[j] * (IF j % 2 = 1 THEN ByteBase ELSE 1)]
           S == {i \in Nat : i <= n =>
                    \E e \in Int : ByteBase * Mem(b, i) = SumTo(c, i) + Ones * e}
<1>1. n \in Nat
    BY LenProperties
<1>2. ASSUME NEW i \in 1..n
      PROVE  /\ c[i] \in Int /\ Terms(b)[i] \in Int
             /\ \E x \in Int : ByteBase * Terms(b)[i] = c[i] + Ones * x
    <2>1. i \in 1..Room /\ i \in 1..Len(s) /\ i \in Nat
        BY <1>1, Base
    <2>2. b[i - 1] \in Nat /\ Terms(b)[i] = b[i - 1] * Weight(i - 1) /\ Terms(b)[i] \in Int
        BY <2>1, TermsAre
    <2>3. c[i] = b[i - 1] * (IF i % 2 = 1 THEN ByteBase ELSE 1)
        BY <2>1
    <2>4. CASE i % 2 = 1
        <3>1. Weight(i - 1) = 1
            BY <2>1, <2>4, OddEven DEF Weight
        <3>2. Terms(b)[i] = b[i - 1] /\ c[i] = b[i - 1] * ByteBase
            BY <2>2, <2>3, <2>4, <3>1
        <3> HIDE DEF c
        <3>3. ByteBase * Terms(b)[i] = c[i] + Ones * 0 /\ c[i] \in Int
            <4>1. b[i - 1] * ByteBase = ByteBase * b[i - 1] /\ b[i - 1] * ByteBase \in Int
                BY <2>2, Base, SMT
            <4>2. Ones * 0 = 0
                BY OnesNat, SMT
            <4> QED BY <3>2, <4>1, <4>2
        <3> QED BY <2>2, <3>3
    <2>5. CASE i % 2 # 1
        <3>1. Weight(i - 1) = ByteBase
            <4>1. (i - 1) % 2 # 0
                BY <2>1, <2>5, OddEven
            <4> QED BY <4>1 DEF Weight
        <3>2. Terms(b)[i] = ByteBase * b[i - 1] /\ c[i] = b[i - 1]
            <4>1. c[i] = b[i - 1] * 1
                BY <2>3, <2>5
            <4>2. b[i - 1] * ByteBase = ByteBase * b[i - 1]
                BY <2>2, Base, SMT
            <4> QED BY <2>2, <3>1, <4>1, <4>2
        <3> HIDE DEF c
        <3>3. ByteBase * Terms(b)[i] = c[i] + Ones * b[i - 1]
            BY <2>2, <3>2, SwapTwice
        <3> QED BY <2>2, <3>2, <3>3
    <2> QED BY <2>4, <2>5
<1>3. NetworkSum(s) = SumTo(c, n)
    BY DEF NetworkSum
<1> HIDE DEF c, n
<1>4. 0 \in S
    <2>1. Mem(b, 0) = 0 /\ SumTo(c, 0) = 0
        BY SumUnfolds DEF Mem
    <2>2. ByteBase * 0 = 0 + Ones * 0
        BY Base, OnesNat, SMT
    <2> QED BY <2>1, <2>2
<1>5. ASSUME NEW i \in Nat, i \in S PROVE i + 1 \in S
    <2> SUFFICES ASSUME i + 1 <= n
                 PROVE  \E e \in Int : ByteBase * Mem(b, i + 1) = SumTo(c, i + 1) + Ones * e
        OBVIOUS
    <2>1. Mem(b, i + 1) = Mem(b, i) + Terms(b)[i + 1] /\ SumTo(c, i + 1) = SumTo(c, i) + c[i + 1]
        BY SumUnfolds DEF Mem
    <2>2. PICK e \in Int : ByteBase * Mem(b, i) = SumTo(c, i) + Ones * e
        BY <1>5, <1>1
    <2>3. i + 1 \in 1..n /\ i <= Room
        BY <1>1, Base DEF n
    <2>4. c[i + 1] \in Int /\ Terms(b)[i + 1] \in Int
        BY <1>2, <2>3
    <2>5. PICK x \in Int : ByteBase * Terms(b)[i + 1] = c[i + 1] + Ones * x
        BY <1>2, <2>3
    <2>6. Mem(b, i) \in Int
        BY <2>3, MemInt
    <2>7. SumTo(c, i) \in Int
        <3>1. \A l \in 1..i : c[l] \in Int
            BY <1>1, <1>2, <2>3
        <3> QED BY <3>1, SumInt
    <2>8. ByteBase * (Mem(b, i) + Terms(b)[i + 1])
             = ByteBase * Mem(b, i) + ByteBase * Terms(b)[i + 1]
        BY <2>4, <2>6, Base, SMT
    <2>9. Ones * (e + x) = Ones * e + Ones * x /\ Ones * e \in Int /\ Ones * x \in Int
        BY OnesNat, SMT
    <2>10. ByteBase * Mem(b, i + 1) = SumTo(c, i + 1) + Ones * (e + x)
        BY <2>1, <2>2, <2>4, <2>5, <2>7, <2>8, <2>9
    <2> QED BY <2>10
<1>6. Nat \subseteq S
    <2> HIDE DEF S
    <2> QED BY <1>4, <1>5, SetInduction
<1>7. \E e \in Int : ByteBase * Mem(b, n) = SumTo(c, n) + Ones * e
    BY <1>1, <1>6
<1>8. SumTo(c, n) \in Int
    BY <1>1, <1>2, SumInt
<1> QED BY <1>3, <1>7, <1>8 DEF n

\* One byte changed.
LEMMA MemChange ==
    ASSUME NEW b, Typed(b), NEW c, Typed(c), NEW n \in Nat, n <= Room, NEW o \in 0..(n - 1),
           \A x \in 0..(n - 1) : x # o => b[x] = c[x]
    PROVE  Mem(c, n) = Mem(b, n) + (c[o] * Weight(o) - b[o] * Weight(o))
<1>1. \A i \in 1..n : Terms(b)[i] \in Int /\ Terms(c)[i] \in Int
    BY TermsAre, Base
<1>2. ASSUME NEW i \in 1..n, i # o + 1 PROVE Terms(b)[i] = Terms(c)[i]
    <2>1. i \in 1..Room /\ i - 1 \in 0..(n - 1) /\ i - 1 # o
        BY <1>2, Base
    <2>2. b[i - 1] = c[i - 1]
        BY <2>1
    <2> QED BY <2>1, <2>2, TermsAre
<1>3. o + 1 \in 1..n /\ o + 1 \in 1..Room /\ (o + 1) - 1 = o
    BY Base
<1>4. Mem(c, n) = Mem(b, n) + (Terms(c)[o + 1] - Terms(b)[o + 1])
    BY <1>1, <1>2, <1>3, SumChange DEF Mem
<1>5. /\ Terms(c)[o + 1] = c[(o + 1) - 1] * Weight((o + 1) - 1)
      /\ Terms(b)[o + 1] = b[(o + 1) - 1] * Weight((o + 1) - 1)
    BY <1>3, TermsAre
<1> QED BY <1>3, <1>4, <1>5, Zenon

-----------------------------------------------------------------------------
(* Multiples of 0xFFFF.                                                      *)
Multiple(x) == \E q \in Int : x = Ones * q

LEMMA MultipleIsZero ==
    ASSUME NEW x \in Int
    PROVE  (x % Ones = 0) <=> Multiple(x)
<1>1. ASSUME NEW n \in Nat, n >= 1, NEW y \in Int
      PROVE  y % n = 0 => y = n * (y \div n) /\ y \div n \in Int
    BY <1>1, SMT
<1>2. ASSUME NEW n \in Nat, n >= 1, NEW q \in Int
      PROVE  (n * q) % n = 0
    BY <1>2, SMT
<1>3. Ones \in Nat /\ Ones >= 1
    BY OnesNat, SMT
<1>4. x % Ones = 0 => x = Ones * (x \div Ones) /\ x \div Ones \in Int
    BY <1>1, <1>3
<1>5. \A q \in Int : (Ones * q) % Ones = 0
    BY <1>2, <1>3
<1> QED BY <1>4, <1>5, Zenon DEF Multiple

LEMMA MultipleShift ==
    ASSUME NEW x \in Int, NEW y \in Int, NEW e \in Int, x = y + Ones * e
    PROVE  Multiple(x) <=> Multiple(y)
<1>1. Ones \in Int
    BY OnesNat
<1>2. \A q \in Int : Ones * (q + e) = Ones * q + Ones * e /\ Ones * (q - e) = Ones * q - Ones * e
    BY <1>1, SMT
<1>3. Ones * e \in Int
    BY <1>1, SMT
<1>4. ASSUME NEW q \in Int, x = Ones * q PROVE Multiple(y)
    <2>1. y = Ones * q - Ones * e
        BY <1>3, <1>4
    <2>2. y = Ones * (q - e) /\ q - e \in Int
        BY <1>2, <2>1
    <2> QED BY <2>2 DEF Multiple
<1>5. ASSUME NEW q \in Int, y = Ones * q PROVE Multiple(x)
    <2>1. x = Ones * (q + e) /\ q + e \in Int
        BY <1>2, <1>5
    <2> QED BY <2>1 DEF Multiple
<1> QED BY <1>4, <1>5 DEF Multiple

\* Exchanging the bytes of every word does not change whether 0xFFFF divides
\* the sum.
LEMMA MultipleSwap ==
    ASSUME NEW x \in Int
    PROVE  Multiple(ByteBase * x) <=> Multiple(x)
<1>1. ByteBase * x \in Int /\ ByteBase * (ByteBase * x) \in Int
    BY Base, SMT
<1>2. Multiple(ByteBase * (ByteBase * x)) <=> Multiple(x)
    BY <1>1, SwapTwice, MultipleShift
<1>3. ASSUME NEW y \in Int, Multiple(y) PROVE Multiple(ByteBase * y)
    <2>1. PICK q \in Int : y = Ones * q
        BY <1>3 DEF Multiple
    <2>2. ByteBase * (Ones * q) = Ones * (ByteBase * q) /\ ByteBase * q \in Int
        BY Base, OnesNat, SMT
    <2> QED BY <2>1, <2>2 DEF Multiple
<1> QED BY <1>1, <1>2, <1>3

\* Nothing closer to zero than 0xFFFF is a multiple of it.
LEMMA MultipleNear ==
    ASSUME NEW x \in Int, x # 0, -Ones < x, x < Ones
    PROVE  ~Multiple(x)
<1> SUFFICES ASSUME NEW q \in Int, x = Ones * q PROVE FALSE
    BY DEF Multiple
<1>1. ASSUME NEW n \in Nat, n >= 1, NEW p \in Int
      PROVE  p >= 1 => n * p >= n
    BY <1>1, SMT
<1>2. ASSUME NEW n \in Nat, n >= 1, NEW p \in Int
      PROVE  p <= -1 => n * p <= -n
    BY <1>2, SMT
<1>3. Ones \in Nat /\ Ones >= 1 /\ Ones * 0 = 0
    BY OnesNat, SMT
<1>4. q >= 1 => Ones * q >= Ones
    BY <1>1, <1>3
<1>5. q <= -1 => Ones * q <= -Ones
    BY <1>2, <1>3
<1> HIDE DEF Ones
<1> QED BY <1>3, <1>4, <1>5

-----------------------------------------------------------------------------
(* A datagram that fits its buffer, as Datagrams has them.                   *)
Fits(m) ==
    /\ m \in Datagram
    /\ Len(m.sa) = 4 /\ Len(m.da) = 4
    /\ ChecksumAt(m.kind) + 2 <= Len(m.bytes)
    /\ Len(m.bytes) + 8 <= Room
    /\ LengthsAgree(m)

LEMMA DatagramsFit == \A m \in Datagrams : Fits(m)
BY ChecksumAssumption DEF Fits

LEMMA FieldIn ==
    ASSUME NEW m, Fits(m)
    PROVE  /\ ChecksumAt(m.kind) \in Nat
           /\ {ChecksumAt(m.kind) + 1, ChecksumAt(m.kind) + 2} \subseteq 1..Len(m.bytes)
           /\ m.kind \in Kinds /\ m.bytes \in Seq(Bytes) /\ Len(m.bytes) \in Nat
<1>1. m.kind \in Kinds /\ m.bytes \in Seq(Bytes)
    BY DEF Fits, Datagram
<1>2. Len(m.bytes) \in Nat
    BY <1>1, LenProperties
<1>3. ChecksumAt(m.kind) \in {2, 6, 10}
    BY <1>1 DEF ChecksumAt, Kinds
<1> QED BY <1>1, <1>2, <1>3, SMT DEF Fits

(* Writing the checksum field changes neither the kind nor a length.         *)
LEMMA WithChecksumFits ==
    ASSUME NEW m, Fits(m), NEW hi \in Bytes, NEW lo \in Bytes
    PROVE  Fits(WithChecksum(m, hi, lo)) /\ WithChecksum(m, hi, lo).kind = m.kind
<1> DEFINE i == ChecksumAt(m.kind) + 1
           j == ChecksumAt(m.kind) + 2
           b == [[m.bytes EXCEPT ![i] = hi] EXCEPT ![j] = lo]
<1>0. i \in 1..Len(m.bytes) /\ j \in 1..Len(m.bytes) /\ m.bytes \in Seq(Bytes)
    BY FieldIn
<1>1. b \in Seq(Bytes) /\ Len(b) = Len(m.bytes)
    BY <1>0, ExceptSeq
<1>1a. m.kind = "udp" => b[5] = m.bytes[5] /\ b[6] = m.bytes[6]
    <2> SUFFICES ASSUME m.kind = "udp" PROVE b[5] = m.bytes[5] /\ b[6] = m.bytes[6]
        OBVIOUS
    <2>1. i = 7 /\ j = 8
        BY DEF ChecksumAt
    <2>2. 5 \in 1..Len(m.bytes) /\ 6 \in 1..Len(m.bytes)
        BY <1>0, <2>1
    <2>3. 5 # i /\ 5 # j /\ 6 # i /\ 6 # j
        BY <2>1
    <2> HIDE DEF i, j
    <2> QED BY <1>0, <2>2, <2>3
<1>2. m \in Datagram
    BY DEF Fits
<1>3. WithChecksum(m, hi, lo) = [m EXCEPT !.bytes = b]
    BY <1>2 DEF WithChecksum, Datagram
<1> HIDE DEF b
<1>4. [m EXCEPT !.bytes = b] \in Datagram
    BY <1>1, <1>2 DEF Datagram
<1>5. /\ [m EXCEPT !.bytes = b].kind = m.kind /\ [m EXCEPT !.bytes = b].bytes = b
      /\ [m EXCEPT !.bytes = b].sa = m.sa /\ [m EXCEPT !.bytes = b].da = m.da
    BY <1>2 DEF Datagram
<1>6. LengthsAgree([m EXCEPT !.bytes = b])
    BY <1>1, <1>1a, <1>5, Zenon DEF Fits, LengthsAgree
<1> QED BY <1>1, <1>3, <1>4, <1>5, <1>6 DEF Fits

LEMMA InBufferTyped ==
    ASSUME NEW m, Fits(m), NEW old \in Bytes
    PROVE  InBuffer(m, old) \in [0..(Room - 1) -> Bytes]
<1>1. m.bytes \in Seq(Bytes) /\ Len(m.bytes) \in Nat
    BY FieldIn
<1>2. 0 \in Bytes
    BY ChecksumAssumption, SMT DEF Bytes
<1>3. ASSUME NEW o \in 0..(Room - 1), o < Len(m.bytes) PROVE m.bytes[o + 1] \in Bytes
    <2>1. o + 1 \in 1..Len(m.bytes)
        BY <1>1, <1>3, ChecksumAssumption, SMT
    <2> QED BY <1>1, <2>1, ElementOfSeq
<1> QED BY <1>1, <1>2, <1>3 DEF InBuffer

(* Whatever is summed, it is words of 16 bits.                               *)
LEMMA AddendsTyped ==
    ASSUME Fits(d), buf \in [0..(Room - 1) -> Bytes]
    PROVE  Addends \in Seq(Words)
<1> DEFINE n == Len(d.bytes)
<1>1. /\ d.kind \in Kinds /\ n \in Nat /\ n + 8 <= Room /\ Room \in Nat /\ n >= 4
    <2>1. ChecksumAt(d.kind) \in Nat /\ ChecksumAt(d.kind) >= 2
        BY FieldIn DEF ChecksumAt, Kinds
    <2> QED BY FieldIn, <2>1, ChecksumAssumption, SMT DEF Fits
<1>2. Bytes \subseteq Words
    BY OnesNat, ChecksumAssumption, SMT DEF Bytes, Words, Ones
<1>3. ASSUME NEW o \in Nat, NEW count \in Nat, o + 2 * count <= Room
      PROVE  WordsAt(o, count) \in Seq(Words)
    <2>1. ASSUME NEW j \in 1..count PROVE WordAt(o + 2 * (j - 1)) \in Words
        <3>1. o + 2 * (j - 1) \in 0..(Room - 1) /\ o + 2 * (j - 1) + 1 \in 0..(Room - 1)
            BY <1>1, <1>3, SMT
        <3> QED BY <3>1, WordOfBytes DEF WordAt
    <2>2. WordsAt(o, count) \in [1..count -> Words]
        BY <2>1 DEF WordsAt
    <2> QED BY <2>2, SeqDef
<1>4. ASSUME NEW o \in Nat, o < Room, NEW x PROVE OddByte(o, x) \in Seq(Words)
    <2>1. buf[o] \in Words
        <3>1. o \in 0..(Room - 1)
            BY <1>1, <1>4, SMT
        <3> QED BY <1>2, <3>1
    <2>2. <<buf[o]>> \in Seq(Words) /\ << >> \in Seq(Words)
        BY <2>1, EmptySeq
    <2> QED BY <2>2 DEF OddByte
<1>5. ASSUME NEW a \in Seq(Bytes), Len(a) = 4 PROVE AddressWords(a) \in Seq(Words)
    <2>1. a[1] \in Bytes /\ a[2] \in Bytes /\ a[3] \in Bytes /\ a[4] \in Bytes
        <3>1. {1, 2, 3, 4} \subseteq 1..Len(a)
            BY <1>5, SMT
        <3> QED BY <1>5, <3>1, ElementOfSeq
    <2>2. a[1] + ByteBase * a[2] \in Words /\ a[3] + ByteBase * a[4] \in Words
        BY <2>1, WordOfBytes
    <2>3. <<a[1] + ByteBase * a[2], a[3] + ByteBase * a[4]>> \in Seq(Words)
        BY <2>2
    <2> QED BY <2>3 DEF AddressWords
<1>6. /\ n \div 2 \in Nat /\ 4 \in Nat /\ 0 \in Nat /\ 8 \in Nat
      /\ 0 + 2 * (n \div 2) <= Room /\ 8 + 2 * (n \div 2) <= Room /\ 0 + 2 * 4 <= Room
      /\ n - 1 \in Nat /\ n - 1 < Room /\ 8 + n - 2 \in Nat /\ 8 + n - 2 < Room
    <2>1. n \in Nat /\ n + 8 <= Room /\ Room \in Nat /\ n >= 4
        BY <1>1
    <2> HIDE DEF n
    <2>2. n \div 2 \in Nat /\ 2 * (n \div 2) <= n
        BY <2>1, SMT
    <2> QED BY <2>1, <2>2, SMT
<1> HIDE DEF n
<1>7. CASE d.kind = "ip"
    <2>1. WordsAt(0, n \div 2) \in Seq(Words)
        BY <1>3, <1>6
    <2> QED BY <1>7, <2>1 DEF Addends, n
<1>8. CASE d.kind = "icmp"
    <2>1. WordsAt(0, n \div 2) \in Seq(Words) /\ OddByte(n - 1, n) \in Seq(Words)
        BY <1>3, <1>4, <1>6
    <2>2. WordsAt(0, n \div 2) \o OddByte(n - 1, n) \in Seq(Words)
        BY <2>1, ConcatProperties
    <2> QED BY <1>8, <2>2 DEF Addends, n
<1>9. CASE d.kind = "udp"
    <2>1. AddressWords(d.sa) \in Seq(Words) /\ AddressWords(d.da) \in Seq(Words)
        BY <1>5 DEF Fits, Datagram
    <2>2. BSWAP16(UdpProto) \in Words /\ WordAt(4) \in Words
        <3>1. UdpProto \in Words
            BY <1>2, ChecksumAssumption
        <3>2. UdpProto % ByteBase \in Bytes /\ UdpProto \div ByteBase \in Bytes
            BY <3>1, BytesOfWord
        <3>3. (UdpProto \div ByteBase) + ByteBase * (UdpProto % ByteBase) \in Words
            BY <3>2, WordOfBytes
        <3>4. BSWAP16(UdpProto) =
                   (UdpProto \div ByteBase) + ByteBase * (UdpProto % ByteBase)
            <4>1. UdpProto % ByteBase \in Nat /\ UdpProto \div ByteBase \in Nat
                BY <3>2, ChecksumAssumption, SMT DEF Bytes
            <4> QED BY <4>1, ChecksumAssumption, SMT DEF BSWAP16
        <3>5. 4 \in 0..(Room - 1) /\ 5 \in 0..(Room - 1)
            BY <1>1, SMT
        <3>6. WordAt(4) \in Words
            BY <3>5, WordOfBytes DEF WordAt
        <3> QED BY <3>3, <3>4, <3>6
    <2>3. <<BSWAP16(UdpProto), WordAt(4)>> \in Seq(Words)
        BY <2>2
    <2>4. WordsAt(0, 4) \in Seq(Words) /\ WordsAt(8, n \div 2) \in Seq(Words)
          /\ OddByte(8 + n - 2, n) \in Seq(Words)
        BY <1>3, <1>4, <1>6
    <2>5. AddressWords(d.sa) \o AddressWords(d.da) \o <<BSWAP16(UdpProto), WordAt(4)>>
             \o WordsAt(0, 4) \o WordsAt(8, n \div 2) \o OddByte(8 + n - 2, n) \in Seq(Words)
        BY <2>1, <2>3, <2>4, ConcatProperties
    <2> QED BY <1>9, <2>5 DEF Addends, n
<1> QED BY <1>1, <1>7, <1>8, <1>9 DEF Kinds

-----------------------------------------------------------------------------
(* What the words of a datagram add up to.                                   *)

\* The pseudo header of UDP, as words of memory.
Pseudo(m, b) ==
    IF m.kind = "udp"
    THEN Total(AddressWords(m.sa)) + Total(AddressWords(m.da))
         + BSWAP16(UdpProto) + (b[4] + ByteBase * b[5])
    ELSE 0

ZeroBehind(m, b) == m.kind = "udp" => \A o \in Len(m.bytes)..(Room - 1) : b[o] = 0

LEMMA AddressTotal ==
    ASSUME NEW a \in Seq(Bytes), Len(a) = 4
    PROVE  /\ a[1] \in Nat /\ a[2] \in Nat /\ a[3] \in Nat /\ a[4] \in Nat
           /\ AddressWords(a) \in Seq(Int)
           /\ Total(AddressWords(a)) = (a[1] + ByteBase * a[2]) + (a[3] + ByteBase * a[4])
<1>1. a[1] \in Nat /\ a[2] \in Nat /\ a[3] \in Nat /\ a[4] \in Nat
    <2>1. {1, 2, 3, 4} \subseteq 1..Len(a)
        BY SMT
    <2> QED BY <2>1, ElementOfSeq, Base
<1>2. a[1] + ByteBase * a[2] \in Int /\ a[3] + ByteBase * a[4] \in Int
    BY <1>1, Base, SMT
<1> QED BY <1>1, <1>2, TotalTwo DEF AddressWords

LEMMA Distribute ==
    ASSUME NEW t \in Int, NEW x \in Int, NEW y \in Int
    PROVE  t * (x + y) = t * x + t * y /\ t * x \in Int /\ t * y \in Int
BY SMT

LEMMA WordSwapped ==
    ASSUME NEW x \in Nat, NEW y \in Nat
    PROVE  /\ ByteBase * (x + ByteBase * y) = (x * ByteBase + y * 1) + Ones * y
           /\ x + ByteBase * y \in Int
<1>1. ASSUME NEW t \in Nat
      PROVE  /\ t * (x + t * y) = (x * t + y * 1) + (t * t - 1) * y
             /\ x + t * y \in Int
    BY <1>1, SMT
<1> QED BY <1>1, Base DEF Ones

\* Two addresses in network order and as words of memory.
LEMMA EightBytes ==
    ASSUME NEW a, NEW b, NEW c,
           a[1] \in Nat /\ a[2] \in Nat /\ a[3] \in Nat /\ a[4] \in Nat,
           b[1] \in Nat /\ b[2] \in Nat /\ b[3] \in Nat /\ b[4] \in Nat,
           c[1] = a[1] * ByteBase /\ c[2] = a[2] * 1 /\ c[3] = a[3] * ByteBase /\ c[4] = a[4] * 1,
           c[5] = b[1] * ByteBase /\ c[6] = b[2] * 1 /\ c[7] = b[3] * ByteBase /\ c[8] = b[4] * 1
    PROVE  /\ SumTo(c, 8) \in Int
           /\ (a[2] + a[4]) + (b[2] + b[4]) \in Int
           /\ ByteBase * (((a[1] + ByteBase * a[2]) + (a[3] + ByteBase * a[4]))
                             + ((b[1] + ByteBase * b[2]) + (b[3] + ByteBase * b[4])))
                 = SumTo(c, 8) + Ones * ((a[2] + a[4]) + (b[2] + b[4]))
<1>6. /\ c[1] \in Int /\ c[2] \in Int /\ c[3] \in Int /\ c[4] \in Int
      /\ c[5] \in Int /\ c[6] \in Int /\ c[7] \in Int /\ c[8] \in Int
    <2>1. ASSUME NEW x \in Nat PROVE x * ByteBase \in Int /\ x * 1 \in Int
        BY Base, SMT
    <2> QED BY <2>1, Zenon
<1>5. SumTo(c, 8) = c[1] + c[2] + c[3] + c[4] + c[5] + c[6] + c[7] + c[8]
    <2>2. SumTo(c, 0) = 0 /\ SumTo(c, 0 + 1) = SumTo(c, 0) + c[0 + 1]
        BY SumUnfolds
    <2>3. SumTo(c, 1 + 1) = SumTo(c, 1) + c[1 + 1] /\ SumTo(c, 2 + 1) = SumTo(c, 2) + c[2 + 1]
        BY SumUnfolds
    <2>4. SumTo(c, 3 + 1) = SumTo(c, 3) + c[3 + 1] /\ SumTo(c, 4 + 1) = SumTo(c, 4) + c[4 + 1]
        BY SumUnfolds
    <2>5. SumTo(c, 5 + 1) = SumTo(c, 5) + c[5 + 1] /\ SumTo(c, 6 + 1) = SumTo(c, 6) + c[6 + 1]
        BY SumUnfolds
    <2>6. SumTo(c, 7 + 1) = SumTo(c, 7) + c[7 + 1]
        BY SumUnfolds
    <2>7. /\ SumTo(c, 1) = 0 + c[1] /\ SumTo(c, 2) = SumTo(c, 1) + c[2]
          /\ SumTo(c, 3) = SumTo(c, 2) + c[3] /\ SumTo(c, 4) = SumTo(c, 3) + c[4]
          /\ SumTo(c, 5) = SumTo(c, 4) + c[5] /\ SumTo(c, 6) = SumTo(c, 5) + c[6]
          /\ SumTo(c, 7) = SumTo(c, 6) + c[7] /\ SumTo(c, 8) = SumTo(c, 7) + c[8]
        BY <2>2, <2>3, <2>4, <2>5, <2>6
    <2>8. SumTo(c, 4) = c[1] + c[2] + c[3] + c[4] /\ SumTo(c, 4) \in Int
        <3>1. SumTo(c, 2) = c[1] + c[2] /\ SumTo(c, 2) \in Int
            BY <1>6, <2>7
        <3> QED BY <1>6, <2>7, <3>1
    <2>9. SumTo(c, 6) = SumTo(c, 4) + c[5] + c[6]
        BY <1>6, <2>7, <2>8
    <2>10. SumTo(c, 8) = SumTo(c, 4) + c[5] + c[6] + c[7] + c[8]
        BY <1>6, <2>7, <2>8, <2>9
    <2> QED BY <2>8, <2>10, Zenon
<1> DEFINE w1 == a[1] + ByteBase * a[2]
           w2 == a[3] + ByteBase * a[4]
           w3 == b[1] + ByteBase * b[2]
           w4 == b[3] + ByteBase * b[4]
<1>7. /\ ByteBase * w1 = (c[1] + c[2]) + Ones * a[2] /\ w1 \in Int
      /\ ByteBase * w2 = (c[3] + c[4]) + Ones * a[4] /\ w2 \in Int
      /\ ByteBase * w3 = (c[5] + c[6]) + Ones * b[2] /\ w3 \in Int
      /\ ByteBase * w4 = (c[7] + c[8]) + Ones * b[4] /\ w4 \in Int
    <2>1. ByteBase * w1 = (c[1] + c[2]) + Ones * a[2] /\ w1 \in Int
        <3>1. /\ ByteBase * (a[1] + ByteBase * a[2])
                    = (a[1] * ByteBase + a[2] * 1) + Ones * a[2]
              /\ a[1] + ByteBase * a[2] \in Int
            BY WordSwapped
        <3> QED BY <3>1, Zenon
    <2>2. ByteBase * w2 = (c[3] + c[4]) + Ones * a[4] /\ w2 \in Int
        <3>1. /\ ByteBase * (a[3] + ByteBase * a[4])
                    = (a[3] * ByteBase + a[4] * 1) + Ones * a[4]
              /\ a[3] + ByteBase * a[4] \in Int
            BY WordSwapped
        <3> QED BY <3>1, Zenon
    <2>3. ByteBase * w3 = (c[5] + c[6]) + Ones * b[2] /\ w3 \in Int
        <3>1. /\ ByteBase * (b[1] + ByteBase * b[2])
                    = (b[1] * ByteBase + b[2] * 1) + Ones * b[2]
              /\ b[1] + ByteBase * b[2] \in Int
            BY WordSwapped
        <3> QED BY <3>1, Zenon
    <2>4. ByteBase * w4 = (c[7] + c[8]) + Ones * b[4] /\ w4 \in Int
        <3>1. /\ ByteBase * (b[3] + ByteBase * b[4])
                    = (b[3] * ByteBase + b[4] * 1) + Ones * b[4]
              /\ b[3] + ByteBase * b[4] \in Int
            BY WordSwapped
        <3> QED BY <3>1, Zenon
    <2> QED BY <2>1, <2>2, <2>3, <2>4
<1> HIDE DEF w1, w2, w3, w4
<1>9. ByteBase * ((w1 + w2) + (w3 + w4))
         = (ByteBase * w1 + ByteBase * w2) + (ByteBase * w3 + ByteBase * w4)
    <2>1. w1 + w2 \in Int /\ w3 + w4 \in Int /\ ByteBase \in Int
        BY <1>7, Base
    <2>2. ByteBase * ((w1 + w2) + (w3 + w4)) = ByteBase * (w1 + w2) + ByteBase * (w3 + w4)
        BY <2>1, Distribute
    <2>3. /\ ByteBase * (w1 + w2) = ByteBase * w1 + ByteBase * w2
          /\ ByteBase * (w3 + w4) = ByteBase * w3 + ByteBase * w4
        BY <1>7, <2>1, Distribute
    <2> QED BY <2>2, <2>3, Zenon
<1>10. /\ Ones * ((a[2] + a[4]) + (b[2] + b[4]))
             = (Ones * a[2] + Ones * a[4]) + (Ones * b[2] + Ones * b[4])
       /\ Ones * a[2] \in Int /\ Ones * a[4] \in Int /\ Ones * b[2] \in Int /\ Ones * b[4] \in Int
       /\ (a[2] + a[4]) + (b[2] + b[4]) \in Int
    <2>1. /\ a[2] \in Int /\ a[4] \in Int /\ b[2] \in Int /\ b[4] \in Int /\ Ones \in Int
          /\ a[2] + a[4] \in Int /\ b[2] + b[4] \in Int
        BY OnesNat
    <2>2. Ones * ((a[2] + a[4]) + (b[2] + b[4])) = Ones * (a[2] + a[4]) + Ones * (b[2] + b[4])
        BY <2>1, Distribute
    <2>3. /\ Ones * (a[2] + a[4]) = Ones * a[2] + Ones * a[4]
          /\ Ones * (b[2] + b[4]) = Ones * b[2] + Ones * b[4]
          /\ Ones * a[2] \in Int /\ Ones * a[4] \in Int /\ Ones * b[2] \in Int /\ Ones * b[4] \in Int
        BY <2>1, Distribute
    <2>4. (a[2] + a[4]) + (b[2] + b[4]) \in Int
        BY <2>1
    <2> QED BY <2>2, <2>3, <2>4, Zenon
<1>11. SumTo(c, 8) = ((c[1] + c[2]) + (c[3] + c[4])) + ((c[5] + c[6]) + (c[7] + c[8]))
    BY <1>5, <1>6
<1>12. /\ c[1] + c[2] \in Int /\ c[3] + c[4] \in Int /\ c[5] + c[6] \in Int /\ c[7] + c[8] \in Int
    BY <1>6
<1>13. SumTo(c, 8) \in Int
    BY <1>11, <1>12
<1>14. ByteBase * ((w1 + w2) + (w3 + w4)) = SumTo(c, 8) + Ones * ((a[2] + a[4]) + (b[2] + b[4]))
    <2> DEFINE c1 == c[1] + c[2]
               c2 == c[3] + c[4]
               c3 == c[5] + c[6]
               c4 == c[7] + c[8]
               o1 == Ones * a[2]
               o2 == Ones * a[4]
               o3 == Ones * b[2]
               o4 == Ones * b[4]
    <2>1. /\ ByteBase * w1 = c1 + o1 /\ ByteBase * w2 = c2 + o2
          /\ ByteBase * w3 = c3 + o3 /\ ByteBase * w4 = c4 + o4
          /\ c1 \in Int /\ c2 \in Int /\ c3 \in Int /\ c4 \in Int
          /\ o1 \in Int /\ o2 \in Int /\ o3 \in Int /\ o4 \in Int
        BY <1>7, <1>10, <1>12, Zenon
    <2>2. SumTo(c, 8) = (c1 + c2) + (c3 + c4)
        BY <1>11, Zenon
    <2>3. Ones * ((a[2] + a[4]) + (b[2] + b[4])) = (o1 + o2) + (o3 + o4)
        BY <1>10, Zenon
    <2> HIDE DEF c1, c2, c3, c4, o1, o2, o3, o4
    <2>4. ByteBase * ((w1 + w2) + (w3 + w4)) = ((c1 + o1) + (c2 + o2)) + ((c3 + o3) + (c4 + o4))
        BY <1>9, <2>1, Zenon
    <2>5. ((c1 + o1) + (c2 + o2)) + ((c3 + o3) + (c4 + o4))
             = ((c1 + c2) + (c3 + c4)) + ((o1 + o2) + (o3 + o4))
        BY <2>1, SMT
    <2> QED BY <2>2, <2>3, <2>4, <2>5, Zenon
<1> QED BY <1>10, <1>13, <1>14, Zenon DEF w1, w2, w3, w4

LEMMA AddressNetwork ==
    ASSUME NEW a \in Seq(Bytes), Len(a) = 4, NEW b \in Seq(Bytes), Len(b) = 4
    PROVE  /\ NetworkSum(a \o b) \in Int
           /\ \E e \in Int :
                 ByteBase * (Total(AddressWords(a)) + Total(AddressWords(b)))
                     = NetworkSum(a \o b) + Ones * e
<1> DEFINE s == a \o b
           c == [j \in 1..Len(s) |-> s[j] * (IF j % 2 = 1 THEN ByteBase ELSE 1)]
<1>1. /\ Len(s) = 8 /\ s[1] = a[1] /\ s[2] = a[2] /\ s[3] = a[3] /\ s[4] = a[4]
      /\ s[5] = b[1] /\ s[6] = b[2] /\ s[7] = b[3] /\ s[8] = b[4]
    <2>1. /\ Len(s) = Len(a) + Len(b)
          /\ \A i \in 1..Len(a) : s[i] = a[i]
          /\ \A i \in 1..Len(b) : s[Len(a) + i] = b[i]
        <3>1. /\ Len(s) = Len(a) + Len(b)
              /\ \A i \in 1..(Len(a) + Len(b)) : s[i] = IF i <= Len(a) THEN a[i] ELSE b[i - Len(a)]
            BY ConcatProperties
        <3> HIDE DEF s
        <3> QED BY <3>1
    <2> HIDE DEF s
    <2>2. /\ Len(s) = 8 /\ \A i \in 1..4 : s[i] = a[i]
          /\ \A i \in 1..4 : s[4 + i] = b[i]
        BY <2>1
    <2>3. /\ s[4 + 1] = b[1] /\ s[4 + 2] = b[2] /\ s[4 + 3] = b[3] /\ s[4 + 4] = b[4]
          /\ 4 + 1 = 5 /\ 4 + 2 = 6 /\ 4 + 3 = 7 /\ 4 + 4 = 8
        BY <2>2
    <2> QED BY <2>2, <2>3
<1>2. NetworkSum(s) = SumTo(c, 8)
    BY <1>1 DEF NetworkSum
<1> HIDE DEF s
<1>3. /\ a[1] \in Nat /\ a[2] \in Nat /\ a[3] \in Nat /\ a[4] \in Nat
      /\ b[1] \in Nat /\ b[2] \in Nat /\ b[3] \in Nat /\ b[4] \in Nat
    BY AddressTotal
<1>4. /\ c[1] = a[1] * ByteBase /\ c[2] = a[2] * 1 /\ c[3] = a[3] * ByteBase /\ c[4] = a[4] * 1
      /\ c[5] = b[1] * ByteBase /\ c[6] = b[2] * 1 /\ c[7] = b[3] * ByteBase /\ c[8] = b[4] * 1
    BY <1>1
<1> HIDE DEF c
<1>5. /\ SumTo(c, 8) \in Int
      /\ (a[2] + a[4]) + (b[2] + b[4]) \in Int
      /\ ByteBase * (((a[1] + ByteBase * a[2]) + (a[3] + ByteBase * a[4]))
                        + ((b[1] + ByteBase * b[2]) + (b[3] + ByteBase * b[4])))
            = SumTo(c, 8) + Ones * ((a[2] + a[4]) + (b[2] + b[4]))
    BY <1>3, <1>4, EightBytes, Zenon
<1>6. /\ Total(AddressWords(a)) = (a[1] + ByteBase * a[2]) + (a[3] + ByteBase * a[4])
      /\ Total(AddressWords(b)) = (b[1] + ByteBase * b[2]) + (b[3] + ByteBase * b[4])
    BY AddressTotal
<1> QED BY <1>2, <1>5, <1>6, Zenon DEF s

LEMMA SwapProto ==
    /\ BSWAP16(UdpProto) \in Int
    /\ ByteBase * BSWAP16(UdpProto) = UdpProto + Ones * UdpProto
    /\ UdpProto \in Int
<1>1. UdpProto \in 0..(ByteBase - 1) /\ UdpProto \in Int
    BY ChecksumAssumption DEF Bytes
<1>2. ASSUME NEW n \in Nat, n >= 2, NEW x \in 0..(n - 1) PROVE x % n = x /\ x \div n = 0
    BY <1>2, SMT
<1>3. UdpProto % ByteBase = UdpProto /\ UdpProto \div ByteBase = 0
    BY <1>1, <1>2, Base
<1>4. BSWAP16(UdpProto) = UdpProto * ByteBase + 0
    BY <1>3, Zenon DEF BSWAP16
<1>5. UdpProto * ByteBase + 0 = ByteBase * UdpProto /\ ByteBase * UdpProto \in Int
    BY <1>1, Base, SMT
<1> QED BY <1>1, <1>4, <1>5, SwapTwice, Zenon

LEMMA OddTotal ==
    ASSUME Typed(buf), NEW o \in 0..(Room - 1), NEW n \in Nat
    PROVE  /\ OddByte(o, n) \in Seq(Int)
           /\ Total(OddByte(o, n)) = IF n % 2 = 1 THEN buf[o] ELSE 0
<1>1. buf[o] \in Int
    <2>1. buf[o] \in 0..(ByteBase - 1)
        BY DEF Typed, Bytes
    <2> QED BY <2>1
<1> QED BY <1>1, TotalOne DEF OddByte

\* Any addend is a word: the sum of all is that of the bytes the datagram has.
LEMMA AddendsTotal ==
    ASSUME Fits(d), Typed(buf), ZeroBehind(d, buf)
    PROVE  /\ Addends \in Seq(Int)
           /\ Total(Addends) = Pseudo(d, buf) + Mem(buf, Len(d.bytes))
<1> DEFINE n == Len(d.bytes)
<1>1. /\ d.kind \in Kinds /\ n \in Nat /\ n + 8 <= Room /\ Room \in Nat /\ n >= 4
      /\ d.kind = "udp" => n >= 8
    <2>1. /\ ChecksumAt(d.kind) \in Nat /\ ChecksumAt(d.kind) >= 2
          /\ d.kind = "udp" => ChecksumAt(d.kind) = 6
        BY FieldIn DEF ChecksumAt, Kinds
    <2>2. d.kind \in Kinds /\ n \in Nat /\ Room \in Nat
        BY FieldIn, Base
    <2>3. ChecksumAt(d.kind) + 2 <= n /\ n + 8 <= Room
        BY DEF Fits
    <2> HIDE DEF n
    <2>4. n >= 4
        BY <2>1, <2>2, <2>3
    <2>5. ASSUME d.kind = "udp" PROVE n >= 8
        <3>1. ChecksumAt(d.kind) = 6
            BY <2>1, <2>5
        <3> QED BY <2>2, <2>3, <3>1
    <2> QED BY <2>2, <2>3, <2>4, <2>5
<1>2. d.kind = "ip" => n % 2 = 0
    BY DEF Fits, LengthsAgree
<1>3. Addends = CASE d.kind = "ip"   -> WordsAt(0, n \div 2)
                  [] d.kind = "icmp" -> WordsAt(0, n \div 2) \o OddByte(n - 1, n)
                  [] d.kind = "udp"  -> AddressWords(d.sa) \o AddressWords(d.da)
                                        \o <<BSWAP16(UdpProto), WordAt(4)>>
                                        \o WordsAt(0, 4) \o WordsAt(8, n \div 2)
                                        \o OddByte(8 + n - 2, n)
    BY DEF Addends
<1>4. d.kind = "udp" => \A o \in n..(Room - 1) : buf[o] = 0
    BY DEF ZeroBehind
<1> HIDE DEF n
<1> DEFINE h == n \div 2
<1>5. h \in Nat /\ n % 2 \in {0, 1} /\ n = 2 * h + (n % 2)
    BY <1>1, SMT
<1>6. h = n \div 2
    OBVIOUS
<1> HIDE DEF h
<1>7. Mem(buf, 0) = 0
    BY SumUnfolds DEF Mem
<1>8. /\ WordsAt(0, h) \in Seq(Int)
      /\ Total(WordsAt(0, h)) = Mem(buf, 2 * h) - Mem(buf, 0)
    <2>1. 0 + 2 * h <= Room /\ 0 + 2 * h = 2 * h /\ 0 % 2 = 0
        BY <1>1, <1>5
    <2>2. Total(WordsAt(0, h)) = Mem(buf, 0 + 2 * h) - Mem(buf, 0) /\ WordsAt(0, h) \in Seq(Int)
        BY <1>5, <2>1, TotalWords
    <2> QED BY <2>1, <2>2, Zenon
<1>9. Mem(buf, 2 * h) \in Int
    BY <1>1, <1>5, MemInt
<1>10. Total(WordsAt(0, h)) = Mem(buf, 2 * h)
    BY <1>7, <1>8, <1>9
<1>11. CASE d.kind = "ip"
    <2>1. Addends = WordsAt(0, h) /\ n = 2 * h
        BY <1>2, <1>3, <1>5, <1>6, <1>11
    <2>2. Pseudo(d, buf) = 0
        BY <1>11 DEF Pseudo
    <2>3. Total(Addends) = Mem(buf, n)
        BY <1>10, <2>1, Zenon
    <2>4. Mem(buf, n) \in Int
        BY <1>9, <2>1
    <2> QED BY <1>8, <2>1, <2>2, <2>3, <2>4 DEF n
<1>12. CASE d.kind = "icmp"
    <2>1. Addends = WordsAt(0, h) \o OddByte(n - 1, n)
        BY <1>3, <1>6, <1>12
    <2>2. Pseudo(d, buf) = 0
        BY <1>12 DEF Pseudo
    <2>3. /\ OddByte(n - 1, n) \in Seq(Int)
          /\ Total(OddByte(n - 1, n)) = IF n % 2 = 1 THEN buf[n - 1] ELSE 0
        <3>1. n - 1 \in 0..(Room - 1)
            BY <1>1
        <3> QED BY <1>1, <3>1, OddTotal
    <2>4. Addends \in Seq(Int) /\ Total(Addends) = Mem(buf, 2 * h) + Total(OddByte(n - 1, n))
        BY <1>8, <1>10, <2>1, <2>3, TotalConcat
    <2>5. Total(Addends) = Mem(buf, n) /\ Mem(buf, n) \in Int
        <3>1. CASE n % 2 = 1
            <4>1. n = 2 * h + 1 /\ n - 1 = 2 * h /\ n \in 1..Room /\ (n - 1) % 2 = 0
                BY <1>1, <1>5, <3>1, OddEven
            <4>2. SumTo(Terms(buf), 2 * h + 1) = SumTo(Terms(buf), 2 * h) + Terms(buf)[2 * h + 1]
                BY <1>5, SumUnfolds
            <4>3. Terms(buf)[n] = buf[n - 1] * Weight(n - 1) /\ buf[n - 1] \in Nat
                BY <4>1, TermsAre
            <4>4. Weight(n - 1) = 1
                BY <4>1 DEF Weight
            <4>5. Mem(buf, n) = Mem(buf, 2 * h) + Terms(buf)[n]
                BY <4>1, <4>2, Zenon DEF Mem
            <4>6. Total(OddByte(n - 1, n)) = buf[n - 1]
                BY <2>3, <3>1
            <4>7. Terms(buf)[n] = buf[n - 1]
                BY <4>3, <4>4
            <4> QED BY <1>9, <2>4, <4>3, <4>5, <4>6, <4>7
        <3>2. CASE n % 2 # 1
            <4>1. n = 2 * h
                BY <1>5, <3>2
            <4>2. Total(OddByte(n - 1, n)) = 0
                BY <2>3, <3>2
            <4>3. Mem(buf, n) = Mem(buf, 2 * h)
                BY <4>1
            <4> QED BY <1>9, <2>4, <4>2, <4>3
        <3> QED BY <3>1, <3>2
    <2> QED BY <2>2, <2>4, <2>5 DEF n
<1>13. CASE d.kind = "udp"
    <2> DEFINE A == AddressWords(d.sa)
               B == AddressWords(d.da)
               C == <<BSWAP16(UdpProto), WordAt(4)>>
               D == WordsAt(0, 4)
               E == WordsAt(8, h)
               F == OddByte(8 + n - 2, n)
    <2>1. Addends = A \o B \o C \o D \o E \o F
        BY <1>3, <1>6, <1>13
    <2>2. A \in Seq(Int) /\ B \in Seq(Int) /\ Total(A) \in Int /\ Total(B) \in Int
        BY AddressTotal, TotalConcat DEF Fits, Datagram
    <2>3. WordAt(4) = buf[4] + ByteBase * buf[5] /\ WordAt(4) \in Int
        <3>1. 4 \in Nat /\ 4 % 2 = 0 /\ 4 + 2 <= Room /\ 4 + 1 = 5
            BY <1>1
        <3>2. buf[4] + ByteBase * buf[4 + 1] \in Int
            BY <3>1, MemWord
        <3> QED BY <3>1, <3>2, Zenon DEF WordAt
    <2>4. C \in Seq(Int) /\ Total(C) = BSWAP16(UdpProto) + WordAt(4)
        BY <2>3, SwapProto, TotalTwo
    <2>5. D \in Seq(Int) /\ Total(D) = Mem(buf, 8)
        <3>1. 0 + 2 * 4 <= Room /\ 0 + 2 * 4 = 8 /\ 0 % 2 = 0 /\ 4 \in Nat /\ 0 \in Nat /\ 8 <= Room
            BY <1>1
        <3>2. Total(D) = Mem(buf, 0 + 2 * 4) - Mem(buf, 0) /\ D \in Seq(Int)
            BY <3>1, TotalWords
        <3>3. Mem(buf, 8) \in Int
            BY <3>1, MemInt
        <3> QED BY <1>7, <3>1, <3>2, <3>3
    <2>6. E \in Seq(Int) /\ Total(E) = Mem(buf, 8 + 2 * h) - Mem(buf, 8)
        <3>1. 8 + 2 * h <= Room /\ 8 % 2 = 0 /\ 8 \in Nat
            BY <1>1, <1>5
        <3> QED BY <1>5, <3>1, TotalWords
    <2>7. F \in Seq(Int) /\ Total(F) = 0
        <3>1. 8 + n - 2 \in 0..(Room - 1) /\ 8 + n - 2 \in n..(Room - 1)
            BY <1>1
        <3>2. buf[8 + n - 2] = 0
            BY <1>4, <1>13, <3>1
        <3>3. F \in Seq(Int) /\ Total(F) = IF n % 2 = 1 THEN buf[8 + n - 2] ELSE 0
            BY <1>1, <3>1, OddTotal
        <3> QED BY <3>2, <3>3
    <2>8. Mem(buf, 8 + 2 * h) = Mem(buf, n) /\ Mem(buf, n) \in Int
          /\ Mem(buf, 8 + 2 * h) \in Int /\ Mem(buf, 8) \in Int
        <3>1. n <= 8 + 2 * h /\ 8 + 2 * h <= Room /\ 8 + 2 * h \in Nat
            BY <1>1, <1>5
        <3>2. ASSUME NEW i \in 1..(8 + 2 * h) PROVE Terms(buf)[i] \in Int
            <4>1. i \in 1..Room
                BY <1>1, <3>1
            <4> QED BY <4>1, TermsAre
        <3>3. ASSUME NEW i \in (n + 1)..(8 + 2 * h) PROVE Terms(buf)[i] = 0
            <4>1. i \in 1..Room /\ i - 1 \in n..(Room - 1)
                BY <1>1, <3>1
            <4>2. buf[i - 1] = 0
                BY <1>4, <1>13, <4>1
            <4>3. Terms(buf)[i] = buf[i - 1] * Weight(i - 1) /\ Weight(i - 1) \in Nat
                BY <4>1, TermsAre
            <4>4. ASSUME NEW x \in Nat PROVE 0 * x = 0
                BY SMT
            <4> QED BY <4>2, <4>3, <4>4, Zenon
        <3>4. SumTo(Terms(buf), 8 + 2 * h) = SumTo(Terms(buf), n)
            BY <1>1, <3>1, <3>2, <3>3, SumZeros
        <3>5. n <= Room /\ 8 <= Room
            BY <1>1
        <3> QED BY <1>1, <3>1, <3>4, <3>5, MemInt DEF Mem
    <2> HIDE DEF A, B, C, D, E, F
    <2>9. A \o B \in Seq(Int) /\ Total(A \o B) = Total(A) + Total(B)
        BY <2>2, TotalConcat
    <2>10. A \o B \o C \in Seq(Int) /\ Total(A \o B \o C) = Total(A \o B) + Total(C)
        BY <2>4, <2>9, TotalConcat
    <2>11. A \o B \o C \o D \in Seq(Int) /\ Total(A \o B \o C \o D) = Total(A \o B \o C) + Total(D)
        BY <2>5, <2>10, TotalConcat
    <2>12. /\ A \o B \o C \o D \o E \in Seq(Int)
           /\ Total(A \o B \o C \o D \o E) = Total(A \o B \o C \o D) + Total(E)
        BY <2>6, <2>11, TotalConcat
    <2>13. /\ A \o B \o C \o D \o E \o F \in Seq(Int)
           /\ Total(A \o B \o C \o D \o E \o F) = Total(A \o B \o C \o D \o E) + Total(F)
        BY <2>7, <2>12, TotalConcat
    <2>14. Total(Addends) = Total(A) + Total(B) + BSWAP16(UdpProto) + WordAt(4) + Mem(buf, n)
        <3>1. Total(Addends) = ((((Total(A) + Total(B)) + Total(C)) + Total(D)) + Total(E)) + Total(F)
            BY <2>1, <2>9, <2>10, <2>11, <2>12, <2>13, Zenon
        <3>2. BSWAP16(UdpProto) \in Int
            BY SwapProto
        <3>3. /\ Total(C) = BSWAP16(UdpProto) + WordAt(4) /\ Total(D) = Mem(buf, 8)
              /\ Total(E) = Mem(buf, n) - Mem(buf, 8) /\ Total(F) = 0
            BY <2>4, <2>5, <2>6, <2>7, <2>8, Zenon
        <3>4. /\ Total(A) \in Int /\ Total(B) \in Int /\ WordAt(4) \in Int
              /\ Mem(buf, n) \in Int /\ Mem(buf, 8) \in Int
            BY <2>2, <2>3, <2>8
        <3> QED BY <3>1, <3>2, <3>3, <3>4
    <2>15. Pseudo(d, buf) = Total(A) + Total(B) + BSWAP16(UdpProto) + WordAt(4)
        BY <1>13, <2>3 DEF Pseudo, A, B
    <2> QED BY <2>1, <2>13, <2>14, <2>15, Zenon DEF n
<1> QED BY <1>1, <1>11, <1>12, <1>13 DEF Kinds

-----------------------------------------------------------------------------
(* What a peer makes of the bytes.                                           *)

Held(m, b) == \A j \in 1..Len(m.bytes) : m.bytes[j] = b[j - 1]

\* The part of the pseudo header in what a peer adds.
PeerPseudo(m) ==
    IF m.kind = "udp" THEN NetworkSum(m.sa \o m.da) + UdpProto + Len(m.bytes) ELSE 0

LEMMA PeerMemory ==
    ASSUME NEW m, Fits(m), NEW b, Typed(b), Held(m, b)
    PROVE  /\ Pseudo(m, b) + Mem(b, Len(m.bytes)) \in Int
           /\ Multiple(Pseudo(m, b) + Mem(b, Len(m.bytes)))
                <=> (NetworkSum(m.bytes) + PeerPseudo(m)) % Ones = 0
<1> DEFINE n == Len(m.bytes)
           N == NetworkSum(m.bytes)
           M == Mem(b, n)
<1>1. m.bytes \in Seq(Bytes) /\ n \in Nat /\ n <= Room
    <2>1. m.bytes \in Seq(Bytes) /\ n \in Nat /\ n + 8 <= Room
        BY FieldIn DEF Fits
    <2> HIDE DEF n
    <2> QED BY <2>1, Base
<1>2. N \in Int /\ \E e \in Int : ByteBase * M = N + Ones * e
    BY <1>1, MemNetwork DEF Held
<1>3. M \in Int
    BY <1>1, MemInt
<1>4. PICK e \in Int : ByteBase * M = N + Ones * e
    BY <1>2
<1> HIDE DEF n, N, M
<1>5. \E x \in Int : /\ ByteBase * (Pseudo(m, b) + M) = (N + PeerPseudo(m)) + Ones * x
                     /\ Pseudo(m, b) + M \in Int /\ N + PeerPseudo(m) \in Int
    <2>1. CASE m.kind # "udp"
        <3>1. Pseudo(m, b) = 0 /\ PeerPseudo(m) = 0
            BY <2>1 DEF Pseudo, PeerPseudo
        <3>2. 0 + M = M /\ N + 0 = N
            BY <1>2, <1>3
        <3> QED BY <1>2, <1>3, <1>4, <3>1, <3>2, Zenon
    <2>2. CASE m.kind = "udp"
        <3> DEFINE T == Total(AddressWords(m.sa)) + Total(AddressWords(m.da))
                   W == b[4] + ByteBase * b[5]
                   R == NetworkSum(m.sa \o m.da)
        <3>1. T \in Int /\ R \in Int /\ \E f \in Int : ByteBase * T = R + Ones * f
            <4>1. m.sa \in Seq(Bytes) /\ Len(m.sa) = 4 /\ m.da \in Seq(Bytes) /\ Len(m.da) = 4
                BY DEF Fits, Datagram
            <4>2. Total(AddressWords(m.sa)) \in Int /\ Total(AddressWords(m.da)) \in Int
                BY <4>1, AddressTotal, TotalConcat
            <4>3. T \in Int
                BY <4>2
            <4> QED BY <4>1, <4>3, AddressNetwork
        <3>2. PICK f \in Int : ByteBase * T = R + Ones * f
            BY <3>1
        <3>3. b[4] \in Nat /\ b[5] \in Nat /\ b[4] * ByteBase + b[5] = n
            <4>1. n >= 8
                <5>1. ChecksumAt(m.kind) = 6
                    BY <2>2 DEF ChecksumAt
                <5> QED BY <1>1, <5>1 DEF Fits, n
            <4>2. 4 \in 0..(Room - 1) /\ 5 \in 0..(Room - 1) /\ 5 \in 1..n /\ 6 \in 1..n
                BY <1>1, <4>1, Base
            <4>3. b[4] \in Nat /\ b[5] \in Nat
                BY <4>2, Base DEF Typed
            <4>4. m.bytes[5] = b[5 - 1] /\ m.bytes[6] = b[6 - 1]
                BY <4>2 DEF Held, n
            <4>5. m.bytes[5] * ByteBase + m.bytes[6] = n
                BY <2>2 DEF Fits, LengthsAgree, n
            <4>6. 5 - 1 = 4 /\ 6 - 1 = 5
                OBVIOUS
            <4> QED BY <4>3, <4>4, <4>5, <4>6, Zenon
        <3>4. ByteBase * W = n + Ones * b[5] /\ W \in Int
            <4>1. ByteBase * W = (b[4] * ByteBase + b[5] * 1) + Ones * b[5] /\ W \in Int
                BY <3>3, WordSwapped
            <4>2. b[5] * 1 = b[5]
                BY <3>3
            <4> QED BY <3>3, <4>1, <4>2, Zenon
        <3> DEFINE S == BSWAP16(UdpProto)
        <3>5. S \in Int /\ ByteBase * S = UdpProto + Ones * UdpProto /\ UdpProto \in Int
            BY SwapProto
        <3>6. Pseudo(m, b) = T + S + W
            BY <2>2 DEF Pseudo
        <3>7. PeerPseudo(m) = R + UdpProto + n
            BY <2>2 DEF PeerPseudo, n
        <3>8. b[5] \in Int
            BY <3>3
        <3> HIDE DEF T, W, R, S
        <3>9. ByteBase \in Int /\ Ones \in Int
            BY Base, OnesNat
        <3>10. ByteBase * ((T + S + W) + M)
                  = ByteBase * T + ByteBase * S + ByteBase * W + ByteBase * M
            <4>1. ASSUME NEW t \in Int, NEW x \in Int, NEW y \in Int, NEW z \in Int, NEW w \in Int
                  PROVE  t * ((x + y + z) + w) = t * x + t * y + t * z + t * w
                BY SMT
            <4> QED BY <1>3, <3>1, <3>4, <3>5, <3>9, <4>1
        <3>11. Ones * (f + UdpProto + b[5] + e)
                  = Ones * f + Ones * UdpProto + Ones * b[5] + Ones * e
            <4>1. ASSUME NEW t \in Int, NEW x \in Int, NEW y \in Int, NEW z \in Int, NEW w \in Int
                  PROVE  t * (x + y + z + w) = t * x + t * y + t * z + t * w
                BY SMT
            <4> QED BY <3>5, <3>8, <3>9, <4>1
        <3>12. /\ Ones * f \in Int /\ Ones * UdpProto \in Int /\ Ones * b[5] \in Int
               /\ Ones * e \in Int
            <4>1. ASSUME NEW t \in Int, NEW x \in Int PROVE t * x \in Int
                BY SMT
            <4> QED BY <3>5, <3>8, <3>9, <4>1
        <3>13. (R + Ones * f) + (UdpProto + Ones * UdpProto) + (n + Ones * b[5]) + (N + Ones * e)
                  = (N + (R + UdpProto + n))
                    + (Ones * f + Ones * UdpProto + Ones * b[5] + Ones * e)
            <4> DEFINE p == Ones * f
                       q == Ones * UdpProto
                       r == Ones * b[5]
                       t == Ones * e
            <4>1. p \in Int /\ q \in Int /\ r \in Int /\ t \in Int
                BY <3>12
            <4>2. N \in Int /\ R \in Int /\ UdpProto \in Int /\ n \in Int
                BY <1>1, <1>2, <3>1, <3>5
            <4> HIDE DEF p, q, r, t
            <4>3. (R + p) + (UdpProto + q) + (n + r) + (N + t)
                     = (N + (R + UdpProto + n)) + (p + q + r + t)
                BY <4>1, <4>2, SMT
            <4> QED BY <4>3, Zenon DEF p, q, r, t
        <3>14. ByteBase * ((T + S + W) + M)
                  = (N + (R + UdpProto + n)) + Ones * (f + UdpProto + b[5] + e)
            BY <1>4, <3>2, <3>4, <3>5, <3>10, <3>11, <3>13, Zenon
        <3>15. /\ (T + S + W) + M \in Int /\ N + (R + UdpProto + n) \in Int
               /\ f + UdpProto + b[5] + e \in Int
            BY <1>1, <1>2, <1>3, <3>1, <3>4, <3>5, <3>8
        <3> QED BY <3>6, <3>7, <3>14, <3>15, Zenon
    <2> QED BY <2>1, <2>2
<1>6. PICK x \in Int : /\ ByteBase * (Pseudo(m, b) + M) = (N + PeerPseudo(m)) + Ones * x
                       /\ Pseudo(m, b) + M \in Int /\ N + PeerPseudo(m) \in Int
    BY <1>5
<1> DEFINE X == Pseudo(m, b) + M
           Y == N + PeerPseudo(m)
<1>7. X \in Int /\ Y \in Int /\ ByteBase * X = Y + Ones * x
    BY <1>6
<1>8. ByteBase * X \in Int
    <2> HIDE DEF X
    <2>1. ASSUME NEW t \in Int, NEW z \in Int PROVE t * z \in Int
        BY SMT
    <2>2. ByteBase \in Int
        BY Base
    <2> QED BY <1>7, <2>1, <2>2
<1> HIDE DEF X, Y
<1>9. Multiple(ByteBase * X) <=> Multiple(X)
    BY <1>7, MultipleSwap
<1>10. Multiple(ByteBase * X) <=> Multiple(Y)
    BY <1>7, <1>8, MultipleShift
<1>11. (Y % Ones = 0) <=> Multiple(Y)
    BY <1>7, MultipleIsZero
<1>12. Multiple(X) <=> Y % Ones = 0
    BY <1>9, <1>10, <1>11, Zenon
<1> QED BY <1>7, <1>12, Zenon DEF X, Y, n, N, M

LEMMA PeerAcceptsIs ==
    ASSUME NEW m
    PROVE  PeerAccepts(m) <=> /\ (NetworkSum(m.bytes) + PeerPseudo(m)) % Ones = 0
                              /\ m.kind = "udp" => m.bytes[7] # 0 \/ m.bytes[8] # 0
BY DEF PeerAccepts, PeerPseudo

-----------------------------------------------------------------------------
(* The inductive invariant: besides the types, what the accumulator is, and  *)
(* what came of it at the end.                                               *)
Inv ==
    /\ TypeOK /\ Fits(d)
    /\ SumIsResidue
    /\ pc = "sent" => Stored = Complement(sum)
    /\ pc = "judged" => (verdict <=> sum = 0)

LEMMA InitInv == Init => Inv
<1> SUFFICES ASSUME Init PROVE Inv
    OBVIOUS
<1>1. Fits(d) /\ d \in Datagram
    BY DatagramsFit DEF Init, Fits
<1>2. 0 \in Bytes /\ 0 \in Words
    BY ChecksumAssumption, OnesNat, SMT DEF Bytes, Words
<1>3. buf \in [0..(Room - 1) -> Bytes]
    BY <1>1, <1>2, InBufferTyped DEF Init
<1>4. TypeOK
    BY <1>1, <1>2, <1>3 DEF Init, TypeOK
<1>5. SumIsResidue
    <2>1. 0 * Ones = 0 /\ 0 < Ones
        BY OnesNat, SMT
    <2> QED BY <2>1, SMT DEF Init, SumIsResidue
<1> QED BY <1>1, <1>4, <1>5 DEF Init, Inv

LEMMA SendInv ==
    ASSUME Inv, NEW old \in Bytes, Send(old)
    PROVE  Inv'
<1>1. 0 \in Bytes
    BY ChecksumAssumption, SMT DEF Bytes
<1>2. Fits(ClearChecksum(d))
    BY <1>1, WithChecksumFits DEF Inv, ClearChecksum
<1>3. Fits(d)'
    BY <1>2 DEF Send, Fits
<1>4. buf' \in [0..(Room - 1) -> Bytes]
    BY <1>2, InBufferTyped DEF Send
<1>5. TypeOK'
    BY <1>2, <1>3, <1>4 DEF Inv, TypeOK, Send, Begin, loopVars, Fits
<1>6. SumIsResidue'
    BY DEF Inv, SumIsResidue, Send, Begin, loopVars
<1> QED BY <1>3, <1>5, <1>6 DEF Inv, Send

LEMMA ReceiveInv ==
    ASSUME Inv, NEW old \in Bytes, Receive(old)
    PROVE  Inv'
<1>1. PICK hi \in Bytes, lo \in Bytes : d' = WithChecksum(d, hi, lo)
    BY DEF Receive
<1>2. Fits(WithChecksum(d, hi, lo))
    BY WithChecksumFits DEF Inv
<1>3. Fits(d)' /\ Fits(d')
    BY <1>1, <1>2 DEF Fits
<1>4. InBuffer(d', old) \in [0..(Room - 1) -> Bytes]
    BY <1>3, InBufferTyped
<1>5. buf' \in [0..(Room - 1) -> Bytes] /\ damaged' \in BOOLEAN
    BY <1>4 DEF Receive
<1>6. TypeOK'
    BY <1>3, <1>5 DEF Inv, TypeOK, Receive, Begin, loopVars, Fits
<1>7. SumIsResidue'
    BY DEF Inv, SumIsResidue, Receive, Begin, loopVars
<1> QED BY <1>3, <1>6, <1>7 DEF Inv, Receive

LEMMA AddWordInv ==
    ASSUME Inv, AddWord
    PROVE  Inv'
<1>1. /\ Fits(d) /\ buf \in [0..(Room - 1) -> Bytes] /\ k \in Nat /\ sum \in Nat /\ sum < Ones
      /\ total \in Nat /\ carries \in Nat /\ sum = total - carries * Ones
    BY OnesNat DEF Inv, TypeOK, SumIsResidue, Words
<1>2. Addends \in Seq(Words)
    BY <1>1, AddendsTyped
<1> DEFINE val == Addends[k + 1]
<1>3. val \in Words
    <2>1. Len(Addends) \in Nat /\ k < Len(Addends)
        BY <1>2, LenProperties DEF AddWord
    <2>2. k + 1 \in 1..Len(Addends)
        BY <1>1, <2>1, SMT
    <2> QED BY <1>2, <2>2, ElementOfSeq
<1>4. /\ sum' = checksum_oc16_add(sum, val) /\ total' = total + val /\ k' = k + 1
      /\ carries' = IF sum + val >= Ones THEN carries + 1 ELSE carries
      /\ UNCHANGED <<d, buf, damaged, pc, verdict>>
    BY DEF AddWord
<1>4a. pc \in {"sum", "judge"}
    BY DEF AddWord
<1> HIDE DEF val
<1>5. val \in Nat /\ Ones \in Nat
    BY <1>3, OnesNat DEF Words
<1>6. sum' \in Nat /\ sum' < Ones
    BY <1>1, <1>3, <1>4, AddIsModular
<1>7. sum' = total' - carries' * Ones
    <2>1. CASE sum + val >= Ones
        <3>1. sum' = sum + val - Ones /\ carries' = carries + 1
            BY <1>1, <1>3, <1>4, <2>1, AddIsModular
        <3>2. (carries + 1) * Ones = carries * Ones + Ones /\ carries * Ones \in Nat
            BY <1>1, <1>5, SMT
        <3> QED BY <1>1, <1>4, <1>5, <3>1, <3>2, SMT
    <2>2. CASE ~(sum + val >= Ones)
        <3>1. sum + val < Ones
            BY <1>1, <1>5, <2>2, SMT
        <3>2. sum' = sum + val /\ carries' = carries
            BY <1>1, <1>3, <1>4, <2>2, <3>1, AddIsModular
        <3>3. carries * Ones \in Nat
            BY <1>1, <1>5, SMT
        <3> QED BY <1>1, <1>4, <1>5, <3>2, <3>3, SMT
    <2> QED BY <2>1, <2>2
<1>8. SumIsResidue'
    BY <1>6, <1>7 DEF SumIsResidue
<1>9. sum' \in Words /\ total' \in Nat /\ k' \in Nat /\ carries' \in Nat
    BY <1>1, <1>4, <1>5, <1>6, SMT DEF Words
<1>10. TypeOK'
    BY <1>4, <1>9 DEF Inv, TypeOK
<1>11. Fits(d)'
    BY <1>4 DEF Inv, Fits
<1>12. pc' # "sent" /\ pc' # "judged"
    BY <1>4, <1>4a
<1> QED BY <1>8, <1>10, <1>11, <1>12 DEF Inv

LEMMA StoreInv ==
    ASSUME Inv, Store
    PROVE  Inv'
<1> DEFINE at == ChecksumAt(d.kind)
           c == Complement(sum)
<1>1. at \in 0..(Room - 1) /\ at + 1 \in 0..(Room - 1)
    <2>1. Fits(d) /\ at \in Nat /\ Len(d.bytes) \in Nat
        BY FieldIn DEF Inv
    <2> QED BY <2>1, ChecksumAssumption, SMT DEF Fits
<1>2. c \in Words
    BY OnesNat, SMT DEF Inv, TypeOK, Words, Complement
<1>3. /\ c % ByteBase \in Bytes /\ c \div ByteBase \in Bytes
      /\ (c % ByteBase) + ByteBase * (c \div ByteBase) = c
    BY <1>2, BytesOfWord
<1>4. /\ buf' = [buf EXCEPT ![at] = c % ByteBase, ![at + 1] = c \div ByteBase]
      /\ pc' = "sent" /\ UNCHANGED <<d, damaged, loopVars, verdict>>
    BY DEF Store
<1>5. buf \in [0..(Room - 1) -> Bytes]
    BY DEF Inv, TypeOK
<1> HIDE DEF at, c
<1>6. buf' \in [0..(Room - 1) -> Bytes]
    BY <1>3, <1>4, <1>5
<1>7. at # at + 1
    BY <1>1, SMT
<1>8. buf'[at] = c % ByteBase /\ buf'[at + 1] = c \div ByteBase
    BY <1>1, <1>4, <1>5, <1>7
<1>9. Stored' = c
    <2>1. ChecksumAt(d.kind)' = at
        BY <1>4 DEF at, ChecksumAt
    <2>2. Stored' = buf'[at] + ByteBase * buf'[at + 1]
        BY <2>1 DEF Stored, WordAt
    <2> QED BY <1>3, <1>8, <2>2
<1>10. TypeOK'
    BY <1>4, <1>6 DEF Inv, TypeOK, loopVars
<1>11. Fits(d)' /\ SumIsResidue' /\ Complement(sum)' = c
    BY <1>4 DEF Inv, Fits, SumIsResidue, loopVars, c, Complement
<1> QED BY <1>4, <1>9, <1>10, <1>11 DEF Inv

LEMMA JudgeInv ==
    ASSUME Inv, Judge
    PROVE  Inv'
<1>1. verdict' = (Complement(sum) = Ones) /\ pc' = "judged"
      /\ UNCHANGED <<d, buf, damaged, loopVars>>
    BY DEF Judge
<1>2. (Complement(sum) = Ones) <=> sum = 0
    BY OnesNat, SMT DEF Inv, TypeOK, Words, Complement
<1>3. (verdict <=> sum = 0)'
    BY <1>1, <1>2 DEF loopVars
<1>4. TypeOK'
    BY <1>1 DEF Inv, TypeOK, loopVars
<1>5. Fits(d)' /\ SumIsResidue'
    BY <1>1 DEF Inv, Fits, SumIsResidue, loopVars
<1> QED BY <1>1, <1>3, <1>4, <1>5 DEF Inv

LEMMA StutterInv ==
    ASSUME Inv, UNCHANGED vars
    PROVE  Inv'
BY DEF Inv, vars, loopVars, TypeOK, Fits, SumIsResidue, Stored, WordAt, Complement, Ones, Words

LEMMA Invariance == Spec => []Inv
<1>1. Inv /\ [Next]_vars => Inv'
    <2> SUFFICES ASSUME Inv, [Next]_vars PROVE Inv'
        OBVIOUS
    <2>1. ASSUME NEW old \in Bytes, Send(old) PROVE Inv'
        BY <2>1, SendInv
    <2>2. ASSUME NEW old \in Bytes, Receive(old) PROVE Inv'
        BY <2>2, ReceiveInv
    <2>3. CASE AddWord
        BY <2>3, AddWordInv
    <2>4. CASE Store
        BY <2>4, StoreInv
    <2>5. CASE Judge
        BY <2>5, JudgeInv
    <2>6. CASE Done
        BY <2>6, StutterInv DEF Done
    <2>7. CASE UNCHANGED vars
        BY <2>7, StutterInv
    <2> QED BY <2>1, <2>2, <2>3, <2>4, <2>5, <2>6, <2>7 DEF Next
<1> QED BY InitInv, <1>1, PTL DEF Spec

-----------------------------------------------------------------------------
(* The inductive invariant of what is sent and judged: the loop has added    *)
(* the words it has passed, over a buffer that holds the datagram.           *)

\* One byte of the buffer differs from the datagram.
HeldButOne(m, b) ==
    \E o \in 0..(Len(m.bytes) - 1) :
        /\ b[o] # m.bytes[o + 1]
        /\ \A x \in 0..(Len(m.bytes) - 1) : x # o => b[x] = m.bytes[x + 1]

ToSend(m, b) ==
    /\ Held(m, b) /\ ZeroBehind(m, b)
    /\ b[ChecksumAt(m.kind)] = 0 /\ b[ChecksumAt(m.kind) + 1] = 0

Arrived(m, b) ==
    /\ m.kind # "udp" /\ PeerAccepts(m)
    /\ IF damaged THEN HeldButOne(m, b) ELSE Held(m, b)

DataInv ==
    /\ pc = "idle" => k = 0 /\ total = 0
    /\ pc \in {"sum", "judge"} => total = SumTo(Addends, k)
    /\ pc = "sum" => ToSend(d, buf)
    /\ pc = "judge" => Arrived(d, buf)
    /\ PeersAccept /\ VerdictRight

LEMMA InBufferHolds ==
    ASSUME NEW m, Fits(m), NEW old \in Bytes
    PROVE  Held(m, InBuffer(m, old)) /\ ZeroBehind(m, InBuffer(m, old))
<1> DEFINE n == Len(m.bytes)
           b == InBuffer(m, old)
<1>1. n \in Nat /\ n <= Room
    <2>1. n \in Nat /\ n + 8 <= Room
        BY FieldIn DEF Fits
    <2> HIDE DEF n
    <2> QED BY <2>1, Base
<1>2. ASSUME NEW j \in 1..n PROVE m.bytes[j] = b[j - 1]
    <2>1. j - 1 \in 0..(Room - 1) /\ j - 1 < n /\ (j - 1) + 1 = j
        BY <1>1, Base
    <2>2. b[j - 1] = m.bytes[(j - 1) + 1]
        BY <2>1 DEF InBuffer
    <2> QED BY <2>1, <2>2
<1>3. ASSUME NEW o \in n..(Room - 1), m.kind = "udp" PROVE b[o] = 0
    <2>1. o \in 0..(Room - 1) /\ ~(o < n)
        BY <1>1, Base
    <2> QED BY <1>3, <2>1 DEF InBuffer
<1> QED BY <1>2, <1>3 DEF Held, ZeroBehind

\* Where the checksum of a datagram is, and that it is the right way round.
LEMMA FieldAt ==
    ASSUME NEW m, Fits(m)
    PROVE  LET at == ChecksumAt(m.kind)
               n  == Len(m.bytes) IN
           /\ at \in 0..(n - 1) /\ at + 1 \in 0..(n - 1) /\ n \in Nat /\ n + 8 <= Room
           /\ at \in 0..(Room - 1) /\ at + 1 \in 0..(Room - 1)
           /\ Weight(at) = 1 /\ Weight(at + 1) = ByteBase
           /\ at \in {2, 6, 10}
<1> DEFINE at == ChecksumAt(m.kind)
           n == Len(m.bytes)
<1>1. at \in {2, 6, 10}
    BY FieldIn DEF ChecksumAt, Kinds
<1>2. n \in Nat
    BY FieldIn
<1>3. at + 2 <= n /\ n + 8 <= Room
    BY DEF Fits
<1> HIDE DEF at, n
<1>4. Weight(at) = 1 /\ Weight(at + 1) = ByteBase
    BY <1>1 DEF Weight
<1>5. /\ at \in 0..(n - 1) /\ at + 1 \in 0..(n - 1)
      /\ at \in 0..(Room - 1) /\ at + 1 \in 0..(Room - 1)
    BY <1>1, <1>2, <1>3, Base
<1> QED BY <1>1, <1>2, <1>3, <1>4, <1>5 DEF at, n

LEMMA DataInit == Init => DataInv
BY DEF Init, DataInv, PeersAccept, VerdictRight

LEMMA SendData ==
    ASSUME Inv, DataInv, NEW old \in Bytes, Send(old)
    PROVE  DataInv'
<1> DEFINE m == ClearChecksum(d)
           b == InBuffer(m, old)
           at == ChecksumAt(d.kind)
<1>1. /\ pc = "idle" /\ pc' = "sum" /\ d' = m /\ buf' = b
      /\ UNCHANGED <<k, total>>
    BY DEF Send, Begin, loopVars
<1>2. total' = SumTo(Addends', k')
    <2>1. SumTo(Addends', 0) = 0
        BY SumUnfolds
    <2> QED BY <1>1, <2>1 DEF DataInv
<1>3. 0 \in Bytes
    BY ChecksumAssumption, SMT DEF Bytes
<1>4. Fits(m) /\ m.kind = d.kind
    BY <1>3, WithChecksumFits DEF Inv, ClearChecksum
<1>5. Held(m, b) /\ ZeroBehind(m, b)
    BY <1>4, InBufferHolds
<1>6. m.bytes[at + 1] = 0 /\ m.bytes[at + 2] = 0
    <2>1. d \in Datagram /\ d.bytes \in Seq(Bytes) /\ at \in Nat
          /\ at + 1 \in 1..Len(d.bytes) /\ at + 2 \in 1..Len(d.bytes)
        BY FieldIn DEF Inv, Fits
    <2>2. m.bytes = [d.bytes EXCEPT ![at + 1] = 0, ![at + 2] = 0]
        BY <2>1 DEF ClearChecksum, WithChecksum, Datagram
    <2>3. at + 1 # at + 2
        BY <2>1
    <2> HIDE DEF at, m
    <2> QED BY <2>1, <2>2, <2>3
<1>7. b[at] = 0 /\ b[at + 1] = 0
    <2>1. /\ at \in 0..(Len(m.bytes) - 1) /\ at + 1 \in 0..(Len(m.bytes) - 1)
          /\ Len(m.bytes) \in Nat
        BY <1>4, FieldAt
    <2> HIDE DEF at, m, b
    <2>2. /\ at + 1 \in 1..Len(m.bytes) /\ at + 2 \in 1..Len(m.bytes)
          /\ (at + 1) - 1 = at /\ (at + 2) - 1 = at + 1
        BY <2>1
    <2>3. m.bytes[at + 1] = b[(at + 1) - 1] /\ m.bytes[at + 2] = b[(at + 2) - 1]
        BY <1>5, <2>2 DEF Held
    <2> QED BY <1>6, <2>2, <2>3, Zenon
<1>8. ToSend(m, b)
    BY <1>4, <1>5, <1>7, Zenon DEF ToSend
<1>9. ToSend(d, buf)'
    BY <1>1, <1>8 DEF ToSend, Held, ZeroBehind, ChecksumAt
<1> QED BY <1>1, <1>2, <1>9 DEF DataInv, PeersAccept, VerdictRight

LEMMA ReceiveData ==
    ASSUME Inv, DataInv, NEW old \in Bytes, Receive(old)
    PROVE  DataInv'
<1>1. /\ pc = "idle" /\ pc' = "judge" /\ UNCHANGED <<k, total>> /\ d.kind # "udp"
    BY DEF Receive, Begin, loopVars
<1>2. total' = SumTo(Addends', k')
    <2>1. SumTo(Addends', 0) = 0
        BY SumUnfolds
    <2> QED BY <1>1, <2>1 DEF DataInv
<1>3. PICK hi \in Bytes, lo \in Bytes : d' = WithChecksum(d, hi, lo) /\ PeerAccepts(d')
    BY DEF Receive
<1>4. Fits(d') /\ d'.kind = d.kind
    BY <1>3, WithChecksumFits DEF Inv
<1>5. Len(d'.bytes) = Len(d.bytes) /\ Len(d'.bytes) \in Nat /\ Len(d'.bytes) <= Room
    <2>1. d.bytes \in Seq(Bytes) /\ d \in Datagram
        BY FieldIn DEF Inv, Fits
    <2>2. ChecksumAt(d.kind) + 1 \in 1..Len(d.bytes) /\ ChecksumAt(d.kind) + 2 \in 1..Len(d.bytes)
        BY FieldIn DEF Inv
    <2>3. d'.bytes = [[d.bytes EXCEPT ![ChecksumAt(d.kind) + 1] = hi]
                                EXCEPT ![ChecksumAt(d.kind) + 2] = lo]
        BY <1>3, <2>1 DEF WithChecksum, Datagram
    <2>4. Len(d'.bytes) = Len(d.bytes)
        BY <2>1, <2>2, <2>3, ExceptSeq
    <2>5. Len(d'.bytes) \in Nat /\ Len(d'.bytes) + 8 <= Room
        BY <1>4, FieldIn DEF Fits
    <2>6. ASSUME NEW n \in Nat, n + 8 <= Room PROVE n <= Room
        BY <2>6, Base
    <2> QED BY <2>4, <2>5, <2>6
<1> DEFINE b == InBuffer(d', old)
           n == Len(d'.bytes)
<1>6. Held(d', b) /\ Typed(b)
    BY <1>4, InBufferHolds, InBufferTyped DEF Typed
<1>7. CASE buf' = b /\ damaged' = FALSE
    <2>1. Held(d', buf')
        BY <1>6, <1>7
    <2>2. Arrived(d, buf)'
        BY <1>1, <1>3, <1>4, <1>7, <2>1 DEF Arrived, Held, PeerAccepts
    <2> QED BY <1>1, <1>2, <2>2 DEF DataInv, PeersAccept, VerdictRight
<1>8. CASE /\ \E o \in (IF d.kind = "ip" THEN 1 ELSE 0)..(Len(d.bytes) - 1), x \in Bytes :
                  /\ x # b[o]
                  /\ buf' = [b EXCEPT ![o] = x]
           /\ damaged' = TRUE
    <2>1. PICK o \in (IF d.kind = "ip" THEN 1 ELSE 0)..(Len(d.bytes) - 1), x \in Bytes :
                  /\ x # b[o]
                  /\ buf' = [b EXCEPT ![o] = x]
        BY <1>8
    <2>2. o \in 0..(n - 1) /\ n \in Nat /\ n <= Room
        BY <1>5
    <2>3. \A y \in 1..n : d'.bytes[y] = b[y - 1]
        BY <1>6 DEF Held
    <2> HIDE DEF n, b
    <2>4. o + 1 \in 1..n /\ (o + 1) - 1 = o /\ o \in 0..(Room - 1)
        BY <2>2, Base
    <2>5. buf'[o] = x /\ \A y \in 0..(Room - 1) : y # o => buf'[y] = b[y]
        BY <1>6, <2>1, <2>4 DEF Typed
    <2>6. buf'[o] # d'.bytes[o + 1]
        BY <2>1, <2>3, <2>4, <2>5
    <2>7. ASSUME NEW y \in 0..(n - 1), y # o PROVE buf'[y] = d'.bytes[y + 1]
        <3>1. y + 1 \in 1..n /\ (y + 1) - 1 = y /\ y \in 0..(Room - 1)
            BY <2>2, Base
        <3> QED BY <2>3, <2>5, <2>7, <3>1
    <2>8. HeldButOne(d', buf')
        BY <2>2, <2>6, <2>7 DEF HeldButOne, n
    <2>9. Arrived(d, buf)'
        BY <1>1, <1>3, <1>4, <1>8, <2>8 DEF Arrived, HeldButOne, PeerAccepts
    <2> QED BY <1>1, <1>2, <2>9 DEF DataInv, PeersAccept, VerdictRight
<1> QED BY <1>7, <1>8 DEF Receive

LEMMA AddWordData ==
    ASSUME Inv, DataInv, AddWord
    PROVE  DataInv'
<1>1. /\ pc \in {"sum", "judge"} /\ k' = k + 1 /\ total' = total + Addends[k + 1]
      /\ UNCHANGED <<d, buf, damaged, pc, verdict>>
    BY DEF AddWord
<1>2. k \in Nat /\ total = SumTo(Addends, k)
    BY <1>1 DEF Inv, TypeOK, DataInv
<1>3. SumTo(Addends, k + 1) = SumTo(Addends, k) + Addends[k + 1]
    BY <1>2, SumUnfolds
<1>4. Addends' = Addends
    BY <1>1 DEF Addends, WordsAt, WordAt, OddByte, AddressWords, BSWAP16
<1>5. total' = SumTo(Addends', k')
    BY <1>1, <1>2, <1>3, <1>4
<1>6. ToSend(d, buf)' <=> ToSend(d, buf)
    BY <1>1 DEF ToSend, Held, ZeroBehind, ChecksumAt
<1>7. Arrived(d, buf)' <=> Arrived(d, buf)
    BY <1>1 DEF Arrived, Held, HeldButOne, PeerAccepts
<1> QED BY <1>1, <1>5, <1>6, <1>7 DEF DataInv, PeersAccept, VerdictRight

LEMMA SumDivides ==
    ASSUME Inv
    PROVE  /\ total \in Int /\ sum \in Nat /\ sum < Ones /\ carries \in Nat
           /\ total = sum + Ones * carries
           /\ Multiple(total) <=> sum = 0
<1>1. total \in Nat /\ sum \in Nat /\ sum < Ones /\ carries \in Nat /\ sum = total - carries * Ones
    BY OnesNat DEF Inv, TypeOK, SumIsResidue, Words
<1>2. total = sum + Ones * carries
    <2>1. carries * Ones = Ones * carries /\ carries * Ones \in Int
        BY <1>1, OnesNat, SMT
    <2> QED BY <1>1, <2>1
<1>3. Multiple(total) <=> Multiple(sum)
    <2>1. total \in Int /\ sum \in Int /\ carries \in Int
        BY <1>1
    <2> QED BY <1>2, <2>1, MultipleShift
<1>4. sum # 0 => ~Multiple(sum)
    <2>1. Ones \in Nat /\ sum \in Int
        BY <1>1, OnesNat
    <2>2. -Ones < sum
        BY <1>1, <2>1
    <2> QED BY <1>1, <2>1, <2>2, MultipleNear
<1>5. Multiple(0)
    <2>1. 0 = Ones * 0
        BY OnesNat
    <2> QED BY <2>1 DEF Multiple
<1>6. Multiple(sum) <=> sum = 0
    BY <1>4, <1>5, Zenon
<1> QED BY <1>1, <1>2, <1>3, <1>6

\* Storing the complement makes the sum of all words a multiple of 0xFFFF.
LEMMA StoreSums ==
    ASSUME Inv, DataInv, Store
    PROVE  /\ buf' \in [0..(Room - 1) -> Bytes]
           /\ Multiple(Pseudo(d, buf') + Mem(buf', Len(d.bytes)))
           /\ buf'[ChecksumAt(d.kind)] # 0 \/ buf'[ChecksumAt(d.kind) + 1] # 0
           /\ d.kind = "udp" => buf'[4] = buf[4] /\ buf'[5] = buf[5]
<1> DEFINE at == ChecksumAt(d.kind)
           n == Len(d.bytes)
           c == Complement(sum)
           b == [buf EXCEPT ![at] = c % ByteBase]
<1>1. Fits(d) /\ Typed(buf) /\ ToSend(d, buf) /\ total = SumTo(Addends, Len(Addends))
    BY DEF Inv, TypeOK, Typed, DataInv, Store
<1>2. total = Pseudo(d, buf) + Mem(buf, n)
    BY <1>1, AddendsTotal DEF Total, ToSend
<1>3. /\ at \in 0..(n - 1) /\ at + 1 \in 0..(n - 1) /\ n \in Nat /\ n + 8 <= Room
      /\ at \in 0..(Room - 1) /\ at + 1 \in 0..(Room - 1)
      /\ Weight(at) = 1 /\ Weight(at + 1) = ByteBase
      /\ at \in {2, 6, 10}
    BY <1>1, FieldAt
<1>4. /\ buf' = [buf EXCEPT ![at] = c % ByteBase, ![at + 1] = c \div ByteBase]
    BY DEF Store
<1>5. buf[at] = 0 /\ buf[at + 1] = 0
    BY <1>1 DEF ToSend
<1>6. sum \in Nat /\ sum < Ones /\ carries \in Nat /\ total = sum + Ones * carries /\ total \in Int
    BY SumDivides
<1>7. c = Ones - sum /\ c \in Words /\ c \in Nat /\ c # 0
    BY <1>6, OnesNat, SMT DEF Complement, Words
<1>8. /\ c % ByteBase \in Bytes /\ c \div ByteBase \in Bytes
      /\ (c % ByteBase) + ByteBase * (c \div ByteBase) = c
    BY <1>7, BytesOfWord
<1>9. d.kind = "udp" => at = 6
    BY DEF ChecksumAt
<1> DEFINE l == c % ByteBase
           h == c \div ByteBase
<1> HIDE DEF at, n, c
<1>10. l \in Bytes /\ h \in Bytes /\ l + ByteBase * h = c /\ l \in Nat /\ h \in Nat
    BY <1>8, Base
<1>11. b = [buf EXCEPT ![at] = l] /\ buf' = [b EXCEPT ![at + 1] = h]
    BY <1>4
<1> HIDE DEF l, h, b
<1>12. at # at + 1 /\ n <= Room
    BY <1>3, Base
<1>13. Typed(b) /\ b[at] = l /\ b[at + 1] = 0 /\ \A x \in 0..(Room - 1) : x # at => b[x] = buf[x]
    BY <1>1, <1>3, <1>5, <1>10, <1>11, <1>12 DEF Typed
<1>14. /\ Typed(buf') /\ buf'[at] = l /\ buf'[at + 1] = h
       /\ \A x \in 0..(Room - 1) : x # at + 1 => buf'[x] = b[x]
    BY <1>3, <1>10, <1>11, <1>12, <1>13 DEF Typed
<1>15. 0..(n - 1) \subseteq 0..(Room - 1)
    BY <1>3, <1>12, Base
<1>16. Mem(b, n) = Mem(buf, n) + (l * 1 - 0 * 1)
    <2>1. Mem(b, n) = Mem(buf, n) + (b[at] * Weight(at) - buf[at] * Weight(at))
        BY <1>1, <1>3, <1>12, <1>13, <1>15, MemChange
    <2> QED BY <1>3, <1>5, <1>13, <2>1, Zenon
<1>17. Mem(buf', n) = Mem(b, n) + (h * ByteBase - 0 * ByteBase)
    <2>1. Mem(buf', n) = Mem(b, n) + (buf'[at + 1] * Weight(at + 1) - b[at + 1] * Weight(at + 1))
        BY <1>3, <1>12, <1>13, <1>14, <1>15, MemChange
    <2> QED BY <1>3, <1>13, <1>14, <2>1, Zenon
<1>18. Mem(buf, n) \in Int
    BY <1>1, <1>3, <1>12, MemInt
<1>19. Mem(buf', n) = Mem(buf, n) + c
    <2>1. ASSUME NEW t \in Nat, NEW x \in Nat, NEW y \in Nat, NEW z \in Int
          PROVE  (z + (x * 1 - 0 * 1)) + (y * t - 0 * t) = z + (x + t * y)
        BY <2>1, SMT
    <2>2. (Mem(buf, n) + (l * 1 - 0 * 1)) + (h * ByteBase - 0 * ByteBase)
             = Mem(buf, n) + (l + ByteBase * h)
        BY <1>10, <1>18, <2>1, Base
    <2> QED BY <1>10, <1>16, <1>17, <2>2, Zenon
<1>20. d.kind = "udp" => buf'[4] = buf[4] /\ buf'[5] = buf[5]
    <2> SUFFICES ASSUME d.kind = "udp" PROVE buf'[4] = buf[4] /\ buf'[5] = buf[5]
        OBVIOUS
    <2>0. at = 6
        BY <1>9
    <2>1. /\ 4 \in 0..(Room - 1) /\ 5 \in 0..(Room - 1) /\ 4 # at /\ 4 # at + 1
          /\ 5 # at /\ 5 # at + 1
        <3>1. 6 \in 0..(Room - 1)
            BY <1>3, <2>0
        <3> QED BY <2>0, <3>1, Base, SMT
    <2> QED BY <1>13, <1>14, <2>1
<1>21. Pseudo(d, buf') = Pseudo(d, buf)
    BY <1>20 DEF Pseudo
<1>22. Multiple(Pseudo(d, buf') + Mem(buf', n))
    <2>1. Pseudo(d, buf) \in Int
        <3>1. Pseudo(d, buf) + Mem(buf, n) \in Int /\ 0 \in Int
            BY <1>2, <1>6
        <3>2. CASE d.kind # "udp"
            BY <3>2 DEF Pseudo
        <3>3. CASE d.kind = "udp"
            <4>1. Total(AddressWords(d.sa)) \in Int /\ Total(AddressWords(d.da)) \in Int
                BY <1>1, AddressTotal, TotalConcat DEF Fits, Datagram
            <4>2. buf[4] + ByteBase * buf[5] \in Int
                <5>0. at = 6
                    BY <1>9, <3>3
                <5>1. 4 \in 0..(Room - 1) /\ 5 \in 0..(Room - 1)
                    <6>1. 6 \in 0..(Room - 1)
                        BY <1>3, <5>0
                    <6> QED BY <6>1, Base, SMT
                <5>2. buf[4] \in Nat /\ buf[5] \in Nat
                    BY <1>1, <5>1, Base DEF Typed
                <5> QED BY <5>2, WordSwapped
            <4>3. BSWAP16(UdpProto) \in Int
                BY SwapProto
            <4> HIDE DEF Typed
            <4> QED BY <3>3, <4>1, <4>2, <4>3 DEF Pseudo
        <3> QED BY <3>2, <3>3
    <2>2. Pseudo(d, buf) + (Mem(buf, n) + c) = Ones + Ones * carries
        <3>1. Ones * carries \in Int /\ Ones \in Int
            BY <1>6, OnesNat, SMT
        <3>2. Pseudo(d, buf) + Mem(buf, n) = sum + Ones * carries
            BY <1>2, <1>6, Zenon
        <3>3. Pseudo(d, buf) + (Mem(buf, n) + (Ones - sum)) = Ones + Ones * carries
            <4> DEFINE p == Pseudo(d, buf)
                       q == Mem(buf, n)
                       r == Ones * carries
                       w == Ones
            <4>1. /\ p \in Int /\ q \in Int /\ r \in Int /\ w \in Int /\ sum \in Nat
                  /\ p + q = sum + r
                BY <1>6, <1>18, <2>1, <3>1, <3>2, Zenon
            <4> HIDE DEF p, q, r, w
            <4>2. p + (q + (w - sum)) = w + r
                BY <4>1, SMT
            <4> QED BY <4>2, Zenon DEF p, q, r, w
        <3> QED BY <1>7, <3>3, Zenon
    <2>3. Ones + Ones * carries = Ones * (carries + 1) /\ carries + 1 \in Int
        BY <1>6, OnesNat, SMT
    <2>4. Pseudo(d, buf') + Mem(buf', n) = Ones * (carries + 1)
        BY <1>19, <1>21, <2>2, <2>3, Zenon
    <2> QED BY <2>3, <2>4 DEF Multiple
<1>23. l # 0 \/ h # 0
    <2> SUFFICES ASSUME l = 0, h = 0 PROVE FALSE
        OBVIOUS
    <2>1. ByteBase * 0 = 0
        BY Base, SMT
    <2> QED BY <1>7, <1>10, <2>1
<1> QED BY <1>14, <1>20, <1>22, <1>23 DEF Typed, at, n

LEMMA StoreData ==
    ASSUME Inv, DataInv, Store
    PROVE  DataInv'
<1> DEFINE n == Len(d.bytes)
           m == [d EXCEPT !.bytes = [j \in DOMAIN d.bytes |-> buf'[j - 1]]]
           at == ChecksumAt(d.kind)
<1>1. /\ pc' = "sent" /\ d' = d /\ Fits(d) /\ Typed(buf') /\ Held(d, buf)
    BY StoreSums DEF Store, Inv, Typed, DataInv, ToSend
<1>2. /\ d \in Datagram /\ d.bytes \in Seq(Bytes) /\ DOMAIN d.bytes = 1..n
      /\ n \in Nat /\ n <= Room
    <2>1. d \in Datagram /\ d.bytes \in Seq(Bytes) /\ n \in Nat /\ n + 8 <= Room
        BY <1>1, FieldIn DEF Fits
    <2>2. DOMAIN d.bytes = 1..n
        BY <2>1, LenProperties
    <2> HIDE DEF n
    <2> QED BY <2>1, <2>2, Base
<1>3. /\ m.bytes \in Seq(Bytes) /\ Len(m.bytes) = n
      /\ \A j \in 1..n : m.bytes[j] = buf'[j - 1]
      /\ m.kind = d.kind /\ m.sa = d.sa /\ m.da = d.da
    <2>1. m.bytes = [j \in 1..n |-> buf'[j - 1]]
        BY <1>2 DEF Datagram
    <2>2. ASSUME NEW j \in 1..n PROVE buf'[j - 1] \in Bytes
        <3>1. j - 1 \in 0..(Room - 1)
            BY <1>2, Base
        <3> QED BY <1>1, <3>1 DEF Typed
    <2>3. m.kind = d.kind /\ m.sa = d.sa /\ m.da = d.da
        BY <1>2 DEF Datagram
    <2>4. m.bytes \in [1..n -> Bytes]
        BY <2>1, <2>2
    <2> HIDE DEF n, m
    <2>5. m.bytes \in Seq(Bytes)
        BY <1>2, <2>4, SeqDef
    <2>6. Len(m.bytes) = n
        BY <1>2, <2>4, <2>5, LenProperties
    <2> QED BY <2>1, <2>3, <2>5, <2>6
<1>4. m \in Datagram
    BY <1>2, <1>3 DEF Datagram
<1>5. d.kind = "udp" => m.bytes[5] = d.bytes[5] /\ m.bytes[6] = d.bytes[6]
    <2> SUFFICES ASSUME d.kind = "udp" PROVE m.bytes[5] = d.bytes[5] /\ m.bytes[6] = d.bytes[6]
        OBVIOUS
    <2>1. buf'[4] = buf[4] /\ buf'[5] = buf[5]
        BY StoreSums
    <2>2. n >= 8
        <3>1. ChecksumAt(d.kind) = 6
            BY DEF ChecksumAt
        <3> QED BY <1>1, <1>2, <3>1 DEF Fits
    <2> HIDE DEF n, m
    <2>3. 5 \in 1..n /\ 6 \in 1..n /\ 5 - 1 = 4 /\ 6 - 1 = 5
        BY <1>2, <2>2
    <2>4. d.bytes[5] = buf[5 - 1] /\ d.bytes[6] = buf[6 - 1]
        BY <1>1, <2>3 DEF Held, n
    <2>5. m.bytes[5] = buf'[5 - 1] /\ m.bytes[6] = buf'[6 - 1]
        BY <1>3, <2>3
    <2> QED BY <2>1, <2>3, <2>4, <2>5, Zenon
<1>6. Fits(m)
    <2>1. LengthsAgree(m)
        <3>1. LengthsAgree(d)
            BY <1>1 DEF Fits
        <3> HIDE DEF m
        <3> QED BY <1>3, <1>5, <3>1, Zenon DEF LengthsAgree, n
    <2> HIDE DEF m
    <2> QED BY <1>1, <1>3, <1>4, <2>1 DEF Fits, n
<1>7. Held(m, buf')
    BY <1>3 DEF Held
<1>8. Pseudo(m, buf') = Pseudo(d, buf')
    <2> HIDE DEF m
    <2> QED BY <1>3, Zenon DEF Pseudo
<1>9. (NetworkSum(m.bytes) + PeerPseudo(m)) % Ones = 0
    <2>1. Multiple(Pseudo(d, buf') + Mem(buf', n))
        BY StoreSums
    <2> HIDE DEF m
    <2>2. Multiple(Pseudo(m, buf') + Mem(buf', Len(m.bytes)))
        BY <1>3, <1>8, <2>1, Zenon
    <2> QED BY <1>1, <1>6, <1>7, <2>2, PeerMemory
<1>10. m.kind = "udp" => m.bytes[7] # 0 \/ m.bytes[8] # 0
    <2> SUFFICES ASSUME d.kind = "udp" PROVE m.bytes[7] # 0 \/ m.bytes[8] # 0
        BY <1>3
    <2>1. at = 6
        BY DEF ChecksumAt
    <2>2. buf'[6] # 0 \/ buf'[6 + 1] # 0
        BY <2>1, StoreSums
    <2>3. n >= 8
        BY <1>1, <1>2, <2>1 DEF Fits
    <2> HIDE DEF n, m
    <2>4. 7 \in 1..n /\ 8 \in 1..n /\ 7 - 1 = 6 /\ 8 - 1 = 6 + 1
        BY <1>2, <2>3
    <2>5. m.bytes[7] = buf'[7 - 1] /\ m.bytes[8] = buf'[8 - 1]
        BY <1>3, <2>4
    <2> QED BY <2>2, <2>4, <2>5, Zenon
<1>11. PeerAccepts(m)
    BY <1>9, <1>10, PeerAcceptsIs, Zenon
<1>12. PeersAccept'
    BY <1>1, <1>11 DEF PeersAccept, PeerAccepts
<1> QED BY <1>1, <1>12 DEF DataInv, VerdictRight

\* A change of one byte changes the sum by less than 0xFFFF.
LEMMA ChangeIsSeen ==
    ASSUME NEW x \in Bytes, NEW y \in Bytes, x # y, NEW w \in {1, ByteBase}
    PROVE  /\ x * w - y * w \in Int
           /\ ~Multiple(x * w - y * w)
<1>1. x \in 0..(ByteBase - 1) /\ y \in 0..(ByteBase - 1) /\ ByteBase \in Nat /\ ByteBase >= 2
    BY Base DEF Bytes
<1>2. ASSUME NEW t \in Nat, t >= 2, NEW p \in 0..(t - 1), NEW q \in 0..(t - 1), p # q
      PROVE  /\ p * t - q * t \in Int /\ p * t - q * t # 0
             /\ -(t * t - 1) < p * t - q * t /\ p * t - q * t < t * t - 1
    <2>1. p * t - q * t = (p - q) * t /\ (p - q) * t \in Int
        BY <1>2, SMT
    <2>2. CASE p > q
        <3>1. p - q \in Nat /\ p - q >= 1 /\ p - q <= t - 1
            BY <1>2, <2>2
        <3>2. (p - q) * t >= t /\ (p - q) * t <= (t - 1) * t
            BY <1>2, <3>1, SMT
        <3>3. (t - 1) * t = t * t - t /\ t * t \in Int
            BY <1>2, SMT
        <3> QED BY <1>2, <2>1, <3>2, <3>3
    <2>3. CASE p < q
        <3>1. q - p \in Nat /\ q - p >= 1 /\ q - p <= t - 1
            BY <1>2, <2>3
        <3>2. (q - p) * t >= t /\ (q - p) * t <= (t - 1) * t
            BY <1>2, <3>1, SMT
        <3>3. (t - 1) * t = t * t - t /\ t * t \in Int /\ (q - p) * t = -((p - q) * t)
            BY <1>2, SMT
        <3> QED BY <1>2, <2>1, <3>2, <3>3
    <2> QED BY <1>2, <2>2, <2>3
<1>3. ASSUME NEW t \in Nat, t >= 2, NEW p \in 0..(t - 1), NEW q \in 0..(t - 1), p # q
      PROVE  /\ p * 1 - q * 1 \in Int /\ p * 1 - q * 1 # 0
             /\ -(t * t - 1) < p * 1 - q * 1 /\ p * 1 - q * 1 < t * t - 1
    <2>1. t * t >= 2 * t /\ t * t \in Int
        BY <1>3, SMT
    <2> QED BY <1>3, <2>1
<1>4. /\ x * w - y * w \in Int /\ x * w - y * w # 0
      /\ -Ones < x * w - y * w /\ x * w - y * w < Ones
    <2>1. CASE w = ByteBase
        BY <1>1, <1>2, <2>1 DEF Ones
    <2>2. CASE w = 1
        BY <1>1, <1>3, <2>2 DEF Ones
    <2> QED BY <2>1, <2>2
<1> QED BY <1>4, MultipleNear

\* Handled exactly if the bytes in memory, in the processor's order, are a
\* multiple of 0xFFFF, which one changed byte undoes.
LEMMA JudgeData ==
    ASSUME Inv, DataInv, Judge
    PROVE  DataInv'
<1> DEFINE n == Len(d.bytes)
<1>1. /\ pc = "judge" /\ pc' = "judged" /\ verdict' = (Complement(sum) = Ones)
      /\ UNCHANGED <<d, buf, damaged>>
    BY DEF Judge
<1>2. Fits(d) /\ Typed(buf) /\ Arrived(d, buf) /\ damaged \in BOOLEAN
    BY <1>1 DEF Inv, TypeOK, Typed, DataInv
<1>3. d.kind # "udp" /\ PeerAccepts(d) /\ Pseudo(d, buf) = 0 /\ ZeroBehind(d, buf)
    BY <1>2 DEF Arrived, Pseudo, ZeroBehind
<1>4. n \in Nat /\ n <= Room /\ d.bytes \in Seq(Bytes)
    <2>1. n \in Nat /\ n + 8 <= Room /\ d.bytes \in Seq(Bytes)
        BY <1>2, FieldIn DEF Fits
    <2> HIDE DEF n
    <2> QED BY <2>1, Base
<1>5. Mem(buf, n) \in Int
    BY <1>2, <1>4, MemInt
<1>6. total = Mem(buf, n)
    <2>1. total = Total(Addends)
        BY <1>1 DEF Judge, DataInv, Total
    <2>2. total = 0 + Mem(buf, n)
        BY <1>2, <1>3, <2>1, AddendsTotal
    <2>3. 0 + Mem(buf, n) = Mem(buf, n)
        BY <1>5
    <2> QED BY <2>2, <2>3, Zenon
<1>7. verdict' <=> Multiple(Mem(buf, n))
    <2>1. sum \in Nat /\ (Multiple(total) <=> sum = 0)
        BY SumDivides
    <2>2. (Complement(sum) = Ones) <=> sum = 0
        BY <2>1, OnesNat DEF Complement
    <2> QED BY <1>1, <1>6, <2>1, <2>2, Zenon
\* The same of any buffer that holds the datagram as it was sent.
<1>8. ASSUME NEW b, Typed(b), Held(d, b)
      PROVE  Multiple(Mem(b, n)) /\ Mem(b, n) \in Int
    <2>1. Pseudo(d, b) = 0
        BY <1>3 DEF Pseudo
    <2>2. Multiple(Pseudo(d, b) + Mem(b, n))
        BY <1>2, <1>3, <1>8, PeerMemory, PeerAcceptsIs
    <2>3. Mem(b, n) \in Int
        BY <1>4, <1>8, MemInt
    <2>4. 0 + Mem(b, n) = Mem(b, n)
        BY <2>3
    <2> QED BY <2>1, <2>2, <2>3, <2>4, Zenon
<1>9. CASE ~damaged
    <2>1. Multiple(Mem(buf, n))
        BY <1>2, <1>8, <1>9 DEF Arrived
    <2> QED BY <1>1, <1>7, <1>9, <2>1 DEF DataInv, PeersAccept, VerdictRight
<1>10. CASE damaged
    <2>1. PICK o \in 0..(n - 1) :
              /\ buf[o] # d.bytes[o + 1]
              /\ \A x \in 0..(n - 1) : x # o => buf[x] = d.bytes[x + 1]
        BY <1>2, <1>10 DEF Arrived, HeldButOne
    <2> DEFINE b == [buf EXCEPT ![o] = d.bytes[o + 1]]
    <2>2. /\ o \in Nat /\ o + 1 \in 1..n /\ o \in 0..(Room - 1)
          /\ 0..(n - 1) \subseteq 0..(Room - 1)
        <3> HIDE DEF n
        <3> QED BY <1>4, <2>1, Base
    <2>3. d.bytes[o + 1] \in Bytes
        BY <1>4, <2>2
    <2>4. /\ Typed(b) /\ b[o] = d.bytes[o + 1]
          /\ \A x \in 0..(Room - 1) : x # o => b[x] = buf[x]
        BY <1>2, <2>2, <2>3 DEF Typed
    <2> HIDE DEF b
    <2>5. Held(d, b)
        <3> SUFFICES ASSUME NEW j \in 1..n PROVE d.bytes[j] = b[j - 1]
            BY DEF Held
        <3>1. j - 1 \in 0..(n - 1) /\ j - 1 \in 0..(Room - 1) /\ (j - 1) + 1 = j
            <4> HIDE DEF n
            <4> QED BY <1>4, <2>2, Base
        <3> QED BY <2>1, <2>4, <3>1
    <2>6. Multiple(Mem(b, n)) /\ Mem(b, n) \in Int
        BY <1>8, <2>4, <2>5
    <2> DEFINE D == buf[o] * Weight(o) - b[o] * Weight(o)
    <2>7. Mem(buf, n) = Mem(b, n) + D
        <3>1. \A x \in 0..(n - 1) : x # o => buf[x] = b[x]
            BY <2>2, <2>4
        <3> QED BY <1>2, <1>4, <2>1, <2>4, <3>1, MemChange
    <2>8. D \in Int /\ ~Multiple(D)
        <3>1. buf[o] \in Bytes /\ b[o] \in Bytes /\ buf[o] # b[o]
            BY <1>2, <2>1, <2>2, <2>3, <2>4 DEF Typed
        <3>2. Weight(o) \in {1, ByteBase}
            BY DEF Weight
        <3> QED BY <3>1, <3>2, ChangeIsSeen
    <2> HIDE DEF D
    <2>9. ~Multiple(Mem(buf, n))
        <3>1. PICK q \in Int : Mem(b, n) = Ones * q
            BY <2>6 DEF Multiple
        <3>2. Mem(buf, n) = D + Ones * q
            BY <2>6, <2>7, <2>8, <3>1
        <3> QED BY <1>5, <2>8, <3>2, MultipleShift
    <2> QED BY <1>1, <1>7, <1>10, <2>9 DEF DataInv, PeersAccept, VerdictRight
<1> QED BY <1>2, <1>9, <1>10

LEMMA StutterData ==
    ASSUME DataInv, UNCHANGED vars
    PROVE  DataInv'
<1>1. UNCHANGED <<d, buf, damaged, pc, k, total, verdict>>
    BY DEF vars, loopVars
<1>2. Addends' = Addends
    BY <1>1 DEF Addends, WordsAt, WordAt, OddByte, AddressWords, BSWAP16
<1>3. ToSend(d, buf)' <=> ToSend(d, buf)
    BY <1>1 DEF ToSend, Held, ZeroBehind, ChecksumAt
<1>4. Arrived(d, buf)' <=> Arrived(d, buf)
    BY <1>1 DEF Arrived, Held, HeldButOne, PeerAccepts
<1> QED BY <1>1, <1>2, <1>3, <1>4 DEF DataInv, PeersAccept, VerdictRight, PeerAccepts

LEMMA DataInvariance == Spec => []DataInv
<1>1. Inv /\ DataInv /\ [Next]_vars => DataInv'
    <2> SUFFICES ASSUME Inv, DataInv, [Next]_vars PROVE DataInv'
        OBVIOUS
    <2>1. ASSUME NEW old \in Bytes, Send(old) PROVE DataInv'
        BY <2>1, SendData
    <2>2. ASSUME NEW old \in Bytes, Receive(old) PROVE DataInv'
        BY <2>2, ReceiveData
    <2>3. CASE AddWord
        BY <2>3, AddWordData
    <2>4. CASE Store
        BY <2>4, StoreData
    <2>5. CASE Judge
        BY <2>5, JudgeData
    <2>6. CASE Done
        BY <2>6, StutterData DEF Done
    <2>7. CASE UNCHANGED vars
        BY <2>7, StutterData
    <2> QED BY <2>1, <2>2, <2>3, <2>4, <2>5, <2>6, <2>7 DEF Next
<1> QED BY DataInit, Invariance, <1>1, PTL DEF Spec

-----------------------------------------------------------------------------
(* Type correctness.                                                         *)
THEOREM TypeCorrect == Spec => []TypeOK
<1>1. Inv => TypeOK
    BY DEF Inv
<1> QED BY <1>1, Invariance, PTL

(* The accumulator is the residue of the integer sum, for words of any size. *)
THEOREM ResidueKept == Spec => []SumIsResidue
<1>1. Inv => SumIsResidue
    BY DEF Inv
<1> QED BY <1>1, Invariance, PTL

(* No stored checksum is zero: the accumulator never is 0xFFFF.              *)
THEOREM ChecksumsNotZero == Spec => []NeverZero
<1>1. Inv => NeverZero
    BY OnesNat, SMT DEF Inv, TypeOK, Words, SumIsResidue, NeverZero, Complement
<1> QED BY <1>1, Invariance, PTL

(* A received datagram is handled exactly if its words, added as integers,   *)
(* are a multiple of 0xFFFF, as the definition has it.                       *)
HandledIfMultiple == pc = "judged" => (verdict <=> total % Ones = 0)

THEOREM VerdictIsResidue == Spec => []HandledIfMultiple
<1>1. Inv => HandledIfMultiple
    <2> SUFFICES ASSUME Inv, pc = "judged" PROVE verdict <=> total % Ones = 0
        BY DEF HandledIfMultiple
    <2>1. verdict <=> sum = 0
        BY DEF Inv
    <2>2. total \in Int /\ (Multiple(total) <=> sum = 0)
        BY SumDivides
    <2> QED BY <2>1, <2>2, MultipleIsZero
<1> QED BY <1>1, Invariance, PTL

(* Every datagram that is sent, over whatever its buffer held before, adds up *)
(* to a multiple of 0xFFFF in network order, and a UDP datagram says that it  *)
(* has a checksum: although the loops of udp.c:30-34 run eight bytes past the *)
(* datagram, and all of them add words in the processor's byte order.         *)
THEOREM SentIsValid == Spec => []PeersAccept
<1>1. DataInv => PeersAccept
    BY DEF DataInv
<1> QED BY <1>1, DataInvariance, PTL

(* Every received datagram that its sender made valid is handled if it       *)
(* arrived as it was sent and thrown away if one byte of it changed           *)
(* (manager.c:129, 163).                                                      *)
THEOREM JudgedRight == Spec => []VerdictRight
<1>1. DataInv => VerdictRight
    BY DEF DataInv
<1> QED BY <1>1, DataInvariance, PTL
=============================================================================
