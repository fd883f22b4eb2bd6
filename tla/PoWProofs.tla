------------------------------ MODULE PoWProofs ------------------------------
(***************************************************************************)
(* Proofs about ProofOfWork: whatever SHA-256 gives, for any widths of     *)
(* bytes and words, limits and difficulties, the three checkers agree, a   *)
(* search finds the least nonce or has tried them all, and the NodeID of a *)
(* search that succeeded validates.                                        *)
(***************************************************************************)
EXTENDS ProofOfWork, WellFoundedInduction, TLAPS

-----------------------------------------------------------------------------
(* Induction, for membership in a set. *)

\* Induction over an interval, for membership in a set.
LEMMA IntervalInduction ==
  ASSUME NEW n \in Nat, NEW S, 0 \in S,
         \A k \in 1..n : k - 1 \in S => k \in S
  PROVE  \A k \in 0..n : k \in S
<1> DEFINE T == {k \in 0..n : k \notin S}
           R == OpToRel(<, Nat)
<1>1. SUFFICES ASSUME T # {} PROVE FALSE
  OBVIOUS
<1>2. T \subseteq Nat
  OBVIOUS
<1>3. IsWellFoundedOn(R, Nat)
  BY NatLessThanWellFounded, Zenon
<1>4. PICK k \in T : \A j \in T : <<j, k>> \notin R
  <2> HIDE DEF T, R
  <2>1. QED
    BY <1>1, <1>2, <1>3, WFMin
<1>5. \A j \in T : ~(j < k)
  BY <1>2, <1>4 DEF OpToRel
<1>6. k \in 1..n /\ k - 1 \in 0..n /\ k - 1 < k
  OBVIOUS
<1>7. k - 1 \in S
  BY <1>5, <1>6
<1>8. QED
  BY <1>6, <1>7


\* The least number of a set.
LEMMA Least ==
  ASSUME NEW n \in Nat, NEW T, n \in T
  PROVE  \E m \in 0..n : m \in T /\ \A k \in 0..(m - 1) : k \notin T
<1> DEFINE S == {m \in 0..n : \A k \in 0..m : k \notin T}
<1>1. SUFFICES ASSUME \A m \in 0..n : m \in T => \E k \in 0..(m - 1) : k \in T
               PROVE  FALSE
  OBVIOUS
<1>2. 0 \in S
  BY <1>1
<1>3. ASSUME NEW m \in 1..n, m - 1 \in S
      PROVE  m \in S
  <2>1. \A k \in 0..(m - 1) : k \notin T
    BY <1>3
  <2>2. m \notin T
    BY <1>1, <2>1
  <2>3. \A k \in 0..m : k = m \/ k \in 0..(m - 1)
    OBVIOUS
  <2>4. QED
    BY <2>1, <2>2, <2>3
<1>4. n \in S
  <2> HIDE DEF S
  <2>1. \A k \in 0..n : k \in S
    BY <1>2, <1>3, IntervalInduction
  <2>2. QED
    BY <2>1
<1>5. QED
  BY <1>4

-----------------------------------------------------------------------------
(* Powers of two. *)

\* g is the powers up to n.
Doubles(g, n) == g[0] = 1 /\ \A k \in 1..n : g[k] = 2 * g[k - 1]

LEMMA DoublesExists ==
  ASSUME NEW n \in Nat
  PROVE  \E g \in [0..n -> Nat \ {0}] : Doubles(g, n)
<1> DEFINE S == {m \in 0..n : \E g \in [0..m -> Nat \ {0}] : Doubles(g, m)}
<1>1. 0 \in S
  <2>1. [k \in 0..0 |-> 1] \in [0..0 -> Nat \ {0}] /\ Doubles([k \in 0..0 |-> 1], 0)
    BY DEF Doubles
  <2>2. \E g \in [0..0 -> Nat \ {0}] : Doubles(g, 0)
    BY <2>1
  <2>3. QED
    BY <2>2
<1>2. ASSUME NEW m \in 1..n, m - 1 \in S
      PROVE  m \in S
  <2>1. PICK f \in [0..(m - 1) -> Nat \ {0}] : Doubles(f, m - 1)
    BY <1>2
  <2> DEFINE g == [k \in 0..m |-> IF k = m THEN 2 * f[m - 1] ELSE f[k]]
  <2>2. f[m - 1] \in Nat \ {0} /\ 2 * f[m - 1] \in Nat \ {0}
    OBVIOUS
  <2>3. g \in [0..m -> Nat \ {0}]
    BY <2>2
  <2>4. g[0] = f[0] /\ g[m] = 2 * f[m - 1] /\ \A k \in 0..(m - 1) : g[k] = f[k]
    OBVIOUS
  <2> HIDE DEF g
  <2>5. ASSUME NEW k \in 1..m PROVE g[k] = 2 * g[k - 1]
    <3>1. g[k - 1] = f[k - 1]
      BY <2>4
    <3>2. CASE k = m
      BY <2>4, <3>1, <3>2
    <3>3. CASE k \in 1..(m - 1)
      <4>1. g[k] = f[k] /\ f[k] = 2 * f[k - 1]
        BY <2>1, <2>4, <3>3 DEF Doubles
      <4>2. QED
        BY <3>1, <4>1
    <3>4. QED
      BY <3>2, <3>3
  <2>6. Doubles(g, m)
    BY <2>1, <2>4, <2>5 DEF Doubles
  <2>7. QED
    BY <2>3, <2>6
<1>3. n \in S
  <2> HIDE DEF S
  <2>1. \A k \in 0..n : k \in S
    BY <1>1, <1>2, IntervalInduction
  <2>2. QED
    BY <2>1
<1>4. QED
  BY <1>3

LEMMA DoublesUnique ==
  ASSUME NEW m \in Nat, NEW n \in Nat, m <= n, NEW f, NEW g, Doubles(f, m), Doubles(g, n)
  PROVE  \A k \in 0..m : f[k] = g[k]
<1> DEFINE S == {k \in 0..m : f[k] = g[k]}
<1>1. 0 \in S
  BY DEF Doubles
<1>2. ASSUME NEW k \in 1..m, k - 1 \in S
      PROVE  k \in S
  <2>1. k \in 1..n
    OBVIOUS
  <2>2. f[k] = 2 * f[k - 1] /\ g[k] = 2 * g[k - 1]
    BY <2>1 DEF Doubles
  <2>3. QED
    BY <1>2, <2>2
<1>3. \A k \in 0..m : k \in S
  <2> HIDE DEF S
  <2>1. QED
    BY <1>1, <1>2, IntervalInduction
<1>4. QED
  BY <1>3

LEMMA PowerOf2Def ==
  PowerOf2 = [n \in Nat |-> IF n = 0 THEN 1 ELSE 2 * PowerOf2[n - 1]]
<1> DEFINE G(n) == CHOOSE g \in [0..n -> Nat \ {0}] : Doubles(g, n)
           f == [n \in Nat |-> G(n)[n]]
<1>1. \A n \in Nat : Doubles(G(n), n)
  BY DoublesExists
<1> HIDE DEF G
<1>2. G(0)[0] = 1
  BY <1>1 DEF Doubles
<1>3. ASSUME NEW n \in Nat, n # 0
      PROVE  G(n)[n] = 2 * G(n - 1)[n - 1]
  <2>1. n - 1 \in Nat /\ n - 1 <= n /\ n \in 1..n /\ n - 1 \in 0..(n - 1)
    BY <1>3
  <2>2. Doubles(G(n), n) /\ Doubles(G(n - 1), n - 1)
    BY <1>1, <2>1
  <2>3. G(n - 1)[n - 1] = G(n)[n - 1]
    BY <2>1, <2>2, DoublesUnique
  <2>4. G(n)[n] = 2 * G(n)[n - 1]
    BY <2>1, <2>2 DEF Doubles
  <2>5. QED
    BY <2>3, <2>4
<1>4. \A n \in Nat : f[n] = IF n = 0 THEN 1 ELSE 2 * f[n - 1]
  <2>1. SUFFICES ASSUME NEW n \in Nat PROVE f[n] = IF n = 0 THEN 1 ELSE 2 * f[n - 1]
    OBVIOUS
  <2>2. CASE n = 0
    BY <1>2, <2>2
  <2>3. CASE n # 0
    <3>1. n - 1 \in Nat /\ f[n] = G(n)[n] /\ f[n - 1] = G(n - 1)[n - 1]
      BY <2>3
    <3>2. QED
      BY <1>3, <2>3, <3>1
  <2>4. QED
    BY <2>2, <2>3
<1>5. f = [n \in Nat |-> IF n = 0 THEN 1 ELSE 2 * f[n - 1]]
  <2>1. f = [n \in Nat |-> f[n]]
    OBVIOUS
  <2> HIDE DEF f
  <2>2. QED
    BY <1>4, <2>1
<1> HIDE DEF f
<1>6. QED
  BY <1>5, Zenon DEF PowerOf2

LEMMA PowerTyped ==
  ASSUME NEW n \in Nat
  PROVE  PowerOf2[n] \in Nat \ {0} /\ PowerOf2[n + 1] = 2 * PowerOf2[n]
<1> DEFINE S == {k \in 0..n : PowerOf2[k] \in Nat \ {0}}
<1>1. PowerOf2[0] = 1 /\ \A k \in Nat : k # 0 => PowerOf2[k] = 2 * PowerOf2[k - 1]
  <2> DEFINE p == PowerOf2
  <2>1. p = [k \in Nat |-> IF k = 0 THEN 1 ELSE 2 * p[k - 1]]
    BY PowerOf2Def
  <2> HIDE DEF p
  <2>2. p[0] = 1 /\ \A k \in Nat : k # 0 => p[k] = 2 * p[k - 1]
    BY <2>1
  <2>3. QED
    BY <2>2 DEF p
<1>2. 0 \in S
  BY <1>1
<1>3. ASSUME NEW k \in 1..n, k - 1 \in S
      PROVE  k \in S
  BY <1>1, <1>3
<1>4. \A k \in 0..n : k \in S
  <2> HIDE DEF S
  <2>1. QED
    BY <1>2, <1>3, IntervalInduction
<1>5. PowerOf2[n + 1] = 2 * PowerOf2[n]
  <2>1. n + 1 \in Nat /\ n + 1 # 0 /\ (n + 1) - 1 = n
    OBVIOUS
  <2>2. PowerOf2[n + 1] = 2 * PowerOf2[(n + 1) - 1]
    BY <1>1, <2>1
  <2>3. QED
    BY <2>1, <2>2
<1>6. QED
  BY <1>4, <1>5

LEMMA PowerGrows ==
  ASSUME NEW n \in Nat, NEW m \in 0..n
  PROVE  PowerOf2[m] <= PowerOf2[n]
<1> DEFINE S == {k \in 0..(n - m) : PowerOf2[m] <= PowerOf2[m + k]}
<1>1. 0 \in S
  <2>1. PowerOf2[m] \in Nat /\ m + 0 = m
    BY PowerTyped
  <2>2. QED
    BY <2>1
<1>2. ASSUME NEW k \in 1..(n - m), k - 1 \in S
      PROVE  k \in S
  <2>1. m + (k - 1) \in Nat /\ (m + (k - 1)) + 1 = m + k
    OBVIOUS
  <2>2. PowerOf2[m + (k - 1)] \in Nat /\ PowerOf2[m + k] = 2 * PowerOf2[m + (k - 1)] /\ PowerOf2[m] \in Nat
    BY <2>1, PowerTyped
  <2>3. QED
    BY <1>2, <2>2
<1>3. n - m \in S
  <2>1. n - m \in Nat
    OBVIOUS
  <2> HIDE DEF S
  <2>2. \A k \in 0..(n - m) : k \in S
    BY <1>1, <1>2, <2>1, IntervalInduction
  <2>3. QED
    BY <2>1, <2>2
<1>4. m + (n - m) = n
  OBVIOUS
<1>5. QED
  BY <1>3, <1>4

-----------------------------------------------------------------------------
(* The checks of a hash. *)

LEMMA Division ==
  ASSUME NEW a \in Nat, NEW b \in Nat \ {0}
  PROVE  /\ a \div b \in Nat /\ a % b \in 0..(b - 1)
         /\ a = b * (a \div b) + (a % b)
         /\ a \div b = 0 <=> a < b
  OBVIOUS

\* The quotient of a byte by a power, its high bits, is zero below that power.
LEMMA HighBitsZero ==
  ASSUME NEW b \in Byte, NEW n \in 0..ByteBits
  PROVE  /\ HighBits(b, n) = 0 <=> b < PowerOf2[ByteBits - n]
         /\ Masked(b, n) = 0 <=> b < PowerOf2[ByteBits - n]
<1> DEFINE p == PowerOf2[ByteBits - n]
<1>1. ByteBits \in Nat /\ ByteBits - n \in Nat
  BY WidthAssumption
<1>2. p \in Nat \ {0} /\ PowerOf2[ByteBits] \in Nat
  BY <1>1, PowerTyped
<1>3. b \in Nat
  BY <1>2 DEF Byte
<1> HIDE DEF p
<1>4. b \div p \in Nat /\ (b \div p = 0 <=> b < p)
  BY <1>2, <1>3, Division
<1>5. (b \div p) * p = 0 <=> b \div p = 0
  <2> DEFINE q == b \div p
  <2>1. q \in Nat
    BY <1>4
  <2> HIDE DEF q
  <2>2. q # 0 => q * p # 0
    BY <1>2, <2>1
  <2>3. q = 0 => q * p = 0
    BY <1>2
  <2>4. QED
    BY <2>2, <2>3 DEF q
<1>6. QED
  BY <1>4, <1>5 DEF HighBits, Masked, p

\* bits.LeadingZeros8 has a value, and it is at least n when the n high bits
\* are zero.
LEMMA LeadingZerosIs ==
  ASSUME NEW b \in Byte
  PROVE  /\ LeadingZeros(b) \in 0..ByteBits
         /\ \A n \in 0..ByteBits : LeadingZeros(b) >= n <=> b < PowerOf2[ByteBits - n]
<1>1. ByteBits \in Nat /\ ByteBits # 0
  BY WidthAssumption
<1>2. PowerOf2[ByteBits] \in Nat
  BY <1>1, PowerTyped
<1>3. b \in Nat /\ b < PowerOf2[ByteBits]
  BY <1>2 DEF Byte
<1> DEFINE Is(n) == /\ b < PowerOf2[ByteBits - n]
                    /\ n < ByteBits => b >= PowerOf2[ByteBits - n - 1]
           T == {m \in 0..ByteBits : b < PowerOf2[m]}
           z == LeadingZeros(b)
<1>4. \E n \in 0..ByteBits : Is(n)
  <2>1. ByteBits \in T
    BY <1>1, <1>3
  <2>2. PICK m \in 0..ByteBits : m \in T /\ \A k \in 0..(m - 1) : k \notin T
    <3> HIDE DEF T
    <3>1. QED
      BY <1>1, <2>1, Least
  <2>3. ByteBits - m \in 0..ByteBits /\ ByteBits - (ByteBits - m) = m
    BY <1>1
  <2>4. ASSUME ByteBits - m < ByteBits
        PROVE  b >= PowerOf2[m - 1]
    <3>1. m - 1 \in 0..(m - 1) /\ m - 1 \in 0..ByteBits
      BY <1>1, <2>4
    <3>2. PowerOf2[m - 1] \in Nat
      BY <3>1, PowerTyped
    <3>3. QED
      BY <1>3, <2>2, <3>1, <3>2
  <2>5. b < PowerOf2[ByteBits - (ByteBits - m)]
    BY <2>2, <2>3
  <2>6. ByteBits - m < ByteBits => b >= PowerOf2[ByteBits - (ByteBits - m) - 1]
    BY <2>3, <2>4
  <2>7. QED
    BY <2>3, <2>5, <2>6
<1>5. z \in 0..ByteBits /\ Is(z)
  BY <1>4 DEF LeadingZeros
<1> HIDE DEF z
<1>6. ASSUME NEW n \in 0..ByteBits
      PROVE  z >= n <=> b < PowerOf2[ByteBits - n]
  <2>1. PowerOf2[ByteBits - n] \in Nat /\ PowerOf2[ByteBits - z] \in Nat
    BY <1>1, <1>5, PowerTyped
  <2>2. CASE z >= n
    <3>1. ByteBits - z \in 0..(ByteBits - n) /\ ByteBits - n \in Nat
      BY <1>1, <1>5, <2>2
    <3>2. PowerOf2[ByteBits - z] <= PowerOf2[ByteBits - n]
      BY <3>1, PowerGrows
    <3>3. QED
      BY <1>3, <1>5, <2>1, <2>2, <3>2
  <2>3. CASE z < n
    <3>1. ByteBits - z - 1 \in Nat /\ ByteBits - n \in 0..(ByteBits - z - 1) /\ z < ByteBits
      BY <1>1, <1>5, <2>3
    <3>2. PowerOf2[ByteBits - n] <= PowerOf2[ByteBits - z - 1]
      BY <3>1, PowerGrows
    <3>3. PowerOf2[ByteBits - z - 1] \in Nat
      BY <3>1, PowerTyped
    <3>4. QED
      BY <1>3, <1>5, <2>1, <2>3, <3>1, <3>2, <3>3
  <2>4. QED
    BY <1>1, <1>5, <2>2, <2>3
<1>7. QED
  BY <1>5, <1>6 DEF z

LEMMA HashByte ==
  ASSUME NEW h \in Hash, NEW i \in 1..HashBytes
  PROVE  h[i] \in Byte /\ h[i] \in Nat
<1>1. PowerOf2[ByteBits] \in Nat
  BY WidthAssumption, PowerTyped
<1>2. QED
  BY <1>1 DEF Hash, Byte

\* The count of leading zeros ends at the first byte that is not zero.
LEMMA CountIs ==
  ASSUME NEW h \in Hash
  PROVE  \/ /\ ZeroBytes(h, HashBytes)
            /\ countLeadingZeroBits(h) = HashBytes * ByteBits
         \/ \E i \in 1..HashBytes :
              /\ h[i] # 0 /\ ZeroBytes(h, i - 1)
              /\ countLeadingZeroBits(h) = (i - 1) * ByteBits + LeadingZeros(h[i])
<1>1. CASE ZeroBytes(h, HashBytes)
  BY <1>1 DEF countLeadingZeroBits
<1>2. CASE ~ZeroBytes(h, HashBytes)
  <2> DEFINE T == {i \in 1..HashBytes : h[i] # 0}
             Is(i) == h[i] # 0 /\ ZeroBytes(h, i - 1)
             first == CHOOSE i \in 1..HashBytes : Is(i)
  <2>1. PICK n \in 1..HashBytes : n \in T
    BY <1>2 DEF ZeroBytes
  <2>2. n \in Nat
    BY WidthAssumption
  <2>3. PICK m \in 0..n : m \in T /\ \A k \in 0..(m - 1) : k \notin T
    <3> HIDE DEF T
    <3>1. QED
      BY <2>1, <2>2, Least
  <2>4. m \in 1..HashBytes /\ h[m] # 0
    BY <2>3
  <2>5. ASSUME NEW k \in 1..(m - 1)
        PROVE  h[k] = 0
    <3>1. k \in 1..HashBytes /\ k \in 0..(m - 1)
      BY <2>4, WidthAssumption
    <3>2. k \notin T
      BY <2>3, <3>1
    <3>3. QED
      BY <3>1, <3>2
  <2>6. Is(m)
    BY <2>4, <2>5 DEF ZeroBytes
  <2>7. first \in 1..HashBytes /\ Is(first)
    BY <2>4, <2>6
  <2>8. countLeadingZeroBits(h) = (first - 1) * ByteBits + LeadingZeros(h[first])
    BY <1>2 DEF countLeadingZeroBits
  <2> HIDE DEF first
  <2>9. QED
    BY <2>7, <2>8
<1>3. QED
  BY <1>1, <1>2

LEMMA Multiples ==
  ASSUME NEW a \in Int, NEW b \in Int, NEW c \in Nat, a <= b
  PROVE  a * c <= b * c
<1>1. (b - a) * c >= 0
  OBVIOUS
<1>2. (b - a) * c = b * c - a * c
  OBVIOUS
<1>3. a * c \in Int /\ b * c \in Int
  OBVIOUS
<1>4. QED
  BY <1>1, <1>2, <1>3

\* The three checks of one hash.
LEMMA ChecksAgree ==
  ASSUME NEW h \in Hash, NEW d \in 0..MaxBits
  PROVE  /\ CheckPoW(h, d) <=> VerifyPoW(h, d)
         /\ CheckPoW(h, d) <=> countLeadingZeroBits(h) >= d
<1> DEFINE q == d \div ByteBits
           r == d % ByteBits
           n == HashBytes * ByteBits
           c == countLeadingZeroBits(h)
           High == r > 0 => h[q + 1] < PowerOf2[ByteBits - r]
<1>1. ByteBits \in Nat \ {0} /\ HashBytes \in Nat /\ d \in Nat /\ n \in Nat /\ d <= n
  BY WidthAssumption
<1>2. /\ q \in Nat /\ r \in Nat /\ r < ByteBits /\ d = q * ByteBits + r
      /\ q * ByteBits \in Nat
  <2>1. q \in Nat /\ r \in 0..(ByteBits - 1) /\ d = ByteBits * q + r
    BY <1>1, Division
  <2> HIDE DEF q, r
  <2>2. ByteBits * q = q * ByteBits /\ q * ByteBits \in Nat
    BY <1>1, <2>1
  <2>3. QED
    BY <1>1, <2>1, <2>2
<1> HIDE DEF q, r
<1>3. r \in 0..ByteBits
  BY <1>1, <1>2
<1>4. q <= HashBytes /\ (r > 0 => q + 1 \in 1..HashBytes)
  <2>1. ASSUME q >= HashBytes
        PROVE  q = HashBytes /\ r = 0
    <3>1. HashBytes * ByteBits <= q * ByteBits
      BY <1>1, <1>2, <2>1, Multiples
    <3>2. ASSUME q >= HashBytes + 1
          PROVE  FALSE
      <4>1. (HashBytes + 1) * ByteBits <= q * ByteBits
        BY <1>1, <1>2, <3>2, Multiples
      <4>2. (HashBytes + 1) * ByteBits = n + ByteBits
        BY <1>1
      <4>3. QED
        BY <1>1, <1>2, <4>1, <4>2
    <3>3. r = 0
      BY <1>1, <1>2, <3>1
    <3>4. QED
      BY <1>1, <1>2, <2>1, <3>2, <3>3
  <2>2. QED
    BY <1>1, <1>2, <2>1
<1>5. CheckPoW(h, d) <=> ZeroBytes(h, q) /\ High
  <2>1. CheckPoW(h, d) <=>
          d <= 0 \/ (ZeroBytes(h, q) /\ (r > 0 => HighBits(h[q + 1], r) = 0))
    <3>1. (IF d > MaxBits THEN MaxBits ELSE d) = d
      BY <1>1, WidthAssumption
    <3>2. QED
      BY <3>1 DEF CheckPoW, q, r
  <2>2. r > 0 => (HighBits(h[q + 1], r) = 0 <=> h[q + 1] < PowerOf2[ByteBits - r])
    BY <1>3, <1>4, HashByte, HighBitsZero
  <2>3. d <= 0 => q = 0 /\ r = 0
    <3>1. ASSUME q >= 1
          PROVE  q * ByteBits > 0
      BY <1>1, <1>2, <3>1
    <3>2. QED
      BY <1>1, <1>2, <3>1
  <2>4. ZeroBytes(h, 0)
    BY DEF ZeroBytes
  <2>5. QED
    BY <1>2, <2>1, <2>2, <2>3, <2>4
<1>6. VerifyPoW(h, d) <=> ZeroBytes(h, q) /\ High
  <2>1. VerifyPoW(h, d) <=>
          d <= 0 \/ (ZeroBytes(h, q) /\ (r > 0 => Masked(h[q + 1], r) = 0))
    BY DEF VerifyPoW, q, r
  <2>2. r > 0 => (Masked(h[q + 1], r) = 0 <=> h[q + 1] < PowerOf2[ByteBits - r])
    BY <1>3, <1>4, HashByte, HighBitsZero
  <2>3. d <= 0 => q = 0 /\ r = 0
    <3>1. ASSUME q >= 1
          PROVE  q * ByteBits > 0
      BY <1>1, <1>2, <3>1
    <3>2. QED
      BY <1>1, <1>2, <3>1
  <2>4. ZeroBytes(h, 0)
    BY DEF ZeroBytes
  <2>5. QED
    BY <1>2, <2>1, <2>2, <2>3, <2>4
<1>7. \A i \in 1..HashBytes, k \in 1..ByteBits :
        h[i] = 0 => h[i] < PowerOf2[ByteBits - k]
  <2>1. \A k \in 1..ByteBits : PowerOf2[ByteBits - k] \in Nat \ {0}
    BY <1>1, PowerTyped
  <2>2. QED
    BY <2>1
<1>8. CASE ZeroBytes(h, HashBytes) /\ c = n
  <2>1. ZeroBytes(h, q)
    BY <1>1, <1>2, <1>4, <1>8 DEF ZeroBytes
  <2>2. High
    BY <1>2, <1>3, <1>4, <1>7, <1>8 DEF ZeroBytes
  <2>3. QED
    BY <1>1, <1>5, <1>6, <1>8, <2>1, <2>2
<1>9. ASSUME NEW i \in 1..HashBytes, h[i] # 0, ZeroBytes(h, i - 1),
             c = (i - 1) * ByteBits + LeadingZeros(h[i])
      PROVE  c >= d <=> ZeroBytes(h, q) /\ High
  <2> DEFINE z == LeadingZeros(h[i])
  <2>1. h[i] \in Byte /\ h[i] \in Nat
    BY HashByte
  <2>2. /\ z \in 0..ByteBits
        /\ \A k \in 0..ByteBits : z >= k <=> h[i] < PowerOf2[ByteBits - k]
    BY <2>1, LeadingZerosIs
  <2> HIDE DEF z
  <2>3. z < ByteBits
    <3>1. PowerOf2[ByteBits - ByteBits] = 1
      <4>1. ByteBits - ByteBits = 0
        BY <1>1
      <4>2. QED
        BY <4>1, PowerOf2Def
    <3>2. ~(h[i] < PowerOf2[ByteBits - ByteBits])
      BY <1>9, <2>1, <3>1
    <3>3. ~(z >= ByteBits)
      BY <1>1, <2>2, <3>2
    <3>4. QED
      BY <1>1, <2>2, <3>3
  <2>4. (i - 1) * ByteBits \in Int /\ c = (i - 1) * ByteBits + z /\ i \in Int
        /\ i * ByteBits = (i - 1) * ByteBits + ByteBits
    BY <1>1, <1>9 DEF z
  <2> HIDE DEF c
  <2>5. CASE q < i - 1
    <3>1. (q + 1) * ByteBits <= (i - 1) * ByteBits
      BY <1>1, <1>2, <2>5, Multiples
    <3>2. (q + 1) * ByteBits = q * ByteBits + ByteBits
      BY <1>1, <1>2
    <3>3. c >= d
      BY <1>1, <1>2, <2>2, <2>4, <3>1, <3>2
    <3>4. ZeroBytes(h, q) /\ h[q + 1] = 0
      BY <1>2, <1>9, <2>5 DEF ZeroBytes
    <3>5. q + 1 \in 1..HashBytes
      BY <1>1, <1>2, <2>5
    <3>6. High
      BY <1>2, <1>3, <1>7, <3>4, <3>5
    <3>7. QED
      BY <3>3, <3>4, <3>6
  <2>6. CASE q = i - 1
    <3>1. c >= d <=> z >= r
      BY <1>1, <1>2, <2>2, <2>4, <2>6
    <3>2. z >= r <=> h[i] < PowerOf2[ByteBits - r]
      BY <1>3, <2>2
    <3>3. r = 0 => z >= r
      BY <2>2
    <3>4. q + 1 = i /\ (r > 0 \/ r = 0)
      BY <1>2, <2>6
    <3>5. ZeroBytes(h, q)
      BY <1>9, <2>6
    <3>6. QED
      BY <3>1, <3>2, <3>3, <3>4, <3>5
  <2>7. CASE q >= i
    <3>1. i * ByteBits <= q * ByteBits
      BY <1>1, <1>2, <2>7, Multiples
    <3>2. ~(c >= d)
      BY <1>1, <1>2, <2>2, <2>3, <2>4, <3>1
    <3>3. i \in 1..q
      BY <1>2, <2>7
    <3>4. ~ZeroBytes(h, q)
      BY <1>9, <3>3 DEF ZeroBytes
    <3>5. QED
      BY <3>2, <3>4
  <2>8. QED
    BY <1>2, <2>4, <2>5, <2>6, <2>7
<1>10. QED
  BY <1>5, <1>6, <1>8, <1>9, CountIs

-----------------------------------------------------------------------------
(* Types. *)

LEMMA LimitTyped ==
  ASSUME NEW d \in Difficulty
  PROVE  Limit(d) \in Nonce
<1>1. (d + Margin) % DifficultyWords \in Nat
  BY WordAssumption DEF Difficulty
<1>2. PowerOf2[(d + Margin) % DifficultyWords] \in Nat
  BY <1>1, PowerTyped
<1>3. QED
  BY <1>2, WordAssumption DEF Limit, Nonce

\* Where nothing wraps the limit is the number that was meant.
LEMMA LimitFits ==
  ASSUME NEW d \in Difficulty, Fits(d)
  PROVE  Limit(d) = PowerOf2[d + Margin]
<1>1. d + Margin \in Nat /\ d + Margin < DifficultyWords
  BY WordAssumption DEF Difficulty, Fits
<1>2. (d + Margin) % DifficultyWords = d + Margin
  BY <1>1, WordAssumption
<1>3. PowerOf2[d + Margin] \in Nat /\ PowerOf2[d + Margin] < NonceWords
  BY <1>1, PowerTyped DEF Fits
<1>4. PowerOf2[d + Margin] % NonceWords = PowerOf2[d + Margin]
  BY <1>3, WordAssumption
<1>5. QED
  BY <1>2, <1>4 DEF Limit

LEMMA ZeroIDTyped == ZeroID \in NodeID
<1>1. PowerOf2[ByteBits] \in Nat \ {0}
  BY PowerTyped, WidthAssumption
<1>2. 0 \in Byte
  BY <1>1 DEF Byte
<1>3. QED
  BY <1>2 DEF ZeroID, NodeID

\* The digest after a computation: one more entry, none changed.
LEMMA HashesTyped ==
  ASSUME TypeOK, NEW x \in Nonce \cup {NoNonce}, NEW h, Hashes(x, h)
  PROVE  /\ h \in Hash
         /\ digest' = [n \in DOMAIN digest' |-> digest'[n]]
         /\ DOMAIN digest' = DOMAIN digest \cup {x}
         /\ DOMAIN digest' \subseteq Nonce \cup {NoNonce}
         /\ \A n \in DOMAIN digest' : digest'[n] \in Hash
         /\ \A n \in DOMAIN digest : digest'[n] = digest[n]
         /\ digest'[x] = h
  BY DEF Hashes, TypeOK

LEMMA FirstBytesTyped ==
  ASSUME NEW h \in Hash
  PROVE  FirstBytes(h) \in NodeID
  BY WidthAssumption DEF FirstBytes, Hash, NodeID

LEMMA TypeInit ==
  ASSUME Init
  PROVE  TypeOK
<1>1. 0 \in Nonce /\ 0 \in Difficulty
  BY WordAssumption DEF Nonce, Difficulty
<1>2. DOMAIN digest = {} /\ digest = [n \in DOMAIN digest |-> digest[n]]
  BY DEF Init
<1>3. QED
  BY <1>1, <1>2, ZeroIDTyped DEF Init, TypeOK

LEMMA TypeStep ==
  ASSUME TypeOK, [Next]_vars
  PROVE  TypeOK'
<1>1. 0 \in Nonce /\ 0 \in Difficulty
  BY WordAssumption DEF Nonce, Difficulty
<1>2. CASE GenerateNodeIDFromPubKey
  BY <1>1, <1>2, WordAssumption
  DEF GenerateNodeIDFromPubKey, TypeOK, Nonce, Difficulty
<1>3. ASSUME NEW d \in Difficulty, SolvePuzzle(d)
      PROVE  TypeOK'
  BY <1>1, <1>3, LimitTyped, WordAssumption DEF SolvePuzzle, TypeOK, Nonce
<1>4. CASE FindNonce
  <2>1. PICK h \in Hash : Hashes(nonce, h)
    BY <1>4 DEF FindNonce
  <2>2. nonce \in Nonce /\ nonce + 1 \in Nonce /\ nonce + 1 <= limit
    BY <1>4, WordAssumption DEF FindNonce, TypeOK, Nonce
  <2>3. QED
    BY <1>4, <2>1, <2>2, HashesTyped DEF FindNonce, TypeOK
<1>5. CASE Found
  <2>1. PICK h \in Hash :
          /\ Hashes(nonce, h)
          /\ localID' = IF kind = "nodeid" THEN FirstBytes(h) ELSE localID
    BY <1>5 DEF Found
  <2>2. FirstBytes(h) \in NodeID
    BY FirstBytesTyped
  <2>3. nonce \in Nonce
    BY DEF TypeOK
  <2>4. localID' \in NodeID
    BY <2>1, <2>2 DEF TypeOK
  <2>5. QED
    BY <1>5, <2>1, <2>3, <2>4, HashesTyped DEF Found, TypeOK
<1>6. CASE GiveUp
  <2>1. CASE kind = "nodeid"
    <3>1. PICK h \in Hash : Hashes(NoNonce, h) /\ localID' = FirstBytes(h)
      BY <1>6, <2>1 DEF GiveUp
    <3>2. FirstBytes(h) \in NodeID
      BY FirstBytesTyped
    <3>3. localID' \in NodeID
      BY <3>1, <3>2 DEF TypeOK
    <3>4. QED
      BY <1>6, <3>1, <3>3, HashesTyped DEF GiveUp, TypeOK
  <2>2. CASE kind # "nodeid"
    BY <1>6, <2>2 DEF GiveUp, TypeOK
  <2>3. QED
    BY <2>1, <2>2
<1>7. CASE VerifyNonce
  <2>1. PICK h \in Hash :
          /\ Hashes(stored, h)
          /\ status' = IF verifyNonce(h, bits) THEN "verified" ELSE "refused"
    BY <1>7 DEF VerifyNonce
  <2>2. stored \in Nonce
    BY DEF TypeOK
  <2>3. QED
    BY <1>7, <2>1, <2>2, HashesTyped DEF VerifyNonce, TypeOK
<1>8. CASE Restart
  BY <1>1, <1>8, ZeroIDTyped DEF Restart, TypeOK
<1>9. CASE UNCHANGED vars
  BY <1>9 DEF vars, TypeOK
<1>10. QED
  BY <1>2, <1>3, <1>4, <1>5, <1>6, <1>7, <1>8, <1>9 DEF Next, Search

\* The variables keep their types: the limit and the nonce never leave the
\* word, whatever the difficulty.
THEOREM TypeCorrect == Spec => []TypeOK
<1>1. TypeOK /\ [Next]_vars => TypeOK'
  BY TypeStep
<1>2. QED
  BY <1>1, TypeInit, PTL DEF Spec

\* Whichever of the three checks a hash meets, of a key, a DID or a challenge,
\* it has the same difficulty, for bytes and hashes of any width.
THEOREM CheckersAgreeCorrect == Spec => []CheckersAgree
<1>1. TypeOK => CheckersAgree
  BY ChecksAgree DEF TypeOK, CheckersAgree
<1>2. QED
  BY <1>1, TypeCorrect, PTL

-----------------------------------------------------------------------------
(* The least solution. *)

\* What the loop has behind it.  SolvePuzzle keeps its nonce in the puzzle and
\* its limit for the search; the difficulty of a NodeID never varies.
SearchInv ==
  /\ LeastSolution
  /\ status = "searching" => \A n \in 0..(nonce - 1) : Refuted(n)
  /\ kind = "puzzle" /\ status = "found" => stored = nonce
  /\ kind = "puzzle" /\ status = "searching" => limit = Limit(bits)
  /\ kind = "nodeid" /\ status # "idle" =>
       /\ bits = DefaultPoWDifficulty /\ limit = MaxAttempts
       /\ status \in {"searching", "found", "failed"}

\* Nothing that was computed is otherwise while the process lives.
Remembered ==
  /\ DOMAIN digest \subseteq DOMAIN digest'
  /\ \A n \in DOMAIN digest : digest'[n] = digest[n]

LEMMA DigestRemembered ==
  ASSUME TypeOK, [Next]_vars, ~Restart
  PROVE  Remembered /\ kind' = kind
<1>1. ASSUME NEW x, NEW h, Hashes(x, h)
      PROVE  Remembered
  BY <1>1 DEF Hashes, Remembered
<1>2. CASE FindNonce
  BY <1>1, <1>2 DEF FindNonce
<1>3. CASE Found
  BY <1>1, <1>3 DEF Found
<1>4. CASE GiveUp
  <2>1. CASE kind = "nodeid"
    BY <1>1, <1>4, <2>1 DEF GiveUp
  <2>2. CASE kind # "nodeid"
    BY <1>4, <2>2 DEF GiveUp, Remembered
  <2>3. QED
    BY <1>4, <2>1, <2>2 DEF GiveUp
<1>5. CASE VerifyNonce
  BY <1>1, <1>5 DEF VerifyNonce
<1>6. CASE UNCHANGED <<kind, digest>>
  BY <1>6 DEF Remembered
<1>7. QED
  BY <1>2, <1>3, <1>4, <1>5, <1>6
  DEF Next, Search, GenerateNodeIDFromPubKey, SolvePuzzle, vars

LEMMA RefutedRemembered ==
  ASSUME Remembered, kind' = kind, bits' = bits, NEW n, Refuted(n)
  PROVE  Refuted(n)'
  BY DEF Remembered, Refuted, Solves

LEMMA SearchStep ==
  ASSUME TypeOK, SearchInv, [Next]_vars
  PROVE  SearchInv'
<1>a. CASE Restart
  BY <1>a DEF Restart, SearchInv, LeastSolution
<1>0. SUFFICES ASSUME ~Restart, Remembered, kind' = kind
               PROVE  SearchInv'
  BY <1>a, DigestRemembered
<1>1. CASE GenerateNodeIDFromPubKey
  BY <1>1 DEF GenerateNodeIDFromPubKey, SearchInv, LeastSolution
<1>2. ASSUME NEW d \in Difficulty, SolvePuzzle(d)
      PROVE  SearchInv'
  BY <1>2 DEF SolvePuzzle, SearchInv, LeastSolution
<1>3. CASE FindNonce
  <2>1. PICK h \in Hash : Hashes(nonce, h) /\ ~Solves(h)
    BY <1>3 DEF FindNonce
  <2>2. nonce \in Nonce /\ nonce' = nonce + 1 /\ bits' = bits
        /\ status' = "searching" /\ status = "searching" /\ limit' = limit
    BY <1>3 DEF FindNonce, TypeOK
  <2>3. \A n : n = nonce => Refuted(n)'
    <3>1. digest'[nonce] = h /\ nonce \in DOMAIN digest'
      BY <2>1 DEF Hashes
    <3>2. \A n : n = nonce => n \in DOMAIN digest' /\ digest'[n] = h
      BY <3>1
    <3>3. ~Solves(h)'
      BY <1>0, <2>1, <2>2 DEF Solves
    <3>4. QED
      BY <3>2, <3>3 DEF Refuted, Solves
  <2>4. ASSUME NEW n \in 0..nonce
        PROVE  Refuted(n)'
    <3>1. CASE n = nonce
      BY <2>3, <3>1
    <3>2. CASE n # nonce
      <4>1. n \in 0..(nonce - 1)
        BY <2>2, <2>4, <3>2 DEF Nonce
      <4>2. Refuted(n)
        BY <2>2, <4>1 DEF SearchInv
      <4>3. QED
        BY <1>0, <2>2, <4>2, RefutedRemembered
    <3>3. QED
      BY <3>1, <3>2
  <2>5. 0..(nonce' - 1) = 0..nonce
    BY <2>2 DEF Nonce
  <2>6. QED
    BY <1>0, <2>2, <2>4, <2>5 DEF SearchInv, LeastSolution
<1>4. CASE Found
  <2>1. PICK h \in Hash : Hashes(nonce, h) /\ Solves(h)
    BY <1>4 DEF Found
  <2>2. nonce \in Nonce /\ nonce' = nonce /\ bits' = bits /\ limit' = limit
        /\ status = "searching" /\ status' = "found"
        /\ (kind = "puzzle" => stored' = nonce)
    BY <1>4 DEF Found, TypeOK
  <2>3. nonce' \in DOMAIN digest' /\ Solves(digest[nonce])'
    <3>1. digest'[nonce] = h /\ nonce \in DOMAIN digest'
      BY <2>1 DEF Hashes
    <3>2. QED
      BY <1>0, <2>1, <2>2, <3>1 DEF Solves
  <2>4. \A n \in 0..(nonce - 1) : Refuted(n)'
    BY <1>0, <2>2, RefutedRemembered DEF SearchInv
  <2>5. QED
    BY <1>0, <2>2, <2>3, <2>4 DEF SearchInv, LeastSolution
<1>5. CASE GiveUp
  <2>1. nonce \in Nonce /\ limit \in Nonce /\ nonce >= limit /\ bits' = bits
        /\ limit' = limit /\ status = "searching" /\ status' = "failed"
    BY <1>5 DEF GiveUp, TypeOK
  <2>2. \A n \in 0..(limit - 1) : n \in 0..(nonce - 1)
    BY <2>1 DEF Nonce
  <2>3. \A n \in 0..(limit - 1) : Refuted(n)'
    BY <1>0, <2>1, <2>2, RefutedRemembered DEF SearchInv
  <2>4. ASSUME kind = "puzzle", Fits(bits)
        PROVE  limit = PowerOf2[bits + Margin]
    BY <2>1, <2>4, LimitFits DEF SearchInv, TypeOK
  <2>5. kind' = "puzzle" /\ Fits(bits)' =>
          \A n \in 0..(PowerOf2[bits' + Margin] - 1) : Refuted(n)'
    BY <1>0, <2>1, <2>3, <2>4 DEF Fits
  <2>6. QED
    BY <1>0, <2>1, <2>3, <2>5 DEF SearchInv, LeastSolution
<1>6. CASE VerifyNonce
  <2>1. PICK h \in Hash :
          /\ Hashes(stored, h)
          /\ status' = IF verifyNonce(h, bits) THEN "verified" ELSE "refused"
    BY <1>6 DEF VerifyNonce
  <2>2. kind = "puzzle" /\ status = "found" /\ stored = nonce
        /\ bits' = bits /\ nonce' = nonce /\ nonce \in Nonce
    BY <1>6 DEF VerifyNonce, SearchInv, TypeOK
  <2>3. h = digest[nonce] /\ Solves(digest[nonce]) /\ nonce \in DOMAIN digest
    BY <2>1, <2>2 DEF Hashes, SearchInv, LeastSolution
  <2>4. status' = "verified"
    BY <2>1, <2>2, <2>3 DEF Solves
  <2>5. nonce' \in DOMAIN digest' /\ Solves(digest[nonce])'
    BY <1>0, <2>2, <2>3 DEF Solves, Remembered
  <2>6. \A n \in 0..(nonce - 1) : Refuted(n)'
    BY <1>0, <2>2, RefutedRemembered DEF SearchInv, LeastSolution
  <2>7. QED
    BY <1>0, <2>2, <2>4, <2>5, <2>6 DEF SearchInv, LeastSolution
<1>7. CASE UNCHANGED vars
  BY <1>7 DEF vars, SearchInv, LeastSolution, Refuted, Solves
<1>8. QED
  BY <1>0, <1>1, <1>2, <1>3, <1>4, <1>5, <1>6, <1>7 DEF Next, Search

\* Whatever the hash function, a search gives the least nonce below its limit,
\* and a failure means that there is none: below 2^(d + Margin) for a puzzle,
\* unless the sum or the shift wraps.
THEOREM LeastSolutionCorrect == Spec => []LeastSolution
<1>1. Init => SearchInv
  BY DEF Init, SearchInv, LeastSolution
<1>2. TypeOK /\ SearchInv /\ [Next]_vars => SearchInv'
  BY SearchStep
<1>3. SearchInv => LeastSolution
  BY DEF SearchInv
<1>4. QED
  BY <1>1, <1>2, <1>3, TypeCorrect, PTL DEF Spec

-----------------------------------------------------------------------------
(* Node identifiers. *)

\* A NodeID that was found is the beginning of the hash of its nonce.
IDInv ==
  kind = "nodeid" /\ status = "found" =>
    /\ nonce \in DOMAIN digest
    /\ localID = FirstBytes(digest[nonce])

LEMMA IDStep ==
  ASSUME TypeOK, IDInv, SearchInv, [Next]_vars
  PROVE  IDInv'
<1>1. CASE Found
  <2>1. PICK h \in Hash :
          /\ Hashes(nonce, h)
          /\ localID' = IF kind = "nodeid" THEN FirstBytes(h) ELSE localID
    BY <1>1 DEF Found
  <2>2. digest'[nonce] = h /\ nonce \in DOMAIN digest'
    BY <2>1 DEF Hashes
  <2>3. QED
    BY <1>1, <2>1, <2>2 DEF Found, IDInv, FirstBytes
<1>2. CASE GenerateNodeIDFromPubKey \/ FindNonce \/ GiveUp \/ VerifyNonce \/ Restart
  BY <1>2
  DEF GenerateNodeIDFromPubKey, FindNonce, GiveUp, VerifyNonce, Restart, IDInv
<1>3. CASE \E d \in Difficulty : SolvePuzzle(d)
  BY <1>3 DEF SolvePuzzle, IDInv
<1>4. CASE UNCHANGED vars
  BY <1>4 DEF vars, IDInv, FirstBytes
<1>5. QED
  BY <1>1, <1>2, <1>3, <1>4 DEF Next, Search

THEOREM IDInvariant == Spec => [](TypeOK /\ SearchInv /\ IDInv)
<1>1. Init => TypeOK /\ SearchInv /\ IDInv
  BY TypeInit DEF Init, SearchInv, LeastSolution, IDInv
<1>2. (TypeOK /\ SearchInv /\ IDInv) /\ [Next]_vars => (TypeOK /\ SearchInv /\ IDInv)'
  BY TypeStep, SearchStep, IDStep
<1>3. QED
  BY <1>1, <1>2, PTL DEF Spec

\* A NodeID validates with the nonce it was mined at, and with none that was
\* tried when the search fell back.
THEOREM MinedIDValidatesCorrect == Spec => []MinedIDValidates
<1>1. SearchInv /\ IDInv => MinedIDValidates
  <2>1. SUFFICES ASSUME SearchInv, IDInv, kind = "nodeid" PROVE MinedIDValidates
    BY DEF MinedIDValidates
  <2>2. ASSUME status = "found"
        PROVE  ValidateNodeID(localID, digest[nonce], bits)
    BY <2>1, <2>2 DEF IDInv, SearchInv, LeastSolution, Solves, ValidateNodeID
  <2>3. ASSUME status = "failed", NEW n \in 0..(limit - 1)
        PROVE  ~CheckPoW(digest[n], bits)
    BY <2>1, <2>3 DEF SearchInv, LeastSolution, Refuted, Solves
  <2>4. QED
    BY <2>2, <2>3 DEF MinedIDValidates, ValidateNodeID
<1>2. QED
  BY <1>1, IDInvariant, PTL

=============================================================================
