---------------------------- MODULE RoutingProofs ----------------------------
(***************************************************************************)
(* Proofs about RoutingTable, for identifiers of any length, any capacity  *)
(* of the buckets and any number of callers: the buckets are well typed,   *)
(* a node has one entry, in the bucket of its distance, and a search finds *)
(* the nearest.                                                            *)
(***************************************************************************)
EXTENDS RoutingTable, FiniteSetTheorems, TLAPS

-----------------------------------------------------------------------------
(* Loops. *)

\* Induction over an interval, for membership in a set.
LEMMA IntervalInduction ==
  ASSUME NEW n \in Nat, NEW S, 0 \in S,
         \A k \in 1..n : k - 1 \in S => k \in S
  PROVE  \A k \in 0..n : k \in S
<1> DEFINE T == {k \in 0..n : k \notin S}
           R == OpToRel(<, Nat)
<1>1. SUFFICES ASSUME T # {} PROVE FALSE
  OBVIOUS
<1>2. T \subseteq Nat
  OBVIOUS
<1>3. IsWellFoundedOn(R, Nat)
  BY NatLessThanWellFounded, Zenon
<1>4. PICK k \in T : \A j \in T : <<j, k>> \notin R
  <2> HIDE DEF T, R
  <2>1. QED
    BY <1>1, <1>2, <1>3, WFMin
<1>5. \A j \in T : ~(j < k)
  BY <1>2, <1>4 DEF OpToRel
<1>6. k \in 1..n /\ k - 1 \in 0..n /\ k - 1 < k
  OBVIOUS
<1>7. k - 1 \in S
  BY <1>5, <1>6
<1>8. QED
  BY <1>6, <1>7

\* A loop of n turns has a result, whatever its body does to members of X: the
\* functions that its recursive definition chooses from are there.
Iterates(f, n, x, Turn) ==
  f[0] = x /\ \A k \in 1..n : f[k] = Turn[k][f[k - 1]]

LEMMA Iteration ==
  ASSUME NEW n \in Nat, NEW X, NEW x \in X, NEW Turn \in [1..n -> [X -> X]]
  PROVE  \E f \in [0..n -> X] : Iterates(f, n, x, Turn)
<1> DEFINE Runs(m, f) == /\ f[0] = x
                         /\ \A k \in 1..m : f[k] = Turn[k][f[k - 1]]
           S == {m \in 0..n : \E f \in [0..m -> X] : Runs(m, f)}
<1>1. 0 \in S
  <2>1. [k \in 0..0 |-> x] \in [0..0 -> X] /\ Runs(0, [k \in 0..0 |-> x])
    OBVIOUS
  <2>2. \E f \in [0..0 -> X] : Runs(0, f)
    BY <2>1
  <2>3. QED
    BY <2>2
<1>2. ASSUME NEW m \in 1..n, m - 1 \in S
      PROVE  m \in S
  <2>1. PICK f \in [0..(m - 1) -> X] : Runs(m - 1, f)
    BY <1>2
  <2> DEFINE g == [k \in 0..m |-> IF k = m THEN Turn[m][f[m - 1]] ELSE f[k]]
  <2>2. Turn[m][f[m - 1]] \in X
    OBVIOUS
  <2>3. g \in [0..m -> X]
    BY <2>2
  <2>4. g[0] = x /\ g[m] = Turn[m][f[m - 1]] /\ \A k \in 0..(m - 1) : g[k] = f[k]
    BY <2>1
  <2> HIDE DEF g
  <2>5. ASSUME NEW k \in 1..m PROVE g[k] = Turn[k][g[k - 1]]
    <3>1. k - 1 \in 0..(m - 1) /\ (k = m \/ k \in 1..(m - 1))
      OBVIOUS
    <3>2. QED
      BY <2>1, <2>4, <3>1
  <2>6. QED
    BY <2>3, <2>4, <2>5
<1>3. n \in S
  <2> HIDE DEF S
  <2>1. \A k \in 0..n : k \in S
    BY <1>1, <1>2, IntervalInduction
  <2>2. QED
    BY <2>1
<1>4. QED
  BY <1>3 DEF Iterates

-----------------------------------------------------------------------------
(* The bucket of an identifier. *)

LEMMA BitsFinite ==
  IsFiniteSet(Bit) /\ Bit \subseteq Nat /\ Buckets \in Nat \ {0} /\ Bit = 0..(Buckets - 1)
<1>1. Bytes * BitsPerByte \in Nat /\ Bytes * BitsPerByte # 0
  BY RoutingAssumption
<1>2. Buckets \in Nat \ {0} /\ Buckets - 1 \in Int
  BY <1>1 DEF Buckets
<1>3. QED
  BY <1>2, FS_Interval DEF Bit

\* A set of bits that is not empty has a highest one: of the sets of bits from
\* one of its members on, a smallest is that of the highest.
LEMMA HighestBit ==
  ASSUME NEW d \in SUBSET Bit, d # {}
  PROVE  \E i \in d : \A j \in d : j <= i
<1> DEFINE From(i) == {j \in d : i <= j}
           T == {From(i) : i \in d}
<1>1. IsWellFoundedOn(StrictSubsetOrdering(Bit), FiniteSubsetsOf(Bit))
  BY FS_StrictSubsetOrderingWellFounded
<1>2. FiniteSubsetsOf(Bit) = SUBSET Bit
  BY BitsFinite, FS_FiniteSubsetsOfFinite
<1>3. T \subseteq SUBSET Bit /\ T # {}
  OBVIOUS
<1>4. PICK t \in T : \A u \in T : <<u, t>> \notin StrictSubsetOrdering(Bit)
  <2> HIDE DEF T
  <2>1. IsWellFoundedOn(StrictSubsetOrdering(Bit), SUBSET Bit)
    BY <1>1, <1>2
  <2>2. QED
    BY <1>3, <2>1, WFMin
<1>5. PICK i \in d : t = From(i)
  OBVIOUS
<1>6. ASSUME NEW j \in d, ~(j <= i)
      PROVE  FALSE
  <2>1. i \in Int /\ j \in Int /\ \A k \in d : k \in Int
    BY BitsFinite
  <2>2. From(j) \subseteq From(i) /\ From(j) # From(i)
    <3>1. \A k \in d : j <= k => i <= k
      BY <1>6, <2>1
    <3>2. i \in From(i) /\ i \notin From(j)
      BY <1>6, <2>1
    <3>3. QED
      BY <3>1, <3>2
  <2>3. From(j) \in SUBSET Bit /\ From(i) \in SUBSET Bit
    OBVIOUS
  <2>4. <<From(j), From(i)>> \in StrictSubsetOrdering(Bit)
    BY <2>2, <2>3 DEF StrictSubsetOrdering
  <2>5. QED
    BY <1>4, <1>5, <2>4
<1>7. QED
  BY <1>6

LEMMA IndexTyped ==
  ASSUME NEW id \in PeerID
  PROVE  getBucketIndex(id) \in Bit
<1>1. Xor(LocalID, id) \in SUBSET Bit
  BY RoutingAssumption DEF Xor
<1>2. CASE Xor(LocalID, id) = {}
  <2>1. 0 \in Bit
    BY BitsFinite
  <2>2. QED
    BY <1>2, <2>1 DEF getBucketIndex
<1>3. CASE Xor(LocalID, id) # {}
  <2>1. \E i \in Xor(LocalID, id) : \A j \in Xor(LocalID, id) : j <= i
    BY <1>1, <1>3, HighestBit
  <2>2. getBucketIndex(id) \in Xor(LocalID, id)
    BY <1>3, <2>1 DEF getBucketIndex
  <2>3. QED
    BY <1>1, <2>2
<1>4. QED
  BY <1>2, <1>3

-----------------------------------------------------------------------------
(* Adding a contact to a bucket. *)

Distinct(b) == \A m, n \in 1..Len(b) : b[m].id = b[n].id => m = n

\* What the new bucket r has of the old one b and of the contact c.
Replaces(b, c, r) ==
  /\ r \in Seq(Contact)
  /\ Len(r) <= K
  /\ Distinct(r)
  /\ \A n \in 1..Len(r) : r[n] = c \/ \E m \in 1..Len(b) : r[n] = b[m]

\* A bucket that holds the node: the contacts behind it move up.
LEMMA AddHeld ==
  ASSUME NEW b \in Seq(Contact), Len(b) <= K, Distinct(b), NEW c \in Contact,
         Holds(b, c.id)
  PROVE  Replaces(b, c, Add(b, c))
<1> DEFINE i == Place(b, c.id)
           r == Append(Without(b, i), c)
<1>1. i \in 1..Len(b) /\ b[i].id = c.id
  <2>1. PICK k \in 1..Len(b) : b[k].id = c.id
    BY DEF Holds
  <2>2. \A j \in 1..(k - 1) : b[j].id # c.id
    BY <2>1 DEF Distinct
  <2>3. QED
    BY <2>1, <2>2 DEF Place
<1> HIDE DEF i
<1>2. /\ Len(b) \in Nat
      /\ Without(b, i) \in Seq(Contact) /\ Len(Without(b, i)) = Len(b) - 1
      /\ \A n \in 1..(i - 1) : Without(b, i)[n] = b[n]
      /\ \A n \in i..(Len(b) - 1) : Without(b, i)[n] = b[n + 1]
  <2> DEFINE s == SubSeq(b, 1, i - 1)
             t == SubSeq(b, i + 1, Len(b))
  <2>1. i \in Nat /\ 1 <= i /\ i <= Len(b) /\ Len(b) \in Nat
    BY <1>1
  <2>2. s \in Seq(Contact) /\ Len(s) = i - 1 /\ \A n \in 1..(i - 1) : s[n] = b[n]
    BY <2>1
  <2>3. /\ t \in Seq(Contact) /\ Len(t) = Len(b) - i
        /\ \A n \in 1..(Len(b) - i) : t[n] = b[n + i]
    BY <2>1
  <2>4. Without(b, i) = s \o t
    BY DEF Without
  <2> HIDE DEF s, t
  <2>5. Without(b, i) \in Seq(Contact) /\ Len(Without(b, i)) = Len(b) - 1
    BY <2>1, <2>2, <2>3, <2>4
  <2>6. \A n \in 1..(i - 1) : Without(b, i)[n] = b[n]
    BY <2>1, <2>2, <2>3, <2>4
  <2>7. ASSUME NEW n \in i..(Len(b) - 1)
        PROVE  Without(b, i)[n] = b[n + 1]
    <3>1. n \in 1..(Len(s) + Len(t)) /\ ~(n <= Len(s)) /\ n - Len(s) \in 1..(Len(b) - i)
      BY <2>1, <2>2, <2>3
    <3>2. Without(b, i)[n] = t[n - Len(s)]
      BY <2>2, <2>3, <2>4, <3>1
    <3>3. t[n - Len(s)] = b[(n - Len(s)) + i] /\ (n - Len(s)) + i = n + 1
      BY <2>1, <2>2, <2>3, <3>1
    <3>4. QED
      BY <3>2, <3>3
  <2>8. QED
    BY <2>1, <2>5, <2>6, <2>7
<1>3. /\ r \in Seq(Contact) /\ Len(r) = Len(b)
      /\ r[Len(b)] = c
      /\ \A n \in 1..(i - 1) : r[n] = b[n]
      /\ \A n \in i..(Len(b) - 1) : r[n] = b[n + 1]
  BY <1>1, <1>2
<1> HIDE DEF r
<1>4. \A n \in 1..Len(b) : n \in 1..(i - 1) \/ n \in i..(Len(b) - 1) \/ n = Len(b)
  BY <1>1, <1>2
<1>5. \A n \in 1..Len(r) : r[n] = c \/ \E m \in 1..Len(b) : r[n] = b[m]
  BY <1>1, <1>2, <1>3, <1>4
<1>6. Distinct(r)
  <2>1. SUFFICES ASSUME NEW m \in 1..Len(b), NEW n \in 1..Len(b),
                        r[m].id = r[n].id, m < n
                 PROVE  FALSE
    BY <1>2, <1>3 DEF Distinct
  <2>2. CASE n = Len(b)
    <3>1. CASE m \in 1..(i - 1)
      BY <1>1, <1>2, <1>3, <2>1, <2>2, <3>1 DEF Distinct
    <3>2. CASE m \in i..(Len(b) - 1)
      <4>1. b[m + 1].id = b[i].id /\ m + 1 \in 1..Len(b) /\ m + 1 # i
        BY <1>1, <1>2, <1>3, <2>1, <2>2, <3>2
      <4>2. QED
        BY <1>1, <4>1 DEF Distinct
    <3>3. QED
      BY <1>2, <1>4, <2>1, <2>2, <3>1, <3>2
  <2>3. CASE n # Len(b)
    <3>1. CASE n \in 1..(i - 1)
      <4>1. m \in 1..(i - 1)
        BY <1>1, <2>1, <3>1
      <4>2. QED
        BY <1>2, <1>3, <2>1, <3>1, <4>1 DEF Distinct
    <3>2. CASE n \in i..(Len(b) - 1) /\ m \in 1..(i - 1)
      <4>1. b[m].id = b[n + 1].id /\ n + 1 \in 1..Len(b) /\ m # n + 1
        BY <1>1, <1>2, <1>3, <2>1, <3>2
      <4>2. QED
        BY <4>1 DEF Distinct
    <3>3. CASE n \in i..(Len(b) - 1) /\ m \in i..(Len(b) - 1)
      <4>1. /\ b[m + 1].id = b[n + 1].id /\ m + 1 # n + 1
            /\ m + 1 \in 1..Len(b) /\ n + 1 \in 1..Len(b)
        BY <1>1, <1>2, <1>3, <2>1, <3>3
      <4>2. QED
        BY <4>1 DEF Distinct
    <3>4. QED
      BY <1>2, <1>4, <2>1, <2>3, <3>1, <3>2, <3>3
  <2>4. QED
    BY <2>2, <2>3
<1>7. Add(b, c) = r
  BY DEF Add, r, i
<1>8. QED
  BY <1>3, <1>5, <1>6, <1>7 DEF Replaces

LEMMA AddReplaces ==
  ASSUME NEW b \in Seq(Contact), Len(b) <= K, Distinct(b), NEW c \in Contact
  PROVE  Replaces(b, c, Add(b, c))
<1>0. K \in Nat \ {0} /\ Len(b) \in Nat
  BY RoutingAssumption
<1>1. CASE Holds(b, c.id)
  BY <1>1, AddHeld
<1>2. CASE ~Holds(b, c.id) /\ Len(b) < K
  <2> DEFINE r == Append(b, c)
  <2>1. /\ r \in Seq(Contact) /\ Len(r) = Len(b) + 1 /\ r[Len(b) + 1] = c
        /\ \A n \in 1..Len(b) : r[n] = b[n]
    OBVIOUS
  <2> HIDE DEF r
  <2>2. \A n \in 1..Len(r) : n \in 1..Len(b) \/ n = Len(b) + 1
    BY <1>0, <2>1
  <2>3. Distinct(r)
    BY <1>2, <2>1, <2>2 DEF Distinct, Holds
  <2>4. Add(b, c) = r
    BY <1>2 DEF Add, r
  <2>5. Len(r) <= K
    BY <1>0, <1>2, <2>1
  <2>6. QED
    BY <2>1, <2>2, <2>3, <2>4, <2>5 DEF Replaces
<1>3. CASE ~Holds(b, c.id) /\ ~(Len(b) < K) /\ Stale(b[1])
  <2> DEFINE r == [b EXCEPT ![1] = c]
  <2>1. 1 \in 1..Len(b)
    BY <1>0, <1>3
  <2>2. /\ r \in Seq(Contact) /\ Len(r) = Len(b) /\ r[1] = c
        /\ \A n \in 1..Len(b) : n # 1 => r[n] = b[n]
    BY <2>1
  <2> HIDE DEF r
  <2>3. Distinct(r)
    BY <1>3, <2>1, <2>2 DEF Distinct, Holds
  <2>4. Add(b, c) = r
    BY <1>3 DEF Add, r
  <2>5. QED
    BY <2>2, <2>3, <2>4 DEF Replaces
<1>4. CASE ~Holds(b, c.id) /\ ~(Len(b) < K) /\ ~Stale(b[1])
  BY <1>4 DEF Add, Replaces
<1>5. QED
  BY <1>1, <1>2, <1>3, <1>4

-----------------------------------------------------------------------------
(* The distance. *)

LEMMA WeightTyped ==
  ASSUME NEW i \in Bit
  PROVE  Weight(i) \in Int
<1> DEFINE byte == i \div BitsPerByte
           bit == i % BitsPerByte
<1>1. i \in Int /\ BitsPerByte \in Nat /\ BitsPerByte > 0 /\ Bytes \in Int
  BY BitsFinite, RoutingAssumption
<1>2. byte \in Int /\ bit \in Int
  BY <1>1
<1> HIDE DEF byte, bit
<1>3. (Bytes - 1 - byte) * BitsPerByte + bit \in Int
  BY <1>1, <1>2
<1>4. 2 ^ ((Bytes - 1 - byte) * BitsPerByte + bit) \in Int
  BY <1>3
<1>5. QED
  BY <1>4 DEF Weight, byte, bit

LEMMA DistanceTyped ==
  ASSUME NEW a, NEW b
  PROVE  xorDistance(a, b) \in Int
<1> DEFINE W(k) == IF k - 1 \in Xor(a, b) THEN Weight(k - 1) ELSE 0
           Turn == [k \in 1..Buckets |-> [x \in Int |-> x + W(k)]]
           p == PartialDistances(a, b)
<1>1. \A k \in 1..Buckets : W(k) \in Int
  BY BitsFinite, WeightTyped
<1>2. PICK f \in [0..Buckets -> Int] : Iterates(f, Buckets, 0, Turn)
  <2>1. Turn \in [1..Buckets -> [Int -> Int]]
    <3> HIDE DEF W
    <3>1. QED
      BY <1>1
  <2>2. 0 \in Int /\ Buckets \in Nat
    BY BitsFinite
  <2> HIDE DEF Turn
  <2>3. QED
    BY <2>1, <2>2, Iteration, Zenon
<1>3. f = [k \in 0..Buckets |-> IF k = 0 THEN 0 ELSE f[k - 1] + W(k)]
  <2> HIDE DEF W
  <2>1. ASSUME NEW k \in 1..Buckets PROVE f[k] = f[k - 1] + W(k)
    <3>1. f[k - 1] \in Int
      BY BitsFinite
    <3>2. f[k] = Turn[k][f[k - 1]]
      BY <1>2 DEF Iterates
    <3>3. QED
      BY <3>1, <3>2
  <2>2. \A k \in 0..Buckets : f[k] = IF k = 0 THEN 0 ELSE f[k - 1] + W(k)
    BY <1>2, <2>1, BitsFinite DEF Iterates
  <2>3. QED
    BY <2>2
<1>4. p = [k \in 0..Buckets |-> IF k = 0 THEN 0 ELSE p[k - 1] + W(k)]
  BY <1>3, Zenon DEF PartialDistances
<1> DEFINE S == {k \in 0..Buckets : p[k] \in Int}
<1> HIDE DEF W, p
<1>5. 0 \in S /\ \A k \in 1..Buckets : k - 1 \in S => k \in S
  BY <1>1, <1>4, BitsFinite
<1>6. \A k \in 0..Buckets : k \in S
  <2> HIDE DEF S
  <2>1. QED
    BY <1>5, BitsFinite, IntervalInduction
<1>7. QED
  BY <1>6, BitsFinite DEF xorDistance, p

-----------------------------------------------------------------------------
(* The exchange sort. *)

Before(s, i, j, target) ==
  xorDistance(target, s[i].id) <= xorDistance(target, s[j].id)

\* s is a rearrangement of q whose places up to i are in their final order.
SortedTo(s, q, i, target) ==
  /\ s \in Seq(Contact) /\ Len(s) = Len(q) /\ Distinct(s)
  /\ \A m \in 1..Len(q) : \E n \in 1..Len(s) : s[n] = q[m]
  /\ \A m \in 1..i : \A n \in (m + 1)..Len(s) : Before(s, m, n, target)

LEMMA SwapTyped ==
  ASSUME NEW s \in Seq(Contact), NEW i \in 1..Len(s), NEW j \in 1..Len(s)
  PROVE  /\ Swap(s, i, j) \in Seq(Contact) /\ Len(Swap(s, i, j)) = Len(s)
         /\ Swap(s, i, j)[j] = s[i] /\ Swap(s, i, j)[i] = s[j]
         /\ \A n \in 1..Len(s) \ {i, j} : Swap(s, i, j)[n] = s[n]
  BY DEF Swap

LEMMA ExchangeSorts ==
  ASSUME NEW target, NEW q \in Seq(Contact), NEW s, NEW i \in 1..Len(q), NEW j \in (i + 1)..Len(q),
         SortedTo(s, q, i - 1, target),
         \A n \in (i + 1)..(j - 1) : Before(s, i, n, target)
  PROVE  /\ SortedTo(Exchange(s, i, j, target), q, i - 1, target)
         /\ \A n \in (i + 1)..j : Before(Exchange(s, i, j, target), i, n, target)
<1>1. \A m, n \in 1..Len(s) : xorDistance(target, s[m].id) \in Int /\ xorDistance(target, s[n].id) \in Int
  BY DistanceTyped
<1>2. Len(q) \in Nat /\ i \in Nat /\ j \in Nat /\ s \in Seq(Contact) /\ Len(s) = Len(q)
      /\ i \in 1..Len(s) /\ j \in 1..Len(s) /\ i < j
  BY DEF SortedTo
<1>3. CASE ~(xorDistance(target, s[i].id) > xorDistance(target, s[j].id))
  <2>1. Exchange(s, i, j, target) = s
    BY <1>3 DEF Exchange
  <2>2. Before(s, i, j, target)
    BY <1>1, <1>2, <1>3 DEF Before
  <2>3. \A n \in (i + 1)..j : n = j \/ n \in (i + 1)..(j - 1)
    BY <1>2
  <2>4. QED
    BY <2>1, <2>2, <2>3
<1>4. CASE xorDistance(target, s[i].id) > xorDistance(target, s[j].id)
  <2> DEFINE r == Exchange(s, i, j, target)
             D(x) == xorDistance(target, x.id)
  <2>1. /\ r \in Seq(Contact) /\ Len(r) = Len(q)
        /\ r[i] = s[j] /\ r[j] = s[i]
        /\ \A n \in 1..Len(q) \ {i, j} : r[n] = s[n]
    BY <1>2, <1>4, SwapTyped DEF Exchange
  <2> HIDE DEF r
  <2>2. Distinct(r)
    <3> DEFINE from(m) == IF m = i THEN j ELSE IF m = j THEN i ELSE m
    <3>1. \A m \in 1..Len(q) : from(m) \in 1..Len(s) /\ r[m] = s[from(m)]
      BY <1>2, <2>1
    <3>2. \A m, n \in 1..Len(q) : from(m) = from(n) => m = n
      BY <1>2
    <3>3. Distinct(s)
      BY DEF SortedTo
    <3> HIDE DEF from
    <3>4. ASSUME NEW m \in 1..Len(r), NEW n \in 1..Len(r), r[m].id = r[n].id
          PROVE  m = n
      <4>1. m \in 1..Len(q) /\ n \in 1..Len(q)
        BY <2>1
      <4>2. s[from(m)].id = s[from(n)].id
        BY <3>1, <3>4, <4>1
      <4>3. from(m) = from(n)
        BY <3>1, <3>3, <4>1, <4>2 DEF Distinct
      <4>4. QED
        BY <3>2, <4>1, <4>3
    <3>5. QED
      BY <3>4 DEF Distinct
  <2>3. \A m \in 1..Len(q) : \E n \in 1..Len(r) : r[n] = q[m]
    <3>1. SUFFICES ASSUME NEW m \in 1..Len(q) PROVE \E n \in 1..Len(r) : r[n] = q[m]
      OBVIOUS
    <3>2. PICK n \in 1..Len(s) : s[n] = q[m]
      BY DEF SortedTo
    <3>3. CASE n = i
      BY <1>2, <2>1, <3>2, <3>3
    <3>4. CASE n = j
      BY <1>2, <2>1, <3>2, <3>4
    <3>5. CASE n \notin {i, j}
      BY <1>2, <2>1, <3>2, <3>5
    <3>6. QED
      BY <3>3, <3>4, <3>5
  <2>4. ASSUME NEW m \in 1..(i - 1), NEW n \in (m + 1)..Len(r)
        PROVE  Before(r, m, n, target)
    <3>1. r[m] = s[m] /\ \E k \in (m + 1)..Len(s) : r[n] = s[k]
      <4>1. m \in 1..Len(q) \ {i, j} /\ n \in 1..Len(q)
        BY <1>2, <2>1
      <4>2. CASE n = i
        BY <1>2, <2>1, <4>1, <4>2
      <4>3. CASE n = j
        BY <1>2, <2>1, <4>1, <4>3
      <4>4. CASE n \notin {i, j}
        BY <1>2, <2>1, <4>1, <4>4
      <4>5. QED
        BY <2>1, <4>1, <4>2, <4>3, <4>4
    <3>2. QED
      BY <3>1 DEF SortedTo, Before
  <2>5. ASSUME NEW n \in (i + 1)..j
        PROVE  Before(r, i, n, target)
    <3>1. CASE n = j
      BY <1>1, <1>2, <1>4, <2>1, <3>1 DEF Before
    <3>2. CASE n # j
      <4>1. n \in (i + 1)..(j - 1) /\ n \in 1..Len(q) \ {i, j} /\ n \in 1..Len(s)
        BY <1>2, <3>2
      <4>2. D(s[i]) <= D(s[n]) /\ r[n] = s[n] /\ r[i] = s[j]
        BY <2>1, <4>1 DEF Before
      <4>3. D(s[j]) <= D(s[n])
        BY <1>1, <1>2, <1>4, <4>1, <4>2
      <4>4. QED
        BY <4>2, <4>3 DEF Before
    <3>3. QED
      BY <3>1, <3>2
  <2>6. SortedTo(r, q, i - 1, target)
    BY <2>1, <2>2, <2>3, <2>4 DEF SortedTo
  <2>7. QED
    BY <2>5, <2>6 DEF r
<1>5. QED
  BY <1>3, <1>4
LEMMA ExchangeTyped ==
  ASSUME NEW s \in Seq(Contact), NEW i \in 1..Len(s), NEW j \in 1..Len(s), NEW target
  PROVE  Exchange(s, i, j, target) \in Seq(Contact) /\ Len(Exchange(s, i, j, target)) = Len(s)
  BY SwapTyped DEF Exchange

\* The loops compute what their recursive definitions say.
LEMMA InnerLoopDef ==
  ASSUME NEW s \in Seq(Contact), NEW i \in 1..Len(s), NEW target
  PROVE  /\ InnerLoop(s, i, target)[0] = s
         /\ \A k \in 1..(Len(s) - i) : InnerLoop(s, i, target)[k] =
              Exchange(InnerLoop(s, i, target)[k - 1], i, i + k, target)
         /\ \A k \in 0..(Len(s) - i) :
              /\ InnerLoop(s, i, target)[k] \in Seq(Contact)
              /\ Len(InnerLoop(s, i, target)[k]) = Len(s)
<1> DEFINE n == Len(s)
           X == {t \in Seq(Contact) : Len(t) = n}
           Turn == [k \in 1..(n - i) |-> [t \in X |-> Exchange(t, i, i + k, target)]]
           p == InnerLoop(s, i, target)
<1>1. n \in Nat /\ n - i \in Nat /\ s \in X
  OBVIOUS
<1>2. \A k \in 1..(n - i), t \in X : Exchange(t, i, i + k, target) \in X
  <2>1. \A k \in 1..(n - i), t \in X : i \in 1..Len(t) /\ i + k \in 1..Len(t)
    BY <1>1
  <2>2. QED
    BY <2>1, ExchangeTyped
<1>3. PICK f \in [0..(n - i) -> X] : Iterates(f, n - i, s, Turn)
  <2> HIDE DEF X, n
  <2>1. Turn \in [1..(n - i) -> [X -> X]]
    BY <1>2
  <2> HIDE DEF Turn
  <2>2. QED
    BY <1>1, <2>1, Iteration, Zenon
<1>4. f = [k \in 0..(n - i) |-> IF k = 0 THEN s ELSE Exchange(f[k - 1], i, i + k, target)]
  <2> HIDE DEF X, n
  <2>1. ASSUME NEW k \in 1..(n - i) PROVE f[k] = Exchange(f[k - 1], i, i + k, target)
    <3>1. f[k - 1] \in X
      BY <1>1
    <3>2. f[k] = Turn[k][f[k - 1]]
      BY <1>3 DEF Iterates
    <3>3. QED
      BY <3>1, <3>2
  <2>2. \A k \in 0..(n - i) : f[k] = IF k = 0 THEN s ELSE Exchange(f[k - 1], i, i + k, target)
    BY <1>1, <1>3, <2>1 DEF Iterates
  <2>3. QED
    BY <2>2
<1>5. p = [k \in 0..(n - i) |-> IF k = 0 THEN s ELSE Exchange(p[k - 1], i, i + k, target)]
  BY <1>4, Zenon DEF InnerLoop
<1> DEFINE S == {k \in 0..(n - i) : p[k] \in X}
<1> HIDE DEF p, n
<1>6. p[0] = s
  BY <1>1, <1>5
<1>7. ASSUME NEW k \in 1..(n - i) PROVE p[k] = Exchange(p[k - 1], i, i + k, target)
  BY <1>1, <1>5
<1>8. 0 \in S /\ \A k \in 1..(n - i) : k - 1 \in S => k \in S
  <2> HIDE DEF X
  <2>1. 0 \in S
    BY <1>1, <1>6
  <2>2. ASSUME NEW k \in 1..(n - i), k - 1 \in S PROVE k \in S
    <3>1. p[k - 1] \in X /\ k \in 0..(n - i)
      BY <1>1, <2>2
    <3>2. p[k] \in X
      BY <1>2, <1>7, <3>1
    <3>3. QED
      BY <3>1, <3>2
  <2>3. QED
    BY <2>1, <2>2
<1>9. \A k \in 0..(n - i) : k \in S
  <2> HIDE DEF S
  <2>1. QED
    BY <1>1, <1>8, IntervalInduction
<1>10. QED
  BY <1>6, <1>7, <1>9 DEF p, n

LEMMA OuterLoopDef ==
  ASSUME NEW s \in Seq(Contact), NEW target
  PROVE  /\ OuterLoop(s, target)[0] = s
         /\ \A i \in 1..Len(s) : OuterLoop(s, target)[i] =
              InnerLoop(OuterLoop(s, target)[i - 1], i, target)[Len(s) - i]
<1> DEFINE n == Len(s)
           X == {t \in Seq(Contact) : Len(t) = n}
           Pass(t, i) == InnerLoop(t, i, target)[n - i]
           Turn == [i \in 1..n |-> [t \in X |-> Pass(t, i)]]
           p == OuterLoop(s, target)
<1>1. n \in Nat /\ s \in X
  OBVIOUS
<1>2. ASSUME NEW i \in 1..n, NEW t \in X PROVE Pass(t, i) \in X
  <2>1. t \in Seq(Contact) /\ i \in 1..Len(t) /\ Len(t) = n /\ n - i \in 0..(Len(t) - i)
    BY <1>1
  <2>2. InnerLoop(t, i, target)[n - i] \in Seq(Contact)
        /\ Len(InnerLoop(t, i, target)[n - i]) = n
    <3> HIDE DEF n, X
    <3>1. \A k \in 0..(Len(t) - i) : /\ InnerLoop(t, i, target)[k] \in Seq(Contact)
                                    /\ Len(InnerLoop(t, i, target)[k]) = Len(t)
      BY <2>1, InnerLoopDef
    <3>2. QED
      BY <2>1, <3>1
  <2>3. QED
    BY <2>2
<1>3. PICK f \in [0..n -> X] : Iterates(f, n, s, Turn)
  <2> HIDE DEF X, n, Pass
  <2>1. Turn \in [1..n -> [X -> X]]
    BY <1>2
  <2> HIDE DEF Turn
  <2>2. QED
    BY <1>1, <2>1, Iteration, Zenon
<1>4. f = [i \in 0..n |-> IF i = 0 THEN s ELSE Pass(f[i - 1], i)]
  <2> HIDE DEF X, n, Pass
  <2>1. ASSUME NEW i \in 1..n PROVE f[i] = Pass(f[i - 1], i)
    <3>1. f[i - 1] \in X
      BY <1>1
    <3>2. f[i] = Turn[i][f[i - 1]]
      BY <1>3 DEF Iterates
    <3>3. QED
      BY <3>1, <3>2
  <2>2. \A i \in 0..n : f[i] = IF i = 0 THEN s ELSE Pass(f[i - 1], i)
    BY <1>1, <1>3, <2>1 DEF Iterates
  <2>3. QED
    BY <2>2
<1>5. p = [i \in 0..n |-> IF i = 0 THEN s ELSE Pass(p[i - 1], i)]
  BY <1>4, Zenon DEF OuterLoop
<1>6. p[0] = s /\ \A i \in 1..n : p[i] = Pass(p[i - 1], i)
  <2> HIDE DEF p, n, Pass, X
  <2>1. QED
    BY <1>1, <1>5
<1>7. QED
  BY <1>6

\* The inner loop leaves the nearest of the rest at place i.
LEMMA InnerLoopSorts ==
  ASSUME NEW target, NEW q \in Seq(Contact), NEW s, NEW i \in 1..Len(q),
         SortedTo(s, q, i - 1, target)
  PROVE  SortedTo(InnerLoop(s, i, target)[Len(q) - i], q, i, target)
<1> DEFINE n == Len(q)
           p == InnerLoop(s, i, target)
           S == {k \in 0..(n - i) :
                   /\ SortedTo(p[k], q, i - 1, target)
                   /\ \A m \in (i + 1)..(i + k) : Before(p[k], i, m, target)}
<1>1. n \in Nat /\ n - i \in Nat /\ s \in Seq(Contact) /\ Len(s) = n
  BY DEF SortedTo
<1>2. p[0] = s /\ \A k \in 1..(n - i) : p[k] = Exchange(p[k - 1], i, i + k, target)
  BY <1>1, InnerLoopDef
<1> HIDE DEF p
<1>3. 0 \in S
  BY <1>1, <1>2
<1>4. ASSUME NEW k \in 1..(n - i), k - 1 \in S PROVE k \in S
  <2> DEFINE j == i + k
  <2>1. p[k] = Exchange(p[k - 1], i, j, target)
    BY <1>2
  <2>2. j \in (i + 1)..n /\ j - 1 = i + (k - 1)
    BY <1>1
  <2>3. /\ SortedTo(p[k - 1], q, i - 1, target)
        /\ \A m \in (i + 1)..(j - 1) : Before(p[k - 1], i, m, target)
    BY <1>4, <2>2
  <2>4. /\ SortedTo(p[k], q, i - 1, target)
        /\ \A m \in (i + 1)..j : Before(p[k], i, m, target)
    <3> HIDE DEF j
    <3>1. QED
      BY <2>1, <2>2, <2>3, ExchangeSorts
  <2>5. QED
    BY <2>4
<1>5. \A k \in 0..(n - i) : k \in S
  <2> HIDE DEF S
  <2>1. QED
    BY <1>1, <1>3, <1>4, IntervalInduction
<1>6. /\ SortedTo(p[n - i], q, i - 1, target)
      /\ \A m \in (i + 1)..n : Before(p[n - i], i, m, target)
  BY <1>1, <1>5
<1>7. SortedTo(p[n - i], q, i, target)
  <2>1. \A m \in 1..i : m \in 1..(i - 1) \/ m = i
    OBVIOUS
  <2>2. QED
    BY <1>6, <2>1 DEF SortedTo
<1>8. QED
  BY <1>7 DEF p

LEMMA ExchangeSortSorts ==
  ASSUME NEW target, NEW q \in Seq(Contact), Distinct(q)
  PROVE  SortedTo(ExchangeSort(q, target), q, Len(q), target)
<1> DEFINE n == Len(q)
           p == OuterLoop(q, target)
           S == {i \in 0..n : SortedTo(p[i], q, i, target)}
<1>1. n \in Nat /\ SortedTo(q, q, 0, target)
  BY DEF SortedTo
<1>2. p[0] = q /\ \A i \in 1..n : p[i] = InnerLoop(p[i - 1], i, target)[n - i]
  BY OuterLoopDef
<1> HIDE DEF p
<1>3. 0 \in S
  BY <1>1, <1>2
<1>4. \A i \in 1..n : i - 1 \in S => i \in S
  BY <1>2, InnerLoopSorts
<1>5. \A i \in 0..n : i \in S
  <2> HIDE DEF S
  <2>1. QED
    BY <1>1, <1>3, <1>4, IntervalInduction
<1>6. QED
  BY <1>1, <1>5 DEF ExchangeSort, p

-----------------------------------------------------------------------------
(* The table. *)

\* Each bucket has one entry of a node, and of nodes of its distance only.
TableInv ==
  /\ TypeOK
  /\ \A i \in Bit : Distinct(buckets[i])
  /\ \A i \in Bit : \A n \in 1..Len(buckets[i]) : getBucketIndex(buckets[i][n].id) = i

\* A search has read nobody twice, and of the buckets behind it everyone who
\* was in the table all the time, if it reads whole buckets.
SearchInv ==
  search # NoCall =>
    /\ Distinct(search.got)
    /\ \A n \in 1..Len(search.got) : getBucketIndex(search.got[n].id) < search.next
    /\ search.steady \subseteq Known(buckets)
    /\ search.count >= K =>
         \A id \in search.steady :
           getBucketIndex(id) < search.next => Holds(search.got, id)

LEMMA KnownIs ==
  ASSUME NEW table, \A i \in Bit : Len(table[i]) \in Nat /\ Len(table[i]) <= K
  PROVE  \A id : id \in Known(table) <=>
           \E i \in Bit : \E n \in 1..Len(table[i]) : table[i][n].id = id
<1>1. K \in Nat
  BY RoutingAssumption
<1>2. ASSUME NEW id, NEW i \in Bit, NEW n \in 1..Len(table[i]), table[i][n].id = id
      PROVE  id \in Known(table)
  <2>1. <<i, n>> \in Places(table)
    BY <1>1 DEF Places
  <2>2. QED
    BY <1>2, <2>1 DEF Known
<1>3. ASSUME NEW id \in Known(table)
      PROVE  \E i \in Bit : \E n \in 1..Len(table[i]) : table[i][n].id = id
  <2>1. PICK c \in Places(table) : table[c[1]][c[2]].id = id
    BY DEF Known
  <2>2. c[1] \in Bit /\ c[2] \in 1..Len(table[c[1]])
    BY <1>1 DEF Places
  <2>3. QED
    BY <2>1, <2>2
<1>4. QED
  BY <1>2, <1>3

LEMMA KnownTyped ==
  ASSUME NEW table \in [Bit -> Seq(Contact)], \A i \in Bit : Len(table[i]) <= K
  PROVE  Known(table) \subseteq PeerID
<1>1. \A i \in Bit : table[i] \in Seq(Contact) /\ Len(table[i]) \in Nat
  OBVIOUS
<1>2. ASSUME NEW i \in Bit, NEW n \in 1..Len(table[i])
      PROVE  table[i][n].id \in PeerID
  <2>1. table[i][n] \in Contact
    BY <1>1
  <2>2. QED
    BY <2>1 DEF Contact
<1>3. QED
  BY <1>1, <1>2, KnownIs

LEMMA TableInit ==
  ASSUME Init
  PROVE  TableInv /\ SearchInv
<1>1. \A i \in Bit : buckets[i] = <<>>
  BY DEF Init
<1>2. buckets \in [Bit -> Seq(Contact)] /\ \A i \in Bit : Len(buckets[i]) = 0
  BY <1>1 DEF Init
<1>3. now \in 0..MaxTime /\ call \in [Caller -> Contact \cup {NoCall}]
  BY RoutingAssumption DEF Init
<1>4. search = NoCall
  BY DEF Init
<1>5. QED
  BY <1>2, <1>3, <1>4, RoutingAssumption DEF TableInv, SearchInv, TypeOK, Distinct

\* What a call of BucketAdd does.
LEMMA BucketAddReplaces ==
  ASSUME TableInv, NEW p \in Caller, BucketAdd(p)
  PROVE  /\ call[p] \in Contact
         /\ getBucketIndex(call[p].id) \in Bit
         /\ LET g == getBucketIndex(call[p].id) IN
              /\ Replaces(buckets[g], call[p], buckets'[g])
              /\ DOMAIN buckets' = Bit /\ buckets' = [i \in Bit |-> buckets'[i]]
              /\ \A i \in Bit \ {g} : buckets'[i] = buckets[i]
<1>1. call[p] \in Contact
  BY DEF BucketAdd, TableInv, TypeOK
<1>2. call[p].id \in PeerID
  BY <1>1 DEF Contact
<1> DEFINE g == getBucketIndex(call[p].id)
<1>3. g \in Bit
  BY <1>2, IndexTyped
<1>4. /\ buckets[g] \in Seq(Contact) /\ Len(buckets[g]) <= K /\ Distinct(buckets[g])
      /\ buckets \in [Bit -> Seq(Contact)]
  BY <1>3 DEF TableInv, TypeOK
<1>5. buckets' = [buckets EXCEPT ![g] = Add(buckets[g], call[p])]
  BY DEF BucketAdd
<1> HIDE DEF g
<1>6. Replaces(buckets[g], call[p], Add(buckets[g], call[p]))
  BY <1>1, <1>4, AddReplaces
<1>7. /\ buckets'[g] = Add(buckets[g], call[p])
      /\ DOMAIN buckets' = Bit /\ buckets' = [i \in Bit |-> buckets'[i]]
      /\ \A i \in Bit \ {g} : buckets'[i] = buckets[i]
  BY <1>3, <1>4, <1>5
<1>8. QED
  BY <1>1, <1>3, <1>6, <1>7 DEF g

LEMMA Concatenation ==
  ASSUME NEW X, NEW a \in Seq(X), NEW c \in Seq(X)
  PROVE  /\ a \o c \in Seq(X) /\ Len(a \o c) = Len(a) + Len(c)
         /\ \A n \in 1..(Len(a) + Len(c)) :
              (a \o c)[n] = IF n <= Len(a) THEN a[n] ELSE c[n - Len(a)]
<1>1. a \o c \in Seq(X) /\ Len(a \o c) = Len(a) + Len(c)
  OBVIOUS
<1>2. \A n \in 1..(Len(a) + Len(c)) :
        (a \o c)[n] = IF n <= Len(a) THEN a[n] ELSE c[n - Len(a)]
  OBVIOUS
<1>3. QED
  BY <1>1, <1>2

\* The next bucket, after which the search has it all.
LEMMA GetContactsReads ==
  ASSUME TableInv, SearchInv, GetContacts
  PROVE  search' \in Search /\ SearchInv'
<1> DEFINE b == buckets[search.next]
           limit == IF search.count > Len(b) THEN Len(b) ELSE search.count
           s == SubSeq(b, 1, limit)
           old == search.got
           got == old \o s
<1>1. /\ search \in Search /\ search # NoCall /\ search.next \in Bit
      /\ search.next + 1 \in 0..Buckets /\ search.next \in Nat
  BY BitsFinite DEF GetContacts, TableInv, TypeOK, Search
<1>2. /\ search' = [search EXCEPT !.next = search.next + 1, !.got = got]
      /\ UNCHANGED buckets
  BY DEF GetContacts
<1>3. /\ b \in Seq(Contact) /\ Len(b) \in Nat /\ Len(b) <= K /\ Distinct(b)
      /\ \A n \in 1..Len(b) : getBucketIndex(b[n].id) = search.next
  BY <1>1 DEF TableInv, TypeOK
<1>4. old \in Seq(Contact) /\ search.count \in Nat /\ Len(old) \in Nat
  BY <1>1 DEF Search
<1>5. limit \in 0..Len(b) /\ (search.count >= K => limit = Len(b))
  <2>1. K \in Nat
    BY RoutingAssumption
  <2>2. QED
    BY <1>3, <1>4, <2>1
<1> HIDE DEF b, limit, old
<1>6. s \in Seq(Contact) /\ Len(s) = limit /\ \A n \in 1..limit : s[n] = b[n] /\ n \in 1..Len(b)
  BY <1>3, <1>5
<1> HIDE DEF s
<1>7. /\ got \in Seq(Contact) /\ Len(got) = Len(old) + limit
      /\ \A n \in 1..Len(old) : got[n] = old[n]
      /\ \A n \in 1..limit : got[Len(old) + n] = b[n] /\ Len(old) + n \in 1..Len(got)
  <2>1. Len(s) \in Nat /\ limit \in Nat
    BY <1>3, <1>5
  <2>2. /\ got \in Seq(Contact) /\ Len(got) = Len(old) + Len(s)
        /\ \A n \in 1..(Len(old) + Len(s)) :
             got[n] = IF n <= Len(old) THEN old[n] ELSE s[n - Len(old)]
    BY <1>4, <1>6, Concatenation
  <2> HIDE DEF got
  <2>3. \A n \in 1..Len(old) : got[n] = old[n]
    BY <1>4, <2>1, <2>2
  <2>4. ASSUME NEW n \in 1..limit
        PROVE  got[Len(old) + n] = b[n] /\ Len(old) + n \in 1..Len(got)
    <3>1. /\ Len(old) + n \in 1..(Len(old) + Len(s)) /\ ~(Len(old) + n <= Len(old))
          /\ (Len(old) + n) - Len(old) = n
      BY <1>4, <1>6, <2>1
    <3>2. got[Len(old) + n] = s[(Len(old) + n) - Len(old)]
      BY <2>2, <3>1
    <3>3. QED
      BY <1>6, <2>2, <3>1, <3>2
  <2>5. QED
    BY <1>6, <2>2, <2>3, <2>4
<1> HIDE DEF got
<1>8. \A n \in 1..Len(got) : n \in 1..Len(old) \/ \E m \in 1..limit : n = Len(old) + m
  <2>1. SUFFICES ASSUME NEW n \in 1..Len(got), n \notin 1..Len(old)
                 PROVE  \E m \in 1..limit : n = Len(old) + m
    OBVIOUS
  <2>2. n - Len(old) \in 1..limit /\ n = Len(old) + (n - Len(old))
    BY <1>4, <1>5, <1>7, <2>1
  <2>3. QED
    BY <2>2
<1>9. /\ Distinct(old)
      /\ \A n \in 1..Len(old) : getBucketIndex(old[n].id) < search.next
      /\ search.steady \subseteq Known(buckets)
      /\ search.count >= K =>
           \A id \in search.steady : getBucketIndex(id) < search.next => Holds(old, id)
  BY <1>1 DEF SearchInv, old
<1>10. /\ search'.next = search.next + 1 /\ search'.got = got
       /\ search'.count = search.count /\ search'.steady = search.steady
  BY <1>1, <1>2, <1>7 DEF Search
<1>11. search' \in Search
  BY <1>1, <1>2, <1>7 DEF Search
<1>12. \A n \in 1..Len(got) : /\ n \in 1..Len(old) => getBucketIndex(got[n].id) < search.next
                              /\ n \notin 1..Len(old) => getBucketIndex(got[n].id) = search.next
  <2>1. SUFFICES ASSUME NEW n \in 1..Len(got)
                 PROVE  /\ n \in 1..Len(old) => getBucketIndex(got[n].id) < search.next
                        /\ n \notin 1..Len(old) => getBucketIndex(got[n].id) = search.next
    OBVIOUS
  <2>2. CASE n \in 1..Len(old)
    BY <1>7, <1>9, <2>2
  <2>3. CASE n \notin 1..Len(old)
    <3>1. PICK m \in 1..limit : n = Len(old) + m
      BY <1>8, <2>3
    <3>2. got[n] = b[m] /\ m \in 1..Len(b)
      BY <1>6, <1>7, <3>1
    <3>3. QED
      BY <1>3, <2>3, <3>2
  <2>4. QED
    BY <2>2, <2>3
<1>13. \A n \in 1..Len(got) : getBucketIndex(got[n].id) < search.next + 1
  <2>1. \A n \in 1..Len(old) : getBucketIndex(old[n].id) \in Int
    <3>1. \A n \in 1..Len(old) : old[n].id \in PeerID
      <4>1. \A n \in 1..Len(old) : old[n] \in Contact
        BY <1>4
      <4>2. QED
        BY <4>1 DEF Contact
    <3>2. QED
      BY <3>1, IndexTyped, BitsFinite
  <2>2. QED
    BY <1>1, <1>7, <1>12, <2>1
<1>14. Distinct(got)
  <2>1. SUFFICES ASSUME NEW m \in 1..Len(got), NEW n \in 1..Len(got), got[m].id = got[n].id
                 PROVE  m = n
    BY DEF Distinct
  <2>2. m \in 1..Len(old) <=> n \in 1..Len(old)
    <3>1. getBucketIndex(got[m].id) = getBucketIndex(got[n].id)
      BY <2>1
    <3>2. QED
      BY <1>1, <1>12, <3>1
  <2>3. CASE m \in 1..Len(old)
    BY <1>7, <1>9, <2>1, <2>2, <2>3 DEF Distinct
  <2>4. CASE m \notin 1..Len(old)
    <3>1. PICK k \in 1..limit : m = Len(old) + k
      BY <1>8, <2>4
    <3>2. PICK l \in 1..limit : n = Len(old) + l
      BY <1>8, <2>2, <2>4
    <3>3. b[k].id = b[l].id /\ k \in 1..Len(b) /\ l \in 1..Len(b)
      BY <1>6, <1>7, <2>1, <3>1, <3>2
    <3>4. QED
      BY <1>3, <3>1, <3>2, <3>3 DEF Distinct
  <2>5. QED
    BY <2>3, <2>4
<1>15. ASSUME search.count >= K, NEW id \in search.steady,
              getBucketIndex(id) < search.next + 1
       PROVE  Holds(got, id)
  <2>0. \A i \in Bit : Len(buckets[i]) \in Nat /\ Len(buckets[i]) <= K
    BY DEF TableInv, TypeOK
  <2>1. PICK i \in Bit : \E n \in 1..Len(buckets[i]) : buckets[i][n].id = id
    BY <1>9, <1>15, <2>0, KnownIs
  <2>9. PICK n \in 1..Len(buckets[i]) : buckets[i][n].id = id
    BY <2>1
  <2>2. getBucketIndex(id) = i /\ i \in Int
    BY <2>9, BitsFinite DEF TableInv
  <2>3. CASE i < search.next
    <3>1. PICK m \in 1..Len(old) : old[m].id = id
      BY <1>9, <1>15, <2>2, <2>3 DEF Holds
    <3>2. m \in 1..Len(got) /\ got[m].id = id
      BY <1>4, <1>5, <1>7, <3>1
    <3>3. QED
      BY <3>2 DEF Holds
  <2>4. CASE i = search.next
    <3>1. n \in 1..limit /\ b[n].id = id
      BY <1>5, <1>15, <2>9, <2>4 DEF b
    <3>2. Len(old) + n \in 1..Len(got) /\ got[Len(old) + n].id = id
      BY <1>7, <3>1
    <3>3. QED
      BY <3>2 DEF Holds
  <2>5. QED
    BY <1>1, <1>15, <2>2, <2>3, <2>4
<1>16. QED
  BY <1>2, <1>9, <1>10, <1>11, <1>13, <1>14, <1>15 DEF SearchInv

LEMMA TableStep ==
  ASSUME TableInv, SearchInv, [Next]_vars
  PROVE  TableInv' /\ SearchInv'
<1>1. ASSUME NEW p \in Caller, NEW id \in PeerID, AddContact(p, id)
      PROVE  TableInv' /\ SearchInv'
  <2>1. [id |-> id, lastSeen |-> now] \in Contact
    BY DEF Contact, TableInv, TypeOK
  <2>2. call' \in [Caller -> Contact \cup {NoCall}]
    BY <1>1, <2>1 DEF AddContact, TableInv, TypeOK
  <2>3. QED
    BY <1>1, <2>2 DEF AddContact, TableInv, SearchInv, TypeOK, Distinct, Holds
<1>2. ASSUME NEW p \in Caller, BucketAdd(p)
      PROVE  TableInv' /\ SearchInv'
  <2> DEFINE g == getBucketIndex(call[p].id)
  <2>1. /\ call[p] \in Contact /\ g \in Bit
        /\ Replaces(buckets[g], call[p], buckets'[g])
        /\ DOMAIN buckets' = Bit /\ buckets' = [i \in Bit |-> buckets'[i]]
        /\ \A i \in Bit \ {g} : buckets'[i] = buckets[i]
    BY <1>2, BucketAddReplaces
  <2>2. getBucketIndex(call[p].id) = g
    OBVIOUS
  <2> HIDE DEF g
  <2>3. \A n \in 1..Len(buckets'[g]) : getBucketIndex(buckets'[g][n].id) = g
    BY <2>1, <2>2 DEF Replaces, TableInv
  <2>4. \A i \in Bit : /\ buckets'[i] \in Seq(Contact) /\ Len(buckets'[i]) <= K
                       /\ Distinct(buckets'[i])
                       /\ \A n \in 1..Len(buckets'[i]) :
                            getBucketIndex(buckets'[i][n].id) = i
    BY <2>1, <2>3 DEF Replaces, TableInv, TypeOK
  <2>5. call' \in [Caller -> Contact \cup {NoCall}] /\ now' \in 0..MaxTime
    BY <1>2 DEF BucketAdd, TableInv, TypeOK
  <2>6. buckets' \in [Bit -> Seq(Contact)]
    BY <2>1, <2>4
  <2>7. search' \in Search \cup {NoCall}
    BY <1>2 DEF BucketAdd, TableInv, TypeOK, Search
  <2>8. SearchInv'
    <3>1. CASE search = NoCall
      BY <1>2, <3>1 DEF BucketAdd, SearchInv
    <3>2. CASE search # NoCall
      <4>1. /\ search'.got = search.got /\ search'.next = search.next
            /\ search'.count = search.count
            /\ search'.steady = search.steady \cap Known(buckets')
        BY <1>2, <3>2 DEF BucketAdd, TableInv, TypeOK, Search
      <4>2. QED
        BY <3>2, <4>1 DEF SearchInv
    <3>3. QED
      BY <3>1, <3>2
  <2>9. QED
    BY <2>4, <2>5, <2>6, <2>7, <2>8 DEF TableInv, TypeOK
<1>3. ASSUME NEW target \in Target, NEW count \in Count, FindClosest(target, count)
      PROVE  TableInv' /\ SearchInv'
  <2> DEFINE c == IF count <= 0 THEN DefaultCount ELSE count
  <2>1. c \in Nat \ {0}
    BY RoutingAssumption
  <2>2. Known(buckets) \subseteq PeerID
    BY KnownTyped DEF TableInv, TypeOK
  <2>3. search' = [target |-> target, count |-> c, next |-> 0, got |-> <<>>,
                   steady |-> Known(buckets)]
    BY <1>3 DEF FindClosest
  <2> HIDE DEF c
  <2>4. 0 \in 0..Buckets
    BY BitsFinite
  <2>5. search' \in Search
    BY <2>1, <2>2, <2>3, <2>4 DEF Search
  <2>6. \A id \in Known(buckets) : ~(getBucketIndex(id) < 0)
    BY <2>2, IndexTyped, BitsFinite
  <2>7. SearchInv'
    BY <1>3, <2>3, <2>6 DEF FindClosest, SearchInv, Distinct
  <2>8. QED
    BY <1>3, <2>5, <2>7 DEF FindClosest, TableInv, TypeOK
<1>4. CASE GetContacts
  <2>1. search' \in Search /\ SearchInv'
    BY <1>4, GetContactsReads
  <2>2. QED
    BY <1>4, <2>1 DEF GetContacts, TableInv, TypeOK
<1>5. CASE Return
  BY <1>5 DEF Return, TableInv, SearchInv, TypeOK
<1>6. CASE Tick
  <2>1. now' \in 0..MaxTime
    BY <1>6, RoutingAssumption DEF Tick, TableInv, TypeOK
  <2>2. QED
    BY <1>6, <2>1 DEF Tick, TableInv, SearchInv, TypeOK
<1>7. CASE UNCHANGED vars
  BY <1>7 DEF vars, TableInv, SearchInv, TypeOK
<1>8. QED
  BY <1>1, <1>2, <1>3, <1>4, <1>5, <1>6, <1>7 DEF Next

THEOREM TableCorrect == Spec => [](TableInv /\ SearchInv)
<1>1. TableInv /\ SearchInv /\ [Next]_vars => TableInv' /\ SearchInv'
  BY TableStep
<1>2. QED
  BY <1>1, TableInit, PTL DEF Spec

\* No bucket outgrows its capacity, and every bucket index is one.
THEOREM TypeCorrect == Spec => []TypeOK
<1>1. TableInv => TypeOK
  BY DEF TableInv
<1>2. QED
  BY <1>1, TableCorrect, PTL

\* A node has one entry in the whole table, where a lookup for it goes.
THEOREM OneEntryPerNodeCorrect == Spec => []OneEntryPerNode
<1>1. TableInv => OneEntryPerNode
  <2>1. SUFFICES ASSUME TableInv, NEW a \in Places(buckets), NEW b \in Places(buckets)
                 PROVE  /\ getBucketIndex(buckets[a[1]][a[2]].id) = a[1]
                        /\ buckets[a[1]][a[2]].id = buckets[b[1]][b[2]].id => a = b
    BY DEF OneEntryPerNode
  <2>2. \A x \in Places(buckets) : x = <<x[1], x[2]>> /\ x[1] \in Bit
                            /\ x[2] \in 1..Len(buckets[x[1]])
    BY DEF Places, TableInv, TypeOK
  <2>3. /\ getBucketIndex(buckets[a[1]][a[2]].id) = a[1]
        /\ getBucketIndex(buckets[b[1]][b[2]].id) = b[1]
    BY <2>1, <2>2 DEF TableInv
  <2>4. ASSUME buckets[a[1]][a[2]].id = buckets[b[1]][b[2]].id
        PROVE  a = b
    <3>1. a[1] = b[1]
      BY <2>3, <2>4
    <3>2. a[2] = b[2]
      BY <2>1, <2>2, <2>4, <3>1 DEF TableInv, Distinct
    <3>3. QED
      BY <2>2, <3>1, <3>2
  <2>5. QED
    BY <2>3, <2>4
<1>2. QED
  BY <1>1, TableCorrect, PTL

\* Whatever is added while it reads, a search returns each node once, nearest
\* first, and misses none that was there all the time but for nearer ones.
THEOREM FindClosestIsNearestCorrect == Spec => []FindClosestIsNearest
<1>1. TableInv /\ SearchInv => FindClosestIsNearest
  <2>1. SUFFICES ASSUME TableInv, SearchInv,
                        search # NoCall, search.next = Buckets, search.count >= K
                 PROVE  FindClosestIsNearest
    BY DEF FindClosestIsNearest
  <2> DEFINE q == search.got
             r == ExchangeSort(q, search.target)
             cut == IF Len(r) > search.count THEN search.count ELSE Len(r)
             found == Closest(q, search.target, search.count)
             dist(id) == xorDistance(search.target, id)
             ids == {found[n].id : n \in 1..Len(found)}
  <2>2. q \in Seq(Contact) /\ search.count \in Nat /\ search.steady \subseteq PeerID /\ Distinct(q)
    BY <2>1 DEF TableInv, TypeOK, Search, SearchInv
  <2>3. SortedTo(r, q, Len(q), search.target)
    BY <2>2, ExchangeSortSorts
  <2>4. ASSUME NEW id \in search.steady
        PROVE  \E m \in 1..Len(r) : r[m].id = id
    <3>1. getBucketIndex(id) < Buckets
      BY <2>2, IndexTyped, BitsFinite
    <3>2. PICK n \in 1..Len(q) : q[n].id = id
      BY <2>1, <3>1 DEF SearchInv, Holds
    <3>3. QED
      BY <2>3, <3>2 DEF SortedTo
  <2>5. r \in Seq(Contact) /\ Len(r) = Len(q) /\ Len(r) \in Nat /\ Distinct(r)
    BY <2>3 DEF SortedTo
  <2>6. \A m, n \in 1..Len(r) : m < n => dist(r[m].id) <= dist(r[n].id)
    BY <2>3, <2>5 DEF SortedTo, Before
  <2>7. found = SubSeq(r, 1, cut)
    <3>1. Len(r) = Len(q)
      BY <2>5
    <3>2. found = SubSeq(r, 1, IF Len(q) > search.count THEN search.count ELSE Len(q))
      BY Zenon DEF Closest
    <3>3. QED
      BY <3>1, <3>2
  <2>8. /\ cut \in 0..Len(r) /\ cut <= search.count
        /\ cut < Len(r) => cut = search.count
    BY <2>2, <2>5
  <2> HIDE DEF r, cut, q
  <2>9. Len(found) = cut /\ \A n \in 1..cut : found[n] = r[n] /\ n \in 1..Len(r)
    BY <2>5, <2>7, <2>8
  <2> HIDE DEF found, dist
  <2>10. \A m, n \in 1..Len(found) : m < n =>
           found[m].id # found[n].id /\ dist(found[m].id) <= dist(found[n].id)
    BY <2>5, <2>6, <2>9 DEF Distinct
  <2>11. ASSUME NEW id \in search.steady \ ids
         PROVE  Len(found) = search.count /\ \A x \in ids : dist(x) <= dist(id)
    <3>1. PICK m \in 1..Len(r) : r[m].id = id
      BY <2>4
    <3>2. cut < m /\ cut < Len(r)
      BY <2>5, <2>8, <2>9, <3>1
    <3>3. \A n \in 1..cut : dist(r[n].id) <= dist(id)
      BY <2>6, <2>8, <2>9, <3>1, <3>2
    <3>4. QED
      BY <2>8, <2>9, <3>2, <3>3
  <2>12. QED
    BY <2>1, <2>8, <2>9, <2>10, <2>11 DEF FindClosestIsNearest, found, dist, q
<1>2. QED
  BY <1>1, TableCorrect, PTL

=============================================================================
