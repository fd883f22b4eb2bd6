---------------------------- MODULE RoutingTable ----------------------------
(***************************************************************************)
(* The Kademlia routing table of src/p2p/kademlia.go: 160 buckets of       *)
(* contacts, filled by concurrent AddContact calls and read, one bucket    *)
(* after the other, by FindClosest.                                        *)
(*                                                                         *)
(* A node ID is the set of its one-bits, so that the XOR of two IDs is     *)
(* their symmetric difference.  Bit number i * BitsPerByte + b is bit b of *)
(* byte i.                                                                 *)
(***************************************************************************)
EXTENDS Integers, Sequences, FiniteSets

CONSTANTS
  Bytes,        \* 20: bytes of a node ID
  BitsPerByte,  \* 8
  WordBytes,    \* 8: bytes of the uint64 that xorDistance returns
  LocalID,      \* the node's own ID
  PeerID,       \* IDs that contacts may have
  K,            \* 20: capacity of a bucket
  StaleAfter,   \* 5 minutes: age beyond which a contact may be replaced
  Caller,       \* goroutines that call AddContact
  Target,       \* IDs that FindClosest is called with
  Count,        \* numbers of contacts that it is asked for
  DefaultCount, \* 20: what it returns when asked for none
  NoCall,       \* outside AddContact, outside FindClosest
  MaxTime       \* bound of the clock

Buckets == Bytes * BitsPerByte
Bit == 0..(Buckets - 1)

ASSUME RoutingAssumption ==
  /\ Bytes \in Nat \ {0} /\ BitsPerByte \in Nat \ {0} /\ WordBytes \in Nat
  /\ LocalID \subseteq Bit
  /\ \A id \in PeerID \cup Target : id \subseteq Bit
  /\ Count \subseteq Int /\ DefaultCount \in Nat \ {0}
  /\ K \in Nat \ {0} /\ StaleAfter \in Nat /\ MaxTime \in Nat

VARIABLES
  buckets,  \* the contacts of every bucket, in order
  now,      \* the clock
  call,     \* the contact each caller is adding, stamped, or NoCall
  search    \* the running FindClosest, or NoCall

vars == <<buckets, now, call, search>>

Contact == [id : PeerID, lastSeen : 0..MaxTime]

\* Calls of FindClosest only read, so that one at a time is enough.
Search ==
  [target : Target, count : Nat \ {0},
   next : 0..Buckets,        \* the bucket to read, Buckets when all are read
   got : Seq(Contact),       \* what was read
   steady : SUBSET PeerID]   \* history: in the table ever since the call

TypeOK ==
  /\ buckets \in [Bit -> Seq(Contact)]
  /\ \A i \in Bit : Len(buckets[i]) <= K
  /\ now \in 0..MaxTime
  /\ call \in [Caller -> Contact \cup {NoCall}]
  /\ search \in Search \cup {NoCall}

-----------------------------------------------------------------------------
(* IDs. *)

Xor(a, b) == (a \ b) \cup (b \ a)

\* The highest differing bit, the last byte being the most significant; 0 for
\* the node's own ID.
getBucketIndex(id) ==
  LET d == Xor(LocalID, id)
  IN  IF d = {} THEN 0 ELSE CHOOSE i \in d : \A j \in d : j <= i

\* The weight of a bit in xorDistance, where the first byte is the most
\* significant and the bytes that do not fit the word are shifted out.
Weight(i) ==
  LET byte == i \div BitsPerByte
      bit == i % BitsPerByte
  IN  IF Bytes - 1 - byte >= WordBytes
      THEN 0
      ELSE 2 ^ ((Bytes - 1 - byte) * BitsPerByte + bit)

\* The sums of the weights of the bits below k.
PartialDistances(a, b) ==
  LET Below[k \in 0..Buckets] ==
        IF k = 0 THEN 0
        ELSE Below[k - 1] + IF k - 1 \in Xor(a, b) THEN Weight(k - 1) ELSE 0
  IN  Below

xorDistance(a, b) == PartialDistances(a, b)[Buckets]

-----------------------------------------------------------------------------
(* Buckets. *)

Holds(b, id) == \E i \in 1..Len(b) : b[i].id = id

\* The first place of a contact that the bucket holds.
Place(b, id) ==
  CHOOSE i \in 1..Len(b) : b[i].id = id /\ \A j \in 1..(i - 1) : b[j].id # id

Stale(c) == now - c.lastSeen > StaleAfter

Without(b, i) == SubSeq(b, 1, i - 1) \o SubSeq(b, i + 1, Len(b))

Add_NoLookup(b, c) ==
  IF Len(b) < K THEN Append(b, c) ELSE b

Add_NoCapacity(b, c) ==
  IF Holds(b, c.id)
  THEN Append(Without(b, Place(b, c.id)), c)
  ELSE Append(b, c)

\* Bucket.Add: a known contact moves to the end, a new one is appended while
\* there is room; otherwise it takes the place of the first one, if stale by
\* its stamp, which a delayed AddContact may have set back.
Add(b, c) ==
  IF Holds(b, c.id)
  THEN Append(Without(b, Place(b, c.id)), c)
  ELSE IF Len(b) < K
       THEN Append(b, c)
       ELSE IF Stale(b[1]) THEN [b EXCEPT ![1] = c] ELSE b

-----------------------------------------------------------------------------
Places(table) == {c \in Bit \X (1..K) : c[2] <= Len(table[c[1]])}

\* The nodes in a table.
Known(table) == {table[c[1]][c[2]].id : c \in Places(table)}

Init ==
  /\ buckets = [i \in Bit |-> <<>>]
  /\ now = 0
  /\ call = [p \in Caller |-> NoCall]
  /\ search = NoCall

(* AddContact stamps the contact before it waits for the bucket's mutex.   *)
AddContact(p, id) ==
  /\ call[p] = NoCall
  /\ call' = [call EXCEPT ![p] = [id |-> id, lastSeen |-> now]]
  /\ UNCHANGED <<buckets, now, search>>

BucketAdd(p) ==
  /\ call[p] # NoCall
  /\ buckets' = [buckets EXCEPT ![getBucketIndex(call[p].id)] = Add(@, call[p])]
  /\ call' = [call EXCEPT ![p] = NoCall]
  /\ search' = IF search = NoCall THEN NoCall
               ELSE [search EXCEPT !.steady = @ \cap Known(buckets')]
  /\ UNCHANGED now

FindClosest(target, count) ==
  /\ search = NoCall
  /\ search' = [target |-> target,
                count |-> IF count <= 0 THEN DefaultCount ELSE count,
                next |-> 0, got |-> <<>>, steady |-> Known(buckets)]
  /\ UNCHANGED <<buckets, now, call>>

(* Each bucket is read under its own mutex.                                *)
GetContacts ==
  /\ search # NoCall
  /\ search.next < Buckets
  /\ LET b == buckets[search.next]
         limit == IF search.count > Len(b) THEN Len(b) ELSE search.count
     IN  search' = [search EXCEPT !.next = @ + 1,
                                  !.got = @ \o SubSeq(b, 1, limit)]
  /\ UNCHANGED <<buckets, now, call>>

(* The call sorts what it has read, cuts it and returns it: Closest.       *)
Return ==
  /\ search # NoCall
  /\ search.next = Buckets
  /\ search' = NoCall
  /\ UNCHANGED <<buckets, now, call>>

Tick ==
  /\ now < MaxTime
  /\ now' = now + 1
  /\ UNCHANGED <<buckets, call, search>>

Next ==
  \/ \E p \in Caller, id \in PeerID : AddContact(p, id)
  \/ \E p \in Caller : BucketAdd(p)
  \/ \E target \in Target, count \in Count : FindClosest(target, count)
  \/ GetContacts
  \/ Return
  \/ Tick

Spec == Init /\ [][Next]_vars

-----------------------------------------------------------------------------
(* What FindClosest returns: the contacts it read, exchange-sorted by      *)
(* distance and cut to count.                                              *)

Swap(s, i, j) == [s EXCEPT ![i] = s[j], ![j] = s[i]]

Exchange_Reversed(s, i, j, target) ==
  IF xorDistance(target, s[i].id) < xorDistance(target, s[j].id)
  THEN Swap(s, i, j) ELSE s

\* One comparison of the double loop.
Exchange(s, i, j, target) ==
  IF xorDistance(target, s[i].id) > xorDistance(target, s[j].id)
  THEN Swap(s, i, j) ELSE s

\* The inner loop: s after the comparisons of i with the places up to i + k.
InnerLoop(s, i, target) ==
  LET Upto[k \in 0..(Len(s) - i)] ==
        IF k = 0 THEN s ELSE Exchange(Upto[k - 1], i, i + k, target)
  IN  Upto

\* The outer loop: s after the inner loops of the places up to i.
OuterLoop(s, target) ==
  LET Upto[i \in 0..Len(s)] ==
        IF i = 0 THEN s ELSE InnerLoop(Upto[i - 1], i, target)[Len(s) - i]
  IN  Upto

ExchangeSort(s, target) == OuterLoop(s, target)[Len(s)]

Closest(s, target, count) ==
  SubSeq(ExchangeSort(s, target), 1, IF Len(s) > count THEN count ELSE Len(s))

-----------------------------------------------------------------------------
(* Properties. *)

\* No node has two entries, whichever callers add it at the same time, and the
\* entry is in the bucket where a lookup for it goes (kademlia.go:64-84, 130).
OneEntryPerNode ==
  \A a, b \in Places(buckets) :
    /\ getBucketIndex(buckets[a[1]][a[2]].id) = a[1]
    /\ buckets[a[1]][a[2]].id = buckets[b[1]][b[2]].id => a = b

\* A search that asks for at least a full bucket returns each node once and
\* nearest first, and whoever was in the table all the time and is not returned
\* is no nearer than those who are, whatever was added between the reads of two
\* buckets (kademlia.go:153-178).
FindClosestIsNearest ==
  search # NoCall /\ search.next = Buckets /\ search.count >= K =>
    LET found == Closest(search.got, search.target, search.count)
        dist(id) == xorDistance(search.target, id)
        ids == {found[n].id : n \in 1..Len(found)}
    IN  /\ Len(found) <= search.count
        /\ \A m, n \in 1..Len(found) : m < n =>
             found[m].id # found[n].id /\ dist(found[m].id) <= dist(found[n].id)
        /\ \A id \in search.steady \ ids :
             Len(found) = search.count /\ \A x \in ids : dist(x) <= dist(id)

=============================================================================
