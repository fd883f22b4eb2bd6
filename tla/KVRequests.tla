----------------------------- MODULE KVRequests -----------------------------
(***************************************************************************)
(* The data of the key-value store of src/storage/persistence.go: what a   *)
(* caller may ask, what is stored and what is answered.                    *)
(*                                                                         *)
(* BadgerDB keeps its keys in byte order: a key is a number here, and the  *)
(* keys that have a given prefix are an interval.                          *)
(***************************************************************************)
EXTENDS Integers

CONSTANTS
  Client,      \* goroutines that use the store
  Key,         \* keys of at least one byte
  EmptyKey,    \* the key of no bytes, which BadgerDB refuses
  Value, EmptyValue,  \* values, and among them the one of no bytes
  Absent,      \* no entry; nil
  Prefix,      \* intervals of keys
  Made,        \* the calls that clients make, of those they may make
  NoRequest, NoView

ASSUME RequestAssumption ==
  /\ Key \subseteq Nat /\ EmptyKey \notin Key
  /\ EmptyValue \in Value /\ Absent \notin Value
  /\ Prefix \subseteq [first : Nat, last : Nat]

\* An entry of BadgerDB; one with a TTL vanishes some day.
Entry == [value : Value, ttl : BOOLEAN]

Database == [Key -> Entry \cup {Absent}]

Lasting(v) == [value |-> v, ttl |-> FALSE]
Fleeting(v) == [value |-> v, ttl |-> TRUE]

\* The requests.  A transaction that writes is the entries it sets, by key.
Write(w) == [op |-> "write", arg |-> w]
Read(k) == [op |-> "get", arg |-> k]
Scan(p) == [op |-> "iterate", arg |-> p]
CloseRequest == [op |-> "close", arg |-> NoRequest]

Put(k, v) == Write([i \in {k} |-> Lasting(v)])
PutWithTTL(k, v) == Write([i \in {k} |-> Fleeting(v)])
Delete(k) == Write([i \in {k} |-> Absent])
BatchWrite(b) == Write([i \in DOMAIN b |-> Lasting(b[i])])

\* db.GetSequence writes the lease of the numbers it will give out.
GetSequence(k, lease) == Put(k, lease)

AnyKey == Key \cup {EmptyKey}

Batch == UNION {[K -> Value] : K \in SUBSET AnyKey}

Request ==
  {Put(k, v) : k \in AnyKey, v \in Value}
  \cup {PutWithTTL(k, v) : k \in AnyKey, v \in Value}
  \cup {Delete(k) : k \in AnyKey}
  \cup {BatchWrite(b) : b \in Batch}
  \cup {Read(k) : k \in AnyKey}
  \cup {Scan(p) : p \in Prefix}
  \cup {CloseRequest}

ASSUME CallAssumption ==
  Made \subseteq Request /\ NoRequest \notin Request /\ NoView \notin Database

\* txn.Set refuses the empty key, and with it the whole transaction.
Accepted(w) == EmptyKey \notin DOMAIN w

\* The database after a transaction.
Updated(map, w) == [k \in Key |-> IF k \in DOMAIN w THEN w[k] ELSE map[k]]

HasPrefix(k, p) == p.first <= k /\ k <= p.last

\* ValueCopy(nil) of an empty value is nil, which Get takes for no entry.
Found(e) == IF e = Absent \/ e = Lasting(EmptyValue) \/ e = Fleeting(EmptyValue)
            THEN Absent ELSE e.value

\* The pairs of a database that have a prefix, and those sure to be there for
\* as long as the iteration lasts.
Pairs(map, p) ==
  {<<k, map[k]>> : k \in {i \in Key : HasPrefix(i, p) /\ map[i] # Absent}}

LastingPairs(map, p) == {q \in Pairs(map, p) : ~q[2].ttl}

\* The answers: an error or not, the value of Get, and the pairs that Iterate
\* gave to fn, with whether it came to the end of them.
Answer == [failed : BOOLEAN, value : Value \cup {Absent},
           pairs : SUBSET (Key \X Entry), whole : BOOLEAN]

Done == [failed |-> FALSE, value |-> Absent, pairs |-> {}, whole |-> TRUE]
Failed == [failed |-> TRUE, value |-> Absent, pairs |-> {}, whole |-> TRUE]
Got(v) == [failed |-> FALSE, value |-> v, pairs |-> {}, whole |-> TRUE]
Visited(s, w) == [failed |-> FALSE, value |-> Absent, pairs |-> s, whole |-> w]

=============================================================================
