---------------------------- MODULE CRDTReplicas ----------------------------
(***************************************************************************)
(* Replicas of the CRDT stores of src/storage/crdt.go: every node writes   *)
(* its own CRDTStore and snapshots of documents (CRDTDocument.Clone)       *)
(* travel between nodes, where MergeDocument folds them in.  The network   *)
(* is not in src/: a snapshot may be lost, delivered any number of times   *)
(* and delivered in any order.  time.Now() of a node may return any        *)
(* instant, since nothing in the code synchronises or orders clocks.       *)
(***************************************************************************)
EXTENDS CRDTDocument

CONSTANTS
  DocId,           \* document identifiers
  PathData,        \* the content DeleteFile gives a tombstone: the path
  MaxVersion,      \* bound: no write produces a version above this one
  MaxTime,         \* bound: time.Now() ranges over 1..MaxTime
  MaxWrites,       \* bound: writes of all the nodes together
  Writes,          \* contents that may be written, each with the instant
  MaxInFlight,     \* bound: snapshots in the network at once
  MaxDeliveries    \* snapshots merged in a row in GreatestIsSeen

ASSUME BoundsAssumption ==
  /\ PathData \in Data
  /\ MaxVersion \in Nat \ {0, 1}
  /\ MaxTime \in Nat \ {0}
  /\ MaxWrites \in Nat
  /\ Writes \subseteq Data \X (1..MaxTime)
  /\ MaxInFlight \in Nat
  /\ MaxDeliveries \in Nat

VARIABLES
  store,    \* store[r]: CRDTStore.documents of node r, a map keyed by id
  net,      \* snapshots in flight
  written   \* auxiliary: the writes so far, counted only to bound them

vars == <<store, net, written>>

Time == 1..MaxTime

Has(r, id) == id \in DOMAIN store[r]

\* The map f after f[key] = value.
Assign(f, key, value) ==
  [k \in DOMAIN f \cup {key} |-> IF k = key THEN value ELSE f[k]]

SetDoc(r, id, doc) == store' = [store EXCEPT ![r] = Assign(@, id, doc)]

-----------------------------------------------------------------------------
IsValue(v) ==
  /\ v = [data |-> v.data, version |-> v.version, timestamp |-> v.timestamp,
          clock |-> v.clock]
  /\ v.data \in Data
  /\ v.version \in 1..MaxVersion
  /\ v.timestamp \in Time
  /\ IsVector(v.clock)

IsDoc(d) ==
  /\ d = [value |-> d.value, history |-> d.history, deleted |-> d.deleted]
  /\ IsValue(d.value)
  /\ d.history \in Seq(Nat)
  /\ d.deleted \in BOOLEAN

WellFormed ==
  /\ store = [r \in Node |-> [id \in DOMAIN store[r] |-> store[r][id]]]
  /\ \A r \in Node : DOMAIN store[r] \subseteq DocId
  /\ \A r \in Node : \A id \in DOMAIN store[r] : IsDoc(store[r][id])
  /\ \A m \in net : /\ m = [id |-> m.id, doc |-> m.doc]
                    /\ m.id \in DocId
                    /\ IsDoc(m.doc)

TypeOK == WellFormed /\ written \in 0..MaxWrites

-----------------------------------------------------------------------------
Init ==
  /\ store = [r \in Node |-> [id \in {} |-> {}]]
  /\ net = {}
  /\ written = 0

\* A write among the MaxWrites of the model.
Counted == written < MaxWrites /\ written' = written + 1

(* NewCRDTDocument and Put, as WriteFile does for a path: the new document *)
(* replaces the one the store may hold, also a tombstone.                  *)
Put(r, id, data, time) ==
  /\ SetDoc(r, id, NewCRDTDocument(data, r, time))
  /\ Counted
  /\ UNCHANGED net

(* NewCRDTDocument, CRDTDocument.Delete and Put, as DeleteFile does: the   *)
(* tombstone replaces whatever document the store held.                    *)
PutTombstone(r, id, time) ==
  /\ SetDoc(r, id, DocDelete(NewCRDTDocument(PathData, r, time)))
  /\ Counted
  /\ UNCHANGED net

(* CRDTDocument.Update on a document of the store.                         *)
Update(r, id, data, time) ==
  /\ Has(r, id)
  /\ store[r][id].value.version < MaxVersion
  /\ SetDoc(r, id, DocUpdate(store[r][id], data, r, time))
  /\ Counted
  /\ UNCHANGED net

(* CRDTStore.Delete: refuses a missing or already deleted document.        *)
Delete(r, id) ==
  /\ Has(r, id)
  /\ ~store[r][id].deleted
  /\ store[r][id].value.version < MaxVersion
  /\ SetDoc(r, id, DocDelete(store[r][id]))
  /\ Counted
  /\ UNCHANGED net

(* A clone of a document leaves the node.                                  *)
Send(r, id) ==
  /\ Has(r, id)
  /\ Cardinality(net) < MaxInFlight
  /\ net' = net \cup {[id |-> id, doc |-> store[r][id]]}
  /\ UNCHANGED <<store, written>>

(* CRDTStore.MergeDocument on a received snapshot, which stays in the      *)
(* network so that it can be delivered again.                              *)
MergeDocument(r, m) ==
  /\ m \in net
  /\ SetDoc(r, m.id, IF Has(r, m.id) THEN DocMerge(store[r][m.id], m.doc)
                                     ELSE m.doc)
  /\ UNCHANGED <<net, written>>

Lose(m) ==
  /\ net' = net \ {m}
  /\ UNCHANGED <<store, written>>

Next ==
  \/ \E r \in Node, id \in DocId, w \in Writes :
       Put(r, id, w[1], w[2]) \/ Update(r, id, w[1], w[2])
  \/ \E r \in Node, id \in DocId, time \in Time :
       <<PathData, time>> \in Writes /\ PutTombstone(r, id, time)
  \/ \E r \in Node, id \in DocId : Delete(r, id) \/ Send(r, id)
  \/ \E r \in Node, m \in net : MergeDocument(r, m)
  \/ \E m \in net : Lose(m)

Spec == Init /\ [][Next]_vars

-----------------------------------------------------------------------------
(* Properties. *)

\* Every document a node can meet: the stored ones and those in flight.
DocsOf(id) ==
  {store[r][id] : r \in {n \in Node : Has(n, id)}}
    \cup {m.doc : m \in {n \in net : n.id = id}}

AllDocs == UNION {DocsOf(id) : id \in DocId}

\* What a reader of the document can see.
Visible(d) ==
  IF d.deleted
  THEN [kind |-> "tombstone"]
  ELSE [kind |-> "live", version |-> d.value.version,
        timestamp |-> d.value.timestamp, data |-> d.value.data]

\* No event in a dotted vector claims a version above the value's own: the
\* three branches of CRDTValue.Merge (crdt.go:161-203) treat value and vector
\* differently, and a vector that ran ahead would let an old write look newer.
ClockBounded(d) ==
  \A e \in DOMAIN d.value.clock : d.value.clock[e] <= d.value.version

ClockBoundedByVersion == \A d \in AllDocs : ClockBounded(d)

\* The history of a document (crdt.go:248-259) lists versions in the order
\* they were superseded and is older than the current value, whatever merges
\* happened in between.
Ordered(d) ==
  \A i \in 1..Len(d.history) :
    /\ d.history[i] < d.value.version
    /\ \A j \in 1..(i - 1) : d.history[j] < d.history[i]

HistoryOrdered == \A d \in AllDocs : Ordered(d)

\* Two replicas that exchange their documents end with the same content,
\* whichever of them merges first (crdt.go:261-269, 161-203).
ExchangeConverges ==
  \A id \in DocId : \A a, b \in DocsOf(id) :
    Visible(DocMerge(a, b)) = Visible(DocMerge(b, a))

\* A merge that reports no change has left the document exactly as it was, its
\* vector included, in each of the three branches (crdt.go:161-203, 261-269).
UnreportedMergeIsNoop ==
  \A id \in DocId : \A a, b \in DocsOf(id) :
    ~DocMergeReports(a, b) => DocMerge(a, b) = a

\* The replicas implement last-writer-wins registers over a join-semilattice.
PointOf(r, id) == IF Has(r, id) THEN Visible(store[r][id])
                                ELSE [kind |-> "absent"]

Register == INSTANCE LWWRegister WITH
  Version <- 1..MaxVersion,
  Timestamp <- Time,
  reg <- [r \in Node |-> [id \in DocId |-> PointOf(r, id)]],
  msgs <- {[id |-> m.id, point |-> Visible(m.doc)] : m \in net}

\* The document d after the merges of the first k snapshots of s.
AfterMerges(d, s) ==
  LET After[k \in 0..Len(s)] ==
        IF k = 0 THEN d ELSE DocMerge(After[k - 1], s[k])
  IN  After

MergeAll(d, s) == AfterMerges(d, s)[Len(s)]

Points(d, s) == {Visible(d)} \cup {Visible(s[i]) : i \in 1..Len(s)}

Deliveries(id) == [1..MaxDeliveries -> DocsOf(id)]

\* However often and in whatever order a replica merges snapshots, its readers
\* see the greatest of the points it had and received: no reordering and no
\* repetition by the network can make replicas differ (crdt.go:261-269,
\* 339-348).
GreatestIsSeen ==
  \A id \in DocId : \A d \in DocsOf(id), s \in Deliveries(id) :
    LET seen == Visible(MergeAll(d, s))
    IN  /\ seen \in Points(d, s)
        /\ \A p \in Points(d, s) : Register!Leq(p, seen)

\* Put over a document that the store holds, be it a tombstone.
Replaces ==
  \E r \in Node, id \in DocId, w \in Writes :
    Has(r, id) /\ Put(r, id, w[1], w[2])

\* But for a Put over a document, every step of the replicas is a step of the
\* registers or changes nothing a reader sees: no merge, no update and no
\* deletion ever takes anything back from readers (crdt.go:161-203, 261-269,
\* 339-348).  WriteFile puts over whatever there is (replicated_fs.go:175-176).
ImplementsRegister ==
  Register!LInit /\ [][Replaces \/ Register!LNext]_(Register!lvars)

=============================================================================
