----------------------------- MODULE CRDTProofs -----------------------------
(***************************************************************************)
(* Proofs about the replicated documents, for every number of nodes,       *)
(* documents, contents, instants and versions.                             *)
(***************************************************************************)
EXTENDS CRDTReplicas, FiniteSetTheorems, TLAPS

(* Dotted vectors. *)

LEMMA NewVectorType == IsVector(NewDottedVector)
BY FS_EmptySet DEF IsVector, NewDottedVector

LEMMA AddEventType ==
  ASSUME NEW v, IsVector(v), NEW e \in EventID, NEW n \in Nat
  PROVE  IsVector(AddEvent(v, e, n))
<1>1. IsFiniteSet(DOMAIN v \cup {e})
  BY FS_AddElement DEF IsVector
<1>2. QED
  BY <1>1 DEF IsVector, AddEvent

LEMMA MergeVectorType ==
  ASSUME NEW v, IsVector(v), NEW w, IsVector(w)
  PROVE  IsVector(MergeVector(v, w))
<1>1. IsFiniteSet(DOMAIN v \cup DOMAIN w)
  BY FS_Union DEF IsVector
<1>2. QED
  BY <1>1 DEF IsVector, MergeVector, TakesEvent

LEMMA NextEventType ==
  ASSUME NEW v, IsVector(v), NEW n \in Node
  PROVE  <<n, Size(v) + 1>> \in EventID
<1>1. Size(v) \in Nat
  BY FS_CardinalityType DEF IsVector, Size
<1>2. QED
  BY <1>1 DEF EventID

(* Values and documents. *)

LEMMA DeleteType ==
  ASSUME NEW d, IsDoc(d), d.value.version < MaxVersion, NEW n \in Node
  PROVE  IsDoc(DocDelete(d))
<1>1. IsValue(DeleteValue(d.value))
  BY BoundsAssumption DEF IsDoc, IsValue, DeleteValue
<1>2. QED
  BY <1>1 DEF IsDoc, DocDelete

LEMMA NewDocType ==
  ASSUME NEW data \in Data, NEW n \in Node, NEW t \in Time
  PROVE  /\ IsDoc(NewCRDTDocument(data, n, t))
         /\ IsDoc(DocDelete(NewCRDTDocument(data, n, t)))
<1>1. IsVector(AddEvent(NewDottedVector, <<n, 1>>, 1))
  BY NewVectorType, AddEventType DEF EventID
<1>2. IsValue(NewCRDTValue(data, n, t))
  BY <1>1, BoundsAssumption DEF IsValue, NewCRDTValue
<1>3. << >> \in Seq(Nat)
  OBVIOUS
<1>4. IsDoc(NewCRDTDocument(data, n, t))
  BY <1>2, <1>3 DEF IsDoc, NewCRDTDocument
<1>5. NewCRDTDocument(data, n, t).value.version < MaxVersion
  BY BoundsAssumption DEF NewCRDTDocument, NewCRDTValue
<1>6. QED
  BY <1>4, <1>5, DeleteType

LEMMA UpdateType ==
  ASSUME NEW d, IsDoc(d), d.value.version < MaxVersion,
         NEW data \in Data, NEW n \in Node, NEW t \in Time
  PROVE  IsDoc(DocUpdate(d, data, n, t))
<1>1. IsVector(UpdateValue(d.value, data, n, t).clock)
  BY NextEventType, AddEventType DEF IsDoc, IsValue, UpdateValue
<1>2. IsValue(UpdateValue(d.value, data, n, t))
  BY <1>1, BoundsAssumption DEF IsDoc, IsValue, UpdateValue
<1>3. CASE d.deleted
  BY <1>3 DEF DocUpdate
<1>4. CASE ~d.deleted
  <2> DEFINE h == IF Len(d.history) < HistoryLimit
                  THEN Append(d.history, d.value.version) ELSE d.history
  <2>1. h \in Seq(Nat)
    BY DEF IsDoc, IsValue
  <2>2. DocUpdate(d, data, n, t) =
          [value |-> UpdateValue(d.value, data, n, t), history |-> h,
           deleted |-> d.deleted]
    BY <1>4 DEF DocUpdate, IsDoc
  <2>3. QED
    BY <1>2, <2>1, <2>2 DEF IsDoc
<1>5. QED
  BY <1>3, <1>4

LEMMA MergeType ==
  ASSUME NEW d, IsDoc(d), NEW o, IsDoc(o)
  PROVE  IsDoc(DocMerge(d, o))
<1>1. IsVector(MergeVector(d.value.clock, o.value.clock))
  BY MergeVectorType DEF IsDoc, IsValue
<1>2. IsValue(MergeValue(d.value, o.value))
  BY <1>1 DEF IsDoc, IsValue, MergeValue
<1>3. QED
  BY <1>2 DEF IsDoc, DocMerge

-----------------------------------------------------------------------------
(* What a step can do to the documents in the system. *)

\* The documents a step can bring into being out of those that exist.
Made(d) ==
  \/ \E data \in Data, n \in Node, t \in Time :
       \/ d = NewCRDTDocument(data, n, t)
       \/ d = DocDelete(NewCRDTDocument(data, n, t))
  \/ \E a \in AllDocs, data \in Data, n \in Node, t \in Time :
       /\ a.value.version < MaxVersion
       /\ d = DocUpdate(a, data, n, t) \/ d = DocDelete(a)
  \/ \E a, b \in AllDocs : d = DocMerge(a, b)

LEMMA DocsMember ==
  \A d : d \in AllDocs <=>
    \/ \E r \in Node, id \in DocId : Has(r, id) /\ d = store[r][id]
    \/ \E m \in net : m.id \in DocId /\ d = m.doc
BY DEF AllDocs, DocsOf

LEMMA DocsMemberNext ==
  \A d : d \in AllDocs' <=>
    \/ \E r \in Node, id \in DocId :
         id \in DOMAIN store'[r] /\ d = store'[r][id]
    \/ \E m \in net' : m.id \in DocId /\ d = m.doc
BY DEF AllDocs, DocsOf, Has

LEMMA StoredDocs ==
  ASSUME WellFormed, NEW r \in Node, NEW id, Has(r, id)
  PROVE  store[r][id] \in AllDocs /\ id \in DocId
BY DocsMember DEF WellFormed, Has

LEMMA SentDocs ==
  ASSUME WellFormed, NEW m \in net
  PROVE  m.doc \in AllDocs /\ m.id \in DocId
BY DocsMember DEF WellFormed

LEMMA DocsTyped ==
  ASSUME WellFormed, NEW d \in AllDocs
  PROVE  IsDoc(d)
BY DocsMember, DocsMemberNext DEF WellFormed, Has

LEMMA SetDocEffect ==
  ASSUME WellFormed, NEW r \in Node, NEW id \in DocId, NEW doc, IsDoc(doc),
         SetDoc(r, id, doc), UNCHANGED net
  PROVE  WellFormed' /\ AllDocs' \subseteq AllDocs \cup {doc}
<1>1. /\ store' = [n \in Node |-> store'[n]]
      /\ store'[r] = Assign(store[r], id, doc)
      /\ \A n \in Node \ {r} : store'[n] = store[n]
  BY DEF WellFormed, SetDoc
<1>2. \A n \in Node :
        /\ store'[n] = [i \in DOMAIN store'[n] |-> store'[n][i]]
        /\ DOMAIN store'[n] \subseteq DocId
        /\ \A i \in DOMAIN store'[n] :
             \/ store'[n][i] = doc
             \/ i \in DOMAIN store[n] /\ store'[n][i] = store[n][i]
  <2>1. \A n \in Node : /\ store[n] = [i \in DOMAIN store[n] |-> store[n][i]]
                        /\ DOMAIN store[n] \subseteq DocId
    BY DEF WellFormed
  <2>2. ASSUME NEW n \in Node, n # r
        PROVE  /\ store'[n] = [i \in DOMAIN store'[n] |-> store'[n][i]]
               /\ DOMAIN store'[n] \subseteq DocId
               /\ \A i \in DOMAIN store'[n] :
                    i \in DOMAIN store[n] /\ store'[n][i] = store[n][i]
    <3>1. store'[n] = store[n]
      BY <1>1, <2>2
    <3>. QED
      BY <2>1, <3>1
  <2>3. /\ DOMAIN store'[r] = DOMAIN store[r] \cup {id}
        /\ store'[r] = [i \in DOMAIN store'[r] |-> store'[r][i]]
        /\ \A i \in DOMAIN store'[r] :
             store'[r][i] = IF i = id THEN doc ELSE store[r][i]
    BY <1>1 DEF Assign
  <2>4. /\ DOMAIN store'[r] \subseteq DocId
        /\ \A i \in DOMAIN store'[r] :
             \/ store'[r][i] = doc
             \/ i \in DOMAIN store[r] /\ store'[r][i] = store[r][i]
    BY <2>1, <2>3
  <2>. QED
    BY <2>2, <2>3, <2>4
<1>3. WellFormed'
  BY <1>1, <1>2 DEF WellFormed
<1>4. ASSUME NEW d \in AllDocs', d # doc
      PROVE  d \in AllDocs
  <2>1. CASE \E m \in net' : m.id \in DocId /\ d = m.doc
    BY <2>1, DocsMember
  <2>2. CASE \E n \in Node, i \in DocId :
               i \in DOMAIN store'[n] /\ d = store'[n][i]
    <3>1. PICK n \in Node, i \in DocId :
                 i \in DOMAIN store'[n] /\ d = store'[n][i]
      BY <2>2
    <3>2. Has(n, i) /\ d = store[n][i]
      BY <1>2, <1>4, <3>1 DEF Has
    <3>3. QED
      BY <3>2, DocsMember
  <2>3. QED
    BY <2>1, <2>2, DocsMemberNext
<1>5. QED
  BY <1>3, <1>4

LEMMA NetEffect ==
  ASSUME WellFormed, UNCHANGED store,
         \A m \in net' : m \in net \/ \E r \in Node, id \in DocId :
           Has(r, id) /\ m = [id |-> id, doc |-> store[r][id]]
  PROVE  WellFormed' /\ AllDocs' \subseteq AllDocs
BY DocsMember, DocsMemberNext DEF WellFormed, Has

LEMMA MadeTyped ==
  ASSUME WellFormed, NEW d, Made(d)
  PROVE  IsDoc(d)
BY DocsTyped, NewDocType, UpdateType, DeleteType, MergeType DEF Made

\* A write is of some content at some instant.
LEMMA WritesTyped == \A w \in Writes : w[1] \in Data /\ w[2] \in Time
BY BoundsAssumption DEF Time

LEMMA NextSteps ==
  ASSUME Next
  PROVE  \/ \E r \in Node, id \in DocId, w \in Writes : Put(r, id, w[1], w[2])
         \/ \E r \in Node, id \in DocId, data \in Data, time \in Time :
              Update(r, id, data, time)
         \/ \E r \in Node, id \in DocId, time \in Time : PutTombstone(r, id, time)
         \/ \E r \in Node, id \in DocId : Delete(r, id) \/ Send(r, id)
         \/ \E r \in Node, m \in net : MergeDocument(r, m)
         \/ \E m \in net : Lose(m)
BY WritesTyped DEF Next

LEMMA StepEffect ==
  ASSUME WellFormed, [Next]_vars
  PROVE  /\ WellFormed'
         /\ \/ AllDocs' \subseteq AllDocs
            \/ \E d : Made(d) /\ AllDocs' \subseteq AllDocs \cup {d}
<1> SUFFICES
      \/ WellFormed' /\ AllDocs' \subseteq AllDocs
      \/ \E d : \E r \in Node, id \in DocId :
           Made(d) /\ SetDoc(r, id, d) /\ UNCHANGED net
  BY MadeTyped, SetDocEffect
<1>1. ASSUME NEW r \in Node, NEW id \in DocId, NEW w \in Writes,
             Put(r, id, w[1], w[2])
      PROVE  \E d : Made(d) /\ SetDoc(r, id, d) /\ UNCHANGED net
  BY <1>1, WritesTyped DEF Put, Made
<1>2. ASSUME NEW r \in Node, NEW id \in DocId, NEW data \in Data,
             NEW time \in Time, Update(r, id, data, time)
      PROVE  \E d : Made(d) /\ SetDoc(r, id, d) /\ UNCHANGED net
  BY <1>2, StoredDocs DEF Update, Made
<1>3. ASSUME NEW r \in Node, NEW id \in DocId, NEW time \in Time,
             PutTombstone(r, id, time)
      PROVE  \E d : Made(d) /\ SetDoc(r, id, d) /\ UNCHANGED net
  BY <1>3, BoundsAssumption DEF PutTombstone, Made
<1>4. ASSUME NEW r \in Node, NEW id \in DocId, Delete(r, id)
      PROVE  \E d : Made(d) /\ SetDoc(r, id, d) /\ UNCHANGED net
  <2>1. PathData \in Data /\ 1 \in Time
    BY BoundsAssumption DEF Time
  <2>2. QED
    BY <1>4, <2>1, StoredDocs DEF Delete, Made
<1>5. ASSUME NEW r \in Node, NEW id \in DocId, Send(r, id)
      PROVE  WellFormed' /\ AllDocs' \subseteq AllDocs
  BY <1>5, NetEffect DEF Send
<1>6. ASSUME NEW r \in Node, NEW m \in net, MergeDocument(r, m)
      PROVE  \/ WellFormed' /\ AllDocs' \subseteq AllDocs
             \/ \E d : \E id \in DocId :
                  Made(d) /\ SetDoc(r, id, d) /\ UNCHANGED net
  <2>1. m.doc \in AllDocs /\ m.id \in DocId /\ IsDoc(m.doc)
    BY SentDocs, DocsTyped
  <2>2. CASE Has(r, m.id)
    <3>1. store[r][m.id] \in AllDocs
      BY <2>2, StoredDocs
    <3>2. Made(DocMerge(store[r][m.id], m.doc))
      BY <2>1, <3>1 DEF Made
    <3>3. QED
      BY <1>6, <2>1, <2>2, <3>2 DEF MergeDocument
  <2>3. CASE ~Has(r, m.id)
    <3>1. SetDoc(r, m.id, m.doc) /\ UNCHANGED net
      BY <1>6, <2>3 DEF MergeDocument
    <3>2. WellFormed' /\ AllDocs' \subseteq AllDocs \cup {m.doc}
      BY <2>1, <3>1, SetDocEffect
    <3>3. QED
      BY <2>1, <3>2
  <2>4. QED
    BY <2>2, <2>3
<1>7. ASSUME NEW m \in net, Lose(m)
      PROVE  WellFormed' /\ AllDocs' \subseteq AllDocs
  BY <1>7, NetEffect DEF Lose
<1>8. CASE UNCHANGED vars
  BY <1>8, NetEffect DEF vars
<1>9. QED
  BY <1>1, <1>2, <1>3, <1>4, <1>5, <1>6, <1>7, <1>8, NextSteps

-----------------------------------------------------------------------------
(* Type correctness: every document stored or in flight is well formed, so *)
(* Cardinality of a vector (crdt.go:156) is that of a finite map.          *)
LEMMA InitTyped == Init => TypeOK
BY BoundsAssumption DEF Init, TypeOK, WellFormed

\* Each write is counted, and only while the bound allows.
LEMMA WrittenStep ==
  ASSUME written \in 0..MaxWrites, [Next]_vars
  PROVE  written' \in 0..MaxWrites
<1>1. Counted => written' \in 0..MaxWrites
  BY BoundsAssumption DEF Counted
<1>2. Next => Counted \/ UNCHANGED written
  BY DEF Next, Put, PutTombstone, Update, Delete, Send, MergeDocument, Lose
<1>3. QED
  BY <1>1, <1>2 DEF vars

THEOREM TypeCorrect == Spec => []TypeOK
<1>1. TypeOK /\ [Next]_vars => TypeOK'
  BY StepEffect, WrittenStep DEF TypeOK
<1>2. QED
  BY InitTyped, <1>1, PTL DEF Spec

LEMMA WellFormedCorrect == Spec => []WellFormed
<1>1. TypeOK => WellFormed
  BY DEF TypeOK
<1>2. QED
  BY <1>1, TypeCorrect, PTL

-----------------------------------------------------------------------------
(* No event of a dotted vector claims a version above the document's own.  *)

LEMMA MadeClockBounded ==
  ASSUME WellFormed, ClockBoundedByVersion, NEW d, Made(d)
  PROVE  ClockBounded(d)
<1>1. ASSUME NEW data \in Data, NEW n \in Node, NEW t \in Time,
             \/ d = NewCRDTDocument(data, n, t)
             \/ d = DocDelete(NewCRDTDocument(data, n, t))
      PROVE  ClockBounded(d)
  BY <1>1 DEF ClockBounded, NewCRDTDocument, NewCRDTValue, DocDelete,
              DeleteValue, AddEvent, NewDottedVector
<1>2. ASSUME NEW a \in AllDocs, NEW data \in Data, NEW n \in Node,
             NEW t \in Time,
             d = DocUpdate(a, data, n, t) \/ d = DocDelete(a)
      PROVE  ClockBounded(d)
  <2>1. IsDoc(a) /\ ClockBounded(a)
    BY DocsTyped DEF ClockBoundedByVersion
  <2>2. \A e \in DOMAIN a.value.clock : a.value.clock[e] \in Nat
    BY <2>1 DEF IsDoc, IsValue, IsVector
  <2>3. a.value.version \in Nat
    BY <2>1, BoundsAssumption DEF IsDoc, IsValue
  <2>4. CASE d = DocDelete(a)
    BY <2>1, <2>2, <2>3, <2>4 DEF ClockBounded, DocDelete, DeleteValue
  <2>5. CASE d = DocUpdate(a, data, n, t) /\ a.deleted
    BY <2>1, <2>5 DEF DocUpdate
  <2>6. CASE d = DocUpdate(a, data, n, t) /\ ~a.deleted
    <3>1. d.value = UpdateValue(a.value, data, n, t)
      BY <2>1, <2>6 DEF DocUpdate, IsDoc
    <3>2. QED
      BY <2>1, <2>2, <2>3, <3>1 DEF ClockBounded, UpdateValue, AddEvent
  <2>7. QED
    BY <1>2, <2>4, <2>5, <2>6
<1>3. ASSUME NEW a \in AllDocs, NEW b \in AllDocs, d = DocMerge(a, b)
      PROVE  ClockBounded(d)
  <2>1. /\ IsDoc(a) /\ ClockBounded(a)
        /\ IsDoc(b) /\ ClockBounded(b)
    BY DocsTyped DEF ClockBoundedByVersion
  <2>2. /\ \A e \in DOMAIN a.value.clock : a.value.clock[e] \in Nat
        /\ \A e \in DOMAIN b.value.clock : b.value.clock[e] \in Nat
        /\ a.value.version \in Nat /\ b.value.version \in Nat
    BY <2>1, BoundsAssumption DEF IsDoc, IsValue, IsVector
  <2>3. CASE b.deleted
    BY <1>3, <2>1, <2>3 DEF ClockBounded, DocMerge, IsDoc
  <2>4. CASE ~b.deleted
    <3>1. d.value = MergeValue(a.value, b.value)
      BY <1>3, <2>1, <2>4 DEF DocMerge, IsDoc
    <3>2. CASE b.value.version > a.value.version
      BY <2>1, <3>1, <3>2 DEF MergeValue, ClockBounded
    <3>3. CASE b.value.version = a.value.version /\ WinsTie(b.value, a.value)
      <4>1. d.value.clock = a.value.clock /\ d.value.version = a.value.version
        BY <2>1, <2>2, <3>1, <3>3 DEF MergeValue, IsDoc, IsValue
      <4>2. QED
        BY <2>1, <4>1 DEF ClockBounded
    <3>4. CASE /\ ~(b.value.version > a.value.version)
               /\ ~(b.value.version = a.value.version
                    /\ WinsTie(b.value, a.value))
      <4>1. /\ d.value.clock = MergeVector(a.value.clock, b.value.clock)
            /\ d.value.version = a.value.version
        BY <2>1, <3>1, <3>4 DEF MergeValue, IsDoc, IsValue
      <4>2. \A e \in DOMAIN d.value.clock :
              \/ /\ e \in DOMAIN a.value.clock
                 /\ d.value.clock[e] = a.value.clock[e]
              \/ /\ e \in DOMAIN b.value.clock
                 /\ d.value.clock[e] = b.value.clock[e]
        BY <4>1 DEF MergeVector, TakesEvent
      <4>3. QED
        BY <2>1, <2>2, <3>4, <4>1, <4>2 DEF ClockBounded
    <3>5. QED
      BY <3>2, <3>3, <3>4
  <2>5. QED
    BY <2>3, <2>4
<1>4. QED
  BY <1>1, <1>2, <1>3 DEF Made

\* ClockBoundedByVersion is inductive: whatever a step makes is bounded.
THEOREM ClockBoundedCorrect == Spec => []ClockBoundedByVersion
<1>1. Init => ClockBoundedByVersion
  BY DocsMember DEF Init, Has, ClockBoundedByVersion
<1>2. WellFormed /\ ClockBoundedByVersion /\ [Next]_vars => ClockBoundedByVersion'
  <2> SUFFICES ASSUME WellFormed, ClockBoundedByVersion, [Next]_vars,
                      NEW d \in AllDocs'
               PROVE  ClockBounded(d)
    BY DEF ClockBoundedByVersion, ClockBounded
  <2>1. d \in AllDocs \/ Made(d)
    BY StepEffect
  <2>2. QED
    BY <2>1, MadeClockBounded DEF ClockBoundedByVersion
<1>3. QED
  BY <1>1, <1>2, WellFormedCorrect, PTL DEF Spec

-----------------------------------------------------------------------------
(* Histories list superseded versions in order.                            *)

LEMMA MadeOrdered ==
  ASSUME WellFormed, HistoryOrdered, NEW d, Made(d)
  PROVE  Ordered(d)
<1>1. ASSUME NEW data \in Data, NEW n \in Node, NEW t \in Time,
             \/ d = NewCRDTDocument(data, n, t)
             \/ d = DocDelete(NewCRDTDocument(data, n, t))
      PROVE  Ordered(d)
  BY <1>1 DEF Ordered, NewCRDTDocument, DocDelete
<1>2. ASSUME NEW a \in AllDocs, NEW data \in Data, NEW n \in Node,
             NEW t \in Time,
             d = DocUpdate(a, data, n, t) \/ d = DocDelete(a)
      PROVE  Ordered(d)
  <2>1. IsDoc(a) /\ Ordered(a)
    BY DocsTyped DEF HistoryOrdered
  <2>2. /\ a.value.version \in Nat
        /\ a.history \in Seq(Nat)
        /\ Len(a.history) \in Nat
        /\ \A i \in 1..Len(a.history) : a.history[i] \in Nat
    BY <2>1, BoundsAssumption DEF IsDoc, IsValue
  <2>3. CASE d = DocDelete(a)
    BY <2>1, <2>2, <2>3 DEF Ordered, DocDelete, DeleteValue
  <2>4. CASE d = DocUpdate(a, data, n, t) /\ a.deleted
    BY <2>1, <2>4 DEF DocUpdate
  <2>5. CASE d = DocUpdate(a, data, n, t) /\ ~a.deleted
    <3>1. /\ d.value.version = a.value.version + 1
          /\ d.history = IF Len(a.history) < HistoryLimit
                         THEN Append(a.history, a.value.version)
                         ELSE a.history
      BY <2>1, <2>5 DEF DocUpdate, UpdateValue, IsDoc
    <3>2. CASE Len(a.history) < HistoryLimit
      <4>1. /\ Len(d.history) = Len(a.history) + 1
            /\ d.history[Len(a.history) + 1] = a.value.version
            /\ \A i \in 1..Len(a.history) : d.history[i] = a.history[i]
        BY <2>2, <3>1, <3>2
      <4>2. ASSUME NEW i \in 1..Len(d.history)
            PROVE  /\ d.history[i] < d.value.version
                   /\ \A j \in 1..(i - 1) : d.history[j] < d.history[i]
        <5>1. CASE i \in 1..Len(a.history)
          <6>1. /\ a.history[i] < a.value.version
                /\ \A j \in 1..(i - 1) : a.history[j] < a.history[i]
            BY <2>1, <5>1 DEF Ordered
          <6>. QED
            BY <2>2, <3>1, <4>1, <5>1, <6>1
        <5>2. CASE i = Len(a.history) + 1
          <6>1. \A j \in 1..(i - 1) : a.history[j] < a.value.version
            BY <2>1, <2>2, <5>2 DEF Ordered
          <6>. QED
            BY <2>2, <3>1, <4>1, <5>2, <6>1
        <5>. QED
          BY <2>2, <4>1, <4>2, <5>1, <5>2
      <4>. QED
        BY <4>2 DEF Ordered
    <3>3. CASE ~(Len(a.history) < HistoryLimit)
      BY <2>1, <2>2, <3>1, <3>3 DEF Ordered
    <3>4. QED
      BY <3>2, <3>3
  <2>6. QED
    BY <1>2, <2>3, <2>4, <2>5
<1>3. ASSUME NEW a \in AllDocs, NEW b \in AllDocs, d = DocMerge(a, b)
      PROVE  Ordered(d)
  <2>1. IsDoc(a) /\ Ordered(a) /\ IsDoc(b)
    BY DocsTyped DEF HistoryOrdered
  <2>2. d.history = a.history
    BY <1>3, <2>1 DEF DocMerge, IsDoc
  <2>3. /\ a.value.version \in Nat /\ b.value.version \in Nat
        /\ a.history \in Seq(Nat)
        /\ \A i \in 1..Len(a.history) : a.history[i] \in Nat
    BY <2>1, BoundsAssumption DEF IsDoc, IsValue
  <2>4. d.value.version \in Nat /\ a.value.version <= d.value.version
    BY <1>3, <2>1, <2>3 DEF DocMerge, MergeValue, IsDoc, IsValue
  <2>5. QED
    BY <2>1, <2>2, <2>3, <2>4 DEF Ordered
<1>4. QED
  BY <1>1, <1>2, <1>3 DEF Made

THEOREM HistoryOrderedCorrect == Spec => []HistoryOrdered
<1>1. Init => HistoryOrdered
  BY DocsMember DEF Init, Has, HistoryOrdered
<1>2. WellFormed /\ HistoryOrdered /\ [Next]_vars => HistoryOrdered'
  <2> SUFFICES ASSUME WellFormed, HistoryOrdered, [Next]_vars,
                      NEW d \in AllDocs'
               PROVE  Ordered(d)
    BY DEF HistoryOrdered, Ordered
  <2>1. d \in AllDocs \/ Made(d)
    BY StepEffect
  <2>2. QED
    BY <2>1, MadeOrdered DEF HistoryOrdered
<1>3. QED
  BY <1>1, <1>2, WellFormedCorrect, PTL DEF Spec

-----------------------------------------------------------------------------
(* The merge is the join of a semilattice, as far as readers can see.      *)

\* A point as LWWRegister types it, without a bound on versions.
IsPoint(p) ==
  \/ p = [kind |-> "absent"]
  \/ p = [kind |-> "tombstone"]
  \/ \E v, t \in Int, d \in Data :
       p = [kind |-> "live", version |-> v, timestamp |-> t, data |-> d]

LEMMA VisiblePoint ==
  ASSUME NEW d, IsDoc(d)
  PROVE  IsPoint(Visible(d)) /\ Visible(d).kind # "absent"
BY BoundsAssumption DEF IsDoc, IsValue, Visible, IsPoint, Time

LEMMA LeqAntisymmetric ==
  ASSUME NEW p, IsPoint(p), NEW q, IsPoint(q),
         Register!Leq(p, q), Register!Leq(q, p)
  PROVE  p = q
BY DigestAssumption DEF IsPoint, Register!Leq, Register!LiveLeq

LEMMA LeqTotal ==
  ASSUME NEW p, IsPoint(p), NEW q, IsPoint(q)
  PROVE  Register!Leq(p, q) \/ Register!Leq(q, p)
BY DigestAssumption DEF IsPoint, Register!Leq, Register!LiveLeq

LEMMA LeqTransitive ==
  ASSUME NEW p, IsPoint(p), NEW q, IsPoint(q), NEW r, IsPoint(r),
         Register!Leq(p, q), Register!Leq(q, r)
  PROVE  Register!Leq(p, r)
BY DigestAssumption DEF IsPoint, Register!Leq, Register!LiveLeq

LEMMA JoinCommutes ==
  ASSUME NEW p, IsPoint(p), NEW q, IsPoint(q)
  PROVE  Register!Join(p, q) = Register!Join(q, p)
BY LeqTotal, LeqAntisymmetric DEF Register!Join

LEMMA MergeIsJoin ==
  ASSUME NEW a, IsDoc(a), NEW b, IsDoc(b)
  PROVE  Visible(DocMerge(a, b)) = Register!Join(Visible(a), Visible(b))
<1>1. /\ a.value.version \in Int /\ b.value.version \in Int
      /\ a.value.timestamp \in Int /\ b.value.timestamp \in Int
      /\ Digest[a.value.data] \in Int /\ Digest[b.value.data] \in Int
  BY BoundsAssumption, DigestAssumption DEF IsDoc, IsValue, Time
<1>2. CASE b.deleted
  BY <1>2 DEF IsDoc, DocMerge, Visible, Register!Join, Register!Leq
<1>3. CASE ~b.deleted
  <2>1. /\ DocMerge(a, b).deleted = a.deleted
        /\ DocMerge(a, b).value = MergeValue(a.value, b.value)
    BY <1>3 DEF IsDoc, DocMerge
  <2>2. CASE a.deleted
    BY <1>3, <2>1, <2>2 DEF Visible, Register!Join, Register!Leq
  <2>3. CASE ~a.deleted
    <3> DEFINE m == MergeValue(a.value, b.value)
    <3>1. Visible(DocMerge(a, b)) =
            [kind |-> "live", version |-> m.version,
             timestamp |-> m.timestamp, data |-> m.data]
      BY <2>1, <2>3 DEF Visible
    <3>2. CASE Register!LiveLeq(Visible(a), Visible(b))
      <4>1. /\ m.version = b.value.version
            /\ m.timestamp = b.value.timestamp
            /\ m.data = b.value.data
        BY <1>1, <1>3, <2>3, <3>2, DigestAssumption
           DEF IsDoc, IsValue, MergeValue, WinsTie, Visible, Register!LiveLeq
      <4>2. QED
        BY <1>3, <2>3, <3>1, <3>2, <4>1
           DEF Visible, Register!Join, Register!Leq
    <3>3. CASE ~Register!LiveLeq(Visible(a), Visible(b))
      <4>1. /\ m.version = a.value.version
            /\ m.timestamp = a.value.timestamp
            /\ m.data = a.value.data
        BY <1>1, <1>3, <2>3, <3>3, DigestAssumption
           DEF IsDoc, IsValue, MergeValue, WinsTie, Visible, Register!LiveLeq
      <4>2. QED
        BY <1>3, <2>3, <3>1, <3>3, <4>1
           DEF Visible, Register!Join, Register!Leq
    <3>4. QED
      BY <3>2, <3>3
  <2>4. QED
    BY <2>2, <2>3
<1>4. QED
  BY <1>2, <1>3

LEMMA DocsOfTyped ==
  ASSUME WellFormed, NEW id \in DocId, NEW d \in DocsOf(id)
  PROVE  IsDoc(d)
BY DocsTyped DEF AllDocs

\* Replicas that exchange their documents agree, whoever merges first.
THEOREM ExchangeCorrect == Spec => []ExchangeConverges
<1>1. WellFormed => ExchangeConverges
  BY DocsOfTyped, MergeIsJoin, VisiblePoint, JoinCommutes DEF ExchangeConverges
<1>2. QED
  BY <1>1, WellFormedCorrect, PTL

\* Induction over an interval, for membership in a set.
LEMMA IntervalInduction ==
  ASSUME NEW n \in Nat, NEW S, 0 \in S,
         \A k \in 1..n : k - 1 \in S => k \in S
  PROVE  \A k \in 0..n : k \in S
<1> DEFINE T == {k \in 0..n : k \notin S}
           R == OpToRel(<, Nat)
<1>1. SUFFICES ASSUME T # {} PROVE FALSE
  OBVIOUS
<1>2. T \subseteq Nat
  OBVIOUS
<1>3. IsWellFoundedOn(R, Nat)
  BY NatLessThanWellFounded, Zenon
<1>4. PICK k \in T : \A j \in T : <<j, k>> \notin R
  <2> HIDE DEF T, R
  <2>1. QED
    BY <1>1, <1>2, <1>3, WFMin
<1>5. \A j \in T : ~(j < k)
  BY <1>2, <1>4 DEF OpToRel
<1>6. k \in 1..n /\ k - 1 \in 0..n /\ k - 1 < k
  OBVIOUS
<1>7. k - 1 \in S
  BY <1>5, <1>6
<1>8. QED
  BY <1>6, <1>7

\* The function that AfterMerges chooses is there: a run of merges has a result.
Merging(f, n, d, s) ==
  f[0] = d /\ \A k \in 1..n : f[k] = DocMerge(f[k - 1], s[k])

LEMMA MergesExist ==
  ASSUME NEW n \in Nat, NEW d, NEW s
  PROVE  \E f : f = [k \in 0..n |-> f[k]] /\ Merging(f, n, d, s)
<1> DEFINE Runs(f, m) == f = [k \in 0..m |-> f[k]] /\ Merging(f, m, d, s)
           S == {m \in 0..n : \E f : Runs(f, m)}
<1>1. 0 \in S
  <2>1. Runs([k \in 0..0 |-> d], 0)
    BY DEF Merging
  <2>2. QED
    BY <2>1
<1>2. ASSUME NEW m \in 1..n, m - 1 \in S
      PROVE  m \in S
  <2>1. PICK f : Runs(f, m - 1)
    BY <1>2
  <2> DEFINE g == [k \in 0..m |-> IF k = m THEN DocMerge(f[m - 1], s[m])
                                           ELSE f[k]]
  <2>2. /\ g = [k \in 0..m |-> g[k]]
        /\ g[m] = DocMerge(f[m - 1], s[m])
        /\ \A k \in 0..(m - 1) : g[k] = f[k]
    OBVIOUS
  <2> HIDE DEF g
  <2>3. ASSUME NEW k \in 1..m PROVE g[k] = DocMerge(g[k - 1], s[k])
    <3>1. k - 1 \in 0..(m - 1) /\ (k = m \/ k \in 1..(m - 1))
      OBVIOUS
    <3>2. g[k - 1] = f[k - 1]
      BY <2>2, <3>1
    <3>3. CASE k = m
      BY <2>2, <3>2, <3>3
    <3>4. CASE k \in 1..(m - 1)
      <4>1. \A i \in 1..(m - 1) : f[i] = DocMerge(f[i - 1], s[i])
        BY <2>1, Zenon DEF Merging
      <4>2. f[k] = DocMerge(f[k - 1], s[k])
        BY <3>4, <4>1, Zenon
      <4>3. k \in 0..(m - 1)
        BY <3>4
      <4>4. g[k] = f[k]
        BY <2>2, <4>3, Zenon
      <4>5. QED
        BY <3>2, <4>2, <4>4
    <3>5. QED
      BY <3>1, <3>3, <3>4
  <2>4. g[0] = d
    BY <2>1, <2>2 DEF Merging
  <2>5. Runs(g, m)
    BY <2>2, <2>3, <2>4 DEF Merging
  <2>6. QED
    BY <2>5
<1>3. \A m \in 0..n : m \in S
  <2> HIDE DEF S
  <2>1. QED
    BY <1>1, <1>2, IntervalInduction
<1>4. QED
  BY <1>3

LEMMA AfterMergesIs ==
  ASSUME NEW d, NEW s, Len(s) \in Nat
  PROVE  Merging(AfterMerges(d, s), Len(s), d, s)
<1> DEFINE p == AfterMerges(d, s)
<1>1. PICK f : f = [k \in 0..Len(s) |-> f[k]] /\ Merging(f, Len(s), d, s)
  BY MergesExist
<1>2. f = [k \in 0..Len(s) |-> IF k = 0 THEN d ELSE DocMerge(f[k - 1], s[k])]
  <2>1. \A k \in 0..Len(s) :
          f[k] = IF k = 0 THEN d ELSE DocMerge(f[k - 1], s[k])
    BY <1>1 DEF Merging
  <2>2. QED
    BY <1>1, <2>1
<1>3. p = [k \in 0..Len(s) |-> IF k = 0 THEN d ELSE DocMerge(p[k - 1], s[k])]
  BY <1>2, Zenon DEF AfterMerges
<1> HIDE DEF p
<1>4. Merging(p, Len(s), d, s)
  BY <1>3 DEF Merging
<1>5. QED
  BY <1>4 DEF p

\* The document o shows the greatest of the points of d and of the first k
\* documents of s.
Greatest(o, k, d, s) ==
  /\ IsDoc(o)
  /\ Visible(o) = Visible(d) \/ \E i \in 1..k : Visible(o) = Visible(s[i])
  /\ Register!Leq(Visible(d), Visible(o))
  /\ \A i \in 1..k : Register!Leq(Visible(s[i]), Visible(o))

LEMMA MergeKeepsGreatest ==
  ASSUME NEW d, IsDoc(d), NEW s, NEW k \in Nat \ {0},
         \A i \in 1..k : IsDoc(s[i]), NEW o, Greatest(o, k - 1, d, s)
  PROVE  Greatest(DocMerge(o, s[k]), k, d, s)
<1> DEFINE p == Visible(o)
           q == Visible(s[k])
           r == Visible(DocMerge(o, s[k]))
<1>1. IsDoc(o) /\ IsDoc(s[k]) /\ IsDoc(DocMerge(o, s[k]))
  BY MergeType DEF Greatest
<1>2. r = Register!Join(p, q)
  BY <1>1, MergeIsJoin
<1>3. IsPoint(p) /\ IsPoint(q) /\ \A i \in 1..k : IsPoint(Visible(s[i]))
  BY <1>1, VisiblePoint
<1>4. IsPoint(Visible(d))
  BY VisiblePoint
<1>5. \A i \in 1..k : i \in 1..(k - 1) \/ i = k
  OBVIOUS
<1> HIDE DEF p, q, r
<1>6. r \in {p, q} /\ Register!Leq(p, r) /\ Register!Leq(q, r) /\ IsPoint(r)
  BY <1>2, <1>3, LeqTotal DEF Register!Join
<1>7. r = Visible(d) \/ \E i \in 1..k : r = Visible(s[i])
  <2>1. p = Visible(d) \/ \E i \in 1..k : p = Visible(s[i])
    BY DEF Greatest, p
  <2>2. q = Visible(s[k]) /\ k \in 1..k
    BY DEF q
  <2>3. QED
    BY <1>6, <2>1, <2>2
<1>8. Register!Leq(Visible(d), r)
  <2>1. Register!Leq(Visible(d), p)
    BY DEF Greatest, p
  <2>2. QED
    BY <1>3, <1>4, <1>6, <2>1, LeqTransitive
<1>9. ASSUME NEW i \in 1..k PROVE Register!Leq(Visible(s[i]), r)
  <2>1. CASE i = k
    BY <1>6, <2>1 DEF q
  <2>2. CASE i \in 1..(k - 1)
    <3>1. Register!Leq(Visible(s[i]), p)
      BY <2>2 DEF Greatest, p
    <3>2. QED
      BY <1>3, <1>6, <3>1, LeqTransitive
  <2>3. QED
    BY <1>5, <2>1, <2>2
<1>10. QED
  BY <1>1, <1>7, <1>8, <1>9 DEF Greatest, r

LEMMA MergeAllGreatest ==
  ASSUME NEW d, IsDoc(d), NEW s, Len(s) \in Nat, \A i \in 1..Len(s) : IsDoc(s[i])
  PROVE  Greatest(MergeAll(d, s), Len(s), d, s)
<1> DEFINE n == Len(s)
           f == AfterMerges(d, s)
           S == {k \in 0..n : Greatest(f[k], k, d, s)}
<1>1. Merging(f, n, d, s)
  BY AfterMergesIs
<1> HIDE DEF f
<1>2. 0 \in S
  <2>1. Register!Leq(Visible(d), Visible(d))
    BY VisiblePoint, LeqTotal
  <2>2. f[0] = d
    BY <1>1 DEF Merging
  <2>3. Greatest(d, 0, d, s)
    BY <2>1 DEF Greatest
  <2>4. QED
    BY <2>2, <2>3
<1>3. ASSUME NEW k \in 1..n, k - 1 \in S
      PROVE  k \in S
  <2>1. Greatest(f[k - 1], k - 1, d, s)
    BY <1>3
  <2>2. \A i \in 1..k : IsDoc(s[i])
    OBVIOUS
  <2>3. Greatest(DocMerge(f[k - 1], s[k]), k, d, s)
    BY <2>1, <2>2, MergeKeepsGreatest
  <2>4. QED
    BY <1>1, <2>3 DEF Merging
<1>4. n \in S
  <2> HIDE DEF S
  <2>1. \A k \in 0..n : k \in S
    BY <1>2, <1>3, IntervalInduction
  <2>2. QED
    BY <2>1
<1>5. QED
  BY <1>4 DEF MergeAll, f

\* What readers see after any number of merges, in any order and with any
\* repetitions, is the greatest of the points that took part.
THEOREM GreatestIsSeenCorrect == Spec => []GreatestIsSeen
<1>1. ASSUME WellFormed, NEW id \in DocId, NEW d \in DocsOf(id),
             NEW s \in Deliveries(id)
      PROVE  LET seen == Visible(MergeAll(d, s))
             IN  /\ seen \in Points(d, s)
                 /\ \A p \in Points(d, s) : Register!Leq(p, seen)
  <2> DEFINE n == MaxDeliveries
  <2>1. s \in [1..n -> DocsOf(id)]
    BY DEF Deliveries
  <2>2. n \in Nat
    BY BoundsAssumption
  <2>3. s \in Seq(DocsOf(id)) /\ Len(s) = n
    BY <2>1, <2>2
  <2>4. IsDoc(d) /\ \A i \in 1..Len(s) : IsDoc(s[i])
    BY <1>1, <2>1, <2>3, DocsOfTyped
  <2>5. Greatest(MergeAll(d, s), Len(s), d, s)
    BY <2>2, <2>3, <2>4, MergeAllGreatest
  <2>6. QED
    BY <2>5 DEF Greatest, Points
<1>2. WellFormed => GreatestIsSeen
  BY <1>1 DEF GreatestIsSeen
<1>3. QED
  BY <1>2, WellFormedCorrect, PTL

\* Strong convergence: replicas that have met the same points show the same
\* content, whatever each merged, how often and in which order.
THEOREM StrongConvergence ==
  ASSUME NEW d, IsDoc(d), NEW s, Len(s) \in Nat, \A i \in 1..Len(s) : IsDoc(s[i]),
         NEW e, IsDoc(e), NEW t, Len(t) \in Nat, \A i \in 1..Len(t) : IsDoc(t[i]),
         Points(d, s) = Points(e, t)
  PROVE  Visible(MergeAll(d, s)) = Visible(MergeAll(e, t))
<1> DEFINE a == Visible(MergeAll(d, s))
           b == Visible(MergeAll(e, t))
<1>1. /\ IsDoc(MergeAll(d, s)) /\ a \in Points(d, s)
      /\ \A p \in Points(d, s) : Register!Leq(p, a)
  BY MergeAllGreatest DEF Greatest, Points
<1>2. /\ IsDoc(MergeAll(e, t)) /\ b \in Points(e, t)
      /\ \A p \in Points(e, t) : Register!Leq(p, b)
  BY MergeAllGreatest DEF Greatest, Points
<1>3. IsPoint(a) /\ IsPoint(b)
  BY <1>1, <1>2, VisiblePoint
<1> HIDE DEF a, b
<1>4. Register!Leq(a, b) /\ Register!Leq(b, a)
  BY <1>1, <1>2
<1>5. QED
  BY <1>3, <1>4, LeqAntisymmetric DEF a, b

\* A merge that reports nothing changed changed nothing.
THEOREM ReportCorrect == Spec => []UnreportedMergeIsNoop
<1>1. ASSUME WellFormed, NEW id \in DocId, NEW a \in DocsOf(id),
             NEW b \in DocsOf(id), ~DocMergeReports(a, b)
      PROVE  DocMerge(a, b) = a
  <2>1. IsDoc(a) /\ IsDoc(b)
    BY <1>1, DocsOfTyped
  <2>2. MergeVector(a.value.clock, b.value.clock) = a.value.clock
    BY <1>1, <2>1 DEF DocMergeReports, MergeValueReports, MergeVectorReports,
                      MergeVector, TakesEvent, IsDoc, IsValue, IsVector
  <2>3. MergeValue(a.value, b.value) = a.value
    BY <1>1, <2>1, <2>2
       DEF DocMergeReports, MergeValueReports, MergeValue, IsDoc, IsValue
  <2>4. QED
    BY <1>1, <2>1, <2>3 DEF DocMergeReports, DocMerge, IsDoc
<1>2. WellFormed => UnreportedMergeIsNoop
  BY <1>1 DEF UnreportedMergeIsNoop
<1>3. QED
  BY <1>2, WellFormedCorrect, PTL

-----------------------------------------------------------------------------
(* The replicas implement the last-writer-wins registers.                  *)

Regs == [r \in Node |-> [id \in DocId |-> PointOf(r, id)]]
Msgs == {[id |-> m.id, point |-> Visible(m.doc)] : m \in net}

LEMMA RegsStep ==
  ASSUME WellFormed, NEW r \in Node, NEW id \in DocId, NEW doc,
         SetDoc(r, id, doc)
  PROVE  /\ Regs' = [Regs EXCEPT ![r][id] = Visible(doc)]
         /\ Visible(doc) = PointOf(r, id) => Regs' = Regs
<1>1. \A n \in Node, i \in DocId :
        PointOf(n, i)' = IF n = r /\ i = id THEN Visible(doc) ELSE PointOf(n, i)
  BY DEF WellFormed, SetDoc, Assign, PointOf, Has
<1>2. QED
  BY <1>1 DEF Regs

\* What the steps of the store become to the registers.
StepOfRegister == Replaces \/ Register!LNext \/ UNCHANGED <<Regs, Msgs>>

\* A local step that moves one document up is a Write of the registers.
LEMMA UpwardStep ==
  ASSUME WellFormed, WellFormed', NEW r \in Node, NEW id \in DocId, NEW doc,
         SetDoc(r, id, doc), UNCHANGED net,
         Register!Leq(PointOf(r, id), Visible(doc))
  PROVE  StepOfRegister
<1>1. Regs' = [Regs EXCEPT ![r][id] = Visible(doc)] /\ Msgs' = Msgs
  BY RegsStep DEF Msgs
<1>2. Visible(doc) \in Register!Point
  <2>1. Has(r, id)' /\ store'[r][id] = doc
    BY DEF WellFormed, SetDoc, Assign, Has
  <2>2. IsDoc(doc)
    BY <2>1 DEF WellFormed, Has
  <2>3. QED
    BY <2>2, BoundsAssumption
       DEF IsDoc, IsValue, Visible, Register!Point, Register!Live,
           Register!Tombstone
<1>3. CASE Visible(doc) = PointOf(r, id)
  BY <1>1, <1>3, RegsStep DEF StepOfRegister
<1>4. CASE Visible(doc) # PointOf(r, id)
  <2>1. Regs'[r][id] = Visible(doc) /\ Regs[r][id] = PointOf(r, id)
    BY <1>1 DEF Regs
  <2>2. Register!Moves(r, id)
    BY <1>1, <2>1 DEF Register!Moves, Regs, Msgs
  <2>3. Register!Write(r, id)
    BY <1>2, <1>4, <2>1, <2>2 DEF Register!Write, Regs
  <2>4. QED
    BY <2>3 DEF StepOfRegister, Register!LNext
<1>5. QED
  BY <1>3, <1>4

LEMMA StepRefines ==
  ASSUME WellFormed, WellFormed', [Next]_vars
  PROVE  StepOfRegister
<1>1. ASSUME NEW r \in Node, NEW id \in DocId, NEW w \in Writes,
             Put(r, id, w[1], w[2])
      PROVE  StepOfRegister
  <2>1. CASE Has(r, id)
    BY <1>1, <2>1 DEF StepOfRegister, Replaces
  <2>2. CASE ~Has(r, id)
    <3>1. Register!Leq(PointOf(r, id), Visible(NewCRDTDocument(w[1], r, w[2])))
      BY <2>2 DEF PointOf, Register!Leq
    <3>2. QED
      BY <1>1, <3>1, UpwardStep DEF Put
  <2>3. QED
    BY <2>1, <2>2
<1>2. ASSUME NEW r \in Node, NEW id \in DocId, NEW data \in Data,
             NEW time \in Time, Update(r, id, data, time)
      PROVE  StepOfRegister
  <2> DEFINE d == store[r][id]
             u == DocUpdate(d, data, r, time)
  <2>1. IsDoc(d) /\ PointOf(r, id) = Visible(d)
    BY <1>2 DEF WellFormed, Update, Has, PointOf
  <2>2. CASE d.deleted
    BY <1>2, <2>1, <2>2, UpwardStep
       DEF Update, DocUpdate, Register!Leq, Visible
  <2>3. CASE ~d.deleted
    <3>1. /\ ~u.deleted
          /\ u.value.version = d.value.version + 1
      BY <2>1, <2>3 DEF DocUpdate, UpdateValue, IsDoc
    <3>2. Register!Leq(Visible(d), Visible(u))
      BY <2>1, <2>3, <3>1, BoundsAssumption
         DEF Register!Leq, Register!LiveLeq, Visible, IsDoc, IsValue
    <3>3. QED
      BY <1>2, <2>1, <3>2, UpwardStep DEF Update
  <2>4. QED
    BY <2>2, <2>3
<1>3. ASSUME NEW r \in Node, NEW id \in DocId, NEW time \in Time,
             PutTombstone(r, id, time)
      PROVE  StepOfRegister
  <2> DEFINE t == DocDelete(NewCRDTDocument(PathData, r, time))
  <2>1. Register!Leq(PointOf(r, id), Visible(t))
    BY DEF DocDelete, Visible, Register!Leq
  <2>2. QED
    BY <1>3, <2>1, UpwardStep DEF PutTombstone
<1>4. ASSUME NEW r \in Node, NEW id \in DocId, Delete(r, id)
      PROVE  StepOfRegister
  <2>1. Register!Leq(PointOf(r, id), Visible(DocDelete(store[r][id])))
    BY DEF DocDelete, Visible, Register!Leq
  <2>2. QED
    BY <1>4, <2>1, UpwardStep DEF Delete
<1>5. ASSUME NEW r \in Node, NEW id \in DocId, Send(r, id)
      PROVE  StepOfRegister
  <2>1. UNCHANGED Regs
    BY <1>5 DEF Send, Regs, PointOf, Has
  <2>2. Msgs' = Msgs \cup {[id |-> id, point |-> Regs[r][id]]}
    <3>1. Regs[r][id] = Visible(store[r][id])
      BY <1>5 DEF Send, Regs, PointOf
    <3>2. net' = net \cup {[id |-> id, doc |-> store[r][id]]}
      BY <1>5 DEF Send
    <3> DEFINE x == [id |-> id, doc |-> store[r][id]]
               y == [id |-> id, point |-> Regs[r][id]]
    <3>3. y = [id |-> x.id, point |-> Visible(x.doc)]
      BY <3>1
    <3>4. net' = net \cup {x}
      BY <3>2
    <3> HIDE DEF x, y
    <3>5. \A p : p \in Msgs' <=> p \in Msgs \/ p = y
      BY <3>3, <3>4 DEF Msgs
    <3>6. Msgs' = Msgs \cup {y}
      BY <3>5
    <3>7. QED
      BY <3>6 DEF y
  <2>3. Register!Announce(r, id)
    BY <2>1, <2>2 DEF Register!Announce, Regs, Msgs
  <2>4. QED
    BY <2>3 DEF StepOfRegister, Register!LNext
<1>6. ASSUME NEW r \in Node, NEW m \in net, MergeDocument(r, m)
      PROVE  StepOfRegister
  <2> DEFINE p == [id |-> m.id, point |-> Visible(m.doc)]
             d == IF Has(r, m.id) THEN DocMerge(store[r][m.id], m.doc)
                                  ELSE m.doc
  <2>1. m.id \in DocId /\ IsDoc(m.doc) /\ p \in Msgs
    BY DEF WellFormed, Msgs
  <2>2. SetDoc(r, m.id, d) /\ UNCHANGED net
    BY <1>6 DEF MergeDocument
  <2>3. Visible(d) = Register!Join(Regs[r][m.id], p.point)
    <3>1. CASE Has(r, m.id)
      <4>1. IsDoc(store[r][m.id]) /\ Regs[r][m.id] = Visible(store[r][m.id])
        BY <2>1, <3>1 DEF WellFormed, Has, Regs, PointOf
      <4>2. QED
        BY <2>1, <3>1, <4>1, MergeIsJoin
    <3>2. CASE ~Has(r, m.id)
      <4>1. Regs[r][m.id].kind = "absent"
        BY <2>1, <3>2 DEF Regs, PointOf
      <4>2. QED
        BY <3>2, <4>1 DEF Register!Join, Register!Leq
    <3>3. QED
      BY <3>1, <3>2
  <2> HIDE DEF d
  <2>4. Regs' = [Regs EXCEPT ![r][m.id] = Visible(d)] /\ Msgs' = Msgs
    BY <2>1, <2>2, RegsStep DEF Msgs
  <2>5. Regs' = [Regs EXCEPT ![r][p.id] = Register!Join(@, p.point)]
    BY <2>1, <2>3, <2>4 DEF Regs
  <2>6. Register!Deliver(r, p)
    BY <2>1, <2>4, <2>5 DEF Register!Deliver, Regs, Msgs
  <2>7. QED
    BY <2>1, <2>6 DEF StepOfRegister, Register!LNext, Msgs
<1>7. ASSUME NEW m \in net, Lose(m)
      PROVE  StepOfRegister
  <2> DEFINE p == [id |-> m.id, point |-> Visible(m.doc)]
  <2>1. UNCHANGED Regs
    BY <1>7 DEF Lose, Regs, PointOf, Has
  <2>2. Msgs' = Msgs \/ Msgs' = Msgs \ {p}
    BY <1>7 DEF Lose, Msgs
  <2>3. CASE Msgs' = Msgs \ {p}
    <3>1. Register!Drop(p) /\ p \in Msgs
      BY <2>1, <2>3 DEF Register!Drop, Regs, Msgs
    <3>2. QED
      BY <3>1 DEF StepOfRegister, Register!LNext, Msgs
  <2>4. QED
    BY <2>1, <2>2, <2>3 DEF StepOfRegister
<1>8. CASE UNCHANGED vars
  BY <1>8 DEF StepOfRegister, vars, Regs, Msgs, PointOf, Has
<1>9. QED
  BY <1>1, <1>2, <1>3, <1>4, <1>5, <1>6, <1>7, <1>8, NextSteps

\* The store refines LWWRegister but for the puts over a document: writes only
\* move a document up, deliveries join, and nothing else changes what a reader
\* sees.
THEOREM RefinementCorrect == Spec => ImplementsRegister
<1>1. Init => Register!LInit
  BY DEF Init, PointOf, Has, Register!LInit, Register!Absent
<1>2. WellFormed /\ WellFormed' /\ [Next]_vars
        => [Replaces \/ Register!LNext]_(Register!lvars)
  BY StepRefines DEF StepOfRegister, Register!lvars, Regs, Msgs
<1>3. QED
  BY <1>1, <1>2, WellFormedCorrect, PTL DEF Spec, ImplementsRegister

=============================================================================
