---------------------------- MODULE CRDTDocument ----------------------------
(***************************************************************************)
(* The replicated document of src/storage/crdt.go as pure operators: the   *)
(* dotted vector, the value it versions and the document around the value. *)
(* Every operator takes the receiver of the Go method as its first         *)
(* argument and returns the receiver after the call; the Boolean a Go      *)
(* method returns is a second operator named ...Reports.                   *)
(*                                                                         *)
(* Left out: Metadata, Signature, Operation, Source, CreatedAt, UpdatedAt  *)
(* and DottedVector.Version, which no decision of the code ever reads; the *)
(* history keeps the version of each retained value, not the value.        *)
(*                                                                         *)
(* An operator named X_Something is X with a plausible bug in it.  It is   *)
(* used nowhere: the mutation runs put it in the place of X to see that a  *)
(* property notices.                                                       *)
(***************************************************************************)
EXTENDS Integers, Sequences, FiniteSets

CONSTANTS
  Node,          \* identities of the nodes that write (NodeID)
  Data,          \* contents a document can hold
  Digest,        \* sha256 of a content, as a number that orders like it
  HistoryLimit   \* 10 in the code: values kept in a document's history

(* SHA-256 is taken to have no collision among the contents in use. *)
ASSUME DigestAssumption ==
  /\ Digest \in [Data -> Nat]
  /\ \A a, b \in Data : Digest[a] = Digest[b] => a = b

ASSUME HistoryLimitAssumption == HistoryLimit \in Nat

-----------------------------------------------------------------------------
(* Dotted vectors: a finite map from events to the version they produced. *)

EventID == Node \X (Nat \ {0})

IsVector(v) ==
  /\ v = [e \in DOMAIN v |-> v[e]]
  /\ IsFiniteSet(DOMAIN v)
  /\ DOMAIN v \subseteq EventID
  /\ \A e \in DOMAIN v : v[e] \in Nat

NewDottedVector == [e \in {} |-> 0]

AddEvent(v, event, version) ==
  [e \in DOMAIN v \cup {event} |-> IF e = event THEN version ELSE v[e]]

\* Whether MergeVector(v, w) takes the entry of w for event e.
TakesEvent(v, w, e) ==
  e \in DOMAIN w /\ (e \notin DOMAIN v \/ w[e] > v[e])

MergeVector(v, w) ==
  [e \in DOMAIN v \cup DOMAIN w |-> IF TakesEvent(v, w, e) THEN w[e] ELSE v[e]]

MergeVectorReports(v, w) == \E e \in DOMAIN w : TakesEvent(v, w, e)

Size(v) == Cardinality(DOMAIN v)

-----------------------------------------------------------------------------
(* Values. *)

NewCRDTValue_SequenceFromZero(data, node, time) ==
  [ data |-> data, version |-> 1, timestamp |-> time,
    clock |-> AddEvent(NewDottedVector, <<node, 0>>, 1) ]

NewCRDTValue(data, node, time) ==
  [ data |-> data, version |-> 1, timestamp |-> time,
    clock |-> AddEvent(NewDottedVector, <<node, 1>>, 1) ]

UpdateValue(c, data, node, time) ==
  [ data |-> data, version |-> c.version + 1, timestamp |-> time,
    clock |-> AddEvent(c.clock, <<node, Size(c.clock) + 1>>, c.version + 1) ]

WinsTie_NoDigest(o, c) == o.timestamp >= c.timestamp

\* At equal versions the later timestamp wins, then the larger digest.
WinsTie(o, c) ==
  \/ o.timestamp > c.timestamp
  \/ o.timestamp = c.timestamp /\ Digest[c.data] < Digest[o.data]

MergeValue_KeepsVersion(c, o) ==
  IF o.version > c.version
  THEN [o EXCEPT !.version = c.version]
  ELSE [c EXCEPT !.clock = MergeVector(c.clock, o.clock)]

\* A newer version replaces everything, the vector included; a won tie takes
\* the content but keeps the local vector; otherwise only the vectors merge.
MergeValue(c, o) ==
  IF o.version > c.version
  THEN o
  ELSE IF o.version = c.version /\ WinsTie(o, c)
       THEN [c EXCEPT !.data = o.data, !.timestamp = o.timestamp]
       ELSE [c EXCEPT !.clock = MergeVector(c.clock, o.clock)]

MergeValueReports_IgnoresVectors(c, o) ==
  o.version > c.version \/ (o.version = c.version /\ WinsTie(o, c))

MergeValueReports(c, o) ==
  \/ o.version > c.version
  \/ o.version = c.version /\ WinsTie(o, c)
  \/ MergeVectorReports(c.clock, o.clock)

-----------------------------------------------------------------------------
(* Documents. *)

NewCRDTDocument(data, node, time) ==
  [value |-> NewCRDTValue(data, node, time), history |-> <<>>, deleted |-> FALSE]

DocUpdate_RecordsNewVersion(d, data, node, time) ==
  IF d.deleted
  THEN d
  ELSE [d EXCEPT
         !.history = IF Len(@) < HistoryLimit
                     THEN Append(@, d.value.version + 1) ELSE @,
         !.value = UpdateValue(@, data, node, time)]

\* An update of a deleted document does nothing.  The history stops growing
\* once it is full: the oldest values stay, the newest are not recorded.
DocUpdate(d, data, node, time) ==
  IF d.deleted
  THEN d
  ELSE [d EXCEPT
         !.history = IF Len(@) < HistoryLimit THEN Append(@, d.value.version)
                                              ELSE @,
         !.value = UpdateValue(@, data, node, time)]

DocMerge_Resurrects(d, o) ==
  IF o.deleted
  THEN [d EXCEPT !.deleted = TRUE]
  ELSE [d EXCEPT !.deleted = FALSE, !.value = MergeValue(@, o.value)]

DocMerge(d, o) ==
  IF o.deleted
  THEN [d EXCEPT !.deleted = TRUE]
  ELSE [d EXCEPT !.value = MergeValue(@, o.value)]

DocMergeReports(d, o) == o.deleted \/ MergeValueReports(d.value, o.value)

\* A deletion bumps the version but records no event and keeps the timestamp.
DeleteValue(c) ==
  [ data |-> c.data, version |-> c.version + 1, timestamp |-> c.timestamp, clock |-> c.clock ]

DocDelete(d) ==
  [ value |-> DeleteValue(d.value), history |-> d.history,
    deleted |-> TRUE ]

=============================================================================
