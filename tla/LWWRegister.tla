---------------------------- MODULE LWWRegister ----------------------------
(***************************************************************************)
(* What the replicated documents promise, independently of how they do it: *)
(* "data mutate locally and converge mathematically in a join-semilattice" *)
(* (docs/vision_consecuencias.md:57).  Every replica of a document holds a *)
(* point of a join-semilattice.  A local write moves the point strictly    *)
(* up, a delivered point is joined with the local one, and nothing else    *)
(* ever moves it: no point is ever taken back.  Messages may be lost,      *)
(* repeated and reordered.                                                 *)
(***************************************************************************)
EXTENDS Integers

CONSTANTS Node, DocId, Version, Timestamp, Data, Digest

VARIABLES
  reg,    \* reg[r][id]: the point replica r holds for document id
  msgs    \* points in flight, each with the document it belongs to

Absent    == [kind |-> "absent"]
Tombstone == [kind |-> "tombstone"]
Live == [kind : {"live"}, version : Version, timestamp : Timestamp, data : Data]
Point == {Absent, Tombstone} \cup Live

\* Live points are ordered by version, then timestamp, then digest.
LiveLeq(p, q) ==
  \/ p.version < q.version
  \/ p.version = q.version /\ p.timestamp < q.timestamp
  \/ /\ p.version = q.version
     /\ p.timestamp = q.timestamp
     /\ Digest[p.data] <= Digest[q.data]

Leq(p, q) ==
  \/ p.kind = "absent"
  \/ q.kind = "tombstone"
  \/ p.kind = "live" /\ q.kind = "live" /\ LiveLeq(p, q)

Join(p, q) == IF Leq(p, q) THEN q ELSE p

-----------------------------------------------------------------------------
lvars == <<reg, msgs>>

LTypeOK ==
  /\ reg \in [Node -> [DocId -> Point]]
  /\ msgs \subseteq [id : DocId, point : Point]

LInit ==
  /\ reg = [r \in Node |-> [id \in DocId |-> Absent]]
  /\ msgs = {}

\* The point of one replica for one document, and nothing else, may change.
Moves(r, id) ==
  /\ UNCHANGED msgs
  /\ reg' = [reg EXCEPT ![r][id] = reg'[r][id]]

Write(r, id) ==
  /\ reg'[r][id] \in Point \ {reg[r][id]}
  /\ Leq(reg[r][id], reg'[r][id])
  /\ Moves(r, id)

Announce(r, id) ==
  /\ msgs' = msgs \cup {[id |-> id, point |-> reg[r][id]]}
  /\ UNCHANGED reg

Deliver(r, m) ==
  /\ m \in msgs
  /\ reg' = [reg EXCEPT ![r][m.id] = Join(@, m.point)]
  /\ UNCHANGED msgs

Drop(m) ==
  /\ msgs' = msgs \ {m}
  /\ UNCHANGED reg

LNext ==
  \/ \E r \in Node, id \in DocId : Write(r, id) \/ Announce(r, id)
  \/ \E r \in Node, m \in msgs : Deliver(r, m)
  \/ \E m \in msgs : Drop(m)

LSpec == LInit /\ [][LNext]_lvars

=============================================================================
