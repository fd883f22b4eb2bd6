------------------------- MODULE MCPersistenceStore -------------------------
(* Instance of PersistenceStore for TLC. *)
EXTENDS PersistenceStore, TLC

CONSTANTS v

MCKey == {1, 2}
MCValue == {v, EmptyValue}

\* All keys, and the keys with a prefix that only the second one has.
MCPrefix == {[first |-> 0, last |-> 9], [first |-> 2, last |-> 2]}

\* A batch of two good keys and one with an empty key among them; each kind of
\* entry under some key.
MCMade ==
  { BatchWrite([k \in {1, 2} |-> IF k = 1 THEN v ELSE EmptyValue]),
    BatchWrite([k \in {1, EmptyKey} |-> v]),
    PutWithTTL(2, v), GetSequence(1, v), Delete(1), Read(2),
    Scan([first |-> 0, last |-> 9]), Scan([first |-> 2, last |-> 2]),
    CloseRequest }

=============================================================================
