------------------------------ MODULE FSProofs ------------------------------
(***************************************************************************)
(* Proofs about ReplicatedFS: the invariants of the run fs, for any number *)
(* of paths, chunks and documents.                                         *)
(***************************************************************************)
EXTENDS ReplicatedFS, TLAPS

-----------------------------------------------------------------------------
(* The inductive invariant.  The chunks a running WriteFile has passed are *)
(* durable before its file refers to them, and there is room for the       *)
(* document it will put; what was acknowledged is what the file refers to; *)
(* a tombstone object exists only for a deleted file; and the two          *)
(* documents SyncWithPeer holds are of one path.                           *)

DoneDurable ==
  op # NoOp => \A i \in 1..Len(op.done) : Durable(op.done[i])

OpMayPut == op # NoOp => CanPutDoc

AckedReferred == \A p \in DOMAIN acked : acked[p] = files[p].chunks

HeapConsistent ==
  \A i \in 1..Len(heap) :
    /\ heap[i].path \in DOMAIN crdt
    /\ heap[i].deleted => files[heap[i].path].deleted

SyncConsistent ==
  /\ sync.pc \in {"local", "merge"} => sync.remote \in 1..Len(heap)
  /\ sync.pc = "merge" => /\ sync.local \in 1..Len(heap)
                          /\ heap[sync.local].path = heap[sync.remote].path

IInv ==
  /\ TypeOK
  /\ ReferencedChunksDurable
  /\ DoneDurable
  /\ OpMayPut
  /\ AckedReferred
  /\ HeapConsistent
  /\ SyncConsistent

-----------------------------------------------------------------------------
(* Helpers. *)

\* A content is a sequence of at most MaxChunks blocks.
LEMMA ContentsAreSequences ==
  ASSUME NEW s \in Contents
  PROVE  s \in Seq(Block) /\ Len(s) <= MaxChunks
<1>1. PICK n \in 0..MaxChunks : s \in [1..n -> Block]
  BY DEF Contents
<1>2. s \in Seq(Block) /\ Len(s) = n
  BY <1>1, FSAssumption
<1>. QED
  BY <1>1, <1>2, FSAssumption

\* Of two numbers whose sum is bounded, the first is; and it may take one from
\* the second.
LEMMA SumBound ==
  ASSUME NEW i \in Nat, NEW j \in Nat, i + j <= MaxChunks
  PROVE  i <= MaxChunks /\ (i + 1) + (j - 1) <= MaxChunks
BY FSAssumption

\* Which set of paths documents are typed over may grow.
LEMMA DocumentGrows ==
  ASSUME NEW S, NEW T, S \subseteq T, NEW h \in Seq(Document(S))
  PROVE  h \in Seq(Document(T))
<1>1. Document(S) \subseteq Document(T)
  BY DEF Document
<1>. QED
  BY <1>1

\* A step that changes one document in place leaves a heap of documents.
LEMMA OneDocument ==
  ASSUME NEW S, NEW h \in Seq(Document(S)), NEW l \in 1..Len(h), NEW d \in Document(S)
  PROVE  LET g == [h EXCEPT ![l] = d]
         IN  /\ g \in Seq(Document(S)) /\ Len(g) = Len(h)
             /\ g[l] = d /\ \A i \in 1..Len(h) : i # l => g[i] = h[i]
OBVIOUS

-----------------------------------------------------------------------------
LEMMA InitInv == Init => IInv
<1>. SUFFICES ASSUME Init PROVE IInv
  OBVIOUS
<1>. USE FSAssumption DEF Init, Empty, Idle, At
<1>1. TypeOK
  <2>1. FilesTyped
    BY DEF FilesTyped
  <2>2. OpTyped
    BY DEF OpTyped
  <2>3. DocsTyped
    BY DEF DocsTyped
  <2>4. SyncTyped
    BY DEF SyncTyped
  <2>5. AckedTyped
    BY DEF AckedTyped
  <2>. QED
    BY <2>1, <2>2, <2>3, <2>4, <2>5 DEF TypeOK
<1>2. ReferencedChunksDurable /\ DoneDurable /\ OpMayPut /\ AckedReferred
  BY DEF ReferencedChunksDurable, DoneDurable, OpMayPut, AckedReferred
<1>3. HeapConsistent /\ SyncConsistent
  BY DEF HeapConsistent, SyncConsistent
<1>. QED
  BY <1>1, <1>2, <1>3 DEF IInv

\* What BeginWrite does to the table of files, seen from outside.
LEMMA BeginWriteInv ==
  ASSUME IInv, NEW p \in Path, NEW data \in Contents, BeginWrite(p, data)
  PROVE  IInv'
<1>. USE FSAssumption DEF BeginWrite, storeVars, crdtVars
<1>1. data \in Seq(Block) /\ Len(data) <= MaxChunks /\ Len(data) \in Nat
  BY ContentsAreSequences
<1>2. /\ DOMAIN files' = DOMAIN files \cup {p}
      /\ files' \in [DOMAIN files' -> File]
      /\ \A q \in DOMAIN files : files'[q] = files[q]
      /\ p \notin DOMAIN files => files'[p] = [chunks |-> <<>>, deleted |-> FALSE]
  <2>1. CASE p \in DOMAIN files
    BY <2>1 DEF IInv, TypeOK, FilesTyped
  <2>2. CASE p \notin DOMAIN files
    <3>1. [chunks |-> <<>>, deleted |-> FALSE] \in File
      BY DEF File
    <3>2. files' = Assign(files, p, [chunks |-> <<>>, deleted |-> FALSE])
      BY <2>2
    <3>3. files \in [DOMAIN files -> File]
      BY DEF IInv, TypeOK, FilesTyped
    <3>4. /\ files' \in [DOMAIN files \cup {p} -> File]
          /\ DOMAIN files' = DOMAIN files \cup {p}
          /\ files'[p] = [chunks |-> <<>>, deleted |-> FALSE]
          /\ \A q \in DOMAIN files : q # p => files'[q] = files[q]
      BY <3>1, <3>2, <3>3 DEF Assign
    <3>. QED
      BY <2>2, <3>4
  <2>. QED
    BY <2>1, <2>2
<1>3. FilesTyped'
  <2>1. \A q \in DOMAIN files' : Len(files'[q].chunks) <= MaxChunks
    <3>1. Len(<<>>) = 0
      OBVIOUS
    <3>. QED
      BY <1>2, <3>1 DEF IInv, TypeOK, FilesTyped
  <2>2. DOMAIN files' \subseteq Path
    BY <1>2 DEF IInv, TypeOK, FilesTyped
  <2>. QED
    BY <1>2, <2>1, <2>2 DEF IInv, TypeOK, FilesTyped
<1>4. OpTyped'
  BY <1>1, <1>2 DEF OpTyped
<1>5. DocsTyped'
  BY <1>2, DocumentGrows DEF IInv, TypeOK, DocsTyped
<1>6. SyncTyped' /\ AckedTyped'
  BY <1>2 DEF IInv, TypeOK, SyncTyped, AckedTyped
<1>7. ReferencedChunksDurable'
  BY <1>2 DEF IInv, TypeOK, ReferencedChunksDurable, Durable
<1>8. DoneDurable' /\ OpMayPut'
  BY DEF DoneDurable, OpMayPut, CanPutDoc
<1>9. AckedReferred'
  BY <1>2 DEF IInv, TypeOK, AckedTyped, AckedReferred
<1>10. HeapConsistent'
  BY <1>2 DEF IInv, TypeOK, DocsTyped, HeapConsistent
<1>11. SyncConsistent'
  BY DEF IInv, SyncConsistent
<1>. QED
  BY <1>3, <1>4, <1>5, <1>6, <1>7, <1>8, <1>9, <1>10, <1>11 DEF IInv, TypeOK

\* The invariants of the document store survive any PutDoc that is allowed.
LEMMA PutDocInv ==
  ASSUME IInv, CanPutDoc, NEW p \in DOMAIN files, NEW deleted \in BOOLEAN,
         PutDoc(p, deleted),
         DOMAIN files' = DOMAIN files,
         \A q \in DOMAIN files : files[q].deleted => files'[q].deleted,
         deleted => files'[p].deleted,
         UNCHANGED sync
  PROVE  DocsTyped' /\ HeapConsistent' /\ SyncTyped' /\ SyncConsistent'
<1>. DEFINE new == [path |-> p, deleted |-> deleted, locked |-> FALSE]
<1>. USE FSAssumption
<1>1. heap \in Seq(Document(DOMAIN files)) /\ new \in Document(DOMAIN files)
  BY DEF IInv, TypeOK, DocsTyped, Document
<1>2. /\ heap' \in Seq(Document(DOMAIN files))
      /\ Len(heap) \in Nat
      /\ Len(heap') = Len(heap) + 1
      /\ Len(heap') <= MaxDocs
      /\ \A i \in 1..Len(heap) : heap'[i] = heap[i]
      /\ heap'[Len(heap) + 1] = new
  <2>. HIDE DEF new
  <2>1. heap' = Append(heap, new)
    BY DEF PutDoc, new
  <2>. QED
    BY <1>1, <2>1 DEF CanPutDoc
<1>3. /\ DOMAIN crdt' = DOMAIN crdt \cup {p}
      /\ crdt'[p] = Len(heap) + 1
      /\ \A q \in DOMAIN crdt : q # p => crdt'[q] = crdt[q]
      /\ crdt' \in [DOMAIN crdt' -> 1..Len(heap')]
  BY <1>2 DEF PutDoc, Assign, IInv, TypeOK, DocsTyped
<1>4. DocsTyped'
  BY <1>1, <1>2, <1>3 DEF IInv, TypeOK, DocsTyped
<1>5. HeapConsistent'
  <2>. SUFFICES ASSUME NEW i \in 1..Len(heap')
                PROVE  /\ heap'[i].path \in DOMAIN crdt'
                       /\ heap'[i].deleted => files'[heap'[i].path].deleted
    BY DEF HeapConsistent
  <2>1. CASE i = Len(heap) + 1
    BY <1>2, <1>3, <2>1
  <2>2. CASE i \in 1..Len(heap)
    <3>1. heap[i] \in Document(DOMAIN files)
      BY <1>1, <2>2
    <3>. QED
      BY <1>2, <1>3, <2>2, <3>1 DEF IInv, HeapConsistent, Document
  <2>. QED
    BY <1>2, <2>1, <2>2
<1>6. SyncTyped'
  BY <1>2, <1>3 DEF IInv, TypeOK, SyncTyped
<1>7. SyncConsistent'
  BY <1>2 DEF IInv, SyncConsistent
<1>. QED
  BY <1>4, <1>5, <1>6, <1>7

\* The chunk is durable after the step, for a value of the state before it.
DurableAfter(b) == b \in disk' /\ b \in DOMAIN chunks' /\ chunks'[b]

\* A chunk that enters memory with its data leaves every durable one durable.
LEMMA DurableStays ==
  ASSUME IInv, NEW b \in Block, chunks' = Assign(chunks, b, TRUE),
         disk \subseteq disk'
  PROVE  /\ \A c : Durable(c) => DurableAfter(c)
         /\ DOMAIN chunks' \subseteq Block
         /\ chunks' \in [DOMAIN chunks' -> BOOLEAN]
<1>1. chunks' = [k \in DOMAIN chunks \cup {b} |-> IF k = b THEN TRUE ELSE chunks[k]]
  BY DEF Assign
<1>. QED
  BY <1>1 DEF Durable, DurableAfter, IInv, TypeOK, FilesTyped

LEMMA WriteChunkInv == ASSUME IInv, WriteChunk PROVE IInv'
<1>. USE FSAssumption
<1>. DEFINE b == Head(op.todo)
<1>1. /\ op # NoOp /\ op.todo # <<>>
      /\ chunks' = Assign(chunks, b, TRUE) /\ disk' = disk \cup {b}
      /\ op' = [path |-> op.path, todo |-> Tail(op.todo), done |-> Append(op.done, b)]
      /\ UNCHANGED <<files, closed, acked, heap, crdt, sync>>
  BY DEF WriteChunk, crdtVars
<1>2. /\ op.path \in DOMAIN files /\ op.todo \in Seq(Block) /\ op.done \in Seq(Block)
      /\ Len(op.done) + Len(op.todo) <= MaxChunks
  BY <1>1 DEF IInv, TypeOK, OpTyped
<1>3. /\ b \in Block
      /\ Tail(op.todo) \in Seq(Block) /\ Len(Tail(op.todo)) = Len(op.todo) - 1
      /\ Append(op.done, b) \in Seq(Block)
      /\ Len(Append(op.done, b)) = Len(op.done) + 1
      /\ Len(op.done) \in Nat /\ Len(op.todo) \in Nat
      /\ \A i \in 1..Len(op.done) : Append(op.done, b)[i] = op.done[i]
      /\ Append(op.done, b)[Len(op.done) + 1] = b
  BY <1>1, <1>2
<1>. HIDE DEF b
<1>4. /\ \A c : Durable(c) => DurableAfter(c)
      /\ DOMAIN chunks' \subseteq Block
      /\ chunks' \in [DOMAIN chunks' -> BOOLEAN]
  BY <1>1, <1>3, DurableStays
<1>5. DurableAfter(b)
  BY <1>1 DEF DurableAfter, Assign
<1>6. FilesTyped'
  BY <1>1, <1>3, <1>4 DEF IInv, TypeOK, FilesTyped
<1>7. OpTyped'
  <2>1. (Len(op.done) + 1) + (Len(op.todo) - 1) <= MaxChunks
    BY <1>2, <1>3, SumBound
  <2>2. Len(op'.done) + Len(op'.todo) <= MaxChunks
    BY <1>1, <1>3, <2>1
  <2>. QED
    BY <1>1, <1>2, <1>3, <2>2 DEF OpTyped
<1>8. DocsTyped' /\ SyncTyped' /\ AckedTyped'
  BY <1>1 DEF IInv, TypeOK, DocsTyped, SyncTyped, AckedTyped
<1>9. ReferencedChunksDurable'
  BY <1>1, <1>4 DEF IInv, ReferencedChunksDurable, Durable, DurableAfter
<1>10. DoneDurable'
  <2>. SUFFICES ASSUME NEW i \in 1..(Len(op.done) + 1)
                PROVE  DurableAfter(Append(op.done, b)[i])
    BY <1>1, <1>3 DEF DoneDurable, Durable, DurableAfter
  <2>1. CASE i = Len(op.done) + 1
    BY <1>1, <1>3, <1>5, <2>1
  <2>2. CASE i \in 1..Len(op.done)
    BY <1>1, <1>3, <1>4, <2>2 DEF IInv, DoneDurable
  <2>. QED
    BY <1>3, <2>1, <2>2
<1>11. OpMayPut' /\ AckedReferred' /\ HeapConsistent' /\ SyncConsistent'
  BY <1>1 DEF IInv, OpMayPut, CanPutDoc, AckedReferred, HeapConsistent, SyncConsistent
<1>. QED
  BY <1>6, <1>7, <1>8, <1>9, <1>10, <1>11 DEF IInv, TypeOK

LEMMA FailChunkInv == ASSUME IInv, FailChunk PROVE IInv'
<1>1. /\ op # NoOp /\ op.todo # <<>> /\ op' = NoOp
      /\ chunks' = Assign(chunks, Head(op.todo), TRUE)
      /\ UNCHANGED <<files, acked, disk, closed, heap, crdt, sync>>
  BY DEF FailChunk, crdtVars, storeVars
<1>2. Head(op.todo) \in Block
  <2>1. op.todo \in Seq(Block)
    BY <1>1 DEF IInv, TypeOK, OpTyped
  <2>. QED
    BY <1>1, <2>1
<1>3. /\ \A c : Durable(c) => DurableAfter(c)
      /\ DOMAIN chunks' \subseteq Block
      /\ chunks' \in [DOMAIN chunks' -> BOOLEAN]
  BY <1>1, <1>2, DurableStays
<1>4. TypeOK'
  BY <1>1, <1>3 DEF IInv, TypeOK, FilesTyped, OpTyped, DocsTyped, SyncTyped, AckedTyped
<1>5. ReferencedChunksDurable'
  BY <1>1, <1>3 DEF IInv, ReferencedChunksDurable, Durable, DurableAfter
<1>6. DoneDurable' /\ OpMayPut' /\ AckedReferred' /\ HeapConsistent' /\ SyncConsistent'
  BY <1>1 DEF IInv, DoneDurable, OpMayPut, AckedReferred, HeapConsistent, SyncConsistent
<1>. QED
  BY <1>4, <1>5, <1>6 DEF IInv

LEMMA FinishWriteInv == ASSUME IInv, FinishWrite PROVE IInv'
<1>. USE FSAssumption
<1>1. /\ op # NoOp /\ op' = NoOp
      /\ files' = [files EXCEPT ![op.path].chunks = op.done]
      /\ PutDoc(op.path, FALSE)
      /\ acked' = Assign(acked, op.path, op.done)
      /\ UNCHANGED <<chunks, disk, closed, sync>>
  BY DEF FinishWrite, storeVars
<1>2. /\ op.path \in DOMAIN files /\ op.done \in Seq(Block) /\ op.todo \in Seq(Block)
      /\ Len(op.done) <= MaxChunks
  <2>1. /\ op.path \in DOMAIN files /\ op.done \in Seq(Block) /\ op.todo \in Seq(Block)
        /\ Len(op.done) + Len(op.todo) <= MaxChunks
    BY <1>1 DEF IInv, TypeOK, OpTyped
  <2>2. Len(op.done) \in Nat /\ Len(op.todo) \in Nat
    BY <2>1
  <2>. QED
    BY <2>1, <2>2, SumBound
<1>3. /\ DOMAIN files' = DOMAIN files
      /\ files' \in [DOMAIN files -> File]
      /\ files'[op.path].chunks = op.done
      /\ \A q \in DOMAIN files : q # op.path => files'[q] = files[q]
      /\ \A q \in DOMAIN files : files'[q].deleted = files[q].deleted
  BY <1>1, <1>2 DEF IInv, TypeOK, FilesTyped, File
<1>4. DocsTyped' /\ HeapConsistent' /\ SyncTyped' /\ SyncConsistent'
  BY <1>1, <1>2, <1>3, PutDocInv DEF IInv, OpMayPut
<1>5. FilesTyped'
  BY <1>1, <1>2, <1>3 DEF IInv, TypeOK, FilesTyped
<1>6. AckedTyped' /\ OpTyped'
  BY <1>1, <1>2, <1>3 DEF IInv, TypeOK, AckedTyped, OpTyped, Assign
<1>7. ReferencedChunksDurable'
  <2>. SUFFICES ASSUME NEW q \in DOMAIN files, NEW i \in 1..Len(files'[q].chunks)
                PROVE  Durable(files'[q].chunks[i])
    BY <1>1, <1>3 DEF ReferencedChunksDurable, Durable
  <2>1. CASE q = op.path
    BY <1>1, <1>3, <2>1 DEF IInv, DoneDurable
  <2>2. CASE q # op.path
    BY <1>1, <1>3, <2>2 DEF IInv, ReferencedChunksDurable
  <2>. QED
    BY <2>1, <2>2
<1>8. DoneDurable' /\ OpMayPut'
  BY <1>1 DEF DoneDurable, OpMayPut
<1>9. AckedReferred'
  BY <1>1, <1>3 DEF IInv, TypeOK, AckedTyped, AckedReferred, Assign
<1>. QED
  BY <1>4, <1>5, <1>6, <1>7, <1>8, <1>9 DEF IInv, TypeOK

LEMMA DeleteFileInv == ASSUME IInv, NEW p \in Path, DeleteFile(p) PROVE IInv'
<1>. USE FSAssumption
<1>1. /\ op = NoOp /\ op' = NoOp /\ CanPutDoc /\ p \in DOMAIN files
      /\ files' = [files EXCEPT ![p].deleted = TRUE]
      /\ PutDoc(p, TRUE)
      /\ acked' = Remove(acked, p)
      /\ UNCHANGED <<chunks, disk, closed, sync>>
  BY DEF DeleteFile, storeVars
<1>2. /\ DOMAIN files' = DOMAIN files
      /\ files' \in [DOMAIN files -> File]
      /\ files'[p].deleted
      /\ \A q \in DOMAIN files : q # p => files'[q] = files[q]
      /\ \A q \in DOMAIN files : files'[q].chunks = files[q].chunks
  BY <1>1 DEF IInv, TypeOK, FilesTyped, File
<1>3. DocsTyped' /\ HeapConsistent' /\ SyncTyped' /\ SyncConsistent'
  BY <1>1, <1>2, PutDocInv
<1>4. FilesTyped'
  BY <1>1, <1>2 DEF IInv, TypeOK, FilesTyped
<1>5. AckedTyped' /\ OpTyped'
  BY <1>1, <1>2 DEF IInv, TypeOK, AckedTyped, OpTyped, Remove
<1>6. ReferencedChunksDurable'
  BY <1>1, <1>2 DEF IInv, ReferencedChunksDurable, Durable
<1>7. DoneDurable' /\ OpMayPut'
  BY <1>1 DEF DoneDurable, OpMayPut
<1>8. AckedReferred'
  BY <1>1, <1>2 DEF IInv, TypeOK, AckedTyped, AckedReferred, Remove
<1>. QED
  BY <1>3, <1>4, <1>5, <1>6, <1>7, <1>8 DEF IInv, TypeOK

LEMMA CloseInv == ASSUME IInv, Close PROVE IInv'
<1>1. closed' = TRUE /\ UNCHANGED <<files, chunks, op, acked, disk, heap, crdt, sync>>
  BY DEF Close, fsVars, crdtVars
<1>2. TypeOK'
  BY <1>1 DEF IInv, TypeOK, FilesTyped, OpTyped, DocsTyped, SyncTyped, AckedTyped
<1>3. ReferencedChunksDurable' /\ DoneDurable' /\ OpMayPut' /\ AckedReferred'
  BY <1>1 DEF IInv, ReferencedChunksDurable, DoneDurable, Durable, OpMayPut, CanPutDoc,
              AckedReferred
<1>4. HeapConsistent' /\ SyncConsistent'
  BY <1>1 DEF IInv, HeapConsistent, SyncConsistent
<1>. QED
  BY <1>2, <1>3, <1>4 DEF IInv

LEMMA RestartInv == ASSUME IInv, Restart PROVE IInv'
<1>. USE FSAssumption DEF Restart, Empty, Idle, At
<1>1. TypeOK'
  <2>1. FilesTyped'
    BY DEF FilesTyped, IInv, TypeOK
  <2>2. OpTyped' /\ AckedTyped'
    BY DEF OpTyped, AckedTyped
  <2>3. DocsTyped'
    BY DEF DocsTyped
  <2>4. SyncTyped'
    BY DEF SyncTyped
  <2>. QED
    BY <2>1, <2>2, <2>3, <2>4 DEF TypeOK
<1>2. ReferencedChunksDurable' /\ DoneDurable' /\ OpMayPut' /\ AckedReferred'
  BY DEF ReferencedChunksDurable, DoneDurable, OpMayPut, AckedReferred
<1>3. HeapConsistent' /\ SyncConsistent'
  BY DEF HeapConsistent, SyncConsistent
<1>. QED
  BY <1>1, <1>2, <1>3 DEF IInv

-----------------------------------------------------------------------------
(* SyncWithPeer. *)

\* A step that only moves SyncWithPeer along.
LEMMA SyncMoveInv ==
  ASSUME IInv, UNCHANGED <<fsVars, storeVars, crdtVars>>,
         SyncTyped', SyncConsistent'
  PROVE  IInv'
<1>1. UNCHANGED <<files, chunks, op, acked, disk, closed, heap, crdt>>
  BY DEF fsVars, storeVars, crdtVars
<1>2. FilesTyped' /\ OpTyped' /\ DocsTyped' /\ AckedTyped'
  BY <1>1 DEF IInv, TypeOK, FilesTyped, OpTyped, DocsTyped, AckedTyped
<1>3. ReferencedChunksDurable' /\ DoneDurable' /\ OpMayPut' /\ AckedReferred'
  BY <1>1 DEF IInv, ReferencedChunksDurable, DoneDurable, Durable, OpMayPut, CanPutDoc,
              AckedReferred
<1>4. HeapConsistent'
  BY <1>1 DEF IInv, HeapConsistent
<1>. QED
  BY <1>2, <1>3, <1>4 DEF IInv, TypeOK

LEMMA SyncWalkInv ==
  ASSUME IInv, SyncBegin \/ SyncList \/ SyncEnd
  PROVE  IInv'
<1>1. /\ UNCHANGED <<fsVars, storeVars, crdtVars>>
      /\ UNCHANGED <<heap, crdt>>
      /\ \E pc \in {"idle", "list", "remote"}, ids \in SUBSET DOMAIN crdt :
           sync' = At(pc, ids, NoDoc, NoDoc)
  BY DEF SyncBegin, SyncList, SyncEnd, Idle, crdtVars
<1>2. SyncTyped' /\ SyncConsistent'
  BY <1>1 DEF At, SyncTyped, SyncConsistent
<1>. QED
  BY <1>1, <1>2, SyncMoveInv

LEMMA SyncGetRemoteInv == ASSUME IInv, SyncGetRemote PROVE IInv'
<1>1. PICK p \in sync.ids : sync' = At("local", sync.ids, crdt[p], NoDoc)
  BY DEF SyncGetRemote
<1>2. UNCHANGED <<fsVars, storeVars, crdtVars>> /\ UNCHANGED <<heap, crdt>>
  BY DEF SyncGetRemote, crdtVars
<1>3. sync.ids \subseteq DOMAIN crdt /\ crdt[p] \in 1..Len(heap)
  BY DEF IInv, TypeOK, SyncTyped, DocsTyped
<1>4. SyncTyped' /\ SyncConsistent'
  BY <1>1, <1>2, <1>3 DEF At, SyncTyped, SyncConsistent
<1>. QED
  BY <1>2, <1>4, SyncMoveInv

\* The second Get finds a document of the path of the first one.
LEMMA SyncGetLocalInv == ASSUME IInv, SyncGetLocal PROVE IInv'
<1>. DEFINE p == heap[sync.remote].path
<1>1. /\ sync.pc = "local"
      /\ sync' = At("merge", sync.ids, sync.remote, crdt[p])
      /\ UNCHANGED <<fsVars, storeVars, crdtVars>> /\ UNCHANGED <<heap, crdt>>
  BY DEF SyncGetLocal, crdtVars
<1>2. /\ sync.remote \in 1..Len(heap) /\ p \in DOMAIN crdt
      /\ crdt[p] \in 1..Len(heap) /\ heap[crdt[p]].path = p
      /\ sync.ids \subseteq DOMAIN crdt
  BY <1>1 DEF IInv, TypeOK, SyncTyped, DocsTyped, SyncConsistent, HeapConsistent
<1>3. SyncTyped' /\ SyncConsistent'
  BY <1>1, <1>2 DEF At, SyncTyped, SyncConsistent
<1>. QED
  BY <1>1, <1>3, SyncMoveInv

\* The only write to an object that is already in the store: its path stays,
\* and it becomes a tombstone only if its file is deleted.
LEMMA SyncMergeInv == ASSUME IInv, SyncMerge PROVE IInv'
<1>. USE FSAssumption
<1>1. /\ sync.pc = "merge"
      /\ UNCHANGED <<files, chunks, op, acked, disk, closed, crdt>>
  BY DEF SyncMerge, fsVars, storeVars
<1>2. /\ sync.remote \in 1..Len(heap) /\ sync.local \in 1..Len(heap)
      /\ heap[sync.local].path = heap[sync.remote].path
      /\ sync.ids \in SUBSET DOMAIN crdt
      /\ heap \in Seq(Document(DOMAIN files)) /\ Len(heap) \in Nat
  BY <1>1 DEF IInv, TypeOK, DocsTyped, SyncTyped, SyncConsistent
<1>3. /\ heap' \in Seq(Document(DOMAIN files))
      /\ Len(heap') = Len(heap)
      /\ \A i \in 1..Len(heap) : heap'[i].path = heap[i].path
      /\ \A i \in 1..Len(heap) : heap'[i].deleted =>
            \/ heap[i].deleted
            \/ i = sync.local /\ heap[sync.remote].deleted
      /\ \/ sync' = At("remote", sync.ids \ {heap[sync.remote].path}, NoDoc, NoDoc)
         \/ sync' = At("stuck", sync.ids, sync.remote, sync.local)
  <2>1. CASE SyncMergeDeleted
    <3>. DEFINE d == [heap[sync.local] EXCEPT !.deleted = TRUE]
    <3>1. heap[sync.local] \in Document(DOMAIN files)
      BY <1>2
    <3>2. /\ d \in Document(DOMAIN files) /\ d.path = heap[sync.local].path
          /\ d.deleted = TRUE
      BY <3>1 DEF Document
    <3>3. heap' = [heap EXCEPT ![sync.local] = d]
      BY <2>1 DEF SyncMergeDeleted
    <3>. HIDE DEF d
    <3>4. /\ heap' \in Seq(Document(DOMAIN files)) /\ Len(heap') = Len(heap)
          /\ heap'[sync.local] = d
          /\ \A i \in 1..Len(heap) : i # sync.local => heap'[i] = heap[i]
      BY <1>2, <3>2, <3>3, OneDocument
    <3>. QED
      BY <1>2, <2>1, <3>2, <3>4 DEF SyncMergeDeleted, NextDocument
  <2>2. CASE SyncMergeSelf
    <3>. DEFINE d == [heap[sync.local] EXCEPT !.locked = TRUE]
    <3>1. heap[sync.local] \in Document(DOMAIN files)
      BY <1>2
    <3>2. /\ d \in Document(DOMAIN files) /\ d.path = heap[sync.local].path
          /\ d.deleted = heap[sync.local].deleted
      BY <3>1 DEF Document
    <3>3. heap' = [heap EXCEPT ![sync.local] = d]
      BY <2>2 DEF SyncMergeSelf
    <3>. HIDE DEF d
    <3>4. /\ heap' \in Seq(Document(DOMAIN files)) /\ Len(heap') = Len(heap)
          /\ heap'[sync.local] = d
          /\ \A i \in 1..Len(heap) : i # sync.local => heap'[i] = heap[i]
      BY <1>2, <3>2, <3>3, OneDocument
    <3>. QED
      BY <1>2, <2>2, <3>2, <3>4 DEF SyncMergeSelf
  <2>3. CASE SyncMergeOther
    BY <1>2, <2>3 DEF SyncMergeOther, NextDocument, Document
  <2>. QED
    BY <2>1, <2>2, <2>3 DEF SyncMerge
<1>4. FilesTyped' /\ OpTyped' /\ AckedTyped'
  BY <1>1 DEF IInv, TypeOK, FilesTyped, OpTyped, AckedTyped
<1>5. DocsTyped'
  BY <1>1, <1>3 DEF IInv, TypeOK, DocsTyped
<1>6. SyncTyped' /\ SyncConsistent'
  BY <1>1, <1>2, <1>3 DEF At, SyncTyped, SyncConsistent
<1>7. HeapConsistent'
  BY <1>1, <1>2, <1>3 DEF IInv, HeapConsistent
<1>8. ReferencedChunksDurable' /\ DoneDurable' /\ AckedReferred'
  BY <1>1 DEF IInv, ReferencedChunksDurable, DoneDurable, Durable, AckedReferred
<1>9. OpMayPut'
  BY <1>1, <1>3 DEF IInv, OpMayPut, CanPutDoc
<1>. QED
  BY <1>4, <1>5, <1>6, <1>7, <1>8, <1>9 DEF IInv, TypeOK

-----------------------------------------------------------------------------
LEMMA NextInv == IInv /\ [Next]_vars => IInv'
<1>. SUFFICES ASSUME IInv, [Next]_vars PROVE IInv'
  OBVIOUS
<1>1. CASE \E p \in Path, data \in Contents : BeginWrite(p, data)
  BY <1>1, BeginWriteInv
<1>2. CASE WriteStep
  BY <1>2, WriteChunkInv, FailChunkInv, FinishWriteInv DEF WriteStep
<1>3. CASE \E p \in Path : DeleteFile(p)
  BY <1>3, DeleteFileInv
<1>4. CASE Close
  BY <1>4, CloseInv
<1>5. CASE Restart
  BY <1>5, RestartInv
<1>6. CASE SyncBegin
  BY <1>6, SyncWalkInv
<1>7. CASE SyncStep
  BY <1>7, SyncWalkInv, SyncGetRemoteInv, SyncGetLocalInv, SyncMergeInv DEF SyncStep
<1>8. CASE UNCHANGED vars
  <2>1. /\ UNCHANGED <<fsVars, storeVars, crdtVars>>
        /\ UNCHANGED <<heap, crdt, sync>>
    BY <1>8 DEF vars, crdtVars
  <2>2. SyncTyped' /\ SyncConsistent'
    BY <2>1 DEF IInv, TypeOK, SyncTyped, SyncConsistent
  <2>. QED
    BY <2>1, <2>2, SyncMoveInv
<1>. QED
  BY <1>1, <1>2, <1>3, <1>4, <1>5, <1>6, <1>7, <1>8 DEF Next

-----------------------------------------------------------------------------
(* The abstract store. *)

\* What a reader gets is what the file refers to, as every chunk of it is there.
LEMMA ReadIs ==
  IInv => \A p \in DOMAIN files : ReadFile(p) = files[p].chunks
<1>. SUFFICES ASSUME IInv, NEW p \in DOMAIN files PROVE ReadFile(p) = files[p].chunks
  OBVIOUS
<1>1. files[p].chunks \in Seq(Block)
  BY DEF IInv, TypeOK, FilesTyped, File
<1>2. \A i \in 1..Len(files[p].chunks) : ReadChunk(files[p].chunks[i]) = files[p].chunks[i]
  BY DEF IInv, ReferencedChunksDurable, Durable, ReadChunk
<1>3. ReadFile(p) = [i \in 1..Len(files[p].chunks) |-> files[p].chunks[i]]
  BY <1>2 DEF ReadFile
<1>. QED
  BY <1>1, <1>3

Content == [p \in ListFiles |-> ReadFile(p)]
Deleted == DOMAIN files \ ListFiles
Writing == IF op = NoOp THEN {} ELSE {[path |-> op.path, data |-> op.done \o op.todo]}

LEMMA ContentIs ==
  IInv => /\ Content = [q \in ListFiles |-> files[q].chunks]
          /\ ListFiles = {p \in DOMAIN files : ~files[p].deleted}
          /\ Deleted = {p \in DOMAIN files : files[p].deleted}
<1>1. ListFiles \subseteq DOMAIN files
  BY DEF ListFiles
<1>2. IInv => Content = [q \in ListFiles |-> files[q].chunks]
  BY <1>1, ReadIs DEF Content
<1>3. IInv => \A p \in DOMAIN files : files[p].deleted \in BOOLEAN
  BY DEF IInv, TypeOK, FilesTyped, File
<1>4. QED
  BY <1>2, <1>3 DEF ListFiles, Deleted

LEMMA ContentNext ==
  IInv' => Content' = [q \in ListFiles' |-> files'[q].chunks]
<1>1. (IInv => Content = [q \in ListFiles |-> files[q].chunks])'
  <2>1. IInv => Content = [q \in ListFiles |-> files[q].chunks]
    BY ContentIs
  <2>. QED
    BY <2>1, PTL
<1>. QED
  BY <1>1

\* A step that leaves the files and the write alone is invisible.
LEMMA Invisible ==
  ASSUME IInv, IInv', files' = files, Writing' = Writing
  PROVE  UNCHANGED <<Content, Deleted, Writing>>
<1>1. Content' = [q \in ListFiles' |-> files'[q].chunks]
  BY ContentNext
<1>2. ListFiles' = ListFiles /\ Deleted' = Deleted
  BY DEF ListFiles, Deleted
<1>3. QED
  BY <1>1, <1>2, ContentIs

LEMMA Concatenation ==
  ASSUME NEW X, NEW a \in Seq(X), NEW c \in Seq(X)
  PROVE  /\ a \o c \in Seq(X) /\ Len(a \o c) = Len(a) + Len(c)
         /\ \A n \in 1..(Len(a) + Len(c)) :
              (a \o c)[n] = IF n <= Len(a) THEN a[n] ELSE c[n - Len(a)]
<1>1. a \o c \in Seq(X) /\ Len(a \o c) = Len(a) + Len(c)
  OBVIOUS
<1>2. \A n \in 1..(Len(a) + Len(c)) :
        (a \o c)[n] = IF n <= Len(a) THEN a[n] ELSE c[n - Len(a)]
  OBVIOUS
<1>. QED
  BY <1>1, <1>2

\* The write as a whole: what is done and what is left of it.
LEMMA WholeWrite ==
  ASSUME NEW d \in Seq(Block), NEW t \in Seq(Block)
  PROVE  /\ t = <<>> => d \o t = d
         /\ d = <<>> => d \o t = t
         /\ t # <<>> => Append(d, Head(t)) \o Tail(t) = d \o t
<1>1. t = <<>> => d \o t = d
  OBVIOUS
<1>2. d = <<>> => d \o t = t
  OBVIOUS
<1>3. ASSUME t # <<>> PROVE Append(d, Head(t)) \o Tail(t) = d \o t
  <2>. DEFINE e == Append(d, Head(t))
              u == Tail(t)
              l == e \o u
              r == d \o t
  <2>1. /\ e \in Seq(Block) /\ u \in Seq(Block)
        /\ Len(e) = Len(d) + 1 /\ Len(u) = Len(t) - 1
        /\ Len(d) \in Nat /\ Len(t) \in Nat
        /\ e[Len(d) + 1] = t[1] /\ \A i \in 1..Len(d) : e[i] = d[i]
        /\ \A i \in 1..(Len(t) - 1) : u[i] = t[i + 1]
    BY <1>3
  <2>. HIDE DEF e, u
  <2>2. /\ l \in Seq(Block) /\ Len(l) = Len(e) + Len(u)
        /\ \A i \in 1..(Len(e) + Len(u)) :
             l[i] = IF i <= Len(e) THEN e[i] ELSE u[i - Len(e)]
    BY <2>1, Concatenation
  <2>3. /\ r \in Seq(Block) /\ Len(r) = Len(d) + Len(t)
        /\ \A i \in 1..(Len(d) + Len(t)) :
             r[i] = IF i <= Len(d) THEN d[i] ELSE t[i - Len(d)]
    BY Concatenation
  <2>. HIDE DEF l, r
  <2>4. ASSUME NEW i \in 1..Len(l) PROVE l[i] = r[i]
    <3>1. i \in 1..(Len(e) + Len(u)) /\ i \in 1..(Len(d) + Len(t)) /\ i \in Nat
      BY <2>1, <2>2
    <3>2. CASE i \in 1..Len(d)
      <4>1. i <= Len(d) /\ i <= Len(e)
        BY <2>1, <3>2
      <4>2. l[i] = e[i] /\ r[i] = d[i]
        BY <2>2, <2>3, <3>1, <4>1
      <4>. QED
        BY <2>1, <3>2, <4>2
    <3>3. CASE i = Len(d) + 1
      <4>1. ~(i <= Len(d)) /\ i <= Len(e) /\ i - Len(d) = 1
        BY <2>1, <3>3
      <4>2. l[i] = e[i] /\ r[i] = t[i - Len(d)]
        BY <2>2, <2>3, <3>1, <4>1
      <4>. QED
        BY <2>1, <3>3, <4>1, <4>2
    <3>4. CASE i > Len(d) + 1
      <4>1. i - Len(e) \in 1..(Len(t) - 1) /\ (i - Len(e)) + 1 = i - Len(d)
        BY <2>1, <3>1, <3>4
      <4>2. l[i] = u[i - Len(e)] /\ r[i] = t[i - Len(d)]
        BY <2>1, <2>2, <2>3, <3>1, <3>4
      <4>3. u[i - Len(e)] = t[(i - Len(e)) + 1]
        BY <2>1, <4>1
      <4>. QED
        BY <4>1, <4>2, <4>3
    <3>. QED
      BY <2>1, <3>1, <3>2, <3>3, <3>4
  <2>5. l = r
    <3>1. Len(l) = Len(r)
      BY <2>1, <2>2, <2>3
    <3>. QED
      BY <2>2, <2>3, <2>4, <3>1
  <2>. QED
    BY <2>5 DEF e, u, l, r
<1>. QED
  BY <1>1, <1>2, <1>3

LEMMA BeginStored ==
  ASSUME IInv, IInv', NEW p \in Path, NEW data \in Contents, BeginWrite(p, data)
  PROVE  Store!Begin(p, data)
<1>1. /\ op = NoOp /\ op' = [path |-> p, todo |-> data, done |-> <<>>] /\ op' # NoOp
      /\ files' = IF p \in DOMAIN files THEN files
                  ELSE Assign(files, p, [chunks |-> <<>>, deleted |-> FALSE])
  <2>1. op = NoOp /\ op' = [path |-> p, todo |-> data, done |-> <<>>]
        /\ files' = IF p \in DOMAIN files THEN files
                    ELSE Assign(files, p, [chunks |-> <<>>, deleted |-> FALSE])
    BY DEF BeginWrite
  <2>2. data \in Seq(Block) /\ <<>> \in Seq(Block)
    BY ContentsAreSequences
  <2>3. op' \in [path : Path, todo : Seq(Block), done : Seq(Block)]
    BY <2>1, <2>2
  <2>. QED
    BY <2>1, <2>3, FSAssumption
<1>2. Writing = {} /\ Writing' = {[path |-> p, data |-> data]}
  <2>1. data \in Seq(Block)
    BY ContentsAreSequences
  <2>2. <<>> \o data = data
    BY <2>1, WholeWrite
  <2>. QED
    BY <1>1, <2>2 DEF Writing
<1>3. Content' = [q \in ListFiles' |-> files'[q].chunks]
  BY ContentNext
<1>4. Deleted' = Deleted
  BY <1>1 DEF Deleted, ListFiles, Assign
<1>5. DOMAIN Content = ListFiles /\ ListFiles \cup Deleted = DOMAIN files
  BY DEF Content, Deleted, ListFiles
<1>6. CASE p \in DOMAIN files
  <2>1. Content' = Content
    BY <1>1, <1>3, <1>6, ContentIs DEF ListFiles
  <2>. QED
    BY <1>2, <1>4, <1>5, <1>6, <2>1 DEF Store!Begin, Store!Listed, Content, Deleted, Writing
<1>7. CASE p \notin DOMAIN files
  <2>1. /\ ListFiles' = ListFiles \cup {p} /\ p \notin ListFiles
        /\ files'[p].chunks = <<>>
        /\ \A q \in ListFiles : files'[q].chunks = files[q].chunks
    BY <1>1, <1>7 DEF ListFiles, Assign
  <2>2. Content' = [q \in ListFiles \cup {p} |-> IF q = p THEN <<>> ELSE Content[q]]
    BY <1>3, <2>1, ContentIs
  <2>. QED
    BY <1>2, <1>4, <1>5, <1>7, <2>2 DEF Store!Begin, Store!Listed, Content, Deleted, Writing
<1>. QED
  BY <1>6, <1>7

LEMMA WriteStored ==
  ASSUME IInv, IInv', WriteStep
  PROVE  Store!Succeed \/ Store!Fail \/ UNCHANGED <<Content, Deleted, Writing>>
<1>1. /\ op # NoOp
      /\ op.done \in Seq(Block) /\ op.todo \in Seq(Block) /\ op.path \in DOMAIN files
  BY DEF WriteStep, WriteChunk, FailChunk, FinishWrite, IInv, TypeOK, OpTyped
<1>2. CASE WriteChunk
  <2>1. /\ files' = files /\ op.todo # <<>>
        /\ op' = [path |-> op.path, todo |-> Tail(op.todo),
                  done |-> Append(op.done, Head(op.todo))]
    BY <1>2 DEF WriteChunk
  <2>2. op' # NoOp
    <3>1. Tail(op.todo) \in Seq(Block) /\ Append(op.done, Head(op.todo)) \in Seq(Block)
      BY <1>1, <2>1
    <3>2. op.path \in Path
      BY <1>1 DEF IInv, TypeOK, FilesTyped
    <3>3. op' \in [path : Path, todo : Seq(Block), done : Seq(Block)]
      BY <2>1, <3>1, <3>2
    <3>. QED
      BY <3>3, FSAssumption
  <2>3. op'.done \o op'.todo = op.done \o op.todo /\ op'.path = op.path
    BY <1>1, <2>1, WholeWrite
  <2>4. Writing' = Writing
    BY <1>1, <2>2, <2>3 DEF Writing
  <2>. QED
    BY <2>1, <2>4, Invisible
<1>3. CASE FailChunk
  <2>1. files' = files /\ op' = NoOp
    BY <1>3 DEF FailChunk
  <2>2. Writing # {} /\ Writing' = {}
    BY <1>1, <2>1 DEF Writing
  <2>3. Content' = [q \in ListFiles' |-> files'[q].chunks]
    BY ContentNext
  <2>4. Content' = Content /\ Deleted' = Deleted
    BY <2>1, <2>3, ContentIs DEF ListFiles, Deleted
  <2>. QED
    BY <2>2, <2>4 DEF Store!Fail, Content, Deleted, Writing
<1>4. CASE FinishWrite
  <2>1. /\ files' = [files EXCEPT ![op.path].chunks = op.done]
        /\ op' = NoOp /\ op.todo = <<>>
    BY <1>4 DEF FinishWrite
  <2>2. files \in [DOMAIN files -> File]
    BY DEF IInv, TypeOK, FilesTyped
  <2>3. /\ DOMAIN files' = DOMAIN files
        /\ \A q \in DOMAIN files :
             /\ files'[q].chunks = IF q = op.path THEN op.done ELSE files[q].chunks
             /\ files'[q].deleted = files[q].deleted
    BY <1>1, <2>1, <2>2 DEF File
  <2>4. ListFiles' = ListFiles /\ Deleted' = Deleted /\ ListFiles \subseteq DOMAIN files
    BY <2>3 DEF ListFiles, Deleted
  <2>5. Content' = [q \in ListFiles' |-> files'[q].chunks]
    BY ContentNext
  <2>6. Content' = [q \in ListFiles |-> IF q = op.path THEN op.done ELSE Content[q]]
    BY <2>3, <2>4, <2>5, ContentIs
  <2>7. /\ Writing = {[path |-> op.path, data |-> op.done]}
        /\ Writing' = {}
    BY <1>1, <2>1, WholeWrite DEF Writing
  <2>8. DOMAIN Content = ListFiles
    BY DEF Content
  <2>9. \E w \in Writing :
          Content' = [q \in DOMAIN Content |-> IF q = w.path THEN w.data ELSE Content[q]]
    BY <2>6, <2>7, <2>8
  <2>. QED
    BY <2>4, <2>7, <2>9 DEF Store!Succeed, Store!Listed, Content, Deleted, Writing
<1>. QED
  BY <1>2, <1>3, <1>4 DEF WriteStep

LEMMA DeleteStored ==
  ASSUME IInv, IInv', NEW p \in Path, DeleteFile(p)
  PROVE  Store!Delete(p)
<1>1. /\ op = NoOp /\ op' = NoOp /\ p \in ListFiles /\ p \in DOMAIN files
      /\ files' = [files EXCEPT ![p].deleted = TRUE]
  BY DEF DeleteFile, ListFiles
<1>2. files \in [DOMAIN files -> File]
  BY DEF IInv, TypeOK, FilesTyped
<1>3. /\ DOMAIN files' = DOMAIN files
      /\ \A q \in DOMAIN files :
           /\ files'[q].chunks = files[q].chunks
           /\ files'[q].deleted = IF q = p THEN TRUE ELSE files[q].deleted
  BY <1>1, <1>2 DEF File
<1>4. /\ ListFiles' = ListFiles \ {p} /\ Deleted' = Deleted \cup {p}
      /\ ListFiles \subseteq DOMAIN files
  BY <1>1, <1>3 DEF ListFiles, Deleted
<1>5. Content' = [q \in ListFiles' |-> files'[q].chunks]
  BY ContentNext
<1>6. Content' = [q \in ListFiles \ {p} |-> Content[q]] /\ DOMAIN Content = ListFiles
  BY <1>3, <1>4, <1>5, ContentIs
<1>7. Writing = {} /\ Writing' = {}
  BY <1>1 DEF Writing
<1>. QED
  BY <1>1, <1>4, <1>6, <1>7 DEF Store!Delete, Store!Listed, Content, Deleted, Writing

LEMMA RestartStored ==
  ASSUME Restart
  PROVE  Store!Forget
<1>1. ListFiles' = {} /\ DOMAIN files' = {} /\ op' = NoOp
  BY DEF Restart, ListFiles, Empty
<1>2. Content' = [p \in {} |-> <<>>] /\ Deleted' = {} /\ Writing' = {}
  BY <1>1 DEF Content, Deleted, Writing
<1>. QED
  BY <1>2 DEF Store!Forget, Content, Deleted, Writing

LEMMA StoreStep ==
  ASSUME IInv, IInv', [Next]_vars
  PROVE  [Store!FNext]_(Store!fvars)
<1>1. CASE \E p \in Path, data \in Contents : BeginWrite(p, data)
  BY <1>1, BeginStored DEF Store!FNext
<1>2. CASE WriteStep
  BY <1>2, WriteStored DEF Store!FNext, Store!fvars, Content, Deleted, Writing
<1>3. CASE \E p \in Path : DeleteFile(p)
  BY <1>3, DeleteStored DEF Store!FNext
<1>4. CASE Restart
  BY <1>4, RestartStored DEF Store!FNext
<1>5. CASE Close \/ SyncBegin \/ SyncStep \/ UNCHANGED vars
  <2>1. files' = files /\ op' = op
    BY <1>5 DEF Close, SyncBegin, SyncStep, SyncList, SyncGetRemote, SyncGetLocal,
                SyncMerge, SyncEnd, vars, fsVars
  <2>2. UNCHANGED <<Content, Deleted, Writing>>
    BY <2>1, Invisible DEF Writing
  <2>. QED
    BY <2>2 DEF Store!fvars, Content, Deleted, Writing
<1>. QED
  BY <1>1, <1>2, <1>3, <1>4, <1>5 DEF Next

-----------------------------------------------------------------------------
(* Theorems. *)

\* The inductive invariant holds in every behaviour.
THEOREM Invariance == Spec => []IInv
BY InitInv, NextInv, PTL DEF Spec

\* The tables, the objects and the cursors of ReplicatedFS are well formed: no
\* pointer of CRDTStore.documents dangles, and no file has more chunks than
\* MaxChunks (replicated_fs.go, crdt.go:297-345).
THEOREM TypeCorrect == Spec => []TypeOK
<1>1. IInv => TypeOK
  BY DEF IInv
<1>. QED
  BY <1>1, Invariance, PTL

\* No file ever refers to a chunk that is missing on disk or lacks its data in
\* memory, wherever WriteFile fails or the process dies
\* (replicated_fs.go:96-171).
THEOREM ReferencedChunksDurableCorrect == Spec => []ReferencedChunksDurable
<1>1. IInv => ReferencedChunksDurable
  BY DEF IInv
<1>. QED
  BY <1>1, Invariance, PTL

\* ReadFile returns what the last successful WriteFile of the path wrote, until
\* DeleteFile succeeds (replicated_fs.go:84-216).
THEOREM ReadYourWritesCorrect == Spec => []ReadYourWrites
<1>1. IInv => ReadYourWrites
  <2>. SUFFICES ASSUME IInv, NEW p \in DOMAIN acked PROVE ReadFile(p) = acked[p]
    BY DEF ReadYourWrites
  <2>1. p \in DOMAIN files /\ acked[p] = files[p].chunks /\ acked[p] \in Seq(Block)
    BY DEF IInv, TypeOK, AckedTyped, AckedReferred
  <2>2. \A i \in 1..Len(acked[p]) : ReadChunk(files[p].chunks[i]) = acked[p][i]
    BY <2>1 DEF IInv, ReferencedChunksDurable, Durable, ReadChunk
  <2>3. ReadFile(p) = [i \in 1..Len(acked[p]) |-> acked[p][i]]
    BY <2>1, <2>2 DEF ReadFile
  <2>. QED
    BY <2>1, <2>3
<1>. QED
  BY <1>1, Invariance, PTL

\* However SyncWithPeer interleaves with WriteFile and DeleteFile, it never
\* turns the document of a listed file into a tombstone
\* (replicated_fs.go:218-275, crdt.go:230-295).
THEOREM TombstoneMeansDeletedCorrect == Spec => []TombstoneMeansDeleted
<1>1. IInv => TombstoneMeansDeleted
  BY DEF IInv, TypeOK, DocsTyped, HeapConsistent, TombstoneMeansDeleted, ListFiles
<1>. QED
  BY <1>1, Invariance, PTL

\* For its callers the file system is a FileStore: a write gives a file its new
\* content as a whole or not at all, wherever it fails, and nothing but a
\* deletion or the end of the process takes a content away
\* (replicated_fs.go:116-231).
THEOREM FileStoreRefines == Spec => ImplementsFileStore
<1>1. Init => Store!FInit
  <2>. SUFFICES ASSUME Init PROVE Store!FInit
    OBVIOUS
  <2>1. ListFiles = {} /\ DOMAIN files = {} /\ op = NoOp
    BY DEF Init, ListFiles, Empty
  <2>2. Content = [p \in {} |-> <<>>] /\ Deleted = {} /\ Writing = {}
    BY <2>1 DEF Content, Deleted, Writing
  <2>. QED
    BY <2>2 DEF Store!FInit, Content, Deleted, Writing
<1>2. IInv /\ IInv' /\ [Next]_vars => [Store!FNext]_(Store!fvars)
  BY StoreStep
<1>. QED
  BY <1>1, <1>2, Invariance, PTL DEF Spec, ImplementsFileStore, Store!FSpec

=============================================================================
