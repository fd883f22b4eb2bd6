---------------------------- MODULE ReplicatedFS ----------------------------
(***************************************************************************)
(* The file layer of one node: ReplicatedFS (src/storage/replicated_fs.go) *)
(* over a PersistenceStore (src/storage/persistence.go) and a CRDTStore.   *)
(*                                                                         *)
(* WriteFile holds fs.mu for its whole run, but it persists one chunk at a *)
(* time and the store may be closed (node.Stop closes it first), BadgerDB  *)
(* may refuse a chunk or the process may die between two of them, so each  *)
(* chunk is a step.  SyncWithPeer runs without fs.mu and reads the CRDT    *)
(* store one document at a time: its steps interleave with the writers.    *)
(*                                                                         *)
(* A chunk is identified by its content, as its ID is the SHA-256 of it.   *)
(* A file is identified by its path: a path gets one file ID, the first    *)
(* time it is written, and keeps it while the process lives.               *)
(*                                                                         *)
(* An action named A_Something is A with a plausible bug in it, for the    *)
(* mutation runs; no specification uses it.                                *)
(***************************************************************************)
EXTENDS Integers, Sequences

CONSTANTS
  Path,        \* paths of files
  Block,       \* contents of chunks
  MaxChunks,   \* bound: chunks in one file
  MaxDocs,     \* bound: CRDT documents created while the process lives
  NoOp, NoDoc, \* no WriteFile running; no document fetched
  NoData       \* what a chunk without data, or a missing one, reads as

ASSUME FSAssumption ==
  /\ MaxChunks \in Nat
  /\ MaxDocs \in Nat
  /\ NoOp \notin [path : Path, todo : Seq(Block), done : Seq(Block)]
  /\ NoDoc \notin Nat
  /\ NoData \notin Block

VARIABLES
  files,    \* fs.files, by path: the chunk list and the Deleted flag
  chunks,   \* fs.chunks: whether the chunk in memory carries its data
  disk,     \* the chunk: entries of BadgerDB
  closed,   \* PersistenceStore.closed
  op,       \* the WriteFile that holds fs.mu, or NoOp
  heap,     \* the CRDTDocument objects created so far
  crdt,     \* CRDTStore.documents: a pointer into heap, by path
  sync,     \* SyncWithPeer: control state, documents to visit, remoteDoc
            \* and localDoc
  acked     \* what the last successful WriteFile of a path wrote

fsVars == <<files, chunks, op, acked>>
storeVars == <<disk, closed>>
crdtVars == <<heap, crdt>>
vars == <<fsVars, storeVars, crdtVars, sync>>

Contents == UNION {[1..n -> Block] : n \in 0..MaxChunks}

Assign(f, key, value) ==
  [k \in DOMAIN f \cup {key} |-> IF k = key THEN value ELSE f[k]]

Remove(f, key) == [k \in DOMAIN f \ {key} |-> f[k]]

Empty == [p \in {} |-> {}]

File == [chunks : Seq(Block), deleted : BOOLEAN]

Document(paths) == [path : paths, deleted : BOOLEAN, locked : BOOLEAN]

FilesTyped ==
  /\ DOMAIN files \subseteq Path
  /\ files \in [DOMAIN files -> File]
  /\ \A p \in DOMAIN files : Len(files[p].chunks) <= MaxChunks
  /\ DOMAIN chunks \subseteq Block
  /\ chunks \in [DOMAIN chunks -> BOOLEAN]
  /\ disk \subseteq Block
  /\ closed \in BOOLEAN

OpTyped ==
  \/ op = NoOp
  \/ /\ op \in [path : DOMAIN files, todo : Seq(Block), done : Seq(Block)]
     /\ Len(op.done) + Len(op.todo) <= MaxChunks

DocsTyped ==
  /\ heap \in Seq(Document(DOMAIN files))
  /\ Len(heap) <= MaxDocs
  /\ DOMAIN crdt \subseteq DOMAIN files
  /\ crdt \in [DOMAIN crdt -> 1..Len(heap)]
  /\ \A p \in DOMAIN crdt : heap[crdt[p]].path = p

SyncTyped ==
  sync \in [pc : {"idle", "list", "remote", "local", "merge", "stuck"},
            ids : SUBSET DOMAIN crdt,
            remote : 1..Len(heap) \cup {NoDoc},
            local : 1..Len(heap) \cup {NoDoc}]

AckedTyped ==
  /\ DOMAIN acked \subseteq DOMAIN files
  /\ acked \in [DOMAIN acked -> Seq(Block)]

TypeOK == FilesTyped /\ OpTyped /\ DocsTyped /\ SyncTyped /\ AckedTyped

At(pc, ids, remote, local) ==
  [pc |-> pc, ids |-> ids, remote |-> remote, local |-> local]

Idle == At("idle", {}, NoDoc, NoDoc)

Init ==
  /\ files = Empty
  /\ chunks = Empty
  /\ disk = {}
  /\ closed = FALSE
  /\ op = NoOp
  /\ heap = <<>>
  /\ crdt = Empty
  /\ sync = Idle
  /\ acked = Empty

-----------------------------------------------------------------------------
(* CRDTStore.Put of a new document for a path (crdt.go:315): the pointer   *)
(* moves to the new object, whoever still holds the old one.               *)
PutDoc(p, deleted) ==
  /\ heap' = Append(heap, [path |-> p, deleted |-> deleted, locked |-> FALSE])
  /\ crdt' = Assign(crdt, p, Len(heap) + 1)

CanPutDoc == Len(heap) < MaxDocs

(* WriteFile up to its loop: an existing path keeps its chunk list (and    *)
(* its Deleted flag) for now, a new one appears with no chunk.             *)
BeginWrite(p, data) ==
  /\ op = NoOp
  /\ CanPutDoc
  /\ op' = [path |-> p, todo |-> data, done |-> <<>>]
  /\ files' = IF p \in DOMAIN files
              THEN files
              ELSE Assign(files, p, [chunks |-> <<>>, deleted |-> FALSE])
  /\ UNCHANGED <<chunks, acked, storeVars, crdtVars, sync>>

WriteChunk_ListsAtOnce ==
  /\ op # NoOp
  /\ op.todo # <<>>
  /\ ~closed
  /\ LET b == Head(op.todo)
         done == Append(op.done, b)
     IN  /\ chunks' = Assign(chunks, b, TRUE)
         /\ disk' = disk \cup {b}
         /\ op' = [path |-> op.path, todo |-> Tail(op.todo), done |-> done]
         /\ files' = [files EXCEPT ![op.path].chunks = done]
  /\ UNCHANGED <<closed, acked, crdtVars, sync>>

(* One turn of the loop: the chunk enters fs.chunks and is then persisted. *)
WriteChunk ==
  /\ op # NoOp
  /\ op.todo # <<>>
  /\ ~closed
  /\ LET b == Head(op.todo)
     IN  /\ chunks' = Assign(chunks, b, TRUE)
         /\ disk' = disk \cup {b}
         /\ op' = [ path |-> op.path, todo |-> Tail(op.todo),
                    done |-> Append(op.done, b) ]
  /\ UNCHANGED <<files, closed, acked, crdtVars, sync>>

FailChunk_KeepsGoing ==
  /\ op # NoOp
  /\ op.todo # <<>>
  /\ chunks' = Assign(chunks, Head(op.todo), TRUE)
  /\ op' = [ path |-> op.path, todo |-> Tail(op.todo),
             done |-> Append(op.done, Head(op.todo)) ]
  /\ UNCHANGED <<files, acked, storeVars, crdtVars, sync>>

(* persistChunk fails, because the store is closed or BadgerDB refuses:    *)
(* WriteFile returns at once, leaving the chunk in memory only.            *)
FailChunk ==
  /\ op # NoOp
  /\ op.todo # <<>>
  /\ chunks' = Assign(chunks, Head(op.todo), TRUE)
  /\ op' = NoOp
  /\ UNCHANGED <<files, acked, storeVars, crdtVars, sync>>

(* The rest of WriteFile.  persistMetadata builds a key and stores nothing *)
(* (replicated_fs.go:305-309).                                             *)
FinishWrite ==
  /\ op # NoOp
  /\ op.todo = <<>>
  /\ files' = [files EXCEPT ![op.path].chunks = op.done]
  /\ PutDoc(op.path, FALSE)
  /\ acked' = Assign(acked, op.path, op.done)
  /\ op' = NoOp
  /\ UNCHANGED <<chunks, storeVars, sync>>

DeleteFile_CRDTOnly(p) ==
  /\ op = NoOp
  /\ CanPutDoc
  /\ p \in DOMAIN files
  /\ ~files[p].deleted
  /\ PutDoc(p, TRUE)
  /\ acked' = Remove(acked, p)
  /\ UNCHANGED <<files, chunks, op, storeVars, sync>>

DeleteFile_Unchecked(p) ==
  /\ op = NoOp
  /\ CanPutDoc
  /\ files' = [q \in DOMAIN files |->
                IF q = p THEN [files[q] EXCEPT !.deleted = TRUE] ELSE files[q]]
  /\ PutDoc(p, TRUE)
  /\ acked' = Remove(acked, p)
  /\ UNCHANGED <<chunks, op, storeVars, sync>>

(* DeleteFile: a missing path is an error, a deleted one a no-op.          *)
DeleteFile(p) ==
  /\ op = NoOp
  /\ CanPutDoc
  /\ p \in DOMAIN files
  /\ ~files[p].deleted
  /\ files' = [files EXCEPT ![p].deleted = TRUE]
  /\ PutDoc(p, TRUE)
  /\ acked' = Remove(acked, p)
  /\ UNCHANGED <<chunks, op, storeVars, sync>>

(* PersistenceStore.Close, called by node.Stop.  It waits for a Put that   *)
(* is running, not for the WriteFile around it.                            *)
Close ==
  /\ ~closed
  /\ closed' = TRUE
  /\ UNCHANGED <<fsVars, disk, crdtVars, sync>>

(* The process ends, in order or not, and a new one opens the same         *)
(* database: NewReplicatedFS and loadIndex.  There is no file: entry to    *)
(* load, and a chunk is loaded without its data.                           *)
Restart ==
  /\ files' = Empty
  /\ chunks' = [b \in disk |-> FALSE]
  /\ closed' = FALSE
  /\ op' = NoOp
  /\ heap' = <<>>
  /\ crdt' = Empty
  /\ sync' = Idle
  /\ acked' = Empty
  /\ UNCHANGED disk

-----------------------------------------------------------------------------
(* SyncWithPeer.  The "remote" documents are the node's own: GetAllIDs and *)
(* both Gets read fs.crdtStore.  Setting and clearing syncInProgress takes *)
(* fs.mu.  One SyncWithPeer runs at a time in this model.                  *)
SyncBegin ==
  /\ sync.pc = "idle"
  /\ op = NoOp
  /\ sync' = At("list", {}, NoDoc, NoDoc)
  /\ UNCHANGED <<fsVars, storeVars, crdtVars>>

SyncList ==
  /\ sync.pc = "list"
  /\ sync' = At("remote", {p \in DOMAIN crdt : ~heap[crdt[p]].deleted},
                NoDoc, NoDoc)
  /\ UNCHANGED <<fsVars, storeVars, crdtVars>>

SyncGetRemote ==
  /\ sync.pc = "remote"
  /\ \E p \in sync.ids : sync' = At("local", sync.ids, crdt[p], NoDoc)
  /\ UNCHANGED <<fsVars, storeVars, crdtVars>>

SyncGetLocal ==
  /\ sync.pc = "local"
  /\ sync' = At("merge", sync.ids, sync.remote, crdt[heap[sync.remote].path])
  /\ UNCHANGED <<fsVars, storeVars, crdtVars>>

NextDocument ==
  At("remote", sync.ids \ {heap[sync.remote].path}, NoDoc, NoDoc)

(* localDoc.Merge(remoteDoc).  CRDTDocument.Merge returns early when the   *)
(* remote document is deleted.  Otherwise the two values merge: when they  *)
(* are one object, CRDTValue.Merge locks c.mu and then waits for the same  *)
(* mutex, holding the document's as well.  When a Put came between the two *)
(* Gets, the live values of one path merge to what the newer already held. *)
SyncMergeDeleted ==
  /\ heap[sync.remote].deleted
  /\ heap' = [heap EXCEPT ![sync.local].deleted = TRUE]
  /\ sync' = NextDocument

SyncMergeSelf ==
  /\ ~heap[sync.remote].deleted
  /\ sync.local = sync.remote
  /\ heap' = [heap EXCEPT ![sync.local].locked = TRUE]
  /\ sync' = At("stuck", sync.ids, sync.remote, sync.local)

SyncMergeOther ==
  /\ ~heap[sync.remote].deleted
  /\ sync.local # sync.remote
  /\ sync' = NextDocument
  /\ UNCHANGED heap

SyncMerge ==
  /\ sync.pc = "merge"
  /\ SyncMergeDeleted \/ SyncMergeSelf \/ SyncMergeOther
  /\ UNCHANGED <<fsVars, storeVars, crdt>>

SyncEnd ==
  /\ sync.pc = "remote"
  /\ sync.ids = {}
  /\ op = NoOp
  /\ sync' = Idle
  /\ UNCHANGED <<fsVars, storeVars, crdtVars>>

(* What the readers see: ListFiles with no prefix, and ReadFile.           *)
ListFiles == {p \in DOMAIN files : ~files[p].deleted}

ReadChunk(b) == IF b \in DOMAIN chunks /\ chunks[b] THEN b ELSE NoData

ReadFile(p) ==
  [i \in 1..Len(files[p].chunks) |-> ReadChunk(files[p].chunks[i])]

WriteStep == WriteChunk \/ FailChunk \/ FinishWrite
SyncStep == SyncList \/ SyncGetRemote \/ SyncGetLocal \/ SyncMerge \/ SyncEnd

Next ==
  \/ \E p \in Path, data \in Contents : BeginWrite(p, data)
  \/ WriteStep
  \/ \E p \in Path : DeleteFile(p)
  \/ Close
  \/ Restart
  \/ SyncBegin
  \/ SyncStep

Spec == Init /\ [][Next]_vars

\* The goroutines that run WriteFile and SyncWithPeer are scheduled.
FairSpec == Spec /\ WF_vars(WriteStep) /\ SF_vars(SyncStep)

-----------------------------------------------------------------------------
(* Properties. *)

\* The chunk is in memory with its data, and on disk.
Durable(b) == b \in disk /\ b \in DOMAIN chunks /\ chunks[b]

\* A chunk a file refers to is in memory with its data and on disk: the list
\* of a file is replaced only once every chunk of it is persisted, and a chunk
\* that a restart loaded without data is never one a file refers to
\* (replicated_fs.go:96-114, 147-171).
ReferencedChunksDurable ==
  \A p \in DOMAIN files : \A i \in 1..Len(files[p].chunks) :
    Durable(files[p].chunks[i])

\* Until it is deleted, a path reads as its last successful WriteFile wrote
\* it, whatever writes failed half way since, of this path or of another that
\* shares chunks with it, and whether or not the store was closed.  (A path
\* that was deleted stays deleted when it is written again: WriteFile never
\* clears the flag.)
ReadYourWrites ==
  \A p \in DOMAIN acked \cap ListFiles : ReadFile(p) = acked[p]

\* The abstract store: what readers get, and the write that holds fs.mu.
Store == INSTANCE FileStore WITH
  Data <- Contents,
  content <- [p \in ListFiles |-> ReadFile(p)],
  deleted <- DOMAIN files \ ListFiles,
  writing <- IF op = NoOp THEN {}
             ELSE {[path |-> op.path, data |-> op.done \o op.todo]}

\* A reader gets the whole of what one WriteFile was given, whatever fails half
\* way, shares chunks, is closed or synchronised meanwhile
\* (replicated_fs.go:116-231).
ImplementsFileStore == Store!FSpec

\* The CRDT document of a listed file is never a tombstone, so that a peer
\* would not be told to delete it: a SyncWithPeer that read a document before
\* a DeleteFile or WriteFile must not carry a deletion over to a live file.
TombstoneMeansDeleted ==
  \A p \in DOMAIN crdt \cap ListFiles : ~heap[crdt[p]].deleted

\* BadgerDB gives a file back after a restart ("CRDTs + BadgerDB",
\* docs/vision_consecuencias.md:42; "failed to persist metadata",
\* replicated_fs.go:173): a file written and listed is listed afterwards.
FilesSurviveRestart ==
  [][Restart => DOMAIN acked \cap ListFiles \subseteq ListFiles']_vars

\* A synchronisation ends ("sincronizacion offline-first",
\* docs/vision_consecuencias.md:42), and with it sync_in_progress.
SyncEnds == sync.pc # "idle" ~> sync.pc = "idle"

=============================================================================
