# Web5 Mesh: TLA+ models, checks and proofs

This directory models the Go program in `src/`: a node that keeps replicated
files, rates its peers and finds them through a Kademlia table. Paths below are
relative to the repository (`src/storage/crdt.go` is the file of that name).

## 1. The system

A process (`main.go`) creates one `SovereignNode` (`src/core/node.go`), which
owns a BadgerDB store, a CRDT store, a replicated file system, a UDP socket and
a Kademlia table. HTTP handlers only report health. The reputation system and
the domain resolver are libraries of the same repository that the node does not
call yet.

| Component | State | Operations | Hard behaviour |
|---|---|---|---|
| CRDT documents and store, `src/storage/crdt.go` | map of documents; a document is a value with version, timestamp and dotted vector, a history and a deletion flag | create, `Update`, `Delete`, `Clone`, `Merge`; `Put`, `Get`, `MergeDocument`, `GetAllIDs` | concurrent writes, merges in any order, tie-breaking, deletion against update |
| Replicated file system, `src/storage/replicated_fs.go` | files by path, chunks, a CRDT document per file | `WriteFile`, `ReadFile`, `DeleteFile`, `ListFiles`, `SyncWithPeer`, `loadIndex` | a write that fails half way, restart, synchronisation running beside writers |
| Persistence store, `src/storage/persistence.go` | BadgerDB, closed flag, read-write lock | `Put`, `PutWithTTL`, `Get`, `Delete`, `BatchWrite`, `Iterate`, `GetSequence`, `Close`, periodic GC | `Close` under running calls, a collection outside the lock, batches that fail, a long iteration beside writers |
| Reputation system, `src/reputation/score.go` | reputation per node, bounded channel, statistics, two locks | register, submit, penalise, blacklist, decay, `Stats`, `Start`, `Stop` | full channel, lock order, wrap-around, stale activity flag |
| Routing table, `src/p2p/kademlia.go` | 160 buckets of 20 contacts | `AddContact`, `FindClosest` | concurrent insertion, full buckets, a search that reads bucket after bucket while contacts are added, truncated distance |
| Message loop, `src/p2p/kademlia.go`, `transport.go` | socket, running flag, key-value store | receive, answer, store, find, start, stop | lost and repeated datagrams, a loop that outlives `Stop`, errors on a closed socket |
| Sessions, `src/p2p/noise.go`, `handshake.go` | one session key per socket | handshake | never established by the program as it is |
| Hole punching, `src/p2p/holepunch.go` | registered peers | register, request, punch | message recognition, lost datagrams |
| Domain resolver, `src/domain_resolution/resolver.go` | cache with expiry | resolve, register, unregister, refresh | asynchronous clean-up, look-up in flight during `Unregister` |
| Node lifecycle, `src/core/node.go`, `main.go`, `src/p2p/nat.go`, `bootstrap.go` | phase of the process, goroutines | create, bootstrap, `Start`, `Stop` | goroutines that outlive `Stop`, a creation that blocks, a seed that is down |
| Proof of work, `src/p2p/pow.go`, `gas.go`, `src/crypto/puzzle.go`, `GenerateNodeIDFromPubKey` of `kademlia.go` | nonce, limit, identifier | mine, solve, check, verify | limits that wrap, three checks that must agree |
| Admission, `src/p2p/gas.go`, `auth.go`, `acl.go` | difficulty per IP | predicates | the only caller asks for one node, so that the difficulty is always zero |
| Cryptography, configuration, STUN, telemetry | - | library calls and I/O | - |

How they interact: `WriteFile` persists chunks through the persistence store
and puts a new CRDT document per write; `DeleteFile` puts a tombstone;
`SyncWithPeer` walks the CRDT store without the file system's lock; `node.Stop`
closes the persistence store before the file system. Documents reach other
replicas as clones, folded in by `MergeDocument`. The transport of these clones
is not in the repository: the model lets a clone be lost, repeated and delayed.

What makes each part correct: replicas converge and never move backwards (CRDT);
a file a reader can list is whole and reads as last written (file system); no
update is lost or waits for ever, flags and statistics agree with scores
(reputation); a peer has one entry, the nearest are found (routing); an
unregistered domain does not come back, and what is cached becomes current
(resolver); a call takes effect at once or not at all, and never on a closed
database (persistence); a search finds the least nonce, which every check accepts
(proof of work); loops end and never spin, a seed is reached again after any failure,
a stored value is found (message loop and lifecycle).

## 2. Modules

* `CRDTDocument` - the document of `crdt.go` as pure operators, one per method,
  named after it. `MergeValue` has the three branches of `CRDTValue.Merge`:
  a newer version replaces everything including the vector; a won tie takes the
  content and keeps the local vector; otherwise only the vectors are merged.
* `LWWRegister` - the abstract promise: each replica of a document is a point of
  a join-semilattice (absent, live points ordered by version, timestamp and
  digest, tombstone on top). A local write moves up, a delivery joins, and nothing
  is ever taken back.
* `CRDTReplicas` - replicas and a network of clones. Actions: `Put`,
  `PutTombstone` (`NewCRDTDocument`, `Delete` and `Put`, as `DeleteFile` does),
  `Update`, `Delete`, `Send` (`Clone`), `MergeDocument`, `Lose`. `Put` replaces
  what the store holds, as the second `WriteFile` of a path does.
  `ImplementsRegister` is the refinement of `LWWRegister`, through what a reader
  sees of a document (`Visible`): every step is one of the register or changes nothing
  of it, with one exception by name, `Replaces`, a `Put` over a document. That step
  starts again at version 1 whatever the replica held, and no register does that.
* `ReplicatedFS` - one node's files over its persistence store and CRDT store.
  `WriteFile` is `BeginWrite`, one `WriteChunk` or `FailChunk` per chunk, and
  `FinishWrite`; it holds `fs.mu` throughout (`op`). `SyncWithPeer` is a
  process of its own (`SyncBegin` ... `SyncEnd`) that holds pointers to document
  objects (`heap`) while writers replace them in the store. `Close` may come
  between any two chunks. `Restart` stands for both an orderly end and a crash.
* `FileStore` - the abstract promise of the file system to its callers: a content per
  listed path. A write gives a file all of its content at one moment or fails and
  changes no content, and only `Delete` or the end of the process takes one away. It
  promises no more than the code: a file is listed, and empty, once its first write has
  begun, and a deleted path is never listed again.
* `KVRequests`, `KVStore`, `PersistenceStore` - what is asked of the store and
  answered, the abstract store, and `persistence.go`. In `KVStore` a request takes
  effect at one moment between its start and its return or is refused, and an
  iteration goes over the state of one moment. In `PersistenceStore` a request
  waits for `s.mu` (`RLock`, `Lock`), reads `closed` and runs its transaction;
  `Iterate` visits one item per step and holds the read lock meanwhile; `Close` is
  `Lock`, `MarkClosed` once the readers have left, and `CloseDB`. The goroutine of
  `periodicGC` is `Tick`, `FirstCheck` (which reads `closed` without the lock and
  may see its former value), `SecondCheck`, `BeginGC`, `EndGC`. `Restart` ends the
  process anywhere. A transaction is the function of the entries it sets; a key is
  a number and a prefix an interval, as BadgerDB's order has it.
* `ProofOfWork` - a process that mines a NodeID (`GenerateNodeIDFromPubKey`) or a
  puzzle (`SolvePuzzle`, then `VerifyNonce`), one nonce per step. Further puzzles may
  be made for the same DID, of other difficulties; `Restart` is another process, which
  has another key and another DID, as none is stored (`NewIdentity`).
  SHA-256 is a function that is revealed as it is computed (`digest`), so that the
  runs range over every such function; `CheckPoW`, `VerifyPoW` and
  `countLeadingZeroBits` are operators on its values. Shifts are products and
  quotients with `PowerOf2`. `Limit` wraps as
  `uint64(1 << (p.Difficulty + 8))` does.
* `Reputation` - callers, the channel, the update goroutine, decay and the
  statistics. Each operation that changes a reputation is followed by
  `UpdateStats`, which needs the second lock. A caller that finds the channel
  full (`direct`) applies its update later, when it gets the lock. `StatsBegin` and
  `StatsEnd` are `Stats`, which takes the two locks the other way round: in the
  specification, as in the program, it may bring everything to a halt (`Crossed`).
* `RoutingTable` - buckets, the stamp `AddContact` takes before it waits for the
  bucket, and `Bucket.Add`. `FindClosest` is a process of its own: `FindClosest` (the
  call), one `GetContacts` per bucket, each under that bucket's mutex only, and
  `Return` of `Closest`, the exchange sort and cut of what was read. `steady` is a
  history variable: the nodes that were in the table ever since the call. A node ID is
  the set of its one-bits, so XOR is symmetric difference.
* `Resolver` - goroutines at work on a DHT and a cache. `cacheMu` is taken per
  access, so a `Resolve` is `Resolve`, `GetFromCache`, `LookupValue`, `AddToCache`,
  and an `Unregister` is the store of an empty value and then `Evict`. The
  goroutine `getFromCache` leaves behind is `Clean`. A DID is the sequence of its
  parts between bars, since `parseRecord` splits at every bar. `settled` is a
  history variable: the domains whose `Unregister` ended while no look-up held a
  record of them, and that were not registered since.
* `Mesh` - nodes from creation to end, and the datagrams between them. `phase` is
  what `main` does (in `NewSovereignNode` it is `stun`, then `bootstrap`);
  `Create` is `initP2P` up to the STUN request, `Serve` one turn of
  `handleMessages` with a datagram, `ReadFails` one turn in which `ReadFrom`
  returns an error, `BootPing` and `BootFind` a round of `Bootstrapper.Start`;
  A text a user sends is the sequence of its parts between colons, so that
  `SplitN(..., ":", 2)` is its head and its tail, the branch for an invalid format one
  part alone, and the length guards of `kademlia.go:245` and `255` refuse the text that
  is empty.
  `StopKademlia` and `CloseTransport` are the two steps of `Stop` that matter here,
  and `Exit` ends the process at any point. `SovereignNode.Start` only sets a flag
  directly after creation, so it is part of the step that ends the bootstrap.
* `MC...` - instances for TLC. `CRDTProofs`, `FSProofs`, `PersistenceProofs`,
  `PoWProofs`, `ReputationProofs`, `RoutingProofs`, `ResolverProofs` and
  `MeshProofs` - theorems about `CRDTReplicas`, `ReplicatedFS`, `PersistenceStore`,
  `ProofOfWork`, `Reputation`, `RoutingTable`, `Resolver` and `Mesh`.

An operator or action called `X_Something` is `X` with a plausible mistake. No
specification uses it; it documents what a property would notice.

## 3. Runs

| Run | Configuration | Shows |
|---|---|---|
| `crdt` | `MCCRDTReplicas.cfg` | All properties of `CRDTReplicas`; but for a `Put` over a document, a replica never moves down the semilattice |
| `fs` | `MCReplicatedFS.cfg` | Referenced chunks are durable, the file system implements `FileStore`, listed files are not tombstones for peers |
| `fs_restart` | `MCReplicatedFSRestart.cfg` | Violated: no metadata is stored, so no file survives a restart |
| `fs_sync` | `MCReplicatedFSSync.cfg` | Violated: `SyncWithPeer` merges a document with itself and blocks |
| `reputation` | `MCReputation.cfg` | No update is lost, flags and statistics are consistent, blacklisting is permanent and undone by decay alone, every update is applied |
| `rep_blacklist` | `MCReputationBlacklist.cfg` | Violated: decay reactivates a blacklisted node |
| `rep_stats` | `MCReputationStats.cfg` | Violated: `Stats` and an update wait for each other's lock |
| `routing` | `MCRoutingTable.cfg` | One entry per node, the nearest contacts found while others are added |
| `resolver` | `MCResolver.cfg` | An unregistered domain leaves the cache for good; nothing prolongs what is out of date; the cache comes to agree with the DHT |
| `mesh` | `MCMesh.cfg` | Loops end, never spin and keep one value at most after `Stop`; a node reaches its seed again, stored values are found |
| `store` | `MCPersistenceStore.cfg` | Calls are atomic, return, and never run on a closed database; the collector of a closed store ends |
| `pow` | `MCProofOfWork.cfg` | The checks agree, searches find the least nonce or end, mined identifiers validate |

The four violated properties are disagreements between the code and what the
repository says of it; `PROJECT.json` quotes the lines.

### Bounds, and why they are enough

* `crdt`: two nodes, one document, two contents, two instants, versions up to 4, five
  writes in all, histories of two, one snapshot in flight (it may be delivered any
  number of times before it is lost or joined by another). Documents do not interact,
  so one is enough. Of the four pairs of a content and an instant three are written
  (`Writes`): two contents at one instant, and one of them also at the other, which
  gives every outcome of the tie-break, by instant and by digest. Five writes let one
  replica record a version, merge a newer value, and record another, so that a history
  has two entries with a merge between them (1 and 3), and is then full; and they let a
  replica fall writes behind, or start a document again and meet its past. The bound is
  on the writes (`written`), as versions alone would allow endless `Put`s.
  `GreatestIsSeen` looks at every sequence of up to two merges into a document, which
  holds a reordering and a repetition. The theorems of section 5 remove all these
  bounds.
* `fs`: two paths, two chunk contents (so files share chunks), files of up to two
  chunks (so a write can fail after the first), four documents, that is four
  completed writes and deletions in one life of the process, any number of
  restarts. `fs_sync` needs two documents only.
* `reputation`: two nodes, scores 1 to 4 with 3 and 4 active, words of four bits,
  a channel of one place and one caller, so that the channel is full whenever it
  holds anything; two updates per node. `UpdatesApplied` does not rest on that bound to
  be true: it speaks of each update and not of an empty channel, and the channel being
  first in, first out, later submissions do not delay one that waits. Submitted changes
  include a loss of two points and a success that wraps; penalties include one above the
  largest signed value. Decay takes any amount from any node, as time since last use is
  not modelled. One update per node is enough for `rep_stats`.
* `resolver`: two callers, one domain (domains share nothing but the mutex), two DIDs
  of which one holds a bar, TTLs below, at and above one tick, a day of three
  ticks, two clean-up goroutines that have yet to run.
* `mesh`: the seed, one other node, one user who addresses the seed; one datagram in
  flight between two addresses, which a later one replaces, and two in all: with a
  third, the others are lost. The seed bootstraps from itself, as every node has the
  same list. The user sends `STORE:` with a key and one of two values, one of them
  empty, with an empty key, and with a key alone, and asks for the key; a value is
  replaced by another while the question is on its way.
* `store`: two clients, two keys, a value and the empty one, and the calls of
  `MCMade`: a batch of both keys and one with an empty key in it, a value with a TTL
  under the second key, a sequence and a deletion of the first, a read, an iteration over all keys and one over a prefix that
  only the second key has, and `Close`. Two clients and the collector give every pair
  of calls that can meet; two keys make a batch more than a write and an iteration
  more than a read.
* `pow`: hashes of two bytes of two bits, so that a byte boundary falls within the
  difficulties, every difficulty of two bits, and nonces of three bits: the limit of a
  puzzle is then two, four, zero (the shift leaves the word) and one (the sum wraps).
  Three attempts for a NodeID, so that mining may fail.
* `routing`: three-bit IDs of three one-bit bytes, a distance word of two bytes, so
  that one byte is truncated; a bucket of two places with three candidates; two
  concurrent callers and a search for one target; two instants, a contact being stale
  at the second if it was last seen at the first. A search asks for less than a bucket,
  more than a bucket, or nothing, which means the default.

### Fairness

`CRDTReplicas` and `RoutingTable` state safety only. `Reputation` has one
specification for all its runs. It assumes strong fairness of the update goroutine, of
a caller that applies its own update and of the end of `Stats` (each needs a mutex that
others also take; Go's mutexes hand over to a waiter that starves) and weak fairness of
the end of an operation that holds the lock. `rep_stats` fails under it none the less,
and `UpdatesApplied` names what it fails for. `ReplicatedFS!FairSpec`, used by `fs_sync` only, assumes that the goroutines
of `WriteFile` and `SyncWithPeer` are scheduled.

`Resolver!FairSpec` assumes that time passes and that a goroutine with a record in
hand caches it; nobody need resolve anything. `Mesh!FairSpec` assumes that the main
goroutine, the ticker of `BootstrapLoop` and the read time-out of 10 seconds go on,
that the user asks again and again, and, with strong fairness, that of the bootstrap
requests and of the questions sent again and again some are received. It does not
assume that a process is started, stopped or killed, or that a STUN answer arrives:
`DiscoverPublicIP` ends by itself unless its datagrams are lost.

`PersistenceStore` assumes strong fairness of taking the lock (Go's `sync.RWMutex`
lets no reader and no writer starve) and weak fairness of what a call does once it
has it, which includes that the function given to `Iterate` returns and that
BadgerDB answers; and of the collector, whose ticker ticks. Nobody need call, and
nothing need fail or expire. `ProofOfWork` assumes that the loop of a search goes on.

Deadlock is checked except for `Reputation`, where everything may be done once
`Stop` has returned and the bound on submissions is reached.

## 4. Properties

* `ClockBoundedByVersion`, `HistoryOrdered`, `GreatestIsSeen`,
  `UnreportedMergeIsNoop`, `ImplementsRegister` (CRDT).
  `GreatestIsSeen` is strong convergence: readers see the greatest of the points a
  replica met, whatever the order and the repetitions. `ExchangeConverges`, that two
  replicas which merge each other's document agree, follows from it: it is proved
  (`ExchangeCorrect`) and not run.
  Convergence is of what readers see; vectors and histories of two replicas may
  differ for ever, and no decision of the code depends on them.
* `ReferencedChunksDurable`, `ImplementsFileStore`, `TombstoneMeansDeleted` (files).
  A path that was deleted and is written again stays unreadable, because
  `WriteFile` does not clear the flag; the abstract store says so. `ReadYourWrites`, a
  listed file reads as the last successful write of it, is proved and not run, as
  every violation of it is a step that `FileStore` does not have.
* `NoOperationOnClosed`, `CallsReturn`, `CollectorStops`, `ImplementsStore` (store).
  An empty value is stored and given by `Iterate`, but `Get` and `Has` take it for no
  entry, as `ValueCopy(nil)` of it is nil; the abstract store says so.
* `CheckersAgree`, `LeastSolution`, `MinedIDValidates`, `SearchEnds` (proof of work). The checks agree up to the 32 bits `CheckPoW` looks at. The limit of
  `SolvePuzzle` wraps to zero from a difficulty of 56 on: the search then ends at once,
  which `LeastSolution` and `SearchEnds` allow, as the code reports an error. Below that
  `LeastSolution` does ask for all 2^(d + 8) nonces before a failure.
* `NoUpdateLost`, `ActiveIsEarned`, `StatsCurrent`, `BlacklistIsPermanent`,
  `ReactivatedByDecayOnly`, `UpdatesApplied` (reputation). `ReactivatedByDecayOnly` says
  of the violated `BlacklistedIsInactive` that decay alone is at fault. `UpdatesApplied`
  says that no update waits for ever while the system runs, unless `Stats` and an
  operation each hold the lock the other needs, which `rep_stats` shows to happen.
  Updates that `Stop` strands in the channel are never applied; `NoUpdateLost` counts
  them as waiting. In which direction a penalty that wraps moves a score is not a
  property: it may raise it.
* `OneEntryPerNode`, `FindClosestIsNearest` (routing). Nothing is said of who is
  evicted: `AddContact` takes its stamp before it waits for the bucket, so that a
  delayed one sets the stamp of a node back and the node is replaced although it was
  just seen. The distance is the one the code computes (the last eight bytes), and
  `FindClosestIsNearest` asks for at least a full bucket, as `FindClosest` reads
  only the first `count` contacts of each bucket. As the search sees no single moment
  of the table, what it owes is owed to the nodes that were there all the time: one
  that it does not return is no nearer than those it does.
* `UnregisteredIsUncached`, `StaleNeverProlonged`, `EventuallyCurrent` (resolver). A
  look-up that already holds the record when `Unregister` ends may put it back for one
  lifetime; the first property excludes any other way back, the last says the record
  does go. `StaleNeverProlonged` is why: of the records that are not what the DHT holds,
  cached or in a caller's hands, none comes to last longer than one could before.
* `NeverSpins`, `LoopEnds`, `Reconnects`, `OneLateStoreAtMost`, `StoredIsFound` (mesh);
  proved and not run, `StaysWhereSent`. `LoopEnds` says that a loop does not stay for
  ever in a process whose `Stop` has returned (the process may be replaced by another
  with a loop of its own). `StoredIsFound` says that who asks again and again is
  answered again and again with the value the node keeps then. It leaves out the empty
  key, for which the program does not have it: `STORE::v` has more than six bytes and
  keeps `v` under the empty key, but `FIND_VALUE:` has just the eleven bytes that
  `kademlia.go:255` wants exceeded, so that nobody can ask for it.
  `Reconnects` and `StoredIsFound` speak of runs in which the processes concerned
  stay up from some point on, after any earlier crashes, and of a value that stays
  in the store from then on.

## 5. Proofs

`CRDTProofs` proves, for every number of nodes, documents, contents, versions,
instants and snapshots in flight: `TypeCorrect`, `ClockBoundedCorrect`,
`HistoryOrderedCorrect`, `ExchangeCorrect`, `GreatestIsSeenCorrect`,
`StrongConvergence`, `ReportCorrect` and `RefinementCorrect` (`Spec =>
ImplementsRegister`: a merge, an update, a deletion and a first `Put` are steps of the
register, or leave it alone). Assumptions: digests of the contents in use do not
collide (`DigestAssumption`) and the bounds are positive.

The argument: every step changes at most one document of one store, and the new
document is a fresh one, an update, a deletion or a merge of documents that exist
(`StepEffect`); each of these operators preserves the type, the clock bound and the
order of the history, so the invariants follow by induction over documents stored
or in flight. Convergence and the refinement rest on one lemma, `MergeIsJoin`: what
a reader sees of `DocMerge(a, b)` is the join, in the order of `LWWRegister`, of
what a reader sees of `a` and `b`. That the order is total, transitive and
antisymmetric gives commutativity and, by induction on the number of merges
(`MergeKeepsGreatest`, `MergeAllGreatest`), that any sequence of merges shows the
greatest of its points. `StrongConvergence` follows: two replicas that met the same
set of points show the same content, however often and in whatever order each merged.

Inductions over intervals. The induction theorems of the library take an operator, so
the proofs state what they prove as membership in a set and use `IntervalInduction`,
which each module that needs it derives from the well-foundedness of `<`. To know
anything of a recursive function one also has to show that it exists: its definition
chooses a function with the recursive equation, and lemmas such as `MergesExist`,
`Iteration` and `DoublesExists` build one, again by induction.

`FSProofs` proves `TypeCorrect`, `ReferencedChunksDurableCorrect`,
`ReadYourWritesCorrect`, `TombstoneMeansDeletedCorrect` and `FileStoreRefines` (`Spec =>
ImplementsFileStore`) for any paths, blocks and number of documents. The inductive invariant adds that the chunks a running write
has passed are on disk and in memory and that it may still put its document; that
what was acknowledged is what the file refers to; that a tombstone object exists only
for a deleted file; and that the two documents `SyncWithPeer` holds are of one path,
so that no merge makes a tombstone of the document of a listed file. In the
refinement a chunk that is written is invisible: as every chunk a file refers to is
durable, `ReadFile` gives exactly the list of the file (`ReadIs`), and what a running
write has done and has to do is always the content it was given (`WholeWrite`), so that
`FinishWrite` publishes all of it at once. Assumption: the
markers for "no operation", "no document" and "no data" are none of the real ones.

`ResolverProofs` proves `TypeCorrect`, `UnregisteredCorrect` and
`StaleNeverProlongedCorrect`. The invariant
(`SettledIsGone`) says of a settled domain that the DHT holds the empty value, the
cache nothing and no caller a record: the three places a record could come back
from. For `StaleNeverProlonged`, what is cached after a step was cached before or in a
caller's hands (`ServedFromBefore`), and what a caller holds it held before or has
just got from the DHT (`HeldFromBefore`); the bound follows from these two alone
(`SourcesMakeStaleStep`). It is the part of `EventuallyCurrent` that needs no fairness:
what is left for TLC is that time passes and a record in hand is cached. Assumptions: a DID has at least one part, TTLs are integers, a day is
positive.

`MeshProofs` proves `TypeCorrect`, `NeverSpinsCorrect`, `OneLateStoreAtMostCorrect` and
`StaysWhereSentCorrect` for any nodes and users. What makes the second inductive is
`ToldToEnd`: once `Stop` has begun, `running` is cleared, so closing the socket cannot
leave a loop that would try again. The same invariant bounds what the unsynchronised
end of the loop can do: the turn that is under way when `Stop` comes is the last, so
that one value more may be stored, and no other. A value stays on the nodes a user sent
it to (`StaysWhereSent`) because no message that would store one is ever on its way to
another node (`NoStoreOnTheWay`): no reply is a `STORE` (`ReplyIsNotStore`), and the
bootstrap sends none. The key-value store of the nodes is therefore not replicated.

`PersistenceProofs` proves `TypeCorrect`, `OpenDatabase` and `StoreRefines` (`Spec =>
ImplementsStore`) for any clients, keys, values, prefixes and calls. The invariant of
`OpenDatabase` (`LockInv`) relates the lock to the flags: there is one writer, and
`closed` and the state of the database differ only while it is in `Close`. The
refinement needs more of an iteration (`Iterating`): what it gave are pairs of its view
with its prefix, and every such pair it has passed was given or could have expired.
Every step of the store is then a step of `KVStore` or changes nothing of it, the
lock and the collector being invisible.

`PoWProofs` proves `TypeCorrect`, `CheckersAgreeCorrect`, `LeastSolutionCorrect`,
and `MinedIDValidatesCorrect` for hashes, words and difficulties of any size. The checks agree since each of them compares the same number, the leading
zero bits of the hash (`ChecksAgree`): a byte has n of them exactly if it is below a
power of two (`HighBitsZero`, `LeadingZerosIs`), and the first byte that is not zero
decides for the hash (`CountIs`). The invariant of a search (`SearchInv`) is that every
nonce it has passed is refuted, and that its limit is the one of its difficulty, which
is 2^(d + Margin) where nothing wraps (`LimitFits`).

`ReputationProofs` proves `TypeCorrect`, `NoUpdateLostCorrect`, `ActiveIsEarnedCorrect`,
`StatsCurrentCorrect`, `BlacklistIsPermanentCorrect` and `ReactivatedByDecayOnlyCorrect`
for any nodes, callers, updates and widths of the word. The last one goes with the run
`rep_blacklist`: of all steps that can touch a blacklisted node, those of the channel
and of callers included, a decay is the only one that makes it active. `NoUpdateLost` is a sum over the counters of a node, the
channel and the callers with an update in hand, so its proof is one of cardinalities:
what appending, removing the head, and putting down an update does to each term.

`RoutingProofs` proves `TypeCorrect`, `OneEntryPerNodeCorrect` and
`FindClosestIsNearestCorrect` for identifiers of any length, any capacity and any number of callers. That the
index of a bucket is one (`IndexTyped`) needs the highest of a finite set of bits,
which comes from the well-foundedness of strict inclusion. `AddReplaces` says what a
bucket has of its former contacts after `Bucket.Add`; the invariant (`TableInv`) is
that each bucket has one entry per node, of nodes of its own distance only. For a
search, `SearchInv` adds that what was read has one entry per node, all of buckets
already passed, and that a node that was there all the time is either in what was read
or in a bucket still to be read (`GetContactsReads`); `ExchangeSortSorts` proves the
double loop of `FindClosest`, turn by turn, a sort by distance.

Model-checked only: all liveness (`EventuallyCurrent`, `LoopEnds`, `Reconnects`,
`StoredIsFound`, `UpdatesApplied`, `CallsReturn`, `CollectorStops`, `SearchEnds`), which is
beyond the prover, and the violated properties. Every other property of a passing run
is a theorem.

## 6. Not modelled

* Data no property tells apart: metadata, signatures, the node a value came from,
  timestamps used for display, file permissions and sizes.
* Inside BadgerDB: transactions are atomic and may fail, an iterator sees one state,
  `Close` waits for a running collection. The loss of power (`SyncWrites` is off) and
  the option of a store in memory, which the program never takes.
* Methods called directly on a `NodeReputation`, and merges of two stored objects into
  each other at the same time: nothing in the repository makes either call.
* Sessions (`noise.go`, `handshake.go`, `noise_layer.go`, `encryption.go`). In the
  program as it is no session is ever established: `node.go` initiates the handshake
  without the remote key, so that the Noise library refuses to write its first message,
  the responder compares four bytes with `HELLO`, and nothing calls
  `NewNoiseHandshake`. Datagrams in `Mesh` are therefore plain.
* The rendezvous protocol of `holepunch.go`: `handleMessages` never hands a datagram to
  `ProcessIncomingMessage`, whose prefixes are compared with slices of another length
  and so never match. It takes no step in any execution of the program.
* Creation of a node whose STUN datagram is lost: it waits in `DiscoverPublicIP` for
  ever, as the read has no deadline (`nat.go:37`). `Mesh` has the step (`StunLost`), and
  its liveness properties speak of nodes that got past it.
* `auth.go`, `acl.go` and `CleanupIPs` of `gas.go`, which have no callers; the
  difficulty `GetDifficulty` gives `ReadFrom` is in `Mesh`.
* `config.go` and `security.go`: default values and their validation, sequential, and
  partly without effect (`PoWDifficulty` is read by nobody). Telemetry: counters behind
  one lock that no decision depends on. STUN: one request and one reply.

A full bucket replaces its first contact in place (`kademlia.go:81-83`) and never drops
the least recently used one of those that are not stale, so that "Buckets limitados (20
contactos) + LRU" (README.md:213) is true of its first half only; no property asks for
the order. A document put over a present one starts again at version 1 and loses to
every peer that has seen more (`replicated_fs.go:175`), which is not the convergence in
a join-semilattice of docs/vision_consecuencias.md:57: the step is `Replaces` of
`CRDTReplicas`, which `ImplementsRegister` excepts.

## 7. Plan

1. (done) `CRDTDocument`, `LWWRegister`, `CRDTReplicas`, `CRDTProofs`; then
   `ReplicatedFS`, `Reputation`, `RoutingTable`, each with its instance.
2. (done) `Resolver`, `ResolverProofs`; `Mesh`, `MeshProofs`, which covers the
   message loop, the key-value store, the bootstrap and the node's lifecycle;
   `FSProofs`.
3. (done) `KVRequests`, `KVStore`, `PersistenceStore` and its refinement;
   `ProofOfWork`; the proofs of both, of `Reputation` and of `RoutingTable`.
4. (done) `FileStore`, which `ReplicatedFS` implements; the search of `RoutingTable`
   beside concurrent additions; the proofs of both, of the agreement of the checks of a
   proof of work and of strong convergence.
5. (done) What liveness rests on, as theorems: `StaleNeverProlonged` for the cache,
   `OneLateStoreAtMost` for the end of the loop; `StaysWhereSent` and
   `ReactivatedByDecayOnly`.
6. Possible next: sessions and rendezvous, should the program come to use them.
