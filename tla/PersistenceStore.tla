-------------------------- MODULE PersistenceStore --------------------------
(***************************************************************************)
(* PersistenceStore of src/storage/persistence.go: goroutines that read    *)
(* and write under the read lock of s.mu, Close under the write lock, and  *)
(* the goroutine of periodicGC, which collects outside the lock.           *)
(*                                                                         *)
(* BadgerDB is external.  Its transactions are atomic and may fail, an     *)
(* iterator sees the state of its start, Close waits for a running         *)
(* collection and RunValueLogGC of a closed database is refused.           *)
(*                                                                         *)
(* Left out: GetSize, which changes nothing, the sequences themselves that *)
(* GetSequence gives away, the option of a store in memory, which the      *)
(* program never takes, and the loss of power (SyncWrites is off): a       *)
(* restart follows the death of the process, which BadgerDB's mapped log   *)
(* outlives.                                                               *)
(*                                                                         *)
(* An action named A_Something is A with a plausible bug in it, for the    *)
(* mutation runs; no specification uses it.                                *)
(***************************************************************************)
EXTENDS KVRequests

VARIABLES
  db,      \* the entries of BadgerDB
  dbOpen,  \* db.Close has not been called
  closed,  \* s.closed
  pc,      \* where each client is: "idle", "lock" (waits for s.mu), "read"
           \* (holds the read lock), "visit" (and is in the loop of Iterate),
           \* "drain" (Close waits for the readers), "closing" (holds s.mu)
  req,     \* the request of each client
  view,    \* what the iterator of a client sees
  cursor,  \* where it stands
  given,   \* the pairs it gave to fn
  reply,   \* what the last call of each client returned, until it calls again
  gc       \* periodicGC: "off", "wait" (for the ticker), "first" and "second"
           \* (check of closed), "checked" or "collecting"

vars == <<db, dbOpen, closed, pc, req, view, cursor, given, reply, gc>>

ClientPC == {"idle", "lock", "read", "visit", "drain", "closing"}
CollectorPC == {"off", "wait", "first", "second", "checked", "collecting"}

TypeOK ==
  /\ db \in Database
  /\ dbOpen \in BOOLEAN
  /\ closed \in BOOLEAN
  /\ pc \in [Client -> ClientPC]
  /\ req \in [Client -> Made \cup {NoRequest}]
  /\ view \in [Client -> Database \cup {NoView}]
  /\ cursor \in [Client -> Nat]
  /\ given \in [Client -> SUBSET (Key \X Entry)]
  /\ reply \in [Client -> Answer]
  /\ gc \in CollectorPC

Init ==
  /\ db = [k \in Key |-> Absent]
  /\ dbOpen = TRUE
  /\ closed = FALSE
  /\ pc = [c \in Client |-> "idle"]
  /\ req = [c \in Client |-> NoRequest]
  /\ view = [c \in Client |-> NoView]
  /\ cursor = [c \in Client |-> 0]
  /\ given = [c \in Client |-> {}]
  /\ reply = [c \in Client |-> Done]
  /\ gc \in {"off", "wait"}   \* none without an interval

-----------------------------------------------------------------------------
(* The read-write lock, by who is inside. *)

Reading(c) == pc[c] \in {"read", "visit"}
Writing(c) == pc[c] \in {"drain", "closing"}

\* RLock waits for a writer, also for one that waits itself.
NoWriter == \A c \in Client : ~Writing(c)
NoReader == \A c \in Client : ~Reading(c)

Goto(c, label) == pc' = [pc EXCEPT ![c] = label]

\* The call returns and its deferred unlock runs.
Return(c, a) ==
  /\ Goto(c, "idle")
  /\ req' = [req EXCEPT ![c] = NoRequest]
  /\ view' = [view EXCEPT ![c] = NoView]
  /\ cursor' = [cursor EXCEPT ![c] = 0]
  /\ given' = [given EXCEPT ![c] = {}]
  /\ reply' = [reply EXCEPT ![c] = a]

scanVars == <<view, cursor, given>>

Is(c, op) == req[c] # NoRequest /\ req[c].op = op

(* A client calls Put, PutWithTTL, Delete, BatchWrite, GetSequence, Get    *)
(* (or Has), Iterate or Close.                                             *)
Call(c, r) ==
  /\ pc[c] = "idle"
  /\ Goto(c, "lock")
  /\ req' = [req EXCEPT ![c] = r]
  /\ reply' = [reply EXCEPT ![c] = Done]
  /\ UNCHANGED <<db, dbOpen, closed, scanVars, gc>>

(* Every operation but Close: the read lock, and an error if it is closed. *)
RLock(c) ==
  /\ pc[c] = "lock"
  /\ ~Is(c, "close")
  /\ NoWriter
  /\ \/ closed /\ Return(c, Failed)
     \/ ~closed /\ Goto(c, "read") /\ UNCHANGED <<req, scanVars, reply>>
  /\ UNCHANGED <<db, dbOpen, closed, gc>>

(* BadgerDB refuses the empty key, of Get too; Put tests for it before.    *)
RefuseKey(c) ==
  /\ pc[c] = "read"
  /\ \/ Is(c, "write") /\ ~Accepted(req[c].arg)
     \/ Is(c, "get") /\ req[c].arg = EmptyKey
  /\ Return(c, Failed)
  /\ UNCHANGED <<db, dbOpen, closed, gc>>

(* Any other error of BadgerDB ends the call without effect.               *)
Fail(c) ==
  /\ Reading(c)
  /\ Return(c, Failed)
  /\ UNCHANGED <<db, dbOpen, closed, gc>>

Update_KeyByKey(c) ==
  /\ pc[c] = "read"
  /\ Is(c, "write")
  /\ \E k \in Key \cap DOMAIN req[c].arg :
       db' = [db EXCEPT ![k] = req[c].arg[k]]
  /\ Return(c, IF Accepted(req[c].arg) THEN Done ELSE Failed)
  /\ UNCHANGED <<dbOpen, closed, gc>>

Update_EmptyKey(c) ==
  /\ pc[c] = "read"
  /\ Is(c, "write")
  /\ db' = [k \in Key \cup DOMAIN req[c].arg |->
             IF k \in DOMAIN req[c].arg THEN req[c].arg[k] ELSE db[k]]
  /\ Return(c, Done)
  /\ UNCHANGED <<dbOpen, closed, gc>>

(* db.Update of Put, PutWithTTL, Delete and BatchWrite, and the one in     *)
(* db.GetSequence: one transaction.                                        *)
Update(c) ==
  /\ pc[c] = "read"
  /\ Is(c, "write")
  /\ Accepted(req[c].arg)
  /\ db' = Updated(db, req[c].arg)
  /\ Return(c, Done)
  /\ UNCHANGED <<dbOpen, closed, gc>>

(* db.View of Get.                                                         *)
Get(c) ==
  /\ pc[c] = "read"
  /\ Is(c, "get")
  /\ req[c].arg \in Key
  /\ Return(c, Got(Found(db[req[c].arg])))
  /\ UNCHANGED <<db, dbOpen, closed, gc>>

(* Iterate: the iterator stands at the first key that is not before the    *)
(* prefix.                                                                 *)
OpenIterator(c) ==
  /\ pc[c] = "read"
  /\ Is(c, "iterate")
  /\ Goto(c, "visit")
  /\ view' = [view EXCEPT ![c] = db]
  /\ cursor' = [cursor EXCEPT ![c] = req[c].arg.first]
  /\ UNCHANGED <<db, dbOpen, closed, req, given, reply, gc>>

\* The item the iterator of c stands at is the one of key k.
StandsAt(c, k) ==
  /\ k >= cursor[c] /\ view[c][k] # Absent
  /\ \A i \in Key : i >= cursor[c] /\ view[c][i] # Absent => k <= i

Visit_NoNext(c) ==
  \E k \in Key :
    /\ pc[c] = "visit"
    /\ StandsAt(c, k)
    /\ HasPrefix(k, req[c].arg)
    /\ given' = [given EXCEPT ![c] = @ \cup {<<k, view[c][k]>>}]
    /\ UNCHANGED <<db, dbOpen, closed, pc, req, view, cursor, reply, gc>>

(* One turn of the loop in which fn returns true.  An entry that expired   *)
(* meanwhile is passed over.                                               *)
Visit(c) ==
  \E k \in Key :
    /\ pc[c] = "visit"
    /\ StandsAt(c, k)
    /\ HasPrefix(k, req[c].arg)
    /\ cursor' = [cursor EXCEPT ![c] = k + 1]
    /\ given' = [given EXCEPT ![c] = @ \cup {<<k, view[c][k]>>}]
    /\ UNCHANGED <<db, dbOpen, closed, pc, req, view, reply, gc>>

PassOver(c) ==
  \E k \in Key :
    /\ pc[c] = "visit"
    /\ StandsAt(c, k)
    /\ view[c][k].ttl
    /\ cursor' = [cursor EXCEPT ![c] = k + 1]
    /\ UNCHANGED <<db, dbOpen, closed, pc, req, view, given, reply, gc>>

(* One turn in which fn returns false.                                     *)
VisitLast(c) ==
  \E k \in Key :
    /\ pc[c] = "visit"
    /\ StandsAt(c, k)
    /\ HasPrefix(k, req[c].arg)
    /\ Return(c, Visited(given[c] \cup {<<k, view[c][k]>>}, FALSE))
    /\ UNCHANGED <<db, dbOpen, closed, gc>>

(* The iterator is no longer valid, or its key has not got the prefix.     *)
EndIterate(c) ==
  /\ pc[c] = "visit"
  /\ \/ \A k \in Key : k >= cursor[c] => view[c][k] = Absent
     \/ \E k \in Key : StandsAt(c, k) /\ ~HasPrefix(k, req[c].arg)
  /\ Return(c, Visited(given[c], TRUE))
  /\ UNCHANGED <<db, dbOpen, closed, gc>>

-----------------------------------------------------------------------------
(* Close: announces itself, ...                                            *)
Lock(c) ==
  /\ pc[c] = "lock"
  /\ Is(c, "close")
  /\ NoWriter
  /\ Goto(c, "drain")
  /\ UNCHANGED <<db, dbOpen, closed, req, scanVars, reply, gc>>

MarkClosed_NoDrain(c) ==
  /\ pc[c] = "drain"
  /\ \/ closed /\ Return(c, Done) /\ UNCHANGED closed
     \/ /\ ~closed
        /\ closed' = TRUE
        /\ Goto(c, "closing")
        /\ UNCHANGED <<req, scanVars, reply>>
  /\ UNCHANGED <<db, dbOpen, gc>>

(* ... waits for the readers, ...                                          *)
MarkClosed(c) ==
  /\ pc[c] = "drain"
  /\ NoReader
  /\ \/ closed /\ Return(c, Done) /\ UNCHANGED closed
     \/ /\ ~closed
        /\ closed' = TRUE
        /\ Goto(c, "closing")
        /\ UNCHANGED <<req, scanVars, reply>>
  /\ UNCHANGED <<db, dbOpen, gc>>

(* ... and closes the database, which may report an error.                 *)
CloseDB(c) ==
  /\ pc[c] = "closing"
  /\ gc # "collecting"
  /\ dbOpen' = FALSE
  /\ \E a \in {Done, Failed} : Return(c, a)
  /\ UNCHANGED <<db, closed, gc>>

-----------------------------------------------------------------------------
(* periodicGC.                                                             *)

StoreUnchanged ==
  UNCHANGED <<db, dbOpen, closed, pc, req, scanVars, reply>>

Tick ==
  /\ gc = "wait"
  /\ gc' = "first"
  /\ StoreUnchanged

(* The first check reads closed without the lock: it may see what it was   *)
(* before.                                                                 *)
FirstCheck ==
  /\ gc = "first"
  /\ \E seen \in {FALSE, closed} : gc' = IF seen THEN "off" ELSE "second"
  /\ StoreUnchanged

SecondCheck_Continues ==
  /\ gc = "second"
  /\ NoWriter
  /\ gc' = IF closed THEN "wait" ELSE "checked"
  /\ StoreUnchanged

(* The second holds the read lock, which it gives back at once.            *)
SecondCheck ==
  /\ gc = "second"
  /\ NoWriter
  /\ gc' = IF closed THEN "off" ELSE "checked"
  /\ StoreUnchanged

(* runGC.                                                                  *)
BeginGC ==
  /\ gc = "checked"
  /\ gc' = IF dbOpen THEN "collecting" ELSE "wait"
  /\ StoreUnchanged

EndGC ==
  /\ gc = "collecting"
  /\ gc' = "wait"
  /\ StoreUnchanged

Collector == Tick \/ FirstCheck \/ SecondCheck \/ BeginGC \/ EndGC

-----------------------------------------------------------------------------
(* Time passes: an entry with a TTL expires.                               *)
Expire(k) ==
  /\ db[k] # Absent
  /\ db[k].ttl
  /\ db' = [db EXCEPT ![k] = Absent]
  /\ UNCHANGED <<dbOpen, closed, pc, req, scanVars, reply, gc>>

(* The process ends, wherever it is, and another one opens the database    *)
(* with NewPersistenceStore.                                               *)
Restart ==
  /\ dbOpen' = TRUE
  /\ closed' = FALSE
  /\ pc' = [c \in Client |-> "idle"]
  /\ req' = [c \in Client |-> NoRequest]
  /\ view' = [c \in Client |-> NoView]
  /\ cursor' = [c \in Client |-> 0]
  /\ given' = [c \in Client |-> {}]
  /\ reply' = [c \in Client |-> Done]
  /\ gc' \in {"off", "wait"}
  /\ UNCHANGED db

Acquire(c) == RLock(c) \/ Lock(c)

Proceed(c) ==
  \/ RefuseKey(c) \/ Update(c) \/ Get(c)
  \/ OpenIterator(c) \/ Visit(c) \/ PassOver(c) \/ EndIterate(c)
  \/ MarkClosed(c) \/ CloseDB(c)

\* What need not happen.
Interrupt(c) == Fail(c) \/ VisitLast(c)

Next ==
  \/ \E c \in Client, r \in Made : Call(c, r)
  \/ \E c \in Client : Acquire(c) \/ Proceed(c) \/ Interrupt(c)
  \/ Collector
  \/ \E k \in Key : Expire(k)
  \/ Restart

\* sync.RWMutex starves neither readers nor writers; the functions given to
\* Iterate, BadgerDB and the ticker do their work.
Fairness ==
  /\ \A c \in Client : SF_vars(Acquire(c)) /\ WF_vars(Proceed(c))
  /\ SF_vars(SecondCheck) /\ WF_vars(Collector)

Spec == Init /\ [][Next]_vars /\ Fairness

-----------------------------------------------------------------------------
(* Properties. *)

\* A transaction runs on an open database only: Close waits for those under
\* way, and whoever comes later reads closed first (persistence.go:88-90, 239-249).
NoOperationOnClosed == \A c \in Client : Reading(c) => dbOpen /\ ~closed

\* Every call returns, Close included, whatever the others, the collector and
\* the loop of Iterate are doing (persistence.go:206-224, 239-249).
CallsReturn == \A c \in Client : pc[c] # "idle" ~> pc[c] = "idle"

\* The collector of a closed store ends, though its first look at closed is not
\* synchronised and its collections run outside the lock (persistence.go:255-268).
CollectorStops == closed ~> (gc = "off" \/ ~closed)

\* The abstract store: what has begun is a call, whatever lock it waits for.
Store == INSTANCE KVStore WITH
  kv <- db, open <- dbOpen, call <- req, seen <- view, answer <- reply

\* Every call takes effect at once or not at all, in particular a batch; an
\* iteration gives the pairs of one state, all of them unless it is stopped.
ImplementsStore == Store!KSpec

=============================================================================
