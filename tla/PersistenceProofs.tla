-------------------------- MODULE PersistenceProofs --------------------------
(***************************************************************************)
(* Proofs about PersistenceStore: its type, that no operation runs on a    *)
(* closed database, and that it implements KVStore.                        *)
(***************************************************************************)
EXTENDS PersistenceStore, TLAPS

-----------------------------------------------------------------------------
(* Data. *)

\* The parts of a request that clients make, by its kind.
LEMMA MadeForms ==
  ASSUME NEW r \in Made
  PROVE  /\ r # NoRequest
         /\ r.op \in {"write", "get", "iterate", "close"}
         /\ r.op = "write" => \A k \in DOMAIN r.arg : r.arg[k] \in Entry \cup {Absent}
         /\ r.op = "get" => r.arg \in Key \cup {EmptyKey}
         /\ r.op = "iterate" => r.arg \in [first : Nat, last : Nat]
<1>1. r \in Request /\ r # NoRequest
  BY CallAssumption
<1>2. ASSUME NEW w, r = Write(w), \A k \in DOMAIN w : w[k] \in Entry \cup {Absent}
      PROVE  /\ r.op = "write"
             /\ \A k \in DOMAIN r.arg : r.arg[k] \in Entry \cup {Absent}
  BY <1>2 DEF Write
<1>3. \A v \in Value : Lasting(v) \in Entry /\ Fleeting(v) \in Entry
  BY DEF Lasting, Fleeting, Entry
<1>4. CASE \E k \in AnyKey, v \in Value : r = Put(k, v)
  BY <1>1, <1>2, <1>3, <1>4 DEF Put
<1>5. CASE \E k \in AnyKey, v \in Value : r = PutWithTTL(k, v)
  BY <1>1, <1>2, <1>3, <1>5 DEF PutWithTTL
<1>6. CASE \E k \in AnyKey : r = Delete(k)
  BY <1>1, <1>2, <1>6 DEF Delete
<1>7. CASE \E b \in Batch : r = BatchWrite(b)
  <2>1. PICK b \in Batch : r = BatchWrite(b)
    BY <1>7
  <2>2. \A k \in DOMAIN b : b[k] \in Value
    BY DEF Batch
  <2>3. QED
    BY <1>1, <1>2, <1>3, <2>1, <2>2 DEF BatchWrite
<1>8. CASE \E k \in AnyKey : r = Read(k)
  BY <1>1, <1>8 DEF Read, AnyKey
<1>9. CASE \E p \in Prefix : r = Scan(p)
  BY <1>1, <1>9, RequestAssumption DEF Scan
<1>10. CASE r = CloseRequest
  BY <1>1, <1>10 DEF CloseRequest
<1>11. QED
  BY <1>1, <1>4, <1>5, <1>6, <1>7, <1>8, <1>9, <1>10 DEF Request

\* The answers of a call are answers.
LEMMA AnswerForms ==
  /\ Done \in Answer /\ Failed \in Answer
  /\ \A e \in Entry \cup {Absent} : Got(Found(e)) \in Answer
  /\ \A s \in SUBSET (Key \X Entry), w \in BOOLEAN : Visited(s, w) \in Answer
<1>1. \A e \in Entry \cup {Absent} : Found(e) \in Value \cup {Absent}
  BY DEF Found, Entry
<1>2. QED
  BY <1>1 DEF Answer, Done, Failed, Got, Visited

-----------------------------------------------------------------------------
(* Types. *)

\* Returning from a call keeps the clients' variables of their types.
LEMMA ReturnTyped ==
  ASSUME TypeOK, NEW c \in Client, NEW a \in Answer, Return(c, a)
  PROVE  /\ pc' \in [Client -> ClientPC]
         /\ req' \in [Client -> Made \cup {NoRequest}]
         /\ view' \in [Client -> Database \cup {NoView}]
         /\ cursor' \in [Client -> Nat]
         /\ given' \in [Client -> SUBSET (Key \X Entry)]
         /\ reply' \in [Client -> Answer]
  BY DEF TypeOK, Return, Goto, ClientPC

\* What an iterator gives to fn is a pair of a key and an entry.
LEMMA GivenTyped ==
  ASSUME TypeOK, NEW c \in Client, NEW k \in Key,
         view[c] \in Database, StandsAt(c, k)
  PROVE  given[c] \cup {<<k, view[c][k]>>} \in SUBSET (Key \X Entry)
  BY DEF TypeOK, StandsAt, Database

\* A client in the loop of Iterate has an iterator.
HasView == \A c \in Client : pc[c] = "visit" => view[c] \in Database

LEMMA TypeStep ==
  ASSUME TypeOK, HasView, [Next]_vars
  PROVE  TypeOK' /\ HasView'
<1>1. ASSUME NEW c \in Client, NEW r \in Made, Call(c, r)
      PROVE  TypeOK' /\ HasView'
  BY <1>1, AnswerForms DEF TypeOK, HasView, Call, Goto, ClientPC, scanVars
<1>2. ASSUME NEW c \in Client, NEW a \in Answer, Return(c, a),
             db' \in Database, dbOpen' \in BOOLEAN, closed' \in BOOLEAN, gc' = gc
      PROVE  TypeOK' /\ HasView'
  <2>1. TypeOK'
    BY <1>2, ReturnTyped DEF TypeOK
  <2>2. HasView'
    BY <1>2 DEF HasView, TypeOK, Return, Goto
  <2>3. QED
    BY <2>1, <2>2
<1>3. ASSUME NEW c \in Client, Acquire(c)
      PROVE  TypeOK' /\ HasView'
  <2>1. CASE RLock(c) /\ closed
    BY <2>1, <1>2, AnswerForms DEF RLock, TypeOK
  <2>2. CASE RLock(c) /\ ~closed
    BY <2>2 DEF RLock, TypeOK, HasView, Goto, ClientPC, scanVars
  <2>3. CASE Lock(c)
    BY <2>3 DEF Lock, TypeOK, HasView, Goto, ClientPC, scanVars
  <2>4. QED
    BY <1>3, <2>1, <2>2, <2>3 DEF Acquire
<1>4. ASSUME NEW c \in Client, Proceed(c) \/ Interrupt(c)
      PROVE  TypeOK' /\ HasView'
  <2>1. CASE RefuseKey(c) \/ Fail(c)
    BY <2>1, <1>2, AnswerForms DEF RefuseKey, Fail, TypeOK
  <2>2. CASE Update(c)
    <3>1. req[c] \in Made /\ req[c].op = "write"
      BY <2>2 DEF Update, Is, TypeOK
    <3>2. Updated(db, req[c].arg) \in Database
      BY <3>1, MadeForms DEF Updated, Database, TypeOK
    <3>3. QED
      BY <2>2, <3>2, <1>2, AnswerForms DEF Update, TypeOK
  <2>3. CASE Get(c)
    BY <2>3, <1>2, AnswerForms DEF Get, TypeOK, Database
  <2>4. CASE OpenIterator(c)
    <3>1. req[c].arg.first \in Nat
      BY <2>4, MadeForms DEF OpenIterator, Is, TypeOK
    <3>2. QED
      BY <2>4, <3>1 DEF OpenIterator, TypeOK, HasView, Goto, ClientPC
  <2>5. CASE Visit(c)
    <3> PICK k \in Key :
          /\ pc[c] = "visit"
          /\ StandsAt(c, k)
          /\ cursor' = [cursor EXCEPT ![c] = k + 1]
          /\ given' = [given EXCEPT ![c] = @ \cup {<<k, view[c][k]>>}]
          /\ UNCHANGED <<db, dbOpen, closed, pc, req, view, reply, gc>>
      BY <2>5 DEF Visit
    <3>1. given[c] \cup {<<k, view[c][k]>>} \in SUBSET (Key \X Entry)
      BY GivenTyped DEF HasView
    <3>2. k + 1 \in Nat
      BY RequestAssumption
    <3>3. QED
      BY <3>1, <3>2 DEF TypeOK, HasView
  <2>6. CASE PassOver(c)
    BY <2>6, RequestAssumption DEF PassOver, TypeOK, HasView
  <2>7. CASE VisitLast(c)
    <3>1. PICK k \in Key :
          /\ pc[c] = "visit"
          /\ StandsAt(c, k)
          /\ Return(c, Visited(given[c] \cup {<<k, view[c][k]>>}, FALSE))
          /\ UNCHANGED <<db, dbOpen, closed, gc>>
      BY <2>7 DEF VisitLast
    <3>2. given[c] \cup {<<k, view[c][k]>>} \in SUBSET (Key \X Entry)
      BY <3>1, GivenTyped DEF HasView
    <3>3. Visited(given[c] \cup {<<k, view[c][k]>>}, FALSE) \in Answer
      BY <3>2, AnswerForms
    <3>4. QED
      BY <3>1, <3>3, <1>2 DEF TypeOK
  <2>8. CASE EndIterate(c)
    <3>1. Visited(given[c], TRUE) \in Answer
      BY AnswerForms DEF TypeOK
    <3>2. QED
      BY <2>8, <3>1, <1>2 DEF EndIterate, TypeOK
  <2>9. CASE MarkClosed(c)
    <3>1. CASE closed
      BY <2>9, <3>1, <1>2, AnswerForms DEF MarkClosed, TypeOK
    <3>2. CASE ~closed
      BY <2>9, <3>2 DEF MarkClosed, TypeOK, HasView, Goto, ClientPC, scanVars
    <3>3. QED
      BY <3>1, <3>2
  <2>10. CASE CloseDB(c)
    BY <2>10, <1>2, AnswerForms DEF CloseDB, TypeOK
  <2>11. QED
    BY <1>4, <2>1, <2>2, <2>3, <2>4, <2>5, <2>6, <2>7, <2>8, <2>9, <2>10
       DEF Proceed, Interrupt
<1>5. CASE Collector
  BY <1>5 DEF Collector, Tick, FirstCheck, SecondCheck, BeginGC, EndGC,
     StoreUnchanged, scanVars, TypeOK, HasView, CollectorPC
<1>6. ASSUME NEW k \in Key, Expire(k)
      PROVE  TypeOK' /\ HasView'
  BY <1>6 DEF Expire, TypeOK, HasView, Database, scanVars
<1>7. CASE Restart
  BY <1>7, AnswerForms DEF Restart, TypeOK, HasView, ClientPC, CollectorPC
<1>8. CASE UNCHANGED vars
  BY <1>8 DEF vars, TypeOK, HasView
<1>9. QED
  BY <1>1, <1>3, <1>4, <1>5, <1>6, <1>7, <1>8 DEF Next

LEMMA TypeInit ==
  ASSUME Init
  PROVE  TypeOK /\ HasView
  BY AnswerForms DEF Init, TypeOK, HasView, Database, ClientPC, CollectorPC

\* The variables keep their types, whatever the clients and the collector do.
THEOREM TypeCorrect == Spec => [](TypeOK /\ HasView)
<1>1. Init => TypeOK /\ HasView
  BY TypeInit
<1>2. (TypeOK /\ HasView) /\ [Next]_vars => (TypeOK /\ HasView)'
  BY TypeStep
<1>3. QED
  BY <1>1, <1>2, PTL DEF Spec

-----------------------------------------------------------------------------
(* The lock. *)

\* At most one client holds or awaits the write lock, and the one who has
\* entered Close has set closed.
OneWriter == \A c, d \in Client : Writing(c) /\ Writing(d) => c = d
ClosingIsMarked == \A c \in Client : pc[c] = "closing" => closed

\* closed and the state of the database differ only within Close.
OpenUnlessMarked == ~closed => dbOpen
ClosedUnlessClosing == closed /\ dbOpen => \E c \in Client : pc[c] = "closing"

LockInv ==
  /\ TypeOK
  /\ NoOperationOnClosed
  /\ OneWriter
  /\ ClosingIsMarked
  /\ OpenUnlessMarked
  /\ ClosedUnlessClosing

\* Where a step of a client that only changes its own pc may leave the lock.
LEMMA LockKept ==
  ASSUME LockInv, NEW c \in Client, NEW label \in {"idle", "lock", "read", "visit"},
         TypeOK', UNCHANGED <<dbOpen, closed>>,
         Goto(c, label), pc[c] # "closing",
         label \in {"read", "visit"} => dbOpen /\ ~closed
  PROVE  LockInv'
<1>1. \A d \in Client : pc'[d] = IF d = c THEN label ELSE pc[d]
  BY DEF LockInv, TypeOK, Goto
<1>2. \A d \in Client : Writing(d)' => Writing(d)
  BY <1>1 DEF Writing
<1>3. NoOperationOnClosed'
  BY <1>1 DEF LockInv, NoOperationOnClosed, Reading
<1>4. OneWriter' /\ ClosingIsMarked' /\ OpenUnlessMarked'
  BY <1>1, <1>2 DEF LockInv, OneWriter, ClosingIsMarked, OpenUnlessMarked
<1>5. ClosedUnlessClosing'
  BY <1>1 DEF LockInv, ClosedUnlessClosing
<1>6. QED
  BY <1>3, <1>4, <1>5 DEF LockInv

LEMMA LockStep ==
  ASSUME LockInv, TypeOK', [Next]_vars
  PROVE  LockInv'
<1>1. ASSUME NEW c \in Client, NEW r \in Made, Call(c, r)
      PROVE  LockInv'
  BY <1>1, LockKept DEF Call
<1>2. ASSUME NEW c \in Client, Acquire(c)
      PROVE  LockInv'
  <2>1. CASE RLock(c)
    <3>1. dbOpen \/ closed
      BY DEF LockInv, OpenUnlessMarked
    <3>2. QED
      BY <2>1, <3>1, LockKept DEF RLock, Return
  <2>2. CASE Lock(c)
    <3>1. /\ \A d \in Client : pc'[d] = IF d = c THEN "drain" ELSE pc[d]
          /\ \A d \in Client : ~Writing(d)
          /\ UNCHANGED <<dbOpen, closed>>
      BY <2>2 DEF Lock, LockInv, TypeOK, Goto, NoWriter
    <3>2. NoOperationOnClosed' /\ OpenUnlessMarked' /\ ClosingIsMarked'
      BY <3>1 DEF LockInv, NoOperationOnClosed, OpenUnlessMarked, ClosingIsMarked,
         Reading
    <3>3. OneWriter' /\ ClosedUnlessClosing'
      BY <3>1 DEF LockInv, OneWriter, ClosedUnlessClosing, Writing
    <3>4. QED
      BY <3>2, <3>3 DEF LockInv
  <2>3. QED
    BY <1>2, <2>1, <2>2 DEF Acquire
<1>3. ASSUME NEW c \in Client, Proceed(c) \/ Interrupt(c)
      PROVE  LockInv'
  <2>1. CASE RefuseKey(c) \/ Fail(c) \/ Update(c) \/ Get(c)
    BY <2>1, LockKept DEF RefuseKey, Fail, Update, Get, Return, Reading
  <2>2. CASE OpenIterator(c)
    <3>1. dbOpen /\ ~closed
      BY <2>2 DEF OpenIterator, LockInv, NoOperationOnClosed, Reading
    <3>2. QED
      BY <2>2, <3>1, LockKept DEF OpenIterator
  <2>3. CASE Visit(c) \/ PassOver(c)
    BY <2>3 DEF Visit, PassOver, LockInv, NoOperationOnClosed, OneWriter,
       ClosingIsMarked, OpenUnlessMarked, ClosedUnlessClosing, Reading, Writing
  <2>4. CASE VisitLast(c) \/ EndIterate(c)
    BY <2>4, LockKept DEF VisitLast, EndIterate, Return
  <2>5. CASE MarkClosed(c) /\ closed
    BY <2>5, LockKept DEF MarkClosed, Return
  <2>6. CASE MarkClosed(c) /\ ~closed
    <3>1. /\ \A d \in Client : pc'[d] = IF d = c THEN "closing" ELSE pc[d]
          /\ \A d \in Client : ~Reading(d)
          /\ closed' = TRUE /\ pc[c] = "drain"
          /\ UNCHANGED dbOpen
      BY <2>6 DEF MarkClosed, LockInv, TypeOK, Goto, NoReader
    <3>2. NoOperationOnClosed' /\ OneWriter' /\ ClosingIsMarked'
      BY <3>1 DEF LockInv, NoOperationOnClosed, OneWriter, ClosingIsMarked,
         Reading, Writing
    <3>3. OpenUnlessMarked' /\ ClosedUnlessClosing'
      BY <3>1 DEF OpenUnlessMarked, ClosedUnlessClosing
    <3>4. QED
      BY <3>2, <3>3 DEF LockInv
  <2>7. CASE CloseDB(c)
    <3>1. /\ \A d \in Client : pc'[d] = IF d = c THEN "idle" ELSE pc[d]
          /\ closed /\ dbOpen' = FALSE /\ UNCHANGED closed
      BY <2>7 DEF CloseDB, Return, Goto, LockInv, TypeOK, ClosingIsMarked
    <3>2. NoOperationOnClosed' /\ ClosingIsMarked' /\ OneWriter'
      BY <3>1 DEF LockInv, NoOperationOnClosed, ClosingIsMarked, OneWriter,
         Reading, Writing
    <3>3. OpenUnlessMarked' /\ ClosedUnlessClosing'
      BY <3>1 DEF OpenUnlessMarked, ClosedUnlessClosing
    <3>4. QED
      BY <3>2, <3>3 DEF LockInv
  <2>8. QED
    BY <1>3, <2>1, <2>2, <2>3, <2>4, <2>5, <2>6, <2>7 DEF Proceed, Interrupt
<1>4. CASE UNCHANGED <<dbOpen, closed, pc>>
  BY <1>4 DEF LockInv, NoOperationOnClosed, OneWriter, ClosingIsMarked,
     OpenUnlessMarked, ClosedUnlessClosing, Reading, Writing
<1>5. CASE Collector
  BY <1>4, <1>5 DEF Collector, Tick, FirstCheck, SecondCheck, BeginGC, EndGC,
     StoreUnchanged
<1>6. ASSUME NEW k \in Key, Expire(k)
      PROVE  LockInv'
  BY <1>4, <1>6 DEF Expire
<1>7. CASE Restart
  BY <1>7 DEF Restart, LockInv, NoOperationOnClosed, OneWriter, ClosingIsMarked,
     OpenUnlessMarked, ClosedUnlessClosing, Reading, Writing
<1>8. CASE UNCHANGED vars
  BY <1>4, <1>8 DEF vars
<1>9. QED
  BY <1>1, <1>2, <1>3, <1>5, <1>6, <1>7, <1>8 DEF Next

LEMMA LockInit ==
  ASSUME Init
  PROVE  LockInv
  BY TypeInit DEF Init, LockInv, NoOperationOnClosed, OneWriter, ClosingIsMarked,
     OpenUnlessMarked, ClosedUnlessClosing, Reading, Writing

\* No Put, Get, BatchWrite or Iterate runs on a closed database, for any number
\* of clients and of concurrent calls of Close.
THEOREM OpenDatabase == Spec => []NoOperationOnClosed
<1>1. Init => LockInv
  BY LockInit
<1>2. LockInv /\ TypeOK' /\ [Next]_vars => LockInv'
  BY LockStep
<1>3. LockInv => NoOperationOnClosed
  BY DEF LockInv
<1>4. QED
  BY <1>1, <1>2, <1>3, TypeCorrect, PTL DEF Spec

-----------------------------------------------------------------------------
(* The calls. *)

\* Where a client may be with its request, and without an iterator.
Placed(c) ==
  /\ pc[c] = "idle" <=> req[c] = NoRequest
  /\ Reading(c) => ~Is(c, "close")
  /\ Writing(c) => Is(c, "close")
  /\ pc[c] = "visit" => Is(c, "iterate")
  /\ pc[c] # "visit" => view[c] = NoView /\ given[c] = {}

\* The loop of Iterate has given fn pairs of its view only, and among them each
\* lasting one that it has passed.
Iterating(c) ==
  pc[c] = "visit" =>
    /\ view[c] \in Database
    /\ given[c] \subseteq Pairs(view[c], req[c].arg)
    /\ cursor[c] >= req[c].arg.first
    /\ \A k \in Key : /\ HasPrefix(k, req[c].arg) /\ k < cursor[c]
                      /\ view[c][k] # Absent /\ ~view[c][k].ttl
                      => <<k, view[c][k]>> \in given[c]

CallInv ==
  /\ \A c \in Client : Placed(c)
  /\ \A c \in Client : Iterating(c)

\* The invariant of a client depends on its own variables only.
LEMMA OthersKept ==
  ASSUME TypeOK, CallInv, NEW c \in Client,
         \A d \in Client \ {c} :
           /\ pc'[d] = pc[d] /\ req'[d] = req[d] /\ view'[d] = view[d]
           /\ cursor'[d] = cursor[d] /\ given'[d] = given[d],
         Placed(c)', Iterating(c)'
  PROVE  CallInv'
<1>1. ASSUME NEW d \in Client \ {c}
      PROVE  Placed(d)' /\ Iterating(d)'
  BY DEF CallInv, Placed, Iterating, Reading, Writing, Is
<1>2. QED
  BY <1>1 DEF CallInv

LEMMA ReturnKept ==
  ASSUME TypeOK, CallInv, NEW c \in Client, NEW a, Return(c, a)
  PROVE  CallInv'
<1>1. /\ pc'[c] = "idle" /\ req'[c] = NoRequest /\ view'[c] = NoView /\ given'[c] = {}
      /\ \A d \in Client \ {c} :
           /\ pc'[d] = pc[d] /\ req'[d] = req[d] /\ view'[d] = view[d]
           /\ cursor'[d] = cursor[d] /\ given'[d] = given[d]
  BY DEF Return, Goto, TypeOK
<1>2. Placed(c)' /\ Iterating(c)'
  BY <1>1 DEF Placed, Iterating, Reading, Writing, Is
<1>3. QED
  BY <1>1, <1>2, OthersKept

LEMMA MoveKept ==
  ASSUME TypeOK, CallInv, NEW c \in Client, NEW label \in {"read", "drain", "closing"},
         Goto(c, label), UNCHANGED <<req, scanVars>>,
         pc[c] \notin {"idle", "visit"},
         label = "read" <=> ~Is(c, "close")
  PROVE  CallInv'
<1>1. /\ pc'[c] = label /\ req'[c] = req[c] /\ view'[c] = view[c]
      /\ given'[c] = given[c]
      /\ \A d \in Client \ {c} :
           /\ pc'[d] = pc[d] /\ req'[d] = req[d] /\ view'[d] = view[d]
           /\ cursor'[d] = cursor[d] /\ given'[d] = given[d]
  BY DEF Goto, TypeOK, scanVars
<1>2. Placed(c)
  BY DEF CallInv
<1>3. Placed(c)' /\ Iterating(c)'
  BY <1>1, <1>2 DEF Placed, Iterating, Reading, Writing, Is
<1>4. QED
  BY <1>1, <1>3, OthersKept

\* One turn of the loop of Iterate.
LEMMA TurnKept ==
  ASSUME TypeOK, CallInv, NEW c \in Client, NEW k \in Key,
         pc[c] = "visit", StandsAt(c, k),
         UNCHANGED <<pc, req, view>>,
         cursor' = [cursor EXCEPT ![c] = k + 1],
         \/ /\ HasPrefix(k, req[c].arg)
            /\ given' = [given EXCEPT ![c] = @ \cup {<<k, view[c][k]>>}]
         \/ view[c][k].ttl /\ given' = given
  PROVE  CallInv'
<1>1. /\ pc'[c] = pc[c] /\ req'[c] = req[c] /\ view'[c] = view[c] /\ cursor'[c] = k + 1
      /\ \A d \in Client \ {c} :
           /\ pc'[d] = pc[d] /\ req'[d] = req[d] /\ view'[d] = view[d]
           /\ cursor'[d] = cursor[d] /\ given'[d] = given[d]
  BY DEF TypeOK
<1>2. Placed(c) /\ Iterating(c)
  BY DEF CallInv
<1>3. Placed(c)'
  BY <1>1, <1>2 DEF Placed, Reading, Writing, Is
<1>4. given[c] \subseteq given'[c]
  BY DEF TypeOK
<1>5. given'[c] \subseteq Pairs(view[c], req[c].arg)
  <2>1. CASE given' = given
    BY <2>1, <1>2 DEF Iterating
  <2>2. CASE /\ HasPrefix(k, req[c].arg)
             /\ given' = [given EXCEPT ![c] = @ \cup {<<k, view[c][k]>>}]
    BY <2>2, <1>2 DEF Iterating, Pairs, StandsAt, TypeOK
  <2>3. QED
    BY <2>1, <2>2
<1>6. req[c].arg.first \in Nat /\ cursor[c] \in Nat /\ Key \subseteq Nat
  BY <1>2, MadeForms, RequestAssumption DEF Placed, Is, TypeOK
<1>7. k + 1 >= req[c].arg.first
  BY <1>2, <1>6 DEF Iterating, StandsAt
<1>8. ASSUME NEW i \in Key, HasPrefix(i, req[c].arg), i < k + 1,
             view[c][i] # Absent, ~view[c][i].ttl
      PROVE  <<i, view[c][i]>> \in given'[c]
  <2>1. CASE i < cursor[c]
    BY <2>1, <1>2, <1>4, <1>8 DEF Iterating
  <2>2. CASE ~(i < cursor[c])
    <3>1. i = k
      BY <2>2, <1>6, <1>8 DEF StandsAt
    <3>2. given' = [given EXCEPT ![c] = @ \cup {<<k, view[c][k]>>}]
      BY <3>1, <1>8
    <3>3. QED
      BY <3>1, <3>2 DEF TypeOK
  <2>3. QED
    BY <2>1, <2>2
<1>9. Iterating(c)'
  BY <1>1, <1>2, <1>5, <1>7, <1>8 DEF Iterating
<1>10. QED
  BY <1>1, <1>3, <1>9, OthersKept

LEMMA CallStep ==
  ASSUME TypeOK, CallInv, [Next]_vars
  PROVE  CallInv'
<1>1. ASSUME NEW c \in Client, NEW r \in Made, Call(c, r)
      PROVE  CallInv'
  <2>1. /\ pc'[c] = "lock" /\ req'[c] = r /\ view'[c] = view[c] /\ pc[c] = "idle"
        /\ given'[c] = given[c]
        /\ \A d \in Client \ {c} :
             /\ pc'[d] = pc[d] /\ req'[d] = req[d] /\ view'[d] = view[d]
             /\ cursor'[d] = cursor[d] /\ given'[d] = given[d]
    BY <1>1 DEF Call, Goto, TypeOK, scanVars
  <2>2. Placed(c)' /\ Iterating(c)'
    BY <2>1, MadeForms DEF CallInv, Placed, Iterating, Reading, Writing, Is
  <2>3. QED
    BY <2>1, <2>2, OthersKept
<1>2. ASSUME NEW c \in Client, Acquire(c)
      PROVE  CallInv'
  <2>1. CASE RLock(c)
    BY <2>1, ReturnKept, MoveKept DEF RLock, scanVars
  <2>2. CASE Lock(c)
    BY <2>2, MoveKept DEF Lock, scanVars
  <2>3. QED
    BY <1>2, <2>1, <2>2 DEF Acquire
<1>3. ASSUME NEW c \in Client, Proceed(c) \/ Interrupt(c)
      PROVE  CallInv'
  <2>1. CASE RefuseKey(c) \/ Fail(c) \/ Update(c) \/ Get(c) \/ VisitLast(c)
             \/ EndIterate(c) \/ CloseDB(c)
    BY <2>1, ReturnKept DEF RefuseKey, Fail, Update, Get, VisitLast, EndIterate, CloseDB
  <2>2. CASE OpenIterator(c)
    <3>1. /\ pc'[c] = "visit" /\ req'[c] = req[c] /\ view'[c] = db
          /\ cursor'[c] = req[c].arg.first /\ given'[c] = given[c]
          /\ \A d \in Client \ {c} :
               /\ pc'[d] = pc[d] /\ req'[d] = req[d] /\ view'[d] = view[d]
               /\ cursor'[d] = cursor[d] /\ given'[d] = given[d]
      BY <2>2 DEF OpenIterator, Goto, TypeOK
    <3>2. req[c] # NoRequest /\ req[c].op = "iterate" /\ given[c] = {}
      BY <2>2 DEF OpenIterator, Is, CallInv, Placed
    <3>3. req[c].arg.first \in Nat /\ db \in Database
      BY <3>2, MadeForms DEF TypeOK
    <3>4. Placed(c)'
      BY <3>1, <3>2 DEF Placed, Reading, Writing, Is
    <3>5. \A k \in Key : HasPrefix(k, req[c].arg) => ~(k < req[c].arg.first)
      BY <3>3, RequestAssumption DEF HasPrefix
    <3>6. Iterating(c)'
      BY <3>1, <3>2, <3>3, <3>5 DEF Iterating
    <3>7. QED
      BY <3>1, <3>4, <3>6, OthersKept
  <2>3. CASE Visit(c)
    BY <2>3, TurnKept DEF Visit
  <2>4. CASE PassOver(c)
    BY <2>4, TurnKept DEF PassOver
  <2>5. CASE MarkClosed(c)
    BY <2>5, ReturnKept, MoveKept DEF MarkClosed, scanVars, CallInv, Placed, Writing
  <2>6. QED
    BY <1>3, <2>1, <2>2, <2>3, <2>4, <2>5 DEF Proceed, Interrupt
<1>4. CASE UNCHANGED <<pc, req, scanVars>>
  BY <1>4 DEF CallInv, Placed, Iterating, Reading, Writing, Is, scanVars
<1>5. CASE Collector
  BY <1>4, <1>5 DEF Collector, Tick, FirstCheck, SecondCheck, BeginGC, EndGC,
     StoreUnchanged
<1>6. ASSUME NEW k \in Key, Expire(k)
      PROVE  CallInv'
  BY <1>4, <1>6 DEF Expire
<1>7. CASE Restart
  BY <1>7 DEF Restart, CallInv, Placed, Iterating, Reading, Writing, Is
<1>8. CASE UNCHANGED vars
  BY <1>4, <1>8 DEF vars, scanVars
<1>9. QED
  BY <1>1, <1>2, <1>3, <1>5, <1>6, <1>7, <1>8 DEF Next

LEMMA CallInit ==
  ASSUME Init
  PROVE  CallInv
  BY DEF Init, CallInv, Placed, Iterating, Reading, Writing, Is

-----------------------------------------------------------------------------
(* The refinement. *)

USE DEF Store!Begin, Store!End, Store!Asks, Store!kvars

\* The abstract store speaks of the same requests and answers.
LEMMA SameData ==
  /\ Store!Done = Done /\ Store!Failed = Failed
  /\ \A v : Store!Got(v) = Got(v)
  /\ \A e : Store!Found(e) = Found(e)
  /\ \A s, w : Store!Visited(s, w) = Visited(s, w)
  /\ \A m, w : Store!Updated(m, w) = Updated(m, w)
  /\ \A w : Store!Accepted(w) = Accepted(w)
  /\ \A m, p : Store!Pairs(m, p) = Pairs(m, p)
  /\ \A m, p : Store!LastingPairs(m, p) = LastingPairs(m, p)
<1>1. \A k, p : Store!HasPrefix(k, p) = HasPrefix(k, p)
  BY DEF HasPrefix, Store!HasPrefix
<1>2. \A m, p : Store!Pairs(m, p) = Pairs(m, p)
  BY <1>1 DEF Pairs, Store!Pairs
<1>3. \A m, p : Store!LastingPairs(m, p) = LastingPairs(m, p)
  BY <1>2 DEF LastingPairs, Store!LastingPairs
<1>4. \A e : Store!Found(e) = Found(e)
  BY DEF Found, Store!Found, Lasting, Store!Lasting, Fleeting, Store!Fleeting
<1>5. \A m, w : Store!Updated(m, w) = Updated(m, w)
  BY DEF Updated, Store!Updated
<1>6. /\ Store!Done = Done /\ Store!Failed = Failed
      /\ \A v : Store!Got(v) = Got(v)
      /\ \A s, w : Store!Visited(s, w) = Visited(s, w)
      /\ \A w : Store!Accepted(w) = Accepted(w)
  BY DEF Done, Store!Done, Failed, Store!Failed, Got, Store!Got, Visited,
     Store!Visited, Accepted, Store!Accepted
<1>7. QED
  BY <1>2, <1>3, <1>4, <1>5, <1>6

\* The abstract effect of a return.
LEMMA ReturnEnds ==
  ASSUME NEW c \in Client, NEW a, Return(c, a)
  PROVE  Store!End(c, a)
  BY DEF Return

\* The state of the loop of Iterate, as the end of a scan sees it.
LEMMA ScanEnds ==
  ASSUME CallInv, TypeOK, NEW c \in Client, pc[c] = "visit",
         NEW s \in SUBSET Pairs(view[c], req[c].arg), NEW w \in BOOLEAN,
         w => LastingPairs(view[c], req[c].arg) \subseteq s,
         Return(c, Visited(s, w)), UNCHANGED <<db, dbOpen>>
  PROVE  Store!EndScan(c)
<1>1. req[c] # NoRequest /\ req[c].op = "iterate" /\ view[c] # NoView
  BY CallAssumption DEF CallInv, Placed, Iterating, Is
<1>2. Store!End(c, Visited(s, w))
  BY ReturnEnds
<1>3. QED
  BY <1>1, <1>2, SameData DEF Store!EndScan

\* When the loop stops by itself no lasting pair of the prefix is missing.
LEMMA WholeScan ==
  ASSUME CallInv, TypeOK, NEW c \in Client, pc[c] = "visit",
         \/ \A k \in Key : k >= cursor[c] => view[c][k] = Absent
         \/ \E k \in Key : StandsAt(c, k) /\ ~HasPrefix(k, req[c].arg)
  PROVE  LastingPairs(view[c], req[c].arg) \subseteq given[c]
<1>1. Iterating(c) /\ req[c] \in Made /\ req[c].op = "iterate"
  BY DEF CallInv, Placed, Is, TypeOK
<1>2. /\ req[c].arg.first \in Nat /\ req[c].arg.last \in Nat
      /\ cursor[c] \in Nat /\ Key \subseteq Nat
  BY <1>1, MadeForms, RequestAssumption DEF TypeOK
<1>3. SUFFICES ASSUME NEW i \in Key, HasPrefix(i, req[c].arg),
                      view[c][i] # Absent, ~view[c][i].ttl
               PROVE  <<i, view[c][i]>> \in given[c]
  BY DEF LastingPairs, Pairs
<1>4. CASE \A k \in Key : k >= cursor[c] => view[c][k] = Absent
  <2>1. i < cursor[c]
    BY <1>2, <1>3, <1>4
  <2>2. QED
    BY <1>1, <1>3, <2>1 DEF Iterating
<1>5. ASSUME NEW k \in Key, StandsAt(c, k), ~HasPrefix(k, req[c].arg)
      PROVE  <<i, view[c][i]>> \in given[c]
  <2>1. k > req[c].arg.last
    BY <1>1, <1>2, <1>5 DEF Iterating, StandsAt, HasPrefix
  <2>2. i < k
    BY <1>2, <1>3, <2>1 DEF HasPrefix
  <2>3. i < cursor[c]
    BY <1>2, <1>3, <1>5, <2>2 DEF StandsAt
  <2>4. QED
    BY <1>1, <1>3, <2>3 DEF Iterating
<1>6. QED
  BY <1>4, <1>5

LEMMA StoreStep ==
  ASSUME LockInv, CallInv, [Next]_vars
  PROVE  [Store!KNext]_(Store!kvars)
<1> USE DEF Is
<1>0. TypeOK
  BY DEF LockInv
<1>1. ASSUME NEW c \in Client, NEW r \in Made, Call(c, r)
      PROVE  Store!Begin(c, r)
  BY <1>1, <1>0, SameData DEF Call, CallInv, Placed, scanVars
<1>2. ASSUME NEW c \in Client, req[c] # NoRequest, ~Is(c, "close"),
             Return(c, Failed), UNCHANGED <<db, dbOpen>>
      PROVE  Store!Refuse(c)
  BY <1>2, ReturnEnds, SameData DEF Store!Refuse
<1>3. ASSUME NEW c \in Client, Acquire(c)
      PROVE  Store!Refuse(c) \/ UNCHANGED Store!kvars
  <2>1. CASE RLock(c) /\ closed
    <3>1. req[c] # NoRequest
      BY <2>1 DEF RLock, CallInv, Placed
    <3>2. QED
      BY <2>1, <3>1, <1>2 DEF RLock
  <2>2. CASE RLock(c) /\ ~closed
    BY <2>2 DEF RLock, scanVars
  <2>3. CASE Lock(c)
    BY <2>3 DEF Lock, scanVars
  <2>4. QED
    BY <1>3, <2>1, <2>2, <2>3 DEF Acquire
<1>4. ASSUME NEW c \in Client, Reading(c)
      PROVE  req[c] # NoRequest /\ ~Is(c, "close") /\ dbOpen
  BY <1>4 DEF CallInv, Placed, Reading, LockInv, NoOperationOnClosed
<1>5. ASSUME NEW c \in Client, Proceed(c) \/ Interrupt(c)
      PROVE  \/ Store!EffectOfWrite(c) \/ Store!EffectOfRead(c)
             \/ Store!EffectOfScan(c) \/ Store!EndScan(c)
             \/ Store!EffectOfClose(c) \/ Store!Refuse(c)
             \/ UNCHANGED Store!kvars
  <2>1. CASE RefuseKey(c) \/ Fail(c)
    BY <2>1, <1>2, <1>4 DEF RefuseKey, Fail, Reading
  <2>2. CASE Update(c)
    BY <2>2, <1>4, ReturnEnds, SameData DEF Update, Reading, Store!EffectOfWrite
  <2>3. CASE Get(c)
    BY <2>3, <1>4, ReturnEnds, SameData DEF Get, Reading, Store!EffectOfRead
  <2>4. CASE OpenIterator(c)
    BY <2>4, <1>4 DEF OpenIterator, Reading, Store!EffectOfScan
  <2>5. CASE Visit(c) \/ PassOver(c)
    BY <2>5 DEF Visit, PassOver
  <2>6. CASE VisitLast(c)
    <3>1. PICK k \in Key :
            /\ pc[c] = "visit"
            /\ StandsAt(c, k)
            /\ HasPrefix(k, req[c].arg)
            /\ Return(c, Visited(given[c] \cup {<<k, view[c][k]>>}, FALSE))
            /\ UNCHANGED <<db, dbOpen>>
      BY <2>6 DEF VisitLast
    <3>2. given[c] \cup {<<k, view[c][k]>>} \in SUBSET Pairs(view[c], req[c].arg)
      BY <3>1 DEF CallInv, Iterating, StandsAt, Pairs
    <3>3. QED
      BY <3>1, <3>2, <1>0, ScanEnds
  <2>7. CASE EndIterate(c)
    <3>1. LastingPairs(view[c], req[c].arg) \subseteq given[c]
      BY <2>7, <1>0, WholeScan DEF EndIterate
    <3>2. given[c] \in SUBSET Pairs(view[c], req[c].arg)
      BY <2>7 DEF EndIterate, CallInv, Iterating
    <3>3. QED
      BY <2>7, <3>1, <3>2, <1>0, ScanEnds DEF EndIterate
  <2>8. CASE MarkClosed(c) \/ CloseDB(c)
    <3>1. req[c] # NoRequest /\ req[c].op = "close"
      BY <2>8 DEF MarkClosed, CloseDB, CallInv, Placed, Writing
    <3>2. CASE MarkClosed(c) /\ ~closed
      BY <3>2 DEF MarkClosed, scanVars
    <3>3. CASE MarkClosed(c) /\ closed
      <4>1. \A d \in Client : pc[d] # "closing"
        BY <3>3 DEF MarkClosed, LockInv, OneWriter, Writing
      <4>2. dbOpen' = FALSE
        BY <3>3, <4>1, <1>0 DEF MarkClosed, LockInv, ClosedUnlessClosing, TypeOK
      <4>3. QED
        BY <3>1, <3>3, <4>2, ReturnEnds, SameData DEF MarkClosed, Store!EffectOfClose
    <3>4. CASE CloseDB(c)
      BY <3>1, <3>4, ReturnEnds, SameData DEF CloseDB, Store!EffectOfClose
    <3>5. QED
      BY <2>8, <3>2, <3>3, <3>4
  <2>9. QED
    BY <1>5, <2>1, <2>2, <2>3, <2>4, <2>5, <2>6, <2>7, <2>8 DEF Proceed, Interrupt
<1>6. CASE Collector
  BY <1>6 DEF Collector, Tick, FirstCheck, SecondCheck, BeginGC, EndGC,
     StoreUnchanged, scanVars
<1>7. ASSUME NEW k \in Key, Expire(k)
      PROVE  Store!Vanish(k)
  BY <1>7 DEF Expire, Store!Vanish, scanVars
<1>8. CASE Restart
  BY <1>8, SameData DEF Restart, Store!Reopen, Store!KNext
<1>9. CASE UNCHANGED vars
  BY <1>9 DEF vars
<1>10. QED
  BY <1>1, <1>3, <1>5, <1>6, <1>7, <1>8, <1>9 DEF Next, Store!KNext

\* The store of any number of clients, keys and requests, with its lock, its
\* collector, expiry and restarts, does what KVStore promises.
THEOREM StoreRefines == Spec => ImplementsStore
<1>1. Init => LockInv /\ CallInv
  BY LockInit, CallInit
<1>2. LockInv /\ TypeOK' /\ CallInv /\ [Next]_vars => (LockInv /\ CallInv)'
  BY LockStep, CallStep DEF LockInv
<1>3. Init => Store!KInit
  BY SameData DEF Init, Store!KInit
<1>4. LockInv /\ CallInv /\ [Next]_vars => [Store!KNext]_(Store!kvars)
  BY StoreStep
<1>5. QED
  BY <1>1, <1>2, <1>3, <1>4, TypeCorrect, PTL DEF Spec, ImplementsStore, Store!KSpec

=============================================================================
