------------------------------ MODULE KVStore ------------------------------
(***************************************************************************)
(* What a PersistenceStore promises, independently of its lock, its        *)
(* collector and BadgerDB: each call takes effect at one moment between    *)
(* its start and its return, or is refused and has none; an iteration sees *)
(* the store as it was at one such moment; nothing takes effect once the   *)
(* store is closed; a restart keeps what took effect and forgets the calls *)
(* that had not returned.                                                  *)
(***************************************************************************)
EXTENDS KVRequests

VARIABLES
  kv,      \* the entries
  open,    \* calls may take effect
  call,    \* the request of each client, or NoRequest
  seen,    \* the store that the iteration of a client goes over, or NoView
  answer   \* what the last call of each client returned, until it calls again

kvars == <<kv, open, call, seen, answer>>

KInit ==
  /\ kv = [k \in Key |-> Absent]
  /\ open = TRUE
  /\ call = [c \in Client |-> NoRequest]
  /\ seen = [c \in Client |-> NoView]
  /\ answer = [c \in Client |-> Done]

Begin(c, r) ==
  /\ call[c] = NoRequest
  /\ call' = [call EXCEPT ![c] = r]
  /\ answer' = [answer EXCEPT ![c] = Done]
  /\ UNCHANGED <<kv, open, seen>>

End(c, a) ==
  /\ call' = [call EXCEPT ![c] = NoRequest]
  /\ seen' = [seen EXCEPT ![c] = NoView]
  /\ answer' = [answer EXCEPT ![c] = a]

Asks(c, op) == call[c] # NoRequest /\ call[c].op = op

EffectOfWrite(c) ==
  /\ Asks(c, "write")
  /\ open
  /\ Accepted(call[c].arg)
  /\ kv' = Updated(kv, call[c].arg)
  /\ End(c, Done)
  /\ UNCHANGED open

EffectOfRead(c) ==
  /\ Asks(c, "get")
  /\ open
  /\ call[c].arg \in Key
  /\ End(c, Got(Found(kv[call[c].arg])))
  /\ UNCHANGED <<kv, open>>

EffectOfScan(c) ==
  /\ Asks(c, "iterate")
  /\ open
  /\ seen' = [seen EXCEPT ![c] = kv]
  /\ UNCHANGED <<kv, open, call, answer>>

(* The scan ends: it gave fn pairs of the store it saw, and all those that *)
(* cannot have expired unless fn asked it to stop.                         *)
EndScan(c) ==
  /\ Asks(c, "iterate")
  /\ seen[c] # NoView
  /\ \E s \in SUBSET Pairs(seen[c], call[c].arg), w \in BOOLEAN :
       /\ w => LastingPairs(seen[c], call[c].arg) \subseteq s
       /\ End(c, Visited(s, w))
  /\ UNCHANGED <<kv, open>>

EffectOfClose(c) ==
  /\ Asks(c, "close")
  /\ open' = FALSE
  /\ \E a \in {Done, Failed} : End(c, a)
  /\ UNCHANGED kv

Refuse(c) ==
  /\ call[c] # NoRequest
  /\ ~Asks(c, "close")
  /\ End(c, Failed)
  /\ UNCHANGED <<kv, open>>

Vanish(k) ==
  /\ kv[k] # Absent
  /\ kv[k].ttl
  /\ kv' = [kv EXCEPT ![k] = Absent]
  /\ UNCHANGED <<open, call, seen, answer>>

Reopen ==
  /\ open' = TRUE
  /\ call' = [c \in Client |-> NoRequest]
  /\ seen' = [c \in Client |-> NoView]
  /\ answer' = [c \in Client |-> Done]
  /\ UNCHANGED kv

KNext ==
  \/ \E c \in Client :
       \/ \E r \in Made : Begin(c, r)
       \/ EffectOfWrite(c) \/ EffectOfRead(c)
       \/ EffectOfScan(c) \/ EndScan(c)
       \/ EffectOfClose(c)
       \/ Refuse(c)
  \/ \E k \in Key : Vanish(k)
  \/ Reopen

KSpec == KInit /\ [][KNext]_kvars

=============================================================================
