----------------------------- MODULE Reputation -----------------------------
(***************************************************************************)
(* The reputation system of src/reputation/score.go: callers submit score  *)
(* changes to a bounded channel, a goroutine applies them, another one     *)
(* decays the scores, and nodes are registered and blacklisted in between. *)
(*                                                                         *)
(* Every operation that changes a reputation holds rs.mu from its start to *)
(* the end of updateStatsLocked, which also needs stats.mu.  It is two     *)
(* steps here: the change, and the statistics.  Stats takes the two locks  *)
(* in the opposite order, and can bring everything to a halt.              *)
(*                                                                         *)
(* Left out: the methods a caller may invoke on a *NodeReputation without  *)
(* going through the system, LastSeen and the other timestamps (so a decay *)
(* may be of any size), and the average score.                             *)
(***************************************************************************)
EXTENDS Integers, Sequences, FiniteSets

CONSTANTS
  NodeID,       \* nodes that may be rated
  MinScore,     \* 1 in the code
  MaxScore,     \* 1000
  BaseScore,    \* 100: the score of a new node
  ActiveAbove,  \* 100: a node is active above this score
  Delta,        \* score changes that callers submit
  Points,       \* penalties that callers submit
  WordSize,     \* number of values of a 64-bit word
  QueueSize,    \* 1000: capacity of updateCh
  Caller,       \* goroutines that call UpdateScore or Penalize
  NoUpdate,     \* a caller that has no update of its own to apply
  MaxUpdates    \* bound: updates submitted for one node

ASSUME ScoreAssumption ==
  /\ MinScore \in 0..1   \* decay may leave a single point
  /\ MaxScore \in Nat /\ BaseScore \in MinScore..MaxScore
  /\ ActiveAbove \in MinScore..BaseScore
  /\ Delta \subseteq Int
  /\ Points \subseteq Nat
  /\ WordSize \in Nat \ {0} /\ 2 * MaxScore < WordSize

ASSUME QueueAssumption ==
  /\ QueueSize \in Nat \ {0} /\ MaxUpdates \in Nat
  /\ NoUpdate \notin [node : NodeID, delta : Int]

VARIABLES
  reps,       \* rs.reputations
  queue,      \* rs.updateCh
  direct,     \* the update each caller found no room for and applies itself
  worker,     \* processUpdates and decayLoop: "off", "running", "stopping"
              \* or "stopped"
  rsLocked,   \* rs.mu is held by an operation that must update the statistics
  stats,      \* rs.stats
  reader,     \* Stats: "idle" or "holding" stats.mu
  submitted   \* how many non-zero updates were submitted for each node

vars == <<reps, queue, direct, worker, rsLocked, stats, reader, submitted>>

Rep == [score : MinScore..MaxScore, active : BOOLEAN, blacklisted : BOOLEAN,
        success : Nat, failure : Nat]

Update == [node : NodeID, delta : Int]

TypeOK ==
  /\ DOMAIN reps \subseteq NodeID
  /\ \A n \in DOMAIN reps : reps[n] \in Rep
  /\ queue \in Seq(Update) /\ Len(queue) <= QueueSize
  /\ direct \in [Caller -> Update \cup {NoUpdate}]
  /\ worker \in {"off", "running", "stopping", "stopped"}
  /\ rsLocked \in BOOLEAN
  /\ stats \in [total : Nat, active : Nat, blacklisted : Nat]
  /\ reader \in {"idle", "holding"}
  /\ submitted \in [NodeID -> Nat]

-----------------------------------------------------------------------------
(* Arithmetic. *)

\* The signed value of a machine word.
Signed(x) ==
  LET w == x % WordSize IN IF 2 * w < WordSize THEN w ELSE w - WordSize

Clamp(x) == IF x < MinScore THEN MinScore
                            ELSE IF x > MaxScore THEN MaxScore ELSE x

\* NodeReputation.UpdateScore: int64(Score) + delta may wrap around.
NewScore(score, delta) == Clamp(Signed(score + delta))

\* applyDecay on one node.
Decayed(score, decay) == IF score > decay THEN score - decay ELSE MinScore

-----------------------------------------------------------------------------
Assign(f, key, value) ==
  [k \in DOMAIN f \cup {key} |-> IF k = key THEN value ELSE f[k]]

Known(n) == n \in DOMAIN reps

NewRep == [ score |-> BaseScore, active |-> TRUE, blacklisted |-> FALSE,
            success |-> 0, failure |-> 0 ]

\* What an operation finds, or creates.
Current(n) == IF Known(n) THEN reps[n] ELSE NewRep

Rated_Reactivates(rep, delta) ==
  LET score == NewScore(rep.score, delta)
  IN  [ score |-> score,
        active |-> score > ActiveAbove,
        blacklisted |-> rep.blacklisted,
        success |-> IF delta > 0 THEN rep.success + 1 ELSE rep.success,
        failure |-> IF delta < 0 THEN rep.failure + 1 ELSE rep.failure ]

\* A reputation after an update, a blacklisting or a decay.
Rated(rep, delta) ==
  LET score == NewScore(rep.score, delta)
  IN  [ score |-> score,
        active |-> score > ActiveAbove /\ ~rep.blacklisted,
        blacklisted |-> rep.blacklisted,
        success |-> IF delta > 0 THEN rep.success + 1 ELSE rep.success,
        failure |-> IF delta < 0 THEN rep.failure + 1 ELSE rep.failure ]

Blacklisted(rep) ==
  [ score |-> MinScore, active |-> FALSE, blacklisted |-> TRUE,
    success |-> rep.success, failure |-> rep.failure ]

Faded(rep, decay) ==
  IF decay = 0
  THEN rep
  ELSE LET score == Decayed(rep.score, decay)
       IN  [ score |-> score, active |-> score > ActiveAbove,
             blacklisted |-> rep.blacklisted,
             success |-> rep.success, failure |-> rep.failure ]

\* updateStatsLocked, from scratch.
Recount ==
  [ total |-> Cardinality(DOMAIN reps),
    active |-> Cardinality({n \in DOMAIN reps : reps[n].active}),
    blacklisted |-> Cardinality({n \in DOMAIN reps : reps[n].blacklisted}) ]

Init ==
  /\ reps = [n \in {} |-> NewRep]
  /\ queue = <<>>
  /\ direct = [c \in Caller |-> NoUpdate]
  /\ worker = "off"
  /\ rsLocked = FALSE
  /\ stats = [total |-> 0, active |-> 0, blacklisted |-> 0]
  /\ reader = "idle"
  /\ submitted = [n \in NodeID |-> 0]

RegisterNode_Overwrites(n) ==
  /\ ~rsLocked
  /\ reps' = Assign(reps, n, NewRep)
  /\ rsLocked' = TRUE
  /\ UNCHANGED <<queue, direct, worker, stats, reader, submitted>>

(* RegisterNode: a known node is returned as it is.                        *)
RegisterNode(n) ==
  /\ ~rsLocked
  /\ ~Known(n)
  /\ reps' = Assign(reps, n, NewRep)
  /\ rsLocked' = TRUE
  /\ UNCHANGED <<queue, direct, worker, stats, reader, submitted>>

BlacklistNode_Uncounted(n) ==
  /\ ~rsLocked
  /\ reps' = Assign(reps, n, Blacklisted(Current(n)))
  /\ UNCHANGED <<queue, direct, worker, rsLocked, stats, reader, submitted>>

BlacklistNode_StaysActive(n) ==
  /\ ~rsLocked
  /\ reps' = Assign(reps, n, [Blacklisted(Current(n)) EXCEPT !.active = TRUE])
  /\ rsLocked' = TRUE
  /\ UNCHANGED <<queue, direct, worker, stats, reader, submitted>>

(* BlacklistNode; an unknown node enters the map blacklisted.              *)
BlacklistNode(n) ==
  /\ ~rsLocked
  /\ reps' = Assign(reps, n, Blacklisted(Current(n)))
  /\ rsLocked' = TRUE
  /\ UNCHANGED <<queue, direct, worker, stats, reader, submitted>>

ApplyUpdate_Unclamped(n, delta) ==
  /\ ~rsLocked
  /\ reps' = Assign(reps, n, [Rated(Current(n), delta) EXCEPT
                               !.score = Signed(Current(n).score + delta)])
  /\ rsLocked' = TRUE
  /\ UNCHANGED <<worker, stats, reader>>

(* applyUpdate, with rs.mu; isPenalty is FALSE in every call of the code.  *)
ApplyUpdate(n, delta) ==
  /\ ~rsLocked
  /\ reps' = Assign(reps, n, Rated(Current(n), delta))
  /\ rsLocked' = TRUE
  /\ UNCHANGED <<worker, stats, reader>>

Submits(n, delta) ==
  /\ submitted[n] < MaxUpdates
  /\ submitted' = [submitted EXCEPT ![n] = IF delta = 0 THEN @ ELSE @ + 1]

UpdateScore_DropsWhenFull(c, n, delta) ==
  /\ direct[c] = NoUpdate
  /\ Submits(n, delta)
  /\ queue' = IF Len(queue) < QueueSize
              THEN Append(queue, [node |-> n, delta |-> delta]) ELSE queue
  /\ UNCHANGED <<reps, direct, worker, rsLocked, stats, reader>>

(* UpdateScore: into the channel.  When it is full the caller will apply   *)
(* the update itself, ahead of what the channel holds, once it gets rs.mu; *)
(* by then there may be room again.                                        *)
UpdateScore(c, n, delta) ==
  /\ direct[c] = NoUpdate
  /\ Submits(n, delta)
  /\ LET update == [node |-> n, delta |-> delta]
     IN  \/ /\ Len(queue) < QueueSize
            /\ queue' = Append(queue, update)
            /\ UNCHANGED direct
         \/ /\ Len(queue) = QueueSize
            /\ direct' = [direct EXCEPT ![c] = update]
            /\ UNCHANGED queue
  /\ UNCHANGED <<reps, worker, rsLocked, stats, reader>>

ApplyDirect(c) ==
  /\ direct[c] # NoUpdate
  /\ ApplyUpdate(direct[c].node, direct[c].delta)
  /\ direct' = [direct EXCEPT ![c] = NoUpdate]
  /\ UNCHANGED <<queue, submitted>>

(* RecordSuccess, RecordFailure and RecordRelay are UpdateScore with +1,   *)
(* -5 and +2.  Penalize negates a uint64 that was cast to int64.           *)
Penalize(c, n, points) == UpdateScore(c, n, Signed(-Signed(points)))

ProcessUpdate_LeavesLast ==
  /\ worker \in {"running", "stopping"}
  /\ Len(queue) > 1
  /\ ApplyUpdate(Head(queue).node, Head(queue).delta)
  /\ queue' = Tail(queue)
  /\ UNCHANGED <<direct, submitted>>

(* One turn of processUpdates.  After Stop, the select may still prefer an *)
(* update to stopCh.                                                       *)
ProcessUpdate ==
  /\ worker \in {"running", "stopping"}
  /\ queue # <<>>
  /\ ApplyUpdate(Head(queue).node, Head(queue).delta)
  /\ queue' = Tail(queue)
  /\ UNCHANGED <<direct, submitted>>

(* applyDecay: a node that decays by at least one point is active again as *)
(* soon as its score says so, blacklisted or not.                          *)
ApplyDecay(decay) ==
  /\ worker \in {"running", "stopping"}
  /\ ~rsLocked
  /\ reps' = [n \in DOMAIN reps |-> Faded(reps[n], decay[n])]
  /\ rsLocked' = TRUE
  /\ UNCHANGED <<queue, direct, worker, stats, reader, submitted>>

(* updateStatsLocked and the release of rs.mu.                             *)
UpdateStats ==
  /\ rsLocked
  /\ reader = "idle"
  /\ stats' = Recount
  /\ rsLocked' = FALSE
  /\ UNCHANGED <<reps, queue, direct, worker, reader, submitted>>

(* Start.  Goroutines of a second Start behave as those of the first.      *)
Start ==
  /\ worker = "off"
  /\ worker' = "running"
  /\ UNCHANGED <<reps, queue, direct, rsLocked, stats, reader, submitted>>

(* Stop closes stopCh and waits for the goroutines, which leave at their   *)
(* next select, whatever the channel still holds.                          *)
Stop ==
  /\ worker = "running"
  /\ worker' = "stopping"
  /\ UNCHANGED <<reps, queue, direct, rsLocked, stats, reader, submitted>>

WorkersExit ==
  /\ worker = "stopping"
  /\ worker' = "stopped"
  /\ UNCHANGED <<reps, queue, direct, rsLocked, stats, reader, submitted>>

(* Stats: stats.mu first, then rs.mu while it counts the reputations.      *)

StatsBegin ==
  /\ reader = "idle"
  /\ reader' = "holding"
  /\ UNCHANGED <<reps, queue, direct, worker, rsLocked, stats, submitted>>

StatsEnd ==
  /\ reader = "holding"
  /\ ~rsLocked
  /\ reader' = "idle"
  /\ UNCHANGED <<reps, queue, direct, worker, rsLocked, stats, submitted>>

Next ==
  \/ \E n \in NodeID : RegisterNode(n) \/ BlacklistNode(n)
  \/ \E c \in Caller, n \in NodeID :
       \/ \E delta \in Delta : UpdateScore(c, n, delta)
       \/ \E points \in Points : Penalize(c, n, points)
  \/ \E c \in Caller : ApplyDirect(c)
  \/ ProcessUpdate
  \/ \E decay \in [DOMAIN reps -> 0..MaxScore] : ApplyDecay(decay)
  \/ UpdateStats
  \/ Start \/ Stop \/ WorkersExit
  \/ StatsBegin \/ StatsEnd

\* Go's scheduler runs the goroutines, its mutexes do not starve a waiter, and
\* a select takes a ready case at random.
Fairness ==
  /\ SF_vars(ProcessUpdate)
  /\ \A c \in Caller : SF_vars(ApplyDirect(c))
  /\ WF_vars(UpdateStats)
  /\ SF_vars(StatsEnd)

Spec == Init /\ [][Next]_vars /\ Fairness

-----------------------------------------------------------------------------
(* Properties. *)

Counts(update, n) ==
  update # NoUpdate /\ update.node = n /\ update.delta # 0

QueuedFor(n) == Cardinality({i \in 1..Len(queue) : Counts(queue[i], n)})

DirectFor(n) == Cardinality({c \in Caller : Counts(direct[c], n)})

CountedFor(n) == IF Known(n) THEN reps[n].success + reps[n].failure ELSE 0

\* Every update submitted for a node has been counted in its reputation, is
\* still in the channel or is with the caller who found it full: none is lost
\* or applied twice, not when the channel is full (score.go:243-255), not when
\* the node is unknown, blacklisted or registered meanwhile, not at Stop.
NoUpdateLost ==
  \A n \in NodeID : submitted[n] = CountedFor(n) + QueuedFor(n) + DirectFor(n)

\* A node that is blacklisted stays so, also when it was blacklisted before it
\* registered, or has updates in the channel (score.go:200-206, 278-295).
BlacklistIsPermanent ==
  [][\A n \in DOMAIN reps :
       reps[n].blacklisted => Known(n)' /\ reps'[n].blacklisted]_vars

\* A node below the activity threshold is not active, whichever of updates,
\* decay and blacklisting came last (score.go:127-134, 358, 396).
ActiveIsEarned ==
  \A n \in DOMAIN reps : reps[n].active => reps[n].score >= ActiveAbove

\* Whenever rs.mu is free the statistics describe the reputations: every
\* operation recounts before it lets go (score.go:404-427).
StatsCurrent == ~rsLocked => stats = Recount

\* Stats and an operation hold one lock each and wait for the other's.
Crossed == reader = "holding" /\ rsLocked

\* While the system runs no update submitted waits for ever to be counted,
\* whoever else asks for rs.mu, however often the scores decay, and whether the
\* channel had room or the caller applies it (score.go:243-255, 313-345): only
\* Stop, or Stats crossing the locks of an operation, keeps one from it.
UpdatesApplied ==
  \A n \in NodeID, k \in 1..MaxUpdates :
    ~<>[](/\ submitted[n] >= k
          /\ CountedFor(n) < k
          /\ worker = "running"
          /\ ~Crossed)

\* Of all that happens to a blacklisted node, only the decay can make it active
\* again: no update that was in the channel, none that a caller applies itself,
\* and no registration does (score.go:199-210, 358; 396 is where it happens).
ReactivatedByDecayOnly ==
  [][\A n \in DOMAIN reps :
       reps[n].blacklisted /\ ~reps[n].active /\ reps'[n].active =>
         \E decay \in [DOMAIN reps -> 0..MaxScore] : ApplyDecay(decay)]_vars

\* A blacklisted node is not active: "Blacklist marca el nodo como en lista
\* negra" (score.go:126) clears IsActive, and applyUpdate keeps it cleared.
BlacklistedIsInactive ==
  \A n \in DOMAIN reps : reps[n].blacklisted => ~reps[n].active

\* "Stats retorna estadisticas del sistema" (score.go:429): it returns.
StatsReturns == reader = "holding" ~> reader = "idle"

=============================================================================
