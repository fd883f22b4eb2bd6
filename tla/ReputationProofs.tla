-------------------------- MODULE ReputationProofs --------------------------
(***************************************************************************)
(* Proofs about Reputation, for any nodes, callers, scores within their    *)
(* bounds, capacities of the channel and sizes of the word: types, what    *)
(* makes a node active, current statistics, permanent blacklisting, that   *)
(* only the decay makes a blacklisted node active, and that no update is   *)
(* lost or applied twice.                                                  *)
(***************************************************************************)
EXTENDS Reputation, FiniteSetTheorems, TLAPS

-----------------------------------------------------------------------------
(* The operations on one reputation. *)

Earned(rep) == rep.active => rep.score >= ActiveAbove

Total(rep) == rep.success + rep.failure

One(delta) == IF delta = 0 THEN 0 ELSE 1

LEMMA ScoreBounds ==
  /\ MinScore \in Nat /\ MinScore <= 1 /\ MaxScore \in Nat
  /\ MinScore <= MaxScore /\ BaseScore \in MinScore..MaxScore
  /\ ActiveAbove \in Nat /\ ActiveAbove <= BaseScore
  /\ WordSize \in Nat \ {0}
  BY ScoreAssumption

LEMMA SignedTyped ==
  ASSUME NEW x \in Int
  PROVE  Signed(x) \in Int
<1>1. x % WordSize \in Int
  BY ScoreBounds
<1>2. QED
  BY <1>1, ScoreBounds DEF Signed

LEMMA NewScoreTyped ==
  ASSUME NEW s \in Int, NEW d \in Int
  PROVE  NewScore(s, d) \in MinScore..MaxScore
<1>1. Signed(s + d) \in Int
  BY SignedTyped
<1>2. QED
  BY <1>1, ScoreBounds DEF NewScore, Clamp

LEMMA NewRepTyped == NewRep \in Rep /\ Earned(NewRep) /\ Total(NewRep) = 0
<1>1. NewRep \in Rep
  BY ScoreBounds DEF NewRep, Rep
<1>2. NewRep.score = BaseScore /\ NewRep.success = 0 /\ NewRep.failure = 0
  BY DEF NewRep
<1>3. QED
  BY <1>1, <1>2, ScoreBounds DEF Earned, Total

LEMMA RatedTyped ==
  ASSUME NEW r \in Rep, NEW d \in Int
  PROVE  /\ Rated(r, d) \in Rep
         /\ Earned(Rated(r, d))
         /\ Total(Rated(r, d)) = Total(r) + One(d)
         /\ r.blacklisted => Rated(r, d).blacklisted
<1>1. NewScore(r.score, d) \in MinScore..MaxScore
  <2>1. r.score \in Int
    BY ScoreBounds DEF Rep
  <2>2. QED
    BY <2>1, NewScoreTyped
<1>2. Rated(r, d) = [ score |-> NewScore(r.score, d),
                      active |-> NewScore(r.score, d) > ActiveAbove /\ ~r.blacklisted,
                      blacklisted |-> r.blacklisted,
                      success |-> IF d > 0 THEN r.success + 1 ELSE r.success,
                      failure |-> IF d < 0 THEN r.failure + 1 ELSE r.failure ]
  BY DEF Rated
<1>3. Rated(r, d) \in Rep
  <2>1. /\ (IF d > 0 THEN r.success + 1 ELSE r.success) \in Nat
        /\ (IF d < 0 THEN r.failure + 1 ELSE r.failure) \in Nat
        /\ r.blacklisted \in BOOLEAN
    BY DEF Rep
  <2>2. (NewScore(r.score, d) > ActiveAbove /\ ~r.blacklisted) \in BOOLEAN
    OBVIOUS
  <2>3. QED
    BY <1>1, <1>2, <2>1, <2>2 DEF Rep
<1>4. Earned(Rated(r, d))
  <2>1. Rated(r, d).score = NewScore(r.score, d)
    BY <1>2
  <2>2. Rated(r, d).active => NewScore(r.score, d) > ActiveAbove
    BY Zenon DEF Rated
  <2>3. QED
    BY <1>1, <2>1, <2>2, ScoreBounds DEF Earned
<1>5. Total(Rated(r, d)) = Total(r) + One(d)
  BY <1>2 DEF Total, One, Rep
<1>6. QED
  BY <1>2, <1>3, <1>4, <1>5

LEMMA BlacklistedTyped ==
  ASSUME NEW r \in Rep
  PROVE  /\ Blacklisted(r) \in Rep
         /\ Earned(Blacklisted(r))
         /\ Total(Blacklisted(r)) = Total(r)
         /\ Blacklisted(r).blacklisted
  BY ScoreBounds DEF Blacklisted, Rep, Earned, Total

LEMMA FadedTyped ==
  ASSUME NEW r \in Rep, Earned(r), NEW d \in Nat
  PROVE  /\ Faded(r, d) \in Rep
         /\ Earned(Faded(r, d))
         /\ Total(Faded(r, d)) = Total(r)
         /\ r.blacklisted => Faded(r, d).blacklisted
<1>1. CASE d = 0
  BY <1>1 DEF Faded
<1>2. CASE d # 0
  <2>1. Decayed(r.score, d) \in MinScore..MaxScore
    BY ScoreBounds DEF Decayed, Rep
  <2>2. Faded(r, d) = [ score |-> Decayed(r.score, d),
                        active |-> Decayed(r.score, d) > ActiveAbove,
                        blacklisted |-> r.blacklisted,
                        success |-> r.success, failure |-> r.failure ]
    BY <1>2 DEF Faded
  <2>3. Faded(r, d) \in Rep
    <3>1. /\ r.blacklisted \in BOOLEAN /\ r.success \in Nat /\ r.failure \in Nat
          /\ (Decayed(r.score, d) > ActiveAbove) \in BOOLEAN
      BY DEF Rep
    <3>2. QED
      BY <2>1, <2>2, <3>1 DEF Rep
  <2>4. Earned(Faded(r, d))
    <3>1. Faded(r, d).score = Decayed(r.score, d)
      BY <2>2
    <3>2. Faded(r, d).active => Decayed(r.score, d) > ActiveAbove
      BY <1>2, Zenon DEF Faded
    <3>3. QED
      BY <2>1, <3>1, <3>2, ScoreBounds DEF Earned
  <2>5. QED
    BY <2>2, <2>3, <2>4 DEF Total
<1>3. QED
  BY <1>1, <1>2

-----------------------------------------------------------------------------
(* The map of reputations. *)

\* Typed and earned.
Sound == \A n \in DOMAIN reps : reps[n] \in Rep /\ Earned(reps[n])

\* What one operation does to the map: it sets the reputation of a node, or it
\* fades all of them.
Sets(n, r) == reps' = Assign(reps, n, r)

Fades == \E decay \in [DOMAIN reps -> 0..MaxScore] :
           reps' = [n \in DOMAIN reps |-> Faded(reps[n], decay[n])]

LEMMA CurrentTyped ==
  ASSUME Sound, NEW n
  PROVE  /\ Current(n) \in Rep
         /\ Earned(Current(n))
         /\ CountedFor(n) = Total(Current(n))
  BY NewRepTyped DEF Sound, Current, Known, CountedFor, Total

LEMMA SetsSound ==
  ASSUME Sound, IsFiniteSet(DOMAIN reps), DOMAIN reps \subseteq NodeID,
         NEW n \in NodeID, NEW r \in Rep, Earned(r), Sets(n, r)
  PROVE  /\ Sound' /\ IsFiniteSet(DOMAIN reps') /\ DOMAIN reps' \subseteq NodeID
         /\ CountedFor(n)' = Total(r)
         /\ \A m \in NodeID \ {n} : CountedFor(m)' = CountedFor(m)
         /\ \A m \in DOMAIN reps : m \in DOMAIN reps' /\ (m # n => reps'[m] = reps[m])
         /\ n \in DOMAIN reps' /\ reps'[n] = r
<1>1. /\ DOMAIN reps' = DOMAIN reps \cup {n}
      /\ \A m \in DOMAIN reps : m # n => reps'[m] = reps[m]
      /\ reps'[n] = r
  BY DEF Sets, Assign
<1>2. IsFiniteSet(DOMAIN reps')
  BY <1>1, FS_AddElement
<1>3. Sound'
  BY <1>1 DEF Sound, Earned
<1>4. CountedFor(n)' = Total(r)
  BY <1>1 DEF CountedFor, Known, Total
<1>5. \A m \in NodeID \ {n} : CountedFor(m)' = CountedFor(m)
  BY <1>1 DEF CountedFor, Known
<1>6. QED
  BY <1>1, <1>2, <1>3, <1>4, <1>5

LEMMA FadesSound ==
  ASSUME Sound, Fades
  PROVE  /\ Sound' /\ DOMAIN reps' = DOMAIN reps
         /\ \A m : CountedFor(m)' = CountedFor(m)
         /\ \A m \in DOMAIN reps : reps[m].blacklisted => reps'[m].blacklisted
<1>1. PICK decay \in [DOMAIN reps -> 0..MaxScore] :
        reps' = [n \in DOMAIN reps |-> Faded(reps[n], decay[n])]
  BY DEF Fades
<1>2. /\ DOMAIN reps' = DOMAIN reps
      /\ \A n \in DOMAIN reps :
           reps'[n] = Faded(reps[n], decay[n]) /\ decay[n] \in Nat
  BY <1>1, ScoreBounds
<1>3. \A n \in DOMAIN reps :
        /\ reps'[n] \in Rep /\ Earned(reps'[n])
        /\ Total(reps'[n]) = Total(reps[n])
        /\ reps[n].blacklisted => reps'[n].blacklisted
  BY <1>2, FadedTyped DEF Sound
<1>4. Sound'
  BY <1>2, <1>3 DEF Sound, Earned
<1>5. \A m : CountedFor(m)' = CountedFor(m)
  BY <1>2, <1>3 DEF CountedFor, Known, Total
<1>6. QED
  BY <1>2, <1>3, <1>4, <1>5

-----------------------------------------------------------------------------
(* Types, activity and statistics. *)

BaseInv ==
  /\ TypeOK
  /\ Sound
  /\ IsFiniteSet(DOMAIN reps)
  /\ StatsCurrent

\* An update that is on its way is one of a node, with some change.
LEMMA UpdateTyped ==
  ASSUME NEW u \in Update
  PROVE  u.node \in NodeID /\ u.delta \in Int /\ u # NoUpdate
  BY QueueAssumption DEF Update

LEMMA HeadTyped ==
  ASSUME TypeOK, queue # <<>>
  PROVE  /\ Head(queue) \in Update
         /\ Tail(queue) \in Seq(Update)
         /\ Len(Tail(queue)) <= QueueSize
  BY QueueAssumption DEF TypeOK

\* Setting one reputation keeps the types, whatever it is set to.
LEMMA SetsBase ==
  ASSUME BaseInv, NEW n \in NodeID, NEW r \in Rep, Earned(r), Sets(n, r),
         rsLocked' = TRUE, UNCHANGED <<worker, stats, reader>>,
         queue' \in Seq(Update), Len(queue') <= QueueSize,
         direct' \in [Caller -> Update \cup {NoUpdate}],
         submitted' \in [NodeID -> Nat]
  PROVE  BaseInv'
<1>1. Sound' /\ IsFiniteSet(DOMAIN reps') /\ DOMAIN reps' \subseteq NodeID
  BY SetsSound DEF BaseInv, TypeOK
<1>2. TypeOK'
  BY <1>1 DEF BaseInv, TypeOK, Sound
<1>3. QED
  BY <1>1, <1>2 DEF BaseInv, StatsCurrent

LEMMA RecountTyped ==
  ASSUME IsFiniteSet(DOMAIN reps)
  PROVE  Recount \in [total : Nat, active : Nat, blacklisted : Nat]
<1>1. /\ IsFiniteSet({n \in DOMAIN reps : reps[n].active})
      /\ IsFiniteSet({n \in DOMAIN reps : reps[n].blacklisted})
  BY FS_Subset
<1>2. /\ Cardinality(DOMAIN reps) \in Nat
      /\ Cardinality({n \in DOMAIN reps : reps[n].active}) \in Nat
      /\ Cardinality({n \in DOMAIN reps : reps[n].blacklisted}) \in Nat
  BY <1>1, FS_CardinalityType
<1>3. QED
  BY <1>2 DEF Recount

LEMMA BaseInit ==
  ASSUME Init
  PROVE  BaseInv
<1>1. DOMAIN reps = {} /\ IsFiniteSet(DOMAIN reps)
  BY FS_EmptySet DEF Init
<1>2. Cardinality({}) = 0
  BY FS_EmptySet
<1>3. {n \in DOMAIN reps : reps[n].active} = {}
      /\ {n \in DOMAIN reps : reps[n].blacklisted} = {}
  BY <1>1
<1>4. StatsCurrent
  BY <1>1, <1>2, <1>3 DEF StatsCurrent, Recount, Init
<1>5. TypeOK
  <2>1. queue \in Seq(Update) /\ Len(queue) <= QueueSize
    BY QueueAssumption DEF Init
  <2>2. stats \in [total : Nat, active : Nat, blacklisted : Nat]
    BY DEF Init
  <2>3. QED
    BY <1>1, <2>1, <2>2 DEF Init, TypeOK
<1>6. QED
  BY <1>1, <1>4, <1>5 DEF BaseInv, Sound

LEMMA BaseStep ==
  ASSUME BaseInv, [Next]_vars
  PROVE  BaseInv'
<1>0. TypeOK /\ Sound
  BY DEF BaseInv
<1>1. ASSUME NEW n \in NodeID, RegisterNode(n)
      PROVE  BaseInv'
  <2>1. Sets(n, NewRep)
    BY <1>1 DEF RegisterNode, Sets
  <2>2. QED
    BY <1>0, <1>1, <2>1, NewRepTyped, SetsBase DEF RegisterNode, TypeOK
<1>2. ASSUME NEW n \in NodeID, BlacklistNode(n)
      PROVE  BaseInv'
  <2>1. Blacklisted(Current(n)) \in Rep /\ Earned(Blacklisted(Current(n)))
    BY <1>0, CurrentTyped, BlacklistedTyped
  <2>2. Sets(n, Blacklisted(Current(n)))
    BY <1>2 DEF BlacklistNode, Sets
  <2>3. QED
    BY <1>0, <1>2, <2>1, <2>2, SetsBase DEF BlacklistNode, TypeOK
<1>3. ASSUME NEW c \in Caller, NEW n \in NodeID, NEW d \in Int, UpdateScore(c, n, d)
      PROVE  BaseInv'
  <2>1. [node |-> n, delta |-> d] \in Update
    BY DEF Update
  <2>2. queue' \in Seq(Update) /\ Len(queue') <= QueueSize
    <3>1. CASE queue' = queue
      BY <1>0, <3>1 DEF TypeOK
    <3>2. CASE Len(queue) < QueueSize /\ queue' = Append(queue, [node |-> n, delta |-> d])
      <4>1. queue \in Seq(Update) /\ QueueSize \in Nat
        BY <1>0, QueueAssumption DEF TypeOK
      <4>2. QED
        BY <2>1, <3>2, <4>1
    <3>3. QED
      BY <1>3, <3>1, <3>2 DEF UpdateScore
  <2>3. direct' \in [Caller -> Update \cup {NoUpdate}]
    BY <1>0, <1>3, <2>1 DEF UpdateScore, TypeOK
  <2>4. submitted' \in [NodeID -> Nat]
    BY <1>0, <1>3 DEF UpdateScore, Submits, TypeOK
  <2>5. TypeOK'
    BY <1>0, <1>3, <2>2, <2>3, <2>4 DEF UpdateScore, TypeOK
  <2>6. QED
    BY <1>3, <2>5 DEF UpdateScore, BaseInv, Sound, StatsCurrent, Recount
<1>4. ASSUME NEW n \in NodeID, NEW d \in Int, ApplyUpdate(n, d),
             queue' \in Seq(Update), Len(queue') <= QueueSize,
             direct' \in [Caller -> Update \cup {NoUpdate}],
             UNCHANGED submitted
      PROVE  BaseInv'
  <2>1. Rated(Current(n), d) \in Rep /\ Earned(Rated(Current(n), d))
    BY <1>0, CurrentTyped, RatedTyped
  <2>2. Sets(n, Rated(Current(n), d))
    BY <1>4 DEF ApplyUpdate, Sets
  <2>3. QED
    BY <1>0, <1>4, <2>1, <2>2, SetsBase DEF ApplyUpdate, TypeOK
<1>5. ASSUME NEW c \in Caller, ApplyDirect(c)
      PROVE  BaseInv'
  <2>1. direct[c] \in Update
    BY <1>0, <1>5 DEF ApplyDirect, TypeOK
  <2>2. direct' \in [Caller -> Update \cup {NoUpdate}]
    BY <1>0, <1>5 DEF ApplyDirect, TypeOK
  <2>3. QED
    BY <1>0, <1>4, <1>5, <2>1, <2>2, UpdateTyped DEF ApplyDirect, TypeOK
<1>6. CASE ProcessUpdate
  <2>1. Head(queue).node \in NodeID /\ Head(queue).delta \in Int
    BY <1>0, <1>6, HeadTyped, UpdateTyped DEF ProcessUpdate
  <2>2. queue' \in Seq(Update) /\ Len(queue') <= QueueSize
    BY <1>0, <1>6, HeadTyped DEF ProcessUpdate
  <2>3. QED
    BY <1>0, <1>4, <1>6, <2>1, <2>2 DEF ProcessUpdate, TypeOK
<1>7. ASSUME NEW decay \in [DOMAIN reps -> 0..MaxScore], ApplyDecay(decay)
      PROVE  BaseInv'
  <2>1. Fades
    BY <1>7 DEF ApplyDecay, Fades
  <2>2. Sound' /\ DOMAIN reps' = DOMAIN reps
    BY <1>0, <2>1, FadesSound
  <2>3. TypeOK'
    BY <1>0, <1>7, <2>2 DEF ApplyDecay, TypeOK, Sound
  <2>4. QED
    BY <1>7, <2>2, <2>3 DEF ApplyDecay, BaseInv, StatsCurrent
<1>8. CASE UpdateStats
  <2>1. Recount \in [total : Nat, active : Nat, blacklisted : Nat]
    BY RecountTyped DEF BaseInv
  <2>2. TypeOK'
    BY <1>0, <1>8, <2>1 DEF UpdateStats, TypeOK
  <2>3. QED
    BY <1>8, <2>2 DEF UpdateStats, BaseInv, Sound, StatsCurrent, Recount
<1>9. CASE /\ UNCHANGED <<reps, queue, direct, rsLocked, stats, submitted>>
           /\ worker' \in {"off", "running", "stopping", "stopped"}
           /\ reader' \in {"idle", "holding"}
  BY <1>9 DEF BaseInv, TypeOK, Sound, StatsCurrent, Recount
<1>10. CASE Start \/ Stop \/ WorkersExit \/ StatsBegin \/ StatsEnd
  BY <1>0, <1>9, <1>10
  DEF Start, Stop, WorkersExit, StatsBegin, StatsEnd, TypeOK
<1>11. CASE UNCHANGED vars
  BY <1>0, <1>9, <1>11 DEF vars, TypeOK
<1>12. \A d \in Delta : d \in Int
  BY ScoreAssumption
<1>13. ASSUME NEW p \in Points
       PROVE  Signed(-Signed(p)) \in Int
  <2>1. p \in Int
    BY ScoreAssumption
  <2>2. Signed(p) \in Int
    BY <2>1, SignedTyped
  <2>3. -Signed(p) \in Int
    BY <2>2
  <2>4. QED
    BY <2>3, SignedTyped
<1>14. QED
  BY <1>1, <1>2, <1>3, <1>5, <1>6, <1>7, <1>8, <1>10, <1>11, <1>12, <1>13
  DEF Next, Penalize

THEOREM BaseCorrect == Spec => []BaseInv
<1>1. BaseInv /\ [Next]_vars => BaseInv'
  BY BaseStep
<1>2. QED
  BY <1>1, BaseInit, PTL DEF Spec

\* Scores stay within their bounds and the channel within its capacity,
\* whatever is submitted and however the arithmetic wraps.
THEOREM TypeCorrect == Spec => []TypeOK
<1>1. BaseInv => TypeOK
  BY DEF BaseInv
<1>2. QED
  BY <1>1, BaseCorrect, PTL

\* A node is active only with a score that earns it.
THEOREM ActiveIsEarnedCorrect == Spec => []ActiveIsEarned
<1>1. BaseInv => ActiveIsEarned
  BY DEF BaseInv, Sound, Earned, ActiveIsEarned
<1>2. QED
  BY <1>1, BaseCorrect, PTL

\* The statistics are the count of the reputations whenever the lock is free.
THEOREM StatsCurrentCorrect == Spec => []StatsCurrent
<1>1. BaseInv => StatsCurrent
  BY DEF BaseInv
<1>2. QED
  BY <1>1, BaseCorrect, PTL

-----------------------------------------------------------------------------
(* Blacklisting. *)

LEMMA BlacklistKept ==
  ASSUME BaseInv, [Next]_vars, NEW m \in DOMAIN reps, reps[m].blacklisted
  PROVE  m \in DOMAIN reps' /\ reps'[m].blacklisted
<1>0. TypeOK /\ Sound
  BY DEF BaseInv
<1>1. ASSUME NEW n, NEW r, Sets(n, r), m = n => r.blacklisted
      PROVE  m \in DOMAIN reps' /\ reps'[m].blacklisted
  BY <1>1 DEF Sets, Assign
<1>2. Current(m) = reps[m] /\ reps[m] \in Rep
  BY <1>0 DEF Current, Known, Sound
<1>3. ASSUME NEW n \in NodeID, RegisterNode(n)
      PROVE  m \in DOMAIN reps' /\ reps'[m].blacklisted
  BY <1>1, <1>3 DEF RegisterNode, Sets, Known
<1>4. ASSUME NEW n \in NodeID, BlacklistNode(n)
      PROVE  m \in DOMAIN reps' /\ reps'[m].blacklisted
  BY <1>1, <1>4 DEF BlacklistNode, Sets, Blacklisted
<1>5. ASSUME NEW n \in NodeID, NEW d \in Int, ApplyUpdate(n, d)
      PROVE  m \in DOMAIN reps' /\ reps'[m].blacklisted
  <2>1. m = n => Rated(Current(n), d).blacklisted
    BY <1>2, RatedTyped
  <2>2. QED
    BY <1>1, <1>5, <2>1 DEF ApplyUpdate, Sets
<1>6. ASSUME NEW c \in Caller, ApplyDirect(c)
      PROVE  m \in DOMAIN reps' /\ reps'[m].blacklisted
  <2>1. direct[c] \in Update
    BY <1>0, <1>6 DEF ApplyDirect, TypeOK
  <2>2. QED
    BY <1>5, <1>6, <2>1, UpdateTyped DEF ApplyDirect
<1>7. CASE ProcessUpdate
  <2>1. Head(queue).node \in NodeID /\ Head(queue).delta \in Int
    BY <1>0, <1>7, HeadTyped, UpdateTyped DEF ProcessUpdate
  <2>2. QED
    BY <1>5, <1>7, <2>1 DEF ProcessUpdate
<1>8. ASSUME NEW decay \in [DOMAIN reps -> 0..MaxScore], ApplyDecay(decay)
      PROVE  m \in DOMAIN reps' /\ reps'[m].blacklisted
  <2>1. Fades
    BY <1>8 DEF ApplyDecay, Fades
  <2>2. QED
    BY <1>0, <2>1, FadesSound
<1>9. CASE reps' = reps
  BY <1>9
<1>10. QED
  BY <1>3, <1>4, <1>6, <1>7, <1>8, <1>9
  DEF Next, vars, UpdateScore, Penalize, UpdateStats, Start, Stop, WorkersExit,
      StatsBegin, StatsEnd

\* A node that was blacklisted is never taken off the list, whatever is in the
\* channel, decays or registers.
THEOREM BlacklistIsPermanentCorrect == Spec => BlacklistIsPermanent
<1>1. BaseInv /\ [Next]_vars =>
        [\A n \in DOMAIN reps :
           reps[n].blacklisted => Known(n)' /\ reps'[n].blacklisted]_vars
  BY BlacklistKept DEF Known
<1>2. QED
  BY <1>1, BaseCorrect, PTL DEF Spec, BlacklistIsPermanent

\* A step that makes a blacklisted node active is a decay.
LEMMA ReactivationIsDecay ==
  ASSUME BaseInv, [Next]_vars, NEW m \in DOMAIN reps,
         reps[m].blacklisted, ~reps[m].active, reps'[m].active
  PROVE  \E decay \in [DOMAIN reps -> 0..MaxScore] : ApplyDecay(decay)
<1>0. TypeOK /\ Current(m) = reps[m] /\ reps[m] \in Rep
  BY DEF BaseInv, TypeOK, Current, Known
<1>1. ASSUME NEW n, NEW r, Sets(n, r), m = n => ~r.active
      PROVE  FALSE
  BY <1>1 DEF Sets, Assign
<1>2. ASSUME NEW n \in NodeID, RegisterNode(n) \/ BlacklistNode(n)
      PROVE  FALSE
  BY <1>1, <1>2 DEF RegisterNode, BlacklistNode, Sets, Known, Blacklisted
<1>3. ASSUME NEW n \in NodeID, NEW d \in Int, ApplyUpdate(n, d)
      PROVE  FALSE
  <2>1. ~Rated(reps[m], d).active
    BY Zenon DEF Rated
  <2>2. QED
    BY <1>0, <1>1, <1>3, <2>1 DEF ApplyUpdate, Sets
<1>4. ASSUME NEW c \in Caller, ApplyDirect(c)
      PROVE  FALSE
  <2>1. direct[c] \in Update
    BY <1>0, <1>4 DEF ApplyDirect, TypeOK
  <2>2. QED
    BY <1>3, <1>4, <2>1, UpdateTyped DEF ApplyDirect
<1>5. CASE ProcessUpdate
  <2>1. Head(queue).node \in NodeID /\ Head(queue).delta \in Int
    BY <1>0, <1>5, HeadTyped, UpdateTyped DEF ProcessUpdate
  <2>2. QED
    BY <1>3, <1>5, <2>1 DEF ProcessUpdate
<1>6. CASE reps' = reps
  BY <1>6
<1>7. QED
  BY <1>2, <1>4, <1>5, <1>6
  DEF Next, vars, UpdateScore, Penalize, UpdateStats, Start, Stop, WorkersExit,
      StatsBegin, StatsEnd

\* Whatever is in the channel, with any caller or registers, only the decay
\* makes a blacklisted node active: repairing score.go:396 repairs it all.
THEOREM ReactivatedByDecayOnlyCorrect == Spec => ReactivatedByDecayOnly
<1>1. BaseInv /\ [Next]_vars =>
        [\A n \in DOMAIN reps :
           reps[n].blacklisted /\ ~reps[n].active /\ reps'[n].active =>
             \E decay \in [DOMAIN reps -> 0..MaxScore] : ApplyDecay(decay)]_vars
  BY ReactivationIsDecay
<1>2. QED
  BY <1>1, BaseCorrect, PTL DEF Spec, ReactivatedByDecayOnly

-----------------------------------------------------------------------------
(* No update is lost. *)

\* The places of the channel, and the callers, that hold an update for n.
Slots(q, n) == {i \in 1..Len(q) : Counts(q[i], n)}
Holders(d, n) == {c \in Caller : Counts(d[c], n)}

Weight(u, n) == IF Counts(u, n) THEN 1 ELSE 0

LEMMA SlotsFinite ==
  ASSUME NEW q \in Seq(Update), NEW n
  PROVE  IsFiniteSet(Slots(q, n)) /\ Cardinality(Slots(q, n)) \in Nat
<1>1. IsFiniteSet(1..Len(q))
  BY FS_Interval
<1>2. IsFiniteSet(Slots(q, n))
  BY <1>1, FS_Subset DEF Slots
<1>3. QED
  BY <1>2, FS_CardinalityType

LEMMA AppendCount ==
  ASSUME NEW q \in Seq(Update), NEW u \in Update, NEW n
  PROVE  Cardinality(Slots(Append(q, u), n)) = Cardinality(Slots(q, n)) + Weight(u, n)
<1> DEFINE last == Len(q) + 1
<1>1. /\ Len(Append(q, u)) = last /\ last \notin 1..Len(q)
      /\ 1..last = (1..Len(q)) \cup {last}
      /\ Append(q, u)[last] = u
      /\ \A i \in 1..Len(q) : Append(q, u)[i] = q[i]
  OBVIOUS
<1>2. IsFiniteSet(Slots(q, n)) /\ Cardinality(Slots(q, n)) \in Nat
  BY SlotsFinite
<1> HIDE DEF last
<1>3. CASE Counts(u, n)
  <2>1. Slots(Append(q, u), n) = Slots(q, n) \cup {last} /\ last \notin Slots(q, n)
    BY <1>1, <1>3 DEF Slots
  <2>2. QED
    BY <1>2, <1>3, <2>1, FS_AddElement DEF Weight
<1>4. CASE ~Counts(u, n)
  <2>1. Slots(Append(q, u), n) = Slots(q, n)
    BY <1>1, <1>4 DEF Slots
  <2>2. QED
    BY <1>2, <1>4, <2>1 DEF Weight
<1>5. QED
  BY <1>3, <1>4

LEMMA TailCount ==
  ASSUME NEW q \in Seq(Update), q # <<>>, NEW n
  PROVE  Cardinality(Slots(q, n)) = Cardinality(Slots(Tail(q), n)) + Weight(Head(q), n)
<1> DEFINE t == Tail(q)
           later == Slots(q, n) \ {1}
<1>1. /\ t \in Seq(Update) /\ Len(q) \in Nat \ {0} /\ Len(t) = Len(q) - 1
      /\ Head(q) = q[1] /\ \A i \in 1..Len(t) : t[i] = q[i + 1]
  OBVIOUS
<1>2. IsFiniteSet(Slots(t, n)) /\ Cardinality(Slots(t, n)) \in Nat
  BY <1>1, SlotsFinite
<1>3. IsFiniteSet(Slots(q, n)) /\ Cardinality(Slots(q, n)) \in Nat
  BY SlotsFinite
<1>4. Cardinality(later) = Cardinality(Slots(t, n))
  <2> DEFINE shift == [i \in Slots(t, n) |-> i + 1]
  <2>1. \A i \in Slots(t, n) : i \in Int /\ i + 1 \in later
    BY <1>1 DEF Slots
  <2>2. \A j \in later : j \in Int /\ j - 1 \in Slots(t, n)
    <3>1. SUFFICES ASSUME NEW j \in later PROVE j \in Int /\ j - 1 \in Slots(t, n)
      OBVIOUS
    <3>2. j \in 1..Len(q) /\ j # 1 /\ Counts(q[j], n)
      BY <3>1 DEF Slots
    <3>3. j - 1 \in 1..Len(t) /\ (j - 1) + 1 = j
      BY <1>1, <3>2
    <3>4. t[j - 1] = q[j]
      BY <1>1, <3>3
    <3>5. QED
      BY <3>2, <3>3, <3>4 DEF Slots
  <2> HIDE DEF t, later
  <2>3. shift \in Bijection(Slots(t, n), later)
    <3>1. shift \in [Slots(t, n) -> later]
      BY <2>1
    <3>2. \A a, b \in Slots(t, n) : shift[a] = shift[b] => a = b
      BY <2>1
    <3>3. \A j \in later : \E i \in Slots(t, n) : shift[i] = j
      <4>1. SUFFICES ASSUME NEW j \in later
                     PROVE  \E i \in Slots(t, n) : shift[i] = j
        OBVIOUS
      <4>2. j - 1 \in Slots(t, n) /\ (j - 1) + 1 = j
        BY <2>2
      <4>3. QED
        BY <4>2
    <3>4. QED
      BY <3>1, <3>2, <3>3 DEF Bijection, Injection, IsInjective, Surjection
  <2>4. ExistsBijection(Slots(t, n), later)
    BY <2>3 DEF ExistsBijection
  <2>5. QED
    BY <1>2, <2>4, FS_Bijection
<1>5. 1 \in Slots(q, n) <=> Counts(Head(q), n)
  BY <1>1 DEF Slots
<1>6. Cardinality(later) = IF 1 \in Slots(q, n) THEN Cardinality(Slots(q, n)) - 1
                                                ELSE Cardinality(Slots(q, n))
  BY <1>3, FS_RemoveElement
<1>7. QED
  BY <1>2, <1>3, <1>4, <1>5, <1>6 DEF Weight

LEMMA HoldersSet ==
  ASSUME NEW d \in [Caller -> Update \cup {NoUpdate}], NEW c \in Caller,
         d[c] = NoUpdate, NEW u \in Update, NEW n, IsFiniteSet(Holders(d, n))
  PROVE  LET e == [d EXCEPT ![c] = u]
         IN  /\ IsFiniteSet(Holders(e, n))
             /\ Cardinality(Holders(e, n)) = Cardinality(Holders(d, n)) + Weight(u, n)
<1> DEFINE e == [d EXCEPT ![c] = u]
<1>1. e[c] = u /\ \A x \in Caller \ {c} : e[x] = d[x]
  OBVIOUS
<1>2. ~Counts(d[c], n) /\ c \notin Holders(d, n) /\ Cardinality(Holders(d, n)) \in Nat
  BY FS_CardinalityType DEF Counts, Holders
<1> HIDE DEF e
<1>3. CASE Counts(u, n)
  <2>1. Holders(e, n) = Holders(d, n) \cup {c}
    BY <1>1, <1>3 DEF Holders
  <2>2. /\ IsFiniteSet(Holders(e, n))
        /\ Cardinality(Holders(e, n)) = Cardinality(Holders(d, n)) + 1
    BY <1>2, <2>1, FS_AddElement
  <2>3. Weight(u, n) = 1
    BY <1>3 DEF Weight
  <2>4. QED
    BY <2>2, <2>3 DEF e
<1>4. CASE ~Counts(u, n)
  <2>1. Holders(e, n) = Holders(d, n)
    BY <1>1, <1>2, <1>4 DEF Holders
  <2>2. QED
    BY <1>2, <1>4, <2>1 DEF Weight, e
<1>5. QED
  BY <1>3, <1>4

LEMMA HoldersCleared ==
  ASSUME NEW d \in [Caller -> Update \cup {NoUpdate}], NEW c \in Caller, NEW n,
         IsFiniteSet(Holders(d, n))
  PROVE  LET e == [d EXCEPT ![c] = NoUpdate]
         IN  /\ IsFiniteSet(Holders(e, n))
             /\ Cardinality(Holders(d, n)) = Cardinality(Holders(e, n)) + Weight(d[c], n)
<1> DEFINE e == [d EXCEPT ![c] = NoUpdate]
<1>1. e[c] = NoUpdate /\ \A x \in Caller \ {c} : e[x] = d[x]
  OBVIOUS
<1>2. ~Counts(e[c], n) /\ (c \in Holders(d, n) <=> Counts(d[c], n))
  BY <1>1 DEF Counts, Holders
<1>3. Cardinality(Holders(d, n)) \in Nat
  BY FS_CardinalityType
<1> HIDE DEF e
<1>4. Holders(e, n) = Holders(d, n) \ {c}
  BY <1>1, <1>2 DEF Holders
<1>5. /\ IsFiniteSet(Holders(e, n))
      /\ Cardinality(Holders(e, n)) =
           IF c \in Holders(d, n) THEN Cardinality(Holders(d, n)) - 1
                                  ELSE Cardinality(Holders(d, n))
  BY <1>4, FS_RemoveElement
<1>6. QED
  BY <1>2, <1>3, <1>5 DEF Weight, e

CountInv ==
  /\ NoUpdateLost
  /\ \A n \in NodeID : IsFiniteSet(Holders(direct, n))

\* The three counts of a node.
LEMMA CountsTyped ==
  ASSUME BaseInv, CountInv, NEW n \in NodeID
  PROVE  /\ CountedFor(n) \in Nat
         /\ QueuedFor(n) = Cardinality(Slots(queue, n)) /\ QueuedFor(n) \in Nat
         /\ DirectFor(n) = Cardinality(Holders(direct, n)) /\ DirectFor(n) \in Nat
         /\ submitted[n] = CountedFor(n) + QueuedFor(n) + DirectFor(n)
<1>1. CountedFor(n) \in Nat
  BY CurrentTyped DEF BaseInv, Total, Rep
<1>2. QueuedFor(n) = Cardinality(Slots(queue, n)) /\ QueuedFor(n) \in Nat
  BY SlotsFinite DEF BaseInv, TypeOK, QueuedFor, Slots
<1>3. DirectFor(n) = Cardinality(Holders(direct, n)) /\ DirectFor(n) \in Nat
  BY FS_CardinalityType DEF CountInv, DirectFor, Holders
<1>4. QED
  BY <1>1, <1>2, <1>3 DEF CountInv, NoUpdateLost

\* Applying an update counts it once, for its node.
LEMMA ApplyCounts ==
  ASSUME BaseInv, NEW u \in Update, ApplyUpdate(u.node, u.delta)
  PROVE  \A n \in NodeID : CountedFor(n)' = CountedFor(n) + Weight(u, n)
<1>0. Sound /\ IsFiniteSet(DOMAIN reps) /\ DOMAIN reps \subseteq NodeID
  BY DEF BaseInv, TypeOK
<1> DEFINE k == u.node
           r == Rated(Current(k), u.delta)
<1>1. k \in NodeID /\ u.delta \in Int /\ u # NoUpdate
  BY UpdateTyped
<1>2. /\ r \in Rep /\ Earned(r)
      /\ Total(r) = CountedFor(k) + One(u.delta)
  BY <1>0, <1>1, CurrentTyped, RatedTyped
<1>3. Sets(k, r)
  BY DEF ApplyUpdate, Sets
<1>4. /\ CountedFor(k)' = Total(r)
      /\ \A m \in NodeID \ {k} : CountedFor(m)' = CountedFor(m)
  BY <1>0, <1>1, <1>2, <1>3, SetsSound
<1>5. \A n \in NodeID : CountedFor(n) \in Nat
  BY <1>0, CurrentTyped DEF Total, Rep
<1>6. /\ Weight(u, k) = One(u.delta)
      /\ \A m \in NodeID \ {k} : Weight(u, m) = 0
  BY <1>1 DEF Weight, Counts, One
<1>7. CountedFor(k)' = CountedFor(k) + Weight(u, k)
  BY <1>2, <1>4, <1>6
<1>8. ASSUME NEW n \in NodeID
      PROVE  CountedFor(n)' = CountedFor(n) + Weight(u, n)
  BY <1>4, <1>5, <1>6, <1>7
<1>9. QED
  BY <1>8

LEMMA CountStep ==
  ASSUME BaseInv, CountInv, [Next]_vars
  PROVE  CountInv'
<1>0. TypeOK /\ Sound /\ IsFiniteSet(DOMAIN reps) /\ DOMAIN reps \subseteq NodeID
  BY DEF BaseInv, TypeOK
<1>a. /\ queue \in Seq(Update) /\ direct \in [Caller -> Update \cup {NoUpdate}]
      /\ submitted \in [NodeID -> Nat]
  BY <1>0 DEF TypeOK
<1>b. ASSUME UNCHANGED <<queue, direct, submitted>>,
             \A n \in NodeID : CountedFor(n)' = CountedFor(n)
      PROVE  CountInv'
  BY <1>b DEF CountInv, NoUpdateLost, QueuedFor, DirectFor, Counts, Holders
<1>1. ASSUME NEW n \in NodeID, RegisterNode(n)
      PROVE  CountInv'
  <2>1. Sets(n, NewRep) /\ CountedFor(n) = 0
    BY <1>1 DEF RegisterNode, Sets, CountedFor
  <2>2. \A m \in NodeID : CountedFor(m)' = CountedFor(m)
    BY <1>0, <2>1, NewRepTyped, SetsSound
  <2>3. QED
    BY <1>1, <1>b, <2>2 DEF RegisterNode
<1>2. ASSUME NEW n \in NodeID, BlacklistNode(n)
      PROVE  CountInv'
  <2>1. /\ Blacklisted(Current(n)) \in Rep /\ Earned(Blacklisted(Current(n)))
        /\ Total(Blacklisted(Current(n))) = CountedFor(n)
    BY <1>0, CurrentTyped, BlacklistedTyped
  <2>2. Sets(n, Blacklisted(Current(n)))
    BY <1>2 DEF BlacklistNode, Sets
  <2>3. \A m \in NodeID : CountedFor(m)' = CountedFor(m)
    BY <1>0, <2>1, <2>2, SetsSound
  <2>4. QED
    BY <1>2, <1>b, <2>3 DEF BlacklistNode
<1>3. ASSUME NEW c \in Caller, NEW n \in NodeID, NEW d \in Int, UpdateScore(c, n, d)
      PROVE  CountInv'
  <2> DEFINE u == [node |-> n, delta |-> d]
  <2>1. /\ u \in Update
        /\ Weight(u, n) = One(d) /\ \A m \in NodeID \ {n} : Weight(u, m) = 0
    BY UpdateTyped DEF Update, Weight, Counts, One
  <2>2. \A m \in NodeID : submitted'[m] = submitted[m] + Weight(u, m)
    BY <1>a, <1>3, <2>1 DEF UpdateScore, Submits, One
  <2>3. \A m \in NodeID : CountedFor(m)' = CountedFor(m)
    BY <1>3 DEF UpdateScore, CountedFor, Known
  <2>4. CASE queue' = Append(queue, u) /\ UNCHANGED direct
    <3>1. \A m \in NodeID : /\ QueuedFor(m)' = QueuedFor(m) + Weight(u, m)
                            /\ DirectFor(m)' = DirectFor(m)
      <4>1. \A m \in NodeID :
              Cardinality(Slots(queue', m)) = Cardinality(Slots(queue, m)) + Weight(u, m)
        BY <1>a, <2>1, <2>4, AppendCount
      <4>2. QED
        BY <2>4, <4>1 DEF QueuedFor, DirectFor, Slots, Counts
    <3>2. \A m \in NodeID : IsFiniteSet(Holders(direct', m))
      BY <2>4 DEF CountInv
    <3>3. ASSUME NEW m \in NodeID
          PROVE  submitted'[m] = CountedFor(m)' + QueuedFor(m)' + DirectFor(m)'
      <4>1. Weight(u, m) \in Nat
        BY DEF Weight
      <4>2. QED
        BY <2>2, <2>3, <3>1, <4>1, CountsTyped
    <3>4. QED
      BY <3>2, <3>3 DEF CountInv, NoUpdateLost, Holders, Counts
  <2>5. CASE direct' = [direct EXCEPT ![c] = u] /\ UNCHANGED queue
    <3>1. direct[c] = NoUpdate
      BY <1>3 DEF UpdateScore
    <3>2. \A m \in NodeID :
            /\ IsFiniteSet(Holders(direct', m))
            /\ Cardinality(Holders(direct', m))
                 = Cardinality(Holders(direct, m)) + Weight(u, m)
      BY <1>a, <2>1, <2>5, <3>1, HoldersSet DEF CountInv
    <3>3. \A m \in NodeID : /\ QueuedFor(m)' = QueuedFor(m)
                            /\ DirectFor(m)' = DirectFor(m) + Weight(u, m)
      BY <2>5, <3>2 DEF QueuedFor, DirectFor, Holders, Counts
    <3>4. ASSUME NEW m \in NodeID
          PROVE  submitted'[m] = CountedFor(m)' + QueuedFor(m)' + DirectFor(m)'
      <4>1. Weight(u, m) \in Nat
        BY DEF Weight
      <4>2. QED
        BY <2>2, <2>3, <3>3, <4>1, CountsTyped
    <3>5. QED
      BY <3>2, <3>4 DEF CountInv, NoUpdateLost, Holders, Counts
  <2>6. QED
    BY <1>3, <2>4, <2>5 DEF UpdateScore
<1>4. ASSUME NEW c \in Caller, ApplyDirect(c)
      PROVE  CountInv'
  <2>1. direct[c] \in Update
    BY <1>a, <1>4 DEF ApplyDirect
  <2>2. \A m \in NodeID : CountedFor(m)' = CountedFor(m) + Weight(direct[c], m)
    BY <1>4, <2>1, ApplyCounts DEF ApplyDirect
  <2>3. \A m \in NodeID :
          /\ IsFiniteSet(Holders(direct', m))
          /\ Cardinality(Holders(direct, m))
               = Cardinality(Holders(direct', m)) + Weight(direct[c], m)
    BY <1>a, <1>4, HoldersCleared DEF CountInv, ApplyDirect
  <2>4. \A m \in NodeID : /\ QueuedFor(m)' = QueuedFor(m)
                          /\ DirectFor(m) = DirectFor(m)' + Weight(direct[c], m)
    BY <1>4, <2>3 DEF ApplyDirect, QueuedFor, DirectFor, Holders, Counts
  <2>5. ASSUME NEW m \in NodeID
        PROVE  submitted'[m] = CountedFor(m)' + QueuedFor(m)' + DirectFor(m)'
    <3>1. Weight(direct[c], m) \in Nat
      BY DEF Weight
    <3>2. DirectFor(m)' \in Nat
      BY <2>3, FS_CardinalityType DEF DirectFor, Holders, Counts
    <3>3. submitted'[m] = submitted[m]
      BY <1>4 DEF ApplyDirect
    <3>4. QED
      BY <2>2, <2>4, <3>1, <3>2, <3>3, CountsTyped
  <2>6. QED
    BY <2>3, <2>5 DEF CountInv, NoUpdateLost, Holders, Counts
<1>5. CASE ProcessUpdate
  <2> DEFINE u == Head(queue)
  <2>1. queue # <<>> /\ u \in Update /\ Tail(queue) \in Seq(Update)
    BY <1>0, <1>5, HeadTyped DEF ProcessUpdate
  <2>2. \A m \in NodeID : CountedFor(m)' = CountedFor(m) + Weight(u, m)
    BY <1>5, <2>1, ApplyCounts DEF ProcessUpdate
  <2>3. \A m \in NodeID :
          /\ Cardinality(Slots(queue, m)) = Cardinality(Slots(queue', m)) + Weight(u, m)
          /\ Cardinality(Slots(queue', m)) \in Nat
    BY <1>a, <1>5, <2>1, TailCount, SlotsFinite DEF ProcessUpdate
  <2>4. \A m \in NodeID : /\ QueuedFor(m) = QueuedFor(m)' + Weight(u, m)
                          /\ QueuedFor(m)' \in Nat
                          /\ DirectFor(m)' = DirectFor(m)
    BY <1>5, <2>3 DEF ProcessUpdate, QueuedFor, DirectFor, Slots, Counts
  <2>5. ASSUME NEW m \in NodeID
        PROVE  submitted'[m] = CountedFor(m)' + QueuedFor(m)' + DirectFor(m)'
    <3>1. Weight(u, m) \in Nat
      BY DEF Weight
    <3>2. submitted'[m] = submitted[m]
      BY <1>5 DEF ProcessUpdate
    <3>3. QED
      BY <2>2, <2>4, <3>1, <3>2, CountsTyped
  <2>6. \A m \in NodeID : IsFiniteSet(Holders(direct', m))
    BY <1>5 DEF ProcessUpdate, CountInv
  <2>7. QED
    BY <2>5, <2>6 DEF CountInv, NoUpdateLost, Holders, Counts
<1>6. ASSUME NEW decay \in [DOMAIN reps -> 0..MaxScore], ApplyDecay(decay)
      PROVE  CountInv'
  <2>1. Fades
    BY <1>6 DEF ApplyDecay, Fades
  <2>2. \A m : CountedFor(m)' = CountedFor(m)
    BY <1>0, <2>1, FadesSound
  <2>3. QED
    BY <1>6, <1>b, <2>2 DEF ApplyDecay
<1>7. CASE UNCHANGED <<reps, queue, direct, submitted>>
  BY <1>7, <1>b DEF CountedFor, Known
<1>8. \A d \in Delta : d \in Int
  BY ScoreAssumption
<1>9. ASSUME NEW p \in Points
      PROVE  Signed(-Signed(p)) \in Int
  <2>1. p \in Int
    BY ScoreAssumption
  <2>2. Signed(p) \in Int
    BY <2>1, SignedTyped
  <2>3. -Signed(p) \in Int
    BY <2>2
  <2>4. QED
    BY <2>3, SignedTyped
<1>10. QED
  BY <1>1, <1>2, <1>3, <1>4, <1>5, <1>6, <1>7, <1>8, <1>9
  DEF Next, vars, Penalize, UpdateStats, Start, Stop, WorkersExit,
      StatsBegin, StatsEnd

LEMMA CountInit ==
  ASSUME Init
  PROVE  CountInv
<1>1. \A n : Slots(queue, n) = {} /\ Holders(direct, n) = {}
  BY DEF Init, Slots, Holders, Counts
<1>2. \A n \in NodeID : CountedFor(n) = 0 /\ submitted[n] = 0
  BY DEF Init, CountedFor, Known
<1>3. \A n \in NodeID : QueuedFor(n) = 0 /\ DirectFor(n) = 0
  BY <1>1, FS_EmptySet DEF QueuedFor, DirectFor, Slots, Holders
<1>4. QED
  BY <1>1, <1>2, <1>3, FS_EmptySet DEF CountInv, NoUpdateLost

\* Every update that was submitted is counted, in the channel or with its
\* caller, for any capacity and any number of callers.
THEOREM NoUpdateLostCorrect == Spec => []NoUpdateLost
<1>1. BaseInv /\ CountInv /\ [Next]_vars => CountInv'
  BY CountStep
<1>2. CountInv => NoUpdateLost
  BY DEF CountInv
<1>3. QED
  BY <1>1, <1>2, CountInit, BaseCorrect, PTL DEF Spec

=============================================================================
