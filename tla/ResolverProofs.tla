--------------------------- MODULE ResolverProofs ---------------------------
(***************************************************************************)
(* Proofs about Resolver, for any callers, domains, DIDs and TTLs.         *)
(***************************************************************************)
EXTENDS Resolver, TLAPS

(* The inductive invariant: of a settled domain nothing is left anywhere a *)
(* record could come back from.                                            *)
SettledIsGone ==
  \A d \in settled : dht[d] = <<>> /\ d \notin DOMAIN cache /\ ~Holding(d)

IInv == TypeOK /\ SettledIsGone

Entry == [rec : Record, left : Nat]

-----------------------------------------------------------------------------
(* Helpers. *)

\* What the DHT is given can be parsed, and makes a record.
LEMMA ParseGivesRecord ==
  ASSUME NEW value \in Value, value # <<>>
  PROVE  Parse(value) \in Record
<1>1. PICK did \in Did, ttl \in Ttl : value = did \o <<ttl>>
  BY DEF Value
<1>2. /\ did \in Seq(Part) /\ Len(did) \in Nat \ {0}
      /\ \A i \in 1..Len(did) : did[i] \in Part
  BY ResolverAssumption
<1>3. value[1] \in Part
  BY <1>1, <1>2
<1>4. value[2] \in Part \cup Ttl
  <2>. DEFINE W == Part \cup Ttl
  <2>1. did \in Seq(W) /\ <<ttl>> \in Seq(W)
    BY <1>2
  <2>. HIDE DEF W
  <2>2. did \o <<ttl>> \in Seq(W) /\ Len(did \o <<ttl>>) = Len(did) + Len(<<ttl>>)
    BY <2>1
  <2>3. Len(did \o <<ttl>>) = Len(did) + 1
    BY <2>2
  <2>4. 2 \in 1..Len(did \o <<ttl>>)
    BY <1>2, <2>3
  <2>5. (did \o <<ttl>>)[2] \in W
    BY <2>2, <2>4
  <2>. QED
    BY <1>1, <2>5 DEF W
<1>. QED
  BY <1>3, <1>4 DEF Parse, Record

LEMMA LifetimeIsNat ==
  ASSUME NEW rec \in Record
  PROVE  Lifetime(rec) \in Nat
<1>1. rec.ttl \in Ttl \cup {Day} \cup (Part \cap Int)
  BY DEF Record
<1>2. Ttl \subseteq Int /\ Day \in Nat
  BY ResolverAssumption
<1>3. \A t : t \in Ttl \cup {Day} \cup (Part \cap Int) => t \in Int
  BY <1>2
<1>4. rec.ttl \in Int
  BY <1>1, <1>3, Zenon
<1>. QED
  BY <1>2, <1>4 DEF Lifetime

\* The cache with one more entry, or one less, is a cache.
LEMMA PutEntry ==
  ASSUME TypeOK, NEW d \in Domain, NEW e \in Entry, cache' = Put(cache, d, e)
  PROVE  /\ DOMAIN cache' = DOMAIN cache \cup {d}
         /\ DOMAIN cache' \subseteq Domain
         /\ cache' \in [DOMAIN cache' -> Entry]
BY DEF Put, TypeOK, Entry

LEMMA RemoveEntry ==
  ASSUME TypeOK, NEW d, cache' = Remove(cache, d)
  PROVE  /\ DOMAIN cache' = DOMAIN cache \ {d}
         /\ DOMAIN cache' \subseteq Domain
         /\ cache' \in [DOMAIN cache' -> Entry]
BY DEF Remove, TypeOK, Entry

\* What a caller that is at work holds.
LEMMA CallIs ==
  ASSUME TypeOK, NEW c \in Caller
  PROVE  /\ Is(c, "check") \/ Is(c, "lookup") \/ Is(c, "evict") =>
              call[c].domain \in Domain
         /\ Is(c, "add") => call[c].domain \in Domain /\ call[c].rec \in Record
<1>1. call[c] \in Call
  BY DEF TypeOK
<1>. QED
  BY <1>1 DEF Call, At, Idle, Is

\* A caller that moves to a well-typed state holds no record but the one that
\* state names.
LEMMA CallGoes ==
  ASSUME TypeOK, NEW c \in Caller, NEW state \in Call, Goes(c, state)
  PROVE  /\ call' \in [Caller -> Call]
         /\ \A d : Holding(d)' =>
              Holding(d) \/ (state.pc = "add" /\ state.domain = d)
BY DEF TypeOK, Goes, Holding, Is

LEMMA StatesAreCalls ==
  /\ Idle \in Call /\ Idle.pc = "idle"
  /\ \A pc \in {"check", "lookup", "evict"}, d \in Domain :
       At(pc, d, NoRecord) \in Call /\ At(pc, d, NoRecord).pc = pc
  /\ \A d \in Domain, rec \in Record :
       At("add", d, rec) \in Call /\ At("add", d, rec).domain = d
<1>1. Idle \in Call /\ Idle.pc = "idle"
  BY DEF Call, Idle, At
<1>2. ASSUME NEW pc \in {"check", "lookup", "evict"}, NEW d \in Domain
      PROVE  At(pc, d, NoRecord) \in Call /\ At(pc, d, NoRecord).pc = pc
  <2>1. At(pc, d, NoRecord) \in Call
    BY DEF Call
  <2>. QED
    BY <2>1 DEF At
<1>3. ASSUME NEW d \in Domain, NEW rec \in Record
      PROVE  At("add", d, rec) \in Call /\ At("add", d, rec).domain = d
  <2>1. At("add", d, rec) \in Call
    BY DEF Call
  <2>. QED
    BY <2>1 DEF At
<1>. QED
  BY <1>1, <1>2, <1>3

-----------------------------------------------------------------------------
LEMMA InitInv == Init => IInv
<1>. SUFFICES ASSUME Init PROVE IInv
  OBVIOUS
<1>1. TypeOK
  BY StatesAreCalls, ResolverAssumption DEF Init, Empty, TypeOK, Value
<1>2. SettledIsGone
  BY DEF Init, SettledIsGone
<1>. QED
  BY <1>1, <1>2 DEF IInv

LEMMA ResolveInv ==
  ASSUME IInv, NEW c \in Caller, NEW d \in Domain, Resolve(c, d) PROVE IInv'
<1>. DEFINE state == At("check", d, NoRecord)
<1>1. state \in Call /\ state.pc = "check"
  BY StatesAreCalls
<1>2. Goes(c, state) /\ UNCHANGED <<dht, cache, cleaners, settled>>
  BY DEF Resolve
<1>. HIDE DEF state
<1>3. call' \in [Caller -> Call] /\ \A e : Holding(e)' => Holding(e)
  BY <1>1, <1>2, CallGoes DEF IInv
<1>. QED
  BY <1>2, <1>3 DEF IInv, TypeOK, SettledIsGone

LEMMA RefreshCacheInv ==
  ASSUME IInv, NEW c \in Caller, NEW d \in Domain, RefreshCache(c, d) PROVE IInv'
<1>. DEFINE state == At("check", d, NoRecord)
<1>1. state \in Call /\ state.pc = "check"
  BY StatesAreCalls
<1>2. /\ Goes(c, state) /\ cache' = Remove(cache, d)
      /\ UNCHANGED <<dht, cleaners, settled>>
  BY DEF RefreshCache
<1>. HIDE DEF state
<1>3. call' \in [Caller -> Call] /\ \A e : Holding(e)' => Holding(e)
  BY <1>1, <1>2, CallGoes DEF IInv
<1>4. /\ DOMAIN cache' = DOMAIN cache \ {d} /\ DOMAIN cache' \subseteq Domain
      /\ cache' \in [DOMAIN cache' -> Entry]
  BY <1>2, RemoveEntry DEF IInv
<1>. QED
  BY <1>2, <1>3, <1>4 DEF IInv, TypeOK, SettledIsGone, Entry

LEMMA GetFromCacheInv ==
  ASSUME IInv, NEW c \in Caller, GetFromCache(c) PROVE IInv'
<1>. DEFINE d == call[c].domain
<1>1. d \in Domain
  BY CallIs DEF IInv, GetFromCache
<1>2. /\ \E state \in {Idle, At("lookup", d, NoRecord)} : Goes(c, state)
      /\ \/ UNCHANGED cleaners
         \/ cleaners[d] < MaxCleaners /\ cleaners' = [cleaners EXCEPT ![d] = cleaners[d] + 1]
      /\ UNCHANGED <<dht, cache, settled>>
  BY DEF GetFromCache
<1>3. cleaners' \in [Domain -> 0..MaxCleaners]
  BY <1>1, <1>2, ResolverAssumption DEF IInv, TypeOK
<1>4. PICK state \in {Idle, At("lookup", d, NoRecord)} : Goes(c, state)
  BY <1>2
<1>5. state \in Call /\ state.pc # "add"
  BY <1>1, StatesAreCalls
<1>6. call' \in [Caller -> Call] /\ \A e : Holding(e)' => Holding(e)
  BY <1>4, <1>5, CallGoes DEF IInv
<1>. QED
  BY <1>2, <1>3, <1>6 DEF IInv, TypeOK, SettledIsGone

LEMMA LookupValueInv ==
  ASSUME IInv, NEW c \in Caller, LookupValue(c) PROVE IInv'
<1>. DEFINE d == call[c].domain
<1>1. d \in Domain
  BY CallIs DEF IInv, LookupValue
<1>2. UNCHANGED <<dht, cache, cleaners, settled>>
  BY DEF LookupValue
<1>3. CASE Goes(c, Idle)
  <2>1. call' \in [Caller -> Call] /\ \A e : Holding(e)' => Holding(e)
    BY <1>3, StatesAreCalls, CallGoes DEF IInv
  <2>. QED
    BY <1>2, <2>1 DEF IInv, TypeOK, SettledIsGone
<1>4. CASE dht[d] # <<>> /\ Goes(c, At("add", d, Parse(dht[d])))
  <2>. DEFINE state == At("add", d, Parse(dht[d]))
  <2>1. Parse(dht[d]) \in Record
    BY <1>1, <1>4, ParseGivesRecord DEF IInv, TypeOK
  <2>2. state \in Call /\ state.domain = d
    BY <1>1, <2>1, StatesAreCalls
  <2>3. Goes(c, state)
    BY <1>4
  <2>. HIDE DEF state
  <2>4. call' \in [Caller -> Call] /\ \A e : Holding(e)' => Holding(e) \/ e = d
    BY <2>2, <2>3, CallGoes DEF IInv
  <2>5. d \notin settled
    BY <1>4 DEF IInv, SettledIsGone
  <2>. QED
    BY <1>2, <2>4, <2>5 DEF IInv, TypeOK, SettledIsGone
<1>. QED
  BY <1>3, <1>4 DEF LookupValue

LEMMA AddToCacheInv ==
  ASSUME IInv, NEW c \in Caller, AddToCache(c) PROVE IInv'
<1>. DEFINE d == call[c].domain
            e == [rec |-> call[c].rec, left |-> Lifetime(call[c].rec)]
<1>1. Is(c, "add") /\ d \in Domain /\ call[c].rec \in Record
  BY CallIs DEF IInv, AddToCache
<1>2. e \in Entry
  BY <1>1, LifetimeIsNat DEF Entry
<1>3. cache' = Put(cache, d, e) /\ Goes(c, Idle) /\ UNCHANGED <<dht, cleaners, settled>>
  BY DEF AddToCache
<1>. HIDE DEF e
<1>4. /\ DOMAIN cache' = DOMAIN cache \cup {d} /\ DOMAIN cache' \subseteq Domain
      /\ cache' \in [DOMAIN cache' -> Entry]
  BY <1>1, <1>2, <1>3, PutEntry DEF IInv
<1>5. call' \in [Caller -> Call] /\ \A f : Holding(f)' => Holding(f)
  BY <1>3, StatesAreCalls, CallGoes DEF IInv
<1>6. d \notin settled
  BY <1>1 DEF IInv, SettledIsGone, Holding
<1>. QED
  BY <1>3, <1>4, <1>5, <1>6 DEF IInv, TypeOK, SettledIsGone, Entry

LEMMA RegisterInv ==
  ASSUME IInv, NEW c \in Caller, NEW d \in Domain, NEW did \in Did, NEW ttl \in Ttl,
         Register(c, d, did, ttl)
  PROVE  IInv'
<1>1. Serialize(did, ttl) \in Value
  BY DEF Serialize, Value
<1>2. /\ dht' = [dht EXCEPT ![d] = Serialize(did, ttl)] /\ settled' = settled \ {d}
      /\ UNCHANGED <<cache, cleaners, call>>
  BY DEF Register
<1>3. TypeOK'
  BY <1>1, <1>2 DEF IInv, TypeOK
<1>4. SettledIsGone'
  BY <1>2 DEF IInv, TypeOK, SettledIsGone, Holding, Is
<1>. QED
  BY <1>3, <1>4 DEF IInv

LEMMA UnregisterInv ==
  ASSUME IInv, NEW c \in Caller, NEW d \in Domain, Unregister(c, d) PROVE IInv'
<1>. DEFINE state == At("evict", d, NoRecord)
<1>1. state \in Call /\ state.pc = "evict"
  BY StatesAreCalls
<1>2. /\ dht' = [dht EXCEPT ![d] = <<>>] /\ UNCHANGED <<cache, cleaners, settled>>
      /\ Goes(c, state) \/ UNCHANGED call
  BY DEF Unregister
<1>. HIDE DEF state
<1>3. call' \in [Caller -> Call] /\ \A e : Holding(e)' => Holding(e)
  <2>1. CASE Goes(c, state)
    BY <1>1, <2>1, CallGoes DEF IInv
  <2>2. CASE UNCHANGED call
    BY <2>2 DEF IInv, TypeOK, Holding, Is
  <2>. QED
    BY <1>2, <2>1, <2>2
<1>4. dht' \in [Domain -> Value] /\ \A e \in Domain : dht[e] = <<>> => dht'[e] = <<>>
  <2>1. <<>> \in Value
    BY DEF Value
  <2>2. dht \in [Domain -> Value]
    BY DEF IInv, TypeOK
  <2>. QED
    BY <1>2, <2>1, <2>2
<1>. QED
  BY <1>2, <1>3, <1>4 DEF IInv, TypeOK, SettledIsGone

LEMMA EvictInv ==
  ASSUME IInv, NEW c \in Caller, Evict(c) PROVE IInv'
<1>. DEFINE d == call[c].domain
<1>1. d \in Domain
  BY CallIs DEF IInv, Evict
<1>2. /\ cache' = Remove(cache, d) /\ Goes(c, Idle) /\ UNCHANGED <<dht, cleaners>>
      /\ \/ settled' = settled
         \/ settled' = settled \cup {d} /\ dht[d] = <<>> /\ ~Holding(d)
  BY DEF Evict
<1>3. /\ DOMAIN cache' = DOMAIN cache \ {d} /\ DOMAIN cache' \subseteq Domain
      /\ cache' \in [DOMAIN cache' -> Entry]
  BY <1>2, RemoveEntry DEF IInv
<1>4. call' \in [Caller -> Call] /\ \A e : Holding(e)' => Holding(e)
  BY <1>2, StatesAreCalls, CallGoes DEF IInv
<1>5. TypeOK'
  BY <1>1, <1>2, <1>3, <1>4 DEF IInv, TypeOK, Entry
<1>6. SettledIsGone'
  BY <1>2, <1>3, <1>4 DEF IInv, SettledIsGone
<1>. QED
  BY <1>5, <1>6 DEF IInv

LEMMA CacheShrinksInv ==
  ASSUME IInv, UNCHANGED <<dht, call, settled>>,
         cleaners' \in [Domain -> 0..MaxCleaners],
         DOMAIN cache' \subseteq DOMAIN cache,
         cache' \in [DOMAIN cache' -> Entry]
  PROVE  IInv'
<1>1. TypeOK'
  BY DEF IInv, TypeOK, Entry
<1>2. SettledIsGone'
  BY DEF IInv, SettledIsGone, Holding, Is
<1>. QED
  BY <1>1, <1>2 DEF IInv

LEMMA CleanInv ==
  ASSUME IInv, NEW d \in Domain, Clean(d) PROVE IInv'
<1>1. cleaners' \in [Domain -> 0..MaxCleaners]
  BY ResolverAssumption DEF IInv, TypeOK, Clean
<1>2. DOMAIN cache' \subseteq DOMAIN cache /\ cache' \in [DOMAIN cache' -> Entry]
  BY RemoveEntry DEF IInv, Clean
<1>. QED
  BY <1>1, <1>2, CacheShrinksInv DEF Clean

LEMMA ClearCacheInv == ASSUME IInv, ClearCache PROVE IInv'
<1>1. DOMAIN cache' \subseteq DOMAIN cache /\ cache' \in [DOMAIN cache' -> Entry]
  BY DEF ClearCache, Empty
<1>. QED
  BY <1>1, CacheShrinksInv DEF ClearCache, IInv, TypeOK

LEMMA TickInv == ASSUME IInv, Tick PROVE IInv'
<1>1. cache \in [DOMAIN cache -> Entry]
  BY DEF IInv, TypeOK, Entry
<1>2. \A d \in DOMAIN cache :
        [rec |-> cache[d].rec,
         left |-> IF cache[d].left > 0 THEN cache[d].left - 1 ELSE 0] \in Entry
  BY <1>1 DEF Entry
<1>3. DOMAIN cache' \subseteq DOMAIN cache /\ cache' \in [DOMAIN cache' -> Entry]
  BY <1>2 DEF Tick
<1>. QED
  BY <1>3, CacheShrinksInv DEF Tick, IInv, TypeOK

LEMMA NextInv == IInv /\ [Next]_vars => IInv'
<1>. SUFFICES ASSUME IInv, [Next]_vars PROVE IInv'
  OBVIOUS
<1>1. CASE \E c \in Caller, d \in Domain :
             Resolve(c, d) \/ RefreshCache(c, d) \/ Unregister(c, d)
  BY <1>1, ResolveInv, RefreshCacheInv, UnregisterInv
<1>2. CASE \E c \in Caller, d \in Domain, did \in Did, ttl \in Ttl :
             Register(c, d, did, ttl)
  BY <1>2, RegisterInv
<1>3. CASE \E c \in Caller :
             GetFromCache(c) \/ LookupValue(c) \/ AddToCache(c) \/ Evict(c)
  BY <1>3, GetFromCacheInv, LookupValueInv, AddToCacheInv, EvictInv
<1>4. CASE \E d \in Domain : Clean(d)
  BY <1>4, CleanInv
<1>5. CASE ClearCache
  BY <1>5, ClearCacheInv
<1>6. CASE Tick
  BY <1>6, TickInv
<1>7. CASE UNCHANGED vars
  BY <1>7, CacheShrinksInv DEF vars, IInv, TypeOK, Entry
<1>. QED
  BY <1>1, <1>2, <1>3, <1>4, <1>5, <1>6, <1>7 DEF Next

-----------------------------------------------------------------------------
(* Records that are out of date. *)

StaleStep(d) ==
  dht'[d] = dht[d] =>
    \A life \in StaleLives(d)' : \E before \in StaleLives(d) : life <= before

\* What the cache serves of a domain after a step comes from what it served, or
\* from a record a caller held.
ServedFromBefore(d) ==
  Served(d)' =>
    \/ /\ Served(d)
       /\ cache'[d].rec = cache[d].rec /\ cache'[d].left <= cache[d].left
    \/ \E c \in Caller : /\ Is(c, "add") /\ call[c].domain = d
                         /\ cache'[d].rec = call[c].rec
                         /\ cache'[d].left = Lifetime(call[c].rec)

\* A record a caller holds after a step it held before, or is what the DHT has.
HeldFromBefore(d) ==
  \A c \in Caller : Is(c, "add")' /\ call'[c].domain = d =>
    call'[c] = call[c] \/ Current(d, call'[c].rec)

LEMMA LivesAreNat ==
  ASSUME TypeOK, NEW d \in Domain
  PROVE  /\ Served(d) => cache[d].left \in Nat
         /\ \A c \in Caller : Is(c, "add") => Lifetime(call[c].rec) \in Nat
<1>1. Served(d) => cache[d].left \in Nat
  BY DEF TypeOK, Served
<1>2. ASSUME NEW c \in Caller, Is(c, "add") PROVE Lifetime(call[c].rec) \in Nat
  BY <1>2, CallIs, LifetimeIsNat
<1>. QED
  BY <1>1, <1>2

\* Then no record that is out of date gains.
LEMMA SourcesMakeStaleStep ==
  ASSUME TypeOK, NEW d \in Domain, ServedFromBefore(d), HeldFromBefore(d)
  PROVE  StaleStep(d)
<1>. SUFFICES ASSUME dht'[d] = dht[d], NEW life \in StaleLives(d)'
              PROVE  \E before \in StaleLives(d) : life <= before
  BY DEF StaleStep
<1>1. \A rec : Current(d, rec)' <=> Current(d, rec)
  BY DEF Current
<1>2. CASE Served(d)' /\ ~Current(d, cache'[d].rec) /\ life = cache'[d].left
  <2>1. CASE /\ Served(d)
             /\ cache'[d].rec = cache[d].rec /\ cache'[d].left <= cache[d].left
    <3>1. cache[d].left \in StaleLives(d)
      BY <1>2, <2>1 DEF StaleLives
    <3>. QED
      BY <1>2, <2>1, <3>1
  <2>2. ASSUME NEW c \in Caller, Is(c, "add"), call[c].domain = d,
               cache'[d].rec = call[c].rec,
               cache'[d].left = Lifetime(call[c].rec)
        PROVE  \E before \in StaleLives(d) : life <= before
    <3>1. Lifetime(call[c].rec) \in StaleLives(d)
      BY <1>2, <2>2 DEF StaleLives
    <3>2. Lifetime(call[c].rec) \in Nat
      BY <2>2, LivesAreNat
    <3>. QED
      BY <1>2, <2>2, <3>1, <3>2
  <2>. QED
    BY <1>2, <2>1, <2>2 DEF ServedFromBefore
<1>3. ASSUME NEW c \in Caller, Is(c, "add")', call'[c].domain = d,
             ~Current(d, call'[c].rec), life = Lifetime(call'[c].rec)
      PROVE  \E before \in StaleLives(d) : life <= before
  <2>1. call'[c] = call[c]
    BY <1>3 DEF HeldFromBefore
  <2>2. Is(c, "add") /\ Lifetime(call[c].rec) \in Nat
    BY <1>3, <2>1, LivesAreNat DEF Is
  <2>3. Lifetime(call[c].rec) \in StaleLives(d)
    BY <1>3, <2>1, <2>2 DEF StaleLives
  <2>. QED
    BY <1>3, <2>1, <2>2, <2>3
<1>. QED
  BY <1>1, <1>2, <1>3 DEF StaleLives

\* A caller that moves holds no record, or the one its new state names.
LEMMA GoesHolds ==
  ASSUME TypeOK, NEW c \in Caller, NEW state, Goes(c, state), NEW d \in Domain,
         state.pc = "add" => state.domain # d \/ Current(d, state.rec)
  PROVE  HeldFromBefore(d)
BY DEF TypeOK, Goes, Is, HeldFromBefore

\* A cache that loses entries, or keeps them.
LEMMA RemovedServes ==
  ASSUME TypeOK, NEW d \in Domain, NEW e, cache' = Remove(cache, e)
  PROVE  ServedFromBefore(d)
BY DEF TypeOK, Remove, Served, ServedFromBefore

LEMMA KeptServes ==
  ASSUME TypeOK, NEW d \in Domain, UNCHANGED cache
  PROVE  ServedFromBefore(d)
BY DEF TypeOK, Served, ServedFromBefore

LEMMA KeptHolds ==
  ASSUME NEW d \in Domain, UNCHANGED call
  PROVE  HeldFromBefore(d)
BY DEF HeldFromBefore

LEMMA CallerStale ==
  ASSUME TypeOK, NEW c \in Caller, NEW d \in Domain,
         GetFromCache(c) \/ LookupValue(c) \/ AddToCache(c) \/ Evict(c)
  PROVE  StaleStep(d)
<1>. DEFINE e == call[c].domain
<1>1. CASE GetFromCache(c)
  <2>1. UNCHANGED cache /\ \E state \in {Idle, At("lookup", e, NoRecord)} : Goes(c, state)
    BY <1>1 DEF GetFromCache
  <2>2. \A state \in {Idle, At("lookup", e, NoRecord)} : state.pc # "add"
    BY DEF Idle, At
  <2>. QED
    BY <2>1, <2>2, GoesHolds, KeptServes, SourcesMakeStaleStep
<1>2. CASE LookupValue(c)
  <2>1. UNCHANGED <<dht, cache>>
    BY <1>2 DEF LookupValue
  <2>2. CASE Goes(c, Idle)
    <3>1. Idle.pc # "add"
      BY DEF Idle, At
    <3>. QED
      BY <2>1, <2>2, <3>1, GoesHolds, KeptServes, SourcesMakeStaleStep
  <2>3. CASE dht[e] # <<>> /\ Goes(c, At("add", e, Parse(dht[e])))
    <3>. DEFINE state == At("add", e, Parse(dht[e]))
    <3>1. state.domain = e /\ state.rec = Parse(dht[e])
      BY DEF At
    <3>2. state.domain # d \/ Current(d, state.rec)
      BY <2>3, <3>1 DEF Current
    <3>3. Goes(c, state)
      BY <2>3
    <3>. HIDE DEF state
    <3>. QED
      BY <2>1, <3>2, <3>3, GoesHolds, KeptServes, SourcesMakeStaleStep
  <2>. QED
    BY <1>2, <2>2, <2>3 DEF LookupValue
<1>3. CASE AddToCache(c)
  <2>. DEFINE entry == [rec |-> call[c].rec, left |-> Lifetime(call[c].rec)]
  <2>1. Is(c, "add") /\ Goes(c, Idle) /\ cache' = Put(cache, e, entry)
    BY <1>3 DEF AddToCache
  <2>2. entry.rec = call[c].rec /\ entry.left = Lifetime(call[c].rec)
    OBVIOUS
  <2>. HIDE DEF entry
  <2>3. ServedFromBefore(d)
    <3>1. CASE e = d
      <4>1. cache'[d] = entry
        BY <2>1, <3>1 DEF Put
      <4>. QED
        BY <2>1, <2>2, <3>1, <4>1 DEF ServedFromBefore
    <3>2. CASE e # d
      <4>1. d \in DOMAIN cache' => d \in DOMAIN cache /\ cache'[d] = cache[d]
        BY <2>1, <3>2 DEF Put
      <4>2. Served(d)' => Served(d) /\ cache'[d] = cache[d]
        BY <4>1 DEF Served
      <4>3. Served(d) => cache[d].left \in Nat
        BY LivesAreNat
      <4>. QED
        BY <4>2, <4>3 DEF ServedFromBefore
    <3>. QED
      BY <3>1, <3>2
  <2>4. Idle.pc # "add"
    BY DEF Idle, At
  <2>. QED
    BY <2>1, <2>3, <2>4, GoesHolds, SourcesMakeStaleStep
<1>4. CASE Evict(c)
  <2>1. cache' = Remove(cache, e) /\ Goes(c, Idle)
    BY <1>4 DEF Evict
  <2>2. Idle.pc # "add"
    BY DEF Idle, At
  <2>. QED
    BY <2>1, <2>2, GoesHolds, RemovedServes, SourcesMakeStaleStep
<1>. QED
  BY <1>1, <1>2, <1>3, <1>4

LEMMA OtherStale ==
  ASSUME TypeOK, NEW c \in Caller, NEW e \in Domain, NEW d \in Domain,
         Resolve(c, e) \/ RefreshCache(c, e) \/ Unregister(c, e)
  PROVE  StaleStep(d)
<1>1. At("check", e, NoRecord).pc # "add" /\ At("evict", e, NoRecord).pc # "add"
  BY DEF At
<1>2. CASE Resolve(c, e)
  BY <1>1, <1>2, GoesHolds, KeptServes, SourcesMakeStaleStep DEF Resolve
<1>3. CASE RefreshCache(c, e)
  BY <1>1, <1>3, GoesHolds, RemovedServes, SourcesMakeStaleStep DEF RefreshCache
<1>4. CASE Unregister(c, e)
  BY <1>1, <1>4, GoesHolds, KeptHolds, KeptServes, SourcesMakeStaleStep DEF Unregister
<1>. QED
  BY <1>2, <1>3, <1>4

LEMMA TickStale ==
  ASSUME TypeOK, NEW d \in Domain, Tick
  PROVE  StaleStep(d)
<1>1. d \in DOMAIN cache' =>
        /\ d \in DOMAIN cache /\ cache'[d].rec = cache[d].rec
        /\ cache'[d].left = IF cache[d].left > 0 THEN cache[d].left - 1 ELSE 0
  BY DEF Tick
<1>2. d \in DOMAIN cache => cache[d].left \in Nat
  BY DEF TypeOK
<1>3. ServedFromBefore(d)
  BY <1>1, <1>2 DEF ServedFromBefore, Served
<1>. QED
  BY <1>3, KeptHolds, SourcesMakeStaleStep DEF Tick

LEMMA NextStale ==
  ASSUME TypeOK, [Next]_vars, NEW d \in Domain
  PROVE  StaleStep(d)
<1>1. CASE \E c \in Caller, e \in Domain :
             Resolve(c, e) \/ RefreshCache(c, e) \/ Unregister(c, e)
  BY <1>1, OtherStale
<1>2. CASE \E c \in Caller, e \in Domain, did \in Did, ttl \in Ttl :
             Register(c, e, did, ttl)
  BY <1>2, KeptHolds, KeptServes, SourcesMakeStaleStep DEF Register
<1>3. CASE \E c \in Caller :
             GetFromCache(c) \/ LookupValue(c) \/ AddToCache(c) \/ Evict(c)
  BY <1>3, CallerStale
<1>4. CASE \E e \in Domain : Clean(e)
  BY <1>4, RemovedServes, KeptHolds, SourcesMakeStaleStep DEF Clean
<1>5. CASE ClearCache
  <2>1. ServedFromBefore(d)
    BY <1>5 DEF ClearCache, Empty, Served, ServedFromBefore
  <2>. QED
    BY <1>5, <2>1, KeptHolds, SourcesMakeStaleStep DEF ClearCache
<1>6. CASE Tick
  BY <1>6, TickStale
<1>7. CASE UNCHANGED vars
  BY <1>7, KeptHolds, KeptServes, SourcesMakeStaleStep DEF vars
<1>. QED
  BY <1>1, <1>2, <1>3, <1>4, <1>5, <1>6, <1>7 DEF Next

-----------------------------------------------------------------------------
(* Theorems. *)

\* The inductive invariant holds in every behaviour.
THEOREM Invariance == Spec => []IInv
BY InitInv, NextInv, PTL DEF Spec

\* The cache holds records that parseRecord can make, with a life that is never
\* negative whatever TTL was registered (resolver.go:166-205).
THEOREM TypeCorrect == Spec => []TypeOK
<1>1. IInv => TypeOK
  BY DEF IInv
<1>. QED
  BY <1>1, Invariance, PTL

\* Once Unregister has ended with no look-up under way that holds its record, a
\* domain does not come back into the cache (resolver.go:122-135).
THEOREM UnregisteredCorrect == Spec => []UnregisteredIsUncached
<1>1. IInv => UnregisteredIsUncached
  BY DEF IInv, SettledIsGone, UnregisteredIsUncached
<1>. QED
  BY <1>1, Invariance, PTL

\* As long as the DHT keeps what it holds of a domain, no record of it that is
\* out of date comes to last longer than one of them could before, whatever
\* callers, clean-ups and answers are interleaved (resolver.go:65-91, 144-179).
THEOREM StaleNeverProlongedCorrect == Spec => StaleNeverProlonged
<1>1. TypeOK /\ [Next]_vars => [\A d \in Domain : StaleStep(d)]_vars
  BY NextStale
<1>. QED
  BY <1>1, TypeCorrect, PTL DEF Spec, StaleNeverProlonged, StaleStep

=============================================================================
