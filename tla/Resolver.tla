------------------------------ MODULE Resolver ------------------------------
(***************************************************************************)
(* The domain resolver of one node (src/domain_resolution/resolver.go):    *)
(* goroutines that resolve, register and unregister domains over a DHT,    *)
(* and a cache of what they resolved.  cacheMu is taken for each access to *)
(* the cache, never across a call of the DHT, so every access and every    *)
(* call is a step.                                                         *)
(*                                                                         *)
(* The DHT is a package outside the repository.  It is taken to hold one   *)
(* value per key, to answer with the value it holds, and to fail at will;  *)
(* a StoreValue that fails may have stored the value.                      *)
(*                                                                         *)
(* Domains are normalised names with the .mesh suffix; a call with another *)
(* name is refused, or is Unregister of a name nothing is ever stored for. *)
(*                                                                         *)
(* An action named A_Something is A with a plausible bug in it, for the    *)
(* mutation runs; no specification uses it.                                *)
(***************************************************************************)
EXTENDS Integers, Sequences

CONSTANTS
  Caller,      \* goroutines that call the resolver
  Domain,      \* domains
  Part,        \* what stands between two bars in the text of a DID
  Did,         \* DIDs, as the sequences of their parts
  Ttl,         \* ttlSeconds of Register, in ticks
  Day,         \* 24 hours: r.ttl, and the TTL of a record that states none
  MaxCleaners, \* bound: clean-up goroutines of a domain that have yet to run
  NoDomain, NoRecord

ASSUME ResolverAssumption ==
  /\ Did \subseteq Seq(Part) \ {<<>>}
  /\ Ttl \subseteq Int
  /\ Day \in Nat \ {0}
  /\ MaxCleaners \in Nat

VARIABLES
  dht,      \* by domain, the fields of the value stored; <<>> stands for the
            \* empty value, and for none
  cache,    \* r.cache: record, and ticks for which it is still served
  cleaners, \* goroutines of getFromCache that have yet to run, by domain
  call,     \* what each caller is doing, for which domain, with which record
  settled   \* domains whose Unregister ended with no look-up holding a record
            \* of them, and that no Register stored since

vars == <<dht, cache, cleaners, call, settled>>

Record == [did : Part, ttl : Ttl \cup {Day} \cup (Part \cap Int)]

Value == {<<>>} \cup {did \o <<ttl>> : did \in Did, ttl \in Ttl}

At(pc, d, rec) == [pc |-> pc, domain |-> d, rec |-> rec]

Idle == At("idle", NoDomain, NoRecord)

Call ==
  {Idle}
  \cup {At(pc, d, NoRecord) : pc \in {"check", "lookup", "evict"}, d \in Domain}
  \cup {At("add", d, rec) : d \in Domain, rec \in Record}

Put(f, key, value) ==
  [k \in DOMAIN f \cup {key} |-> IF k = key THEN value ELSE f[k]]

Remove(f, key) == [k \in DOMAIN f \ {key} |-> f[k]]

Empty == [d \in {} |-> {}]

Init ==
  /\ dht = [d \in Domain |-> <<>>]
  /\ cache = Empty
  /\ cleaners = [d \in Domain |-> 0]
  /\ call = [c \in Caller |-> Idle]
  /\ settled = {}

-----------------------------------------------------------------------------
(* serializeRecord writes the DID, a bar and the TTL; parseRecord splits at *)
(* every bar and takes the first two fields.  A DID that has a bar comes    *)
(* back cut, and with the TTL its second part states, or a day's.           *)
Serialize(did, ttl) == did \o <<ttl>>

Parse(value) ==
  [did |-> value[1], ttl |-> IF value[2] \in Int THEN value[2] ELSE Day]

Lifetime(rec) == IF rec.ttl > 0 THEN rec.ttl ELSE Day

Served(d) == d \in DOMAIN cache /\ cache[d].left > 0

Goes(c, state) == call' = [call EXCEPT ![c] = state]

Is(c, pc) == call[c].pc = pc

-----------------------------------------------------------------------------
(* Resolve, and ResolveDID, which calls it. *)
Resolve(c, d) ==
  /\ Is(c, "idle")
  /\ Goes(c, At("check", d, NoRecord))
  /\ UNCHANGED <<dht, cache, cleaners, settled>>

RefreshCache(c, d) ==
  /\ Is(c, "idle")
  /\ cache' = Remove(cache, d)
  /\ Goes(c, At("check", d, NoRecord))
  /\ UNCHANGED <<dht, cleaners, settled>>

GetFromCache_Slides(c) ==
  /\ Is(c, "check")
  /\ LET d == call[c].domain
     IN  \/ /\ Served(d)
            /\ cache' = Put(cache, d, [cache[d] EXCEPT !.left = Lifetime(cache[d].rec)])
            /\ Goes(c, Idle)
         \/ /\ ~Served(d)
            /\ cache' = Remove(cache, d)
            /\ Goes(c, At("lookup", d, NoRecord))
  /\ UNCHANGED <<dht, cleaners, settled>>

(* getFromCache: a record that is still served ends the Resolve; one that  *)
(* is not starts a goroutine that removes it later.                        *)
GetFromCache(c) ==
  /\ Is(c, "check")
  /\ LET d == call[c].domain
     IN  \/ /\ Served(d)
            /\ Goes(c, Idle)
            /\ UNCHANGED cleaners
         \/ /\ ~Served(d)
            /\ d \in DOMAIN cache
            /\ cleaners[d] < MaxCleaners
            /\ cleaners' = [cleaners EXCEPT ![d] = @ + 1]
            /\ Goes(c, At("lookup", d, NoRecord))
         \/ /\ d \notin DOMAIN cache
            /\ Goes(c, At("lookup", d, NoRecord))
            /\ UNCHANGED cleaners
  /\ UNCHANGED <<dht, cache, settled>>

(* The goroutine does not look again at what it removes. *)
Clean(d) ==
  /\ cleaners[d] > 0
  /\ cleaners' = [cleaners EXCEPT ![d] = @ - 1]
  /\ cache' = Remove(cache, d)
  /\ UNCHANGED <<dht, call, settled>>

LookupValue_AcceptsEmpty(c) ==
  /\ Is(c, "lookup")
  /\ LET d == call[c].domain
     IN  \/ Goes(c, Idle)
         \/ /\ dht[d] # <<>>
            /\ Goes(c, At("add", d, Parse(dht[d])))
         \/ /\ dht[d] = <<>>
            /\ \E p \in Part : Goes(c, At("add", d, [did |-> p, ttl |-> Day]))
  /\ UNCHANGED <<dht, cache, cleaners, settled>>

(* dhtEngine.LookupValue and parseRecord, which refuses an empty value.    *)
LookupValue(c) ==
  /\ Is(c, "lookup")
  /\ LET d == call[c].domain
     IN  \/ Goes(c, Idle)
         \/ /\ dht[d] # <<>>
            /\ Goes(c, At("add", d, Parse(dht[d])))
  /\ UNCHANGED <<dht, cache, cleaners, settled>>

AddToCache_StatedTtl(c) ==
  /\ Is(c, "add")
  /\ LET rec == call[c].rec
     IN cache' = Put(cache, call[c].domain, [rec |-> rec, left |-> rec.ttl])
  /\ Goes(c, Idle)
  /\ UNCHANGED <<dht, cleaners, settled>>

AddToCache(c) ==
  /\ Is(c, "add")
  /\ LET rec == call[c].rec
     IN cache' = Put(cache, call[c].domain, [rec |-> rec, left |-> Lifetime(rec)])
  /\ Goes(c, Idle)
  /\ UNCHANGED <<dht, cleaners, settled>>

(* Register does not touch the cache.  Its error changes nothing here that *)
(* its success does not: the caller learns it, the DHT may or may not have *)
(* the record.                                                             *)
Register(c, d, did, ttl) ==
  /\ Is(c, "idle")
  /\ dht' = [dht EXCEPT ![d] = Serialize(did, ttl)]
  /\ settled' = settled \ {d}
  /\ UNCHANGED <<cache, cleaners, call>>

(* Unregister stores an empty value and then removes the cached record; if *)
(* the store fails it returns, whether or not the value was stored.        *)
Unregister(c, d) ==
  /\ Is(c, "idle")
  /\ dht' = [dht EXCEPT ![d] = <<>>]
  /\ Goes(c, At("evict", d, NoRecord)) \/ UNCHANGED call
  /\ UNCHANGED <<cache, cleaners, settled>>

Holding(d) == \E c \in Caller : Is(c, "add") /\ call[c].domain = d

Evict(c) ==
  /\ Is(c, "evict")
  /\ LET d == call[c].domain
     IN  /\ cache' = Remove(cache, d)
         /\ settled' = IF dht[d] = <<>> /\ ~Holding(d)
                       THEN settled \cup {d} ELSE settled
  /\ Goes(c, Idle)
  /\ UNCHANGED <<dht, cleaners>>

ClearCache ==
  /\ cache' = Empty
  /\ UNCHANGED <<dht, cleaners, call, settled>>

(* Time passes: the clock of ExpiresAt. *)
Tick ==
  /\ \E d \in Domain : Served(d)
  /\ cache' = [d \in DOMAIN cache |->
                [rec |-> cache[d].rec,
                 left |-> IF cache[d].left > 0 THEN cache[d].left - 1 ELSE 0]]
  /\ UNCHANGED <<dht, cleaners, call, settled>>

Next ==
  \/ \E c \in Caller, d \in Domain :
       Resolve(c, d) \/ RefreshCache(c, d) \/ Unregister(c, d)
  \/ \E c \in Caller, d \in Domain, did \in Did, ttl \in Ttl :
       Register(c, d, did, ttl)
  \/ \E c \in Caller :
       GetFromCache(c) \/ LookupValue(c) \/ AddToCache(c) \/ Evict(c)
  \/ \E d \in Domain : Clean(d)
  \/ ClearCache
  \/ Tick

Spec == Init /\ [][Next]_vars

\* Time passes, and a goroutine that has a record to cache is scheduled.
FairSpec ==
  Spec /\ WF_vars(Tick) /\ \A c \in Caller : WF_vars(AddToCache(c))

-----------------------------------------------------------------------------
(* Properties. *)

TypeOK ==
  /\ dht \in [Domain -> Value]
  /\ DOMAIN cache \subseteq Domain
  /\ cache \in [DOMAIN cache -> [rec : Record, left : Nat]]
  /\ cleaners \in [Domain -> 0..MaxCleaners]
  /\ call \in [Caller -> Call]
  /\ settled \subseteq Domain

\* A domain that was unregistered is out of the cache for good, until it is
\* registered again: only a look-up that already held its record when
\* Unregister ended could put it back (resolver.go:76-87, 122-135).
UnregisteredIsUncached == settled \cap DOMAIN cache = {}

\* When the registrations of a domain come to an end, the cache comes to serve
\* what the DHT holds of it, and nothing if it was unregistered, however often
\* it is resolved meanwhile, and although Register leaves the cache alone:
\* serving a record does not prolong its life (resolver.go:144-179).
EventuallyCurrent ==
  \A d \in Domain : \A value \in Value :
    <>[](dht[d] = value)
      => <>[](Served(d) => value # <<>> /\ cache[d].rec = Parse(value))

\* The record is what the DHT holds of the domain.
Current(d, rec) == dht[d] # <<>> /\ rec = Parse(dht[d])

\* How long the records of the domain that are not what the DHT holds can still
\* be served: the cached one, and those a caller is about to cache.
StaleLives(d) ==
  (IF Served(d) /\ ~Current(d, cache[d].rec) THEN {cache[d].left} ELSE {})
  \cup {Lifetime(call[c].rec) :
          c \in {c \in Caller : /\ Is(c, "add") /\ call[c].domain = d
                                /\ ~Current(d, call[c].rec)}}

\* As long as the DHT keeps what it holds of a domain, no step of any caller
\* makes a record of it that is out of date last longer than one of them could
\* before: not a Resolve that serves it, not one that caches it late, not the
\* answer to a look-up (resolver.go:65-91, 144-179).
StaleNeverProlonged ==
  [][\A d \in Domain : dht'[d] = dht[d] =>
       \A life \in StaleLives(d)' : \E before \in StaleLives(d) : life <= before]_vars

=============================================================================
