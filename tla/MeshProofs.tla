----------------------------- MODULE MeshProofs -----------------------------
(***************************************************************************)
(* Proofs about Mesh, for any nodes, users and texts.                      *)
(***************************************************************************)
EXTENDS Mesh, TLAPS

(* The inductive invariant: until its end, the loop of a node that is being *)
(* stopped has been told to end.                                           *)
ToldToEnd == \A n \in Node : phase[n] \in {"stopping", "stopped"} => ~running[n]

Down(n) ==
  boot[n] = "off" /\ ~running[n] /\ ~open[n] /\ loop[n] = "none" /\ store[n] = Empty

Types ==
  /\ phase \in [Node -> Phase]
  /\ boot \in [Node -> {"PING", "FIND_NODE", "off"}]
  /\ running \in [Node -> BOOLEAN]
  /\ open \in [Node -> BOOLEAN]
  /\ loop \in [Node -> {"read", "none"}]
  /\ store \in [Node -> DataStore]
  /\ net \in [Address \X Address -> Datagram \cup {Nothing}]

IInv ==
  /\ Types
  /\ \A n \in Node : phase[n] = "down" => Down(n)
  /\ ToldToEnd
  /\ NeverSpins

-----------------------------------------------------------------------------
(* Helpers. *)

LEMMA InvImpliesTypeOK == IInv => TypeOK
BY Zenon DEF IInv, Types, TypeOK, Down

\* What one node does to itself leaves the invariant of the others alone.
LEMMA OnlyOne ==
  ASSUME IInv, Types', NEW n \in Node,
         \A p \in Node \ {n} :
           /\ phase'[p] = phase[p] /\ boot'[p] = boot[p]
           /\ running'[p] = running[p] /\ open'[p] = open[p]
           /\ loop'[p] = loop[p] /\ store'[p] = store[p],
         phase'[n] = "down" => Down(n)',
         phase'[n] \in {"stopping", "stopped"} => ~running'[n],
         loop'[n] = "read" /\ ~open'[n] => ~running'[n]
  PROVE  IInv'
<1>1. \A p \in Node : phase'[p] = "down" => Down(p)'
  BY DEF IInv, Down
<1>2. ToldToEnd'
  BY DEF IInv, ToldToEnd
<1>3. NeverSpins'
  BY DEF IInv, NeverSpins
<1>. QED
  BY <1>1, <1>2, <1>3 DEF IInv

LEMMA NothingElse ==
  ASSUME IInv, Types', UNCHANGED <<phase, boot, p2pVars, store>>
  PROVE  IInv'
BY DEF IInv, p2pVars, Down, ToldToEnd, NeverSpins

LEMMA Datagrams ==
  /\ \A kind \in {"PING", "PONG", "FIND_NODE", "NODES", "REGISTER"} :
       Plain(kind) \in Datagram
  /\ \A t \in FindText : FindOf(t) \in Datagram
  /\ \A t \in StoreText : StoreOf(t) \in Datagram
  /\ \A v \in Value : ValueOf(v) \in Datagram
BY DEF Datagram

\* Each place of the network keeps what was in it or has been emptied, but for
\* the one of the message sent.
LEMMA SentEffect ==
  ASSUME NEW f \in [Address \X Address -> Datagram \cup {Nothing}],
         NEW from \in Address, NEW to \in Address, NEW m \in Datagram \cup {Nothing}
  PROVE  /\ Sent(f, <<from, to>>, m) \in [Address \X Address -> Datagram \cup {Nothing}]
         /\ \A p, q \in Address :
              \/ <<p, q>> = <<from, to>> /\ Sent(f, <<from, to>>, m)[<<p, q>>] = m
              \/ Sent(f, <<from, to>>, m)[<<p, q>>] \in {f[<<p, q>>], Nothing}
<1>. DEFINE link == <<from, to>>
<1>1. \/ Sent(f, link, m) = [f EXCEPT ![link] = m]
      \/ Sent(f, link, m) = [Silence EXCEPT ![link] = m]
  BY DEF Sent
<1>2. CASE Sent(f, link, m) = [f EXCEPT ![link] = m]
  BY <1>2
<1>3. CASE Sent(f, link, m) = [Silence EXCEPT ![link] = m]
  <2>1. /\ Silence \in [Address \X Address -> Datagram \cup {Nothing}]
        /\ \A l \in Address \X Address : Silence[l] = Nothing
    BY DEF Silence
  <2>. QED
    BY <1>3, <2>1
<1>. QED
  BY <1>1, <1>2, <1>3

LEMMA PostTypes ==
  ASSUME Types, NEW from \in Address, NEW to \in Address,
         NEW m \in Datagram \cup {Nothing}, Post(from, to, m)
  PROVE  net' \in [Address \X Address -> Datagram \cup {Nothing}]
BY SentEffect DEF Types, Post

LEMMA WriteToTypes ==
  ASSUME Types, NEW n \in Node, NEW to \in Address, NEW m \in Datagram,
         WriteTo(n, to, m)
  PROVE  net' \in [Address \X Address -> Datagram \cup {Nothing}]
<1>1. CASE open[n]
  BY <1>1, PostTypes DEF WriteTo, Address
<1>2. CASE ~open[n]
  BY <1>2 DEF WriteTo, Types
<1>. QED
  BY <1>1, <1>2

LEMMA EmptyIsStore == Empty \in DataStore
<1>1. Empty \in [{} -> Value]
  BY DEF Empty
<1>2. {} \in SUBSET Key
  OBVIOUS
<1>. QED
  BY <1>1, <1>2, Zenon DEF DataStore

LEMMA AssignIsStore ==
  ASSUME NEW f \in DataStore, NEW k \in Key, NEW v \in Value
  PROVE  Assign(f, k, v) \in DataStore
<1>1. PICK keys \in SUBSET Key : f \in [keys -> Value]
  BY DEF DataStore
<1>. DEFINE more == keys \cup {k}
<1>2. more \in SUBSET Key
  BY <1>1
<1>3. Assign(f, k, v) \in [more -> Value]
  BY <1>1 DEF Assign
<1>. HIDE DEF more
<1>. QED
  BY <1>2, <1>3, Zenon DEF DataStore

LEMMA StoreReads ==
  ASSUME NEW f \in DataStore, NEW k \in DOMAIN f
  PROVE  f[k] \in Value
<1>1. PICK keys \in SUBSET Key : f \in [keys -> Value]
  BY DEF DataStore
<1>. QED
  BY <1>1

LEMMA KeptParts ==
  ASSUME NEW m \in Datagram, Keeps(m)
  PROVE  Head(m.text) \in Key /\ Tail(m.text) \in Value
<1>1. PICK t \in StoreText : m = StoreOf(t)
  BY DEF Keeps, Datagram, Plain, FindOf, ValueOf
<1>2. m.text = t /\ Splits(t)
  BY <1>1 DEF StoreOf, Keeps
<1>. QED
  BY <1>2 DEF Key, Value

LEMMA StoredTypes ==
  ASSUME Types, NEW n \in Node, NEW m \in Datagram
  PROVE  Stored(n, m) \in DataStore
<1>1. store[n] \in DataStore
  BY DEF Types
<1>2. CASE Keeps(m)
  BY <1>1, <1>2, KeptParts, AssignIsStore DEF Stored
<1>3. CASE ~Keeps(m)
  BY <1>1, <1>3 DEF Stored
<1>. QED
  BY <1>2, <1>3

LEMMA ReplyTypes ==
  ASSUME Types, NEW n \in Node, NEW m \in Datagram
  PROVE  Reply(n, m) \in Datagram \cup {Nothing}
<1>1. store[n] \in DataStore
  BY DEF Types
<1>2. CASE m.kind = "PING"
  BY <1>2, Datagrams DEF Reply
<1>3. CASE m.kind = "FIND_NODE"
  BY <1>3, Datagrams DEF Reply
<1>4. CASE m.kind = "FIND_VALUE"
  <2>1. CASE Recognised(m) /\ Finds(n, m.text)
    <3>1. PICK k \in DOMAIN store[n] : m.text = <<k>>
      BY <2>1 DEF Finds
    <3>2. Head(m.text) = k
      BY <3>1
    <3>3. Reply(n, m) = ValueOf(store[n][k])
      BY <1>4, <2>1, <3>2 DEF Reply
    <3>4. store[n][k] \in Value
      BY <1>1, StoreReads
    <3>. QED
      BY <3>3, <3>4, Datagrams
  <2>2. CASE ~(Recognised(m) /\ Finds(n, m.text))
    BY <1>4, <2>2 DEF Reply
  <2>. QED
    BY <2>1, <2>2
<1>5. CASE m.kind \notin {"PING", "FIND_NODE", "FIND_VALUE"}
  BY <1>5 DEF Reply
<1>. QED
  BY <1>2, <1>3, <1>4, <1>5

-----------------------------------------------------------------------------
LEMMA InitInv == Init => IInv
<1>. SUFFICES ASSUME Init PROVE IInv
  OBVIOUS
<1>1. Types
  BY EmptyIsStore DEF Init, Types, Phase, Silence
<1>2. \A n \in Node : phase[n] = "down" => Down(n)
  BY DEF Init, Down
<1>3. ToldToEnd /\ NeverSpins
  BY DEF Init, ToldToEnd, NeverSpins
<1>. QED
  BY <1>1, <1>2, <1>3 DEF IInv

LEMMA LifeInv ==
  ASSUME IInv, NEW n \in Node,
         \/ Create(n) \/ CreateWithoutTransport(n) \/ StunLost(n)
         \/ StopKademlia(n) \/ CloseTransport(n) \/ Exit(n)
  PROVE  IInv'
<1>0. Types
  BY DEF IInv
<1>1. CASE Create(n)
  <2>1. Types'
    BY <1>0, <1>1 DEF Types, Create, Goes, Phase
  <2>. QED
    <3>1. /\ phase'[n] = "stun" /\ open'[n] /\ running'[n]
          /\ \A p \in Node \ {n} :
               /\ phase'[p] = phase[p] /\ boot'[p] = boot[p]
               /\ running'[p] = running[p] /\ open'[p] = open[p]
               /\ loop'[p] = loop[p] /\ store'[p] = store[p]
      BY <1>0, <1>1 DEF Create, Goes, Types
    <3>. QED
      BY <2>1, <3>1, OnlyOne
<1>2. CASE CreateWithoutTransport(n)
  <2>1. Types'
    BY <1>0, <1>2 DEF Types, CreateWithoutTransport, Goes, Phase, p2pVars
  <2>2. loop[n] = "none"
    BY <1>2 DEF IInv, Down, CreateWithoutTransport
  <2>. QED
    BY <1>0, <1>2, <2>1, <2>2, OnlyOne DEF CreateWithoutTransport, Goes, Types, p2pVars
<1>3. CASE StunLost(n)
  <2>1. Types'
    BY <1>0, <1>3 DEF Types, StunLost, Goes, Phase, p2pVars
  <2>2. loop[n] = "read" /\ ~open[n] => ~running[n]
    BY DEF IInv, NeverSpins
  <2>. QED
    BY <1>0, <1>3, <2>1, <2>2, OnlyOne DEF StunLost, Goes, Types, p2pVars
<1>4. CASE StopKademlia(n)
  <2>1. Types'
    BY <1>0, <1>4 DEF Types, StopKademlia, Goes, Phase
  <2>. QED
    BY <1>0, <1>4, <2>1, OnlyOne DEF StopKademlia, Goes, Types
<1>5. CASE CloseTransport(n)
  <2>1. Types'
    BY <1>0, <1>5 DEF Types, CloseTransport, Goes, Phase
  <2>2. ~running[n]
    BY <1>5 DEF IInv, ToldToEnd, CloseTransport
  <2>. QED
    BY <1>0, <1>5, <2>1, <2>2, OnlyOne DEF CloseTransport, Goes, Types
<1>6. CASE Exit(n)
  <2>1. Types'
    BY <1>0, <1>6, EmptyIsStore DEF Types, Exit, Goes, Phase
  <2>. QED
    <3>1. /\ boot'[n] = "off" /\ ~running'[n] /\ ~open'[n]
          /\ loop'[n] = "none" /\ store'[n] = Empty /\ phase'[n] = "down"
      BY <1>0, <1>6 DEF Exit, Goes, Types
    <3>2. \A p \in Node \ {n} :
            /\ phase'[p] = phase[p] /\ boot'[p] = boot[p]
            /\ running'[p] = running[p] /\ open'[p] = open[p]
            /\ loop'[p] = loop[p] /\ store'[p] = store[p]
      BY <1>0, <1>6 DEF Exit, Goes, Types
    <3>3. Down(n)'
      BY <3>1 DEF Down
    <3>. QED
      BY <2>1, <3>1, <3>2, <3>3, OnlyOne
<1>. QED
  BY <1>1, <1>2, <1>3, <1>4, <1>5, <1>6

LEMMA StunInv ==
  ASSUME IInv, NEW n \in Node, StunEnds(n) PROVE IInv'
<1>0. /\ Types
      /\ phase[n] = "stun" /\ Goes(n, "bootstrap")
      /\ boot' = [boot EXCEPT ![n] = "PING"]
      /\ UNCHANGED <<running, open, loop, store>>
  BY DEF IInv, StunEnds, StunAnswers, StunFails, p2pVars
<1>1. net' \in [Address \X Address -> Datagram \cup {Nothing}]
  <2>1. CASE StunAnswers(n)
    BY <1>0, <2>1, WriteToTypes, Datagrams, MeshAssumption DEF StunAnswers, Address
  <2>2. CASE StunFails(n)
    BY <1>0, <2>2 DEF StunFails, Types
  <2>. QED
    BY <2>1, <2>2 DEF StunEnds
<1>2. Types'
  BY <1>0, <1>1 DEF Types, Goes, Phase
<1>3. loop[n] = "read" /\ ~open[n] => ~running[n]
  BY DEF IInv, NeverSpins
<1>. QED
  BY <1>0, <1>2, <1>3, OnlyOne DEF Goes, Types

LEMMA BootPingInv ==
  ASSUME IInv, NEW n \in Node, BootPing(n) PROVE IInv'
<1>0. /\ Types
      /\ boot[n] = "PING"
      /\ boot' = [boot EXCEPT ![n] = IF open[n] THEN "FIND_NODE" ELSE "PING"]
      /\ UNCHANGED <<phase, running, open, loop, store>>
  BY DEF IInv, BootPing, p2pVars
<1>1. net' \in [Address \X Address -> Datagram \cup {Nothing}]
  BY <1>0, WriteToTypes, Datagrams, MeshAssumption DEF BootPing, Address
<1>2. Types'
  BY <1>0, <1>1 DEF Types
<1>3. /\ loop[n] = "read" /\ ~open[n] => ~running[n]
      /\ phase[n] \in {"stopping", "stopped"} => ~running[n]
      /\ phase[n] # "down"
  BY <1>0 DEF IInv, NeverSpins, ToldToEnd, Down
<1>. QED
  BY <1>0, <1>2, <1>3, OnlyOne DEF Types

LEMMA BootFindInv ==
  ASSUME IInv, NEW n \in Node, BootFind(n) PROVE IInv'
<1>0. /\ Types
      /\ boot[n] = "FIND_NODE"
      /\ boot' = [boot EXCEPT ![n] = "PING"]
      /\ phase' = [phase EXCEPT ![n] =
                     IF phase[n] = "bootstrap" THEN "running" ELSE phase[n]]
      /\ UNCHANGED <<running, open, loop, store>>
  BY DEF IInv, BootFind, p2pVars
<1>1. net' \in [Address \X Address -> Datagram \cup {Nothing}]
  BY <1>0, WriteToTypes, Datagrams, MeshAssumption DEF BootFind, Address
<1>2. Types'
  BY <1>0, <1>1 DEF Types, Phase
<1>3. /\ loop[n] = "read" /\ ~open[n] => ~running[n]
      /\ phase[n] \in {"stopping", "stopped"} => ~running[n]
      /\ phase[n] # "down"
  BY <1>0 DEF IInv, NeverSpins, ToldToEnd, Down
<1>4. /\ phase'[n] # "down"
      /\ phase'[n] \in {"stopping", "stopped"} => phase'[n] = phase[n]
  BY <1>0, <1>3 DEF Types
<1>. QED
  BY <1>0, <1>2, <1>3, <1>4, OnlyOne DEF Types

LEMMA ServeInv ==
  ASSUME IInv, NEW n \in Node, NEW from \in Address, NEW m \in Datagram,
         Serve(n, from, m)
  PROVE  IInv'
<1>0. /\ Types
      /\ loop[n] = "read" /\ open[n]
      /\ NextTurn(n)
      /\ UNCHANGED <<phase, boot, running, open>>
      /\ n \in Address
  BY DEF IInv, Serve, Address
<1>1. PICK rest \in {m, Nothing} :
        IF Accepts THEN Answer(n, from, m, rest) ELSE Refuse(n, from, rest)
  BY DEF Serve
<1>. DEFINE received == [net EXCEPT ![<<from, n>>] = rest]
<1>2. received \in [Address \X Address -> Datagram \cup {Nothing}]
  BY <1>0 DEF Types
<1>3. /\ net' \in [Address \X Address -> Datagram \cup {Nothing}]
      /\ store' \in [Node -> DataStore]
      /\ \A p \in Node \ {n} : store'[p] = store[p]
  <2>1. CASE Accepts
    <3>1. Answer(n, from, m, rest)
      BY <1>1, <2>1
    <3>2. store' = [store EXCEPT ![n] = Stored(n, m)]
      BY <3>1 DEF Answer
    <3>3. /\ Reply(n, m) \in Datagram \cup {Nothing}
          /\ Stored(n, m) \in DataStore
      BY <1>0, ReplyTypes, StoredTypes
    <3>4. \/ net' = received
          \/ net' = Sent(received, <<n, from>>, Reply(n, m))
      BY <3>1 DEF Answer
    <3>. HIDE DEF received
    <3>5. net' \in [Address \X Address -> Datagram \cup {Nothing}]
      BY <1>0, <1>2, <3>3, <3>4, SentEffect
    <3>. QED
      BY <1>0, <3>2, <3>3, <3>5 DEF Types
  <2>2. CASE ~Accepts
    <3>1. net' = received /\ store' = store
      BY <1>1, <2>2 DEF Refuse
    <3>. QED
      BY <1>0, <1>2, <3>1 DEF Types
  <2>. QED
    BY <2>1, <2>2
<1>. HIDE DEF received
<1>4. Types'
  BY <1>0, <1>3 DEF Types, NextTurn
<1>5. /\ phase[n] # "down"
      /\ phase[n] \in {"stopping", "stopped"} => ~running[n]
  BY <1>0 DEF IInv, Down, ToldToEnd
<1>. QED
  BY <1>0, <1>3, <1>4, <1>5, OnlyOne DEF Types, NextTurn

LEMMA ReadFailsInv ==
  ASSUME IInv, NEW n \in Node, ReadFails(n) PROVE IInv'
<1>0. /\ Types
      /\ loop[n] = "read"
      /\ loop' = [loop EXCEPT ![n] = IF running[n] THEN "read" ELSE "none"]
      /\ UNCHANGED <<phase, boot, running, open, store, net>>
  BY DEF IInv, ReadFails, NextTurn
<1>1. Types'
  BY <1>0 DEF Types
<1>2. /\ phase[n] # "down"
      /\ phase[n] \in {"stopping", "stopped"} => ~running[n]
      /\ ~open[n] => ~running[n]
  BY <1>0 DEF IInv, Down, ToldToEnd, NeverSpins
<1>. QED
  BY <1>0, <1>1, <1>2, OnlyOne DEF Types

LEMMA OutsideInv ==
  ASSUME IInv,
         \/ \E n \in UserOf, text \in FindText : UserAsks(n, text)
         \/ \E n \in UserOf, text \in StoreText : UserStores(n, text)
         \/ \E link \in Address \X Address : Lose(link)
  PROVE  IInv'
<1>0. Types /\ UserOf \subseteq Address /\ User \in Address
  BY MeshAssumption DEF IInv, Address
<1>1. CASE \E n \in UserOf, text \in FindText : UserAsks(n, text)
  <2>1. net' \in [Address \X Address -> Datagram \cup {Nothing}]
    BY <1>0, <1>1, PostTypes, Datagrams DEF UserAsks
  <2>. QED
    BY <1>0, <1>1, <2>1, NothingElse DEF UserAsks, Types, p2pVars
<1>2. CASE \E n \in UserOf, text \in StoreText : UserStores(n, text)
  <2>1. net' \in [Address \X Address -> Datagram \cup {Nothing}]
    BY <1>0, <1>2, PostTypes, Datagrams DEF UserStores
  <2>. QED
    BY <1>0, <1>2, <2>1, NothingElse DEF UserStores, Types, p2pVars
<1>3. CASE \E link \in Address \X Address : Lose(link)
  <2>1. net' \in [Address \X Address -> Datagram \cup {Nothing}]
    BY <1>0, <1>3 DEF Lose, Types
  <2>. QED
    BY <1>0, <1>3, <2>1, NothingElse DEF Lose, Types, p2pVars
<1>. QED
  BY <1>1, <1>2, <1>3

LEMMA NextInv == IInv /\ [Next]_vars => IInv'
<1>. SUFFICES ASSUME IInv, [Next]_vars PROVE IInv'
  OBVIOUS
<1>1. CASE \E n \in Node : \/ Create(n) \/ CreateWithoutTransport(n) \/ StunLost(n)
                           \/ StopKademlia(n) \/ CloseTransport(n) \/ Exit(n)
  BY <1>1, LifeInv, Zenon
<1>2. CASE \E n \in Node : StunEnds(n)
  BY <1>2, StunInv
<1>3. CASE \E n \in Node : BootPing(n) \/ BootFind(n)
  BY <1>3, BootPingInv, BootFindInv
<1>4. CASE \E n \in Node, from \in Address, m \in Datagram : Serve(n, from, m)
  BY <1>4, ServeInv
<1>5. CASE \E n \in Node : ReadFails(n)
  BY <1>5, ReadFailsInv
<1>6. CASE \/ \E n \in UserOf, text \in FindText : UserAsks(n, text)
           \/ \E n \in UserOf, text \in StoreText : UserStores(n, text)
           \/ \E link \in Address \X Address : Lose(link)
  BY <1>6, OutsideInv
<1>7. CASE UNCHANGED vars
  <2>1. Types'
    BY <1>7 DEF vars, p2pVars, IInv, Types
  <2>. QED
    BY <1>7, <2>1, NothingElse DEF vars
<1>. QED
  BY <1>1, <1>2, <1>3, <1>4, <1>5, <1>6, <1>7, Zenon DEF Next

-----------------------------------------------------------------------------
(* The inductive invariant holds in every reachable state. *)
THEOREM Invariance == Spec => []IInv
BY InitInv, NextInv, PTL DEF Spec

(* Every node and the network keep their types, and a node that is down has *)
(* left nothing behind: Exit ends all that NewSovereignNode starts.        *)
THEOREM TypeCorrect == Spec => []TypeOK
BY Invariance, InvImpliesTypeOK, PTL

(* With any number of nodes that start, stop and crash, the loop of         *)
(* handleMessages never spins on a closed socket: Stop clears running first. *)
THEOREM NeverSpinsCorrect == Spec => []NeverSpins
<1>1. IInv => NeverSpins
  BY DEF IInv
<1>. QED
  BY Invariance, <1>1, PTL

-----------------------------------------------------------------------------
(* Values stay where they were sent. *)

NotStore(m) == m.kind # "STORE"

\* Nothing that would store a value is on its way to a node that no user
\* addresses.
NoStoreOnTheWay ==
  \A n \in Node \ UserOf, from \in Address : NotStore(net[<<from, n>>])

SpreadInv == StaysWhereSent /\ NoStoreOnTheWay

LEMMA PlainIsNotStore ==
  /\ \A kind : kind # "STORE" => NotStore(Plain(kind))
  /\ \A t : NotStore(FindOf(t))
  /\ \A v : NotStore(ValueOf(v))
  /\ NotStore(Nothing)
BY DEF NotStore, Plain, FindOf, ValueOf, Nothing

\* One message more, which would store nothing or goes to a node a user
\* addresses.
LEMMA PostKeeps ==
  ASSUME Types, NoStoreOnTheWay, NEW from \in Address, NEW to \in Address,
         NEW m \in Datagram, NotStore(m) \/ to \in UserOf, Post(from, to, m)
  PROVE  NoStoreOnTheWay'
<1>. SUFFICES ASSUME NEW n \in Node \ UserOf, NEW f \in Address
              PROVE  NotStore(net'[<<f, n>>])
  BY DEF NoStoreOnTheWay
<1>1. n \in Address
  BY DEF Address
<1>2. \/ <<f, n>> = <<from, to>> /\ net'[<<f, n>>] = m
      \/ net'[<<f, n>>] \in {net[<<f, n>>], Nothing}
  <2>1. Datagram \subseteq Datagram \cup {Nothing}
    OBVIOUS
  <2>. QED
    BY <1>1, <2>1, SentEffect DEF Post, Types
<1>3. NotStore(net[<<f, n>>])
  BY DEF NoStoreOnTheWay
<1>. QED
  BY <1>2, <1>3, PlainIsNotStore

LEMMA WriteToKeeps ==
  ASSUME Types, NoStoreOnTheWay, NEW n \in Node, NEW m \in Datagram, NotStore(m),
         WriteTo(n, Seed, m)
  PROVE  NoStoreOnTheWay'
<1>1. n \in Address /\ Seed \in Address
  BY MeshAssumption DEF Address
<1>2. CASE open[n]
  BY <1>1, <1>2, PostKeeps DEF WriteTo
<1>3. CASE ~open[n]
  BY <1>3 DEF WriteTo, NoStoreOnTheWay
<1>. QED
  BY <1>2, <1>3

\* A node answers no message with a STORE, and keeps nothing unless it is one.
LEMMA ReplyIsNotStore ==
  ASSUME NEW n, NEW m
  PROVE  /\ NotStore(Reply(n, m))
         /\ NotStore(m) => Stored(n, m) = store[n]
<1>1. Reply(n, m) \in {Plain("PONG"), Plain("NODES"), Nothing}
      \/ \E v : Reply(n, m) = ValueOf(v)
  BY DEF Reply
<1>2. NotStore(Reply(n, m))
  BY <1>1, PlainIsNotStore
<1>3. NotStore(m) => Stored(n, m) = store[n]
  BY DEF NotStore, Stored, Keeps
<1>. QED
  BY <1>2, <1>3

LEMMA ServeKeeps ==
  ASSUME Types, SpreadInv, NEW n \in Node, NEW from \in Address, NEW m \in Datagram,
         Serve(n, from, m)
  PROVE  SpreadInv'
<1>1. PICK rest \in {m, Nothing} :
        IF Accepts THEN Answer(n, from, m, rest) ELSE Refuse(n, from, rest)
  BY DEF Serve
<1>. DEFINE received == [net EXCEPT ![<<from, n>>] = rest]
<1>2. net[<<from, n>>] = m /\ n \in Address
  BY DEF Serve, Address
<1>3. received \in [Address \X Address -> Datagram \cup {Nothing}]
  BY <1>2 DEF Types
<1>4. \A p \in Node \ UserOf, f \in Address : NotStore(received[<<f, p>>])
  <2>. SUFFICES ASSUME NEW p \in Node \ UserOf, NEW f \in Address
                PROVE  NotStore(received[<<f, p>>])
    OBVIOUS
  <2>1. NotStore(net[<<f, p>>]) /\ <<f, p>> \in Address \X Address
    BY DEF SpreadInv, NoStoreOnTheWay, Address
  <2>2. received[<<f, p>>] = IF <<f, p>> = <<from, n>> THEN rest ELSE net[<<f, p>>]
    BY <2>1 DEF Types
  <2>. QED
    BY <1>2, <2>1, <2>2, PlainIsNotStore
<1>. HIDE DEF received
<1>5. CASE ~Accepts
  <2>1. net' = received /\ store' = store
    BY <1>1, <1>5 DEF Refuse, received
  <2>. QED
    BY <1>4, <2>1 DEF SpreadInv, StaysWhereSent, NoStoreOnTheWay
<1>6. CASE Accepts
  <2>1. /\ \/ net' = received
           \/ net' = Sent(received, <<n, from>>, Reply(n, m))
        /\ store' = [store EXCEPT ![n] = Stored(n, m)]
    BY <1>1, <1>6 DEF Answer, received
  <2>2. ASSUME NEW p \in Node \ UserOf, NEW f \in Address
        PROVE  NotStore(net'[<<f, p>>])
    <3>1. <<f, p>> \in Address \X Address
      BY DEF Address
    <3>2. Reply(n, m) \in Datagram \cup {Nothing}
      BY ReplyTypes
    <3>3. net'[<<f, p>>] \in {received[<<f, p>>], Reply(n, m), Nothing}
      <4>. DEFINE r == Reply(n, m)
                  g == Sent(received, <<n, from>>, r)
      <4>1. p \in Address
        BY DEF Address
      <4>2. r \in Datagram \cup {Nothing}
        BY <3>2
      <4>3. \A h, i \in Address :
              \/ <<h, i>> = <<n, from>> /\ g[<<h, i>>] = r
              \/ g[<<h, i>>] \in {received[<<h, i>>], Nothing}
        <5>. HIDE DEF r
        <5>. QED
          BY <1>2, <1>3, <4>2, SentEffect
      <4>4. net' = received \/ net' = g
        BY <2>1
      <4>. HIDE DEF g
      <4>5. g[<<f, p>>] \in {received[<<f, p>>], r, Nothing}
        BY <4>1, <4>3
      <4>. QED
        BY <4>4, <4>5
    <3>. QED
      BY <1>4, <3>3, ReplyIsNotStore, PlainIsNotStore
  <2>3. ASSUME NEW p \in Node \ UserOf
        PROVE  store'[p] = Empty
    <3>1. store[p] = Empty
      BY DEF SpreadInv, StaysWhereSent
    <3>2. p = n => NotStore(m)
      BY <1>2 DEF SpreadInv, NoStoreOnTheWay
    <3>. QED
      BY <2>1, <3>1, <3>2, ReplyIsNotStore DEF Types
  <2>. QED
    BY <2>2, <2>3 DEF SpreadInv, StaysWhereSent, NoStoreOnTheWay
<1>. QED
  BY <1>5, <1>6

LEMMA SpreadStep ==
  ASSUME Types, SpreadInv, [Next]_vars
  PROVE  SpreadInv'
<1>0. StaysWhereSent /\ NoStoreOnTheWay
  BY DEF SpreadInv
<1>1. ASSUME UNCHANGED store, NoStoreOnTheWay' PROVE SpreadInv'
  BY <1>0, <1>1 DEF SpreadInv, StaysWhereSent
<1>2. ASSUME UNCHANGED net PROVE NoStoreOnTheWay'
  BY <1>0, <1>2 DEF NoStoreOnTheWay
<1>3. ASSUME NEW n \in Node,
             \/ Create(n) \/ CreateWithoutTransport(n) \/ StunLost(n) \/ StunFails(n)
             \/ StopKademlia(n) \/ CloseTransport(n) \/ ReadFails(n)
      PROVE  SpreadInv'
  <2>1. UNCHANGED <<store, net>>
    BY <1>3 DEF Create, CreateWithoutTransport, StunLost, StunFails, StopKademlia,
                CloseTransport, ReadFails
  <2>. QED
    BY <1>1, <1>2, <2>1
<1>4. ASSUME NEW n \in Node, StunAnswers(n) \/ BootPing(n) \/ BootFind(n)
      PROVE  SpreadInv'
  <2>1. /\ UNCHANGED store
        /\ \E kind \in {"REGISTER", "PING", "FIND_NODE"} : WriteTo(n, Seed, Plain(kind))
    BY <1>4 DEF StunAnswers, BootPing, BootFind
  <2>2. NoStoreOnTheWay'
    BY <1>0, <2>1, WriteToKeeps, PlainIsNotStore, Datagrams
  <2>. QED
    BY <1>1, <2>1, <2>2
<1>5. ASSUME NEW n \in Node, Exit(n) PROVE SpreadInv'
  <2>1. UNCHANGED net /\ store' = [store EXCEPT ![n] = Empty]
    BY <1>5 DEF Exit
  <2>2. StaysWhereSent'
    BY <1>0, <2>1 DEF StaysWhereSent, Types
  <2>. QED
    BY <1>2, <2>1, <2>2 DEF SpreadInv
<1>6. CASE \/ \E n \in UserOf, text \in FindText : UserAsks(n, text)
           \/ \E n \in UserOf, text \in StoreText : UserStores(n, text)
  <2>1. /\ UNCHANGED store
        /\ \E n \in UserOf : \E m \in Datagram : Post(User, n, m)
    BY <1>6, Datagrams DEF UserAsks, UserStores
  <2>2. User \in Address /\ UserOf \subseteq Address
    BY MeshAssumption DEF Address
  <2>3. NoStoreOnTheWay'
    BY <1>0, <2>1, <2>2, PostKeeps
  <2>. QED
    BY <1>1, <2>1, <2>3
<1>7. ASSUME NEW link \in Address \X Address, Lose(link) PROVE SpreadInv'
  <2>1. UNCHANGED store /\ net' = [net EXCEPT ![link] = Nothing]
    BY <1>7 DEF Lose
  <2>2. ASSUME NEW n \in Node \ UserOf, NEW from \in Address
        PROVE  NotStore(net'[<<from, n>>])
    <3>1. net'[<<from, n>>] \in {net[<<from, n>>], Nothing}
      BY <2>1 DEF Types, Address
    <3>. QED
      BY <1>0, <3>1, PlainIsNotStore DEF NoStoreOnTheWay
  <2>. QED
    BY <1>1, <2>1, <2>2 DEF NoStoreOnTheWay
<1>8. CASE UNCHANGED vars
  BY <1>1, <1>2, <1>8 DEF vars
<1>9. CASE \E n \in Node, from \in Address, m \in Datagram : Serve(n, from, m)
  BY <1>9, ServeKeeps
<1>. QED
  BY <1>3, <1>4, <1>5, <1>6, <1>7, <1>8, <1>9, Zenon DEF Next, StunEnds

(* Whatever the nodes exchange, and however often they restart, a value is  *)
(* only ever kept by a node the user sent it to: there is no replication.   *)
THEOREM StaysWhereSentCorrect == Spec => []StaysWhereSent
<1>1. Init => SpreadInv
  <2>. SUFFICES ASSUME Init PROVE SpreadInv
    OBVIOUS
  <2>1. StaysWhereSent
    BY DEF Init, StaysWhereSent
  <2>2. ASSUME NEW n \in Node, NEW from \in Address PROVE net[<<from, n>>] = Nothing
    BY DEF Init, Address, Silence
  <2>. QED
    BY <2>1, <2>2, PlainIsNotStore DEF SpreadInv, NoStoreOnTheWay
<1>2. IInv /\ SpreadInv /\ [Next]_vars => SpreadInv'
  BY SpreadStep DEF IInv
<1>3. SpreadInv => StaysWhereSent
  BY DEF SpreadInv
<1>. QED
  BY <1>1, <1>2, <1>3, Invariance, PTL DEF Spec

-----------------------------------------------------------------------------
(* The last turn of the loop. *)

LateStep(n) ==
  phase[n] \in {"stopping", "stopped"} =>
    /\ store'[n] # store[n] => loop'[n] = "none"
    /\ loop[n] = "none" =>
         /\ loop'[n] = "none"
         /\ store'[n] = store[n] \/ phase'[n] = "down"

LEMMA NextLate ==
  ASSUME IInv, [Next]_vars, NEW n \in Node
  PROVE  LateStep(n)
<1>. SUFFICES ASSUME phase[n] \in {"stopping", "stopped"} PROVE LateStep(n)
  BY DEF LateStep
<1>0. Types /\ ~running[n]
  BY DEF IInv, ToldToEnd
<1>1. ASSUME UNCHANGED <<loop, store>> PROVE LateStep(n)
  BY <1>1 DEF LateStep
<1>2. ASSUME NEW p \in Node, Create(p) PROVE LateStep(n)
  <2>1. p # n
    BY <1>2 DEF Create
  <2>. QED
    BY <1>2, <2>1 DEF Create, LateStep
<1>3. ASSUME NEW p \in Node, Exit(p) PROVE LateStep(n)
  <2>1. p = n => phase'[n] = "down" /\ loop'[n] = "none"
    BY <1>0, <1>3 DEF Exit, Goes, Types
  <2>2. p # n => loop'[n] = loop[n] /\ store'[n] = store[n]
    BY <1>0, <1>3 DEF Exit, Types
  <2>. QED
    BY <2>1, <2>2 DEF LateStep
<1>4. ASSUME NEW p \in Node, ReadFails(p) PROVE LateStep(n)
  BY <1>0, <1>4 DEF ReadFails, NextTurn, Types, LateStep
<1>5. ASSUME NEW p \in Node, NEW from \in Address, NEW m \in Datagram, Serve(p, from, m)
      PROVE  LateStep(n)
  <2>1. loop[p] = "read" /\ NextTurn(p)
    BY <1>5 DEF Serve
  <2>2. \A q \in Node : q # p => store'[q] = store[q]
    BY <1>0, <1>5 DEF Serve, Answer, Refuse, Types
  <2>3. p = n => loop[n] = "read" /\ loop'[n] = "none"
    BY <1>0, <2>1 DEF NextTurn, Types
  <2>4. p # n => loop'[n] = loop[n]
    BY <1>0, <2>1 DEF NextTurn, Types
  <2>. QED
    BY <2>2, <2>3, <2>4 DEF LateStep
<1>6. CASE \E p \in Node : \/ CreateWithoutTransport(p) \/ StunEnds(p) \/ StunLost(p)
                           \/ BootPing(p) \/ BootFind(p)
                           \/ StopKademlia(p) \/ CloseTransport(p)
  BY <1>1, <1>6
  DEF CreateWithoutTransport, StunEnds, StunAnswers, StunFails, StunLost, BootPing,
      BootFind, StopKademlia, CloseTransport, p2pVars
<1>7. CASE \/ \E p \in UserOf, text \in FindText : UserAsks(p, text)
           \/ \E p \in UserOf, text \in StoreText : UserStores(p, text)
           \/ \E link \in Address \X Address : Lose(link)
  BY <1>1, <1>7 DEF UserAsks, UserStores, Lose, p2pVars
<1>8. CASE UNCHANGED vars
  BY <1>1, <1>8 DEF vars, p2pVars
<1>. QED
  BY <1>2, <1>3, <1>4, <1>5, <1>6, <1>7, <1>8, Zenon DEF Next

(* After Stop has begun a node keeps at most one value more, and its loop    *)
(* does not come back: the safety half of LoopEnds, from ToldToEnd.         *)
THEOREM OneLateStoreAtMostCorrect == Spec => OneLateStoreAtMost
<1>1. IInv /\ [Next]_vars => [\A n \in Node : LateStep(n)]_vars
  BY NextLate
<1>. QED
  BY <1>1, Invariance, PTL DEF Spec, OneLateStoreAtMost, LateStep

=============================================================================
