-------------------------------- MODULE Mesh --------------------------------
(***************************************************************************)
(* Nodes from their creation to their end: main.go, SovereignNode          *)
(* (src/core/node.go) and what it starts of src/p2p: the UDP socket        *)
(* (transport.go), Kademlia's message loop and key-value store             *)
(* (kademlia.go), the discovery of the public address (nat.go) and the     *)
(* periodic bootstrap (bootstrap.go).  A user with netcat (README.md)      *)
(* stores and asks for values.                                             *)
(*                                                                         *)
(* Datagrams are lost, repeated and overtaken by those between other pairs *)
(* of addresses.  Bounds: one datagram is in flight between two addresses, *)
(* and MaxInFlight in all; a later one takes the place of another, which   *)
(* is lost.                                                                *)
(*                                                                         *)
(* No node has a session: InitiateIK is given no remote key, so that the   *)
(* Noise library refuses to write the first message, and the goroutine     *)
(* ends.  Datagrams are therefore neither encrypted nor decrypted here.    *)
(*                                                                         *)
(* A definition named X_Something is X with a plausible bug in it, for the *)
(* mutation runs; no specification uses it.                                *)
(***************************************************************************)
EXTENDS Integers, Sequences, FiniteSets

CONSTANTS
  Node,       \* addresses of nodes
  Seed,       \* the node all of them bootstrap from
  User,       \* the address of the user with netcat
  UserOf,     \* the nodes this user addresses
  Part,       \* pieces of text without a colon
  EmptyPart,  \* the empty one
  MaxInFlight, \* bound: datagrams in flight at once
  StoreText,  \* what the user writes after "STORE:"
  FindText    \* and after "FIND_VALUE:"

(* A text is the sequence of its parts between the colons: "k:v" is        *)
(* <<k, v>>, ":v" is <<EmptyPart, v>> and "" is <<EmptyPart>>.             *)
Text == Seq(Part) \ {<<>>}

ASSUME MeshAssumption ==
  /\ Seed \in Node
  /\ User \notin Node
  /\ UserOf \subseteq Node
  /\ MaxInFlight \in Nat \ {0}
  /\ EmptyPart \in Part
  /\ StoreText \subseteq Text
  /\ FindText \subseteq Text

VARIABLES
  phase,    \* what main does, by node; "down": there is no process
  boot,     \* the Bootstrapper: its next message, or "off"
  running,  \* Kademlia.running
  open,     \* the socket is open
  loop,     \* handleMessages: "read" in ReadFrom, "none" if it is not running
  store,    \* Kademlia.dataStore
  net       \* the datagram in flight, by sender and receiver

p2pVars == <<running, open, loop>>
vars == <<phase, boot, p2pVars, store, net>>

Address == Node \cup {User}

Phase == {"down", "stun", "blocked", "bootstrap", "running", "stopping",
          "stopped"}

Plain(kind) == [kind |-> kind]
StoreOf(text) == [kind |-> "STORE", text |-> text]
FindOf(text) == [kind |-> "FIND_VALUE", text |-> text]
ValueOf(v) == [kind |-> "VALUE", value |-> v]

Nothing == Plain("nothing")

(* strings.SplitN(text, ":", 2) in two: the key is what precedes the first *)
(* colon, the value all that follows it.                                   *)
Splits(text) == Len(text) >= 2

Key == {Head(t) : t \in {u \in StoreText : Splits(u)}}
Value == {Tail(t) : t \in {u \in StoreText : Splits(u)}}

Datagram ==
  {Plain(kind) : kind \in {"PING", "PONG", "FIND_NODE", "NODES", "REGISTER"}}
  \cup {StoreOf(t) : t \in StoreText}
  \cup {FindOf(t) : t \in FindText}
  \cup {ValueOf(v) : v \in Value}

Silence == [link \in Address \X Address |-> Nothing]

DataStore == UNION {[keys -> Value] : keys \in SUBSET Key}

Empty == [k \in {} |-> {}]

Assign(f, key, value) ==
  [k \in DOMAIN f \cup {key} |-> IF k = key THEN value ELSE f[k]]

Init ==
  /\ phase = [n \in Node |-> "down"]
  /\ boot = [n \in Node |-> "off"]
  /\ running = [n \in Node |-> FALSE]
  /\ open = [n \in Node |-> FALSE]
  /\ loop = [n \in Node |-> "none"]
  /\ store = [n \in Node |-> Empty]
  /\ net = Silence

Goes(n, to) == phase' = [phase EXCEPT ![n] = to]

InFlight(f) == {link \in DOMAIN f : f[link] # Nothing}

(* What becomes of the network f when m is sent. *)
Sent(f, link, m) ==
  LET g == [f EXCEPT ![link] = m]
  IN  IF Cardinality(InFlight(g)) <= MaxInFlight
      THEN g ELSE [Silence EXCEPT ![link] = m]

Post(from, to, m) == net' = Sent(net, <<from, to>>, m)

(* TransportUDP.WriteTo: an error if the socket is closed. *)
WriteTo(n, to, m) == IF open[n] THEN Post(n, to, m) ELSE UNCHANGED net

-----------------------------------------------------------------------------
(* NewSovereignNode opens the socket and starts the loop, before node.Start. *)
Create(n) ==
  /\ phase[n] = "down"
  /\ Goes(n, "stun")
  /\ running' = [running EXCEPT ![n] = TRUE]
  /\ open' = [open EXCEPT ![n] = TRUE]
  /\ loop' = [loop EXCEPT ![n] = "read"]
  /\ UNCHANGED <<boot, store, net>>

(* The port is taken: the node goes on without p2p, and is started. *)
CreateWithoutTransport(n) ==
  /\ phase[n] = "down"
  /\ Goes(n, "running")
  /\ UNCHANGED <<boot, p2pVars, store, net>>

(* DiscoverPublicIP, called by NewSovereignNode, asks a STUN server.  With *)
(* an answer, the address is registered with the seed.                     *)
StunAnswers(n) ==
  /\ phase[n] = "stun"
  /\ Goes(n, "bootstrap")
  /\ boot' = [boot EXCEPT ![n] = "PING"]
  /\ WriteTo(n, Seed, Plain("REGISTER"))
  /\ UNCHANGED <<p2pVars, store>>

(* The server's name does not resolve, or its answer is of no use. *)
StunFails(n) ==
  /\ phase[n] = "stun"
  /\ Goes(n, "bootstrap")
  /\ boot' = [boot EXCEPT ![n] = "PING"]
  /\ UNCHANGED <<p2pVars, store, net>>

(* The request or the answer is lost: the connection has no deadline. *)
StunLost(n) ==
  /\ phase[n] = "stun"
  /\ Goes(n, "blocked")
  /\ UNCHANGED <<boot, p2pVars, store, net>>

(* Bootstrapper.Start, for the one seed of initP2P, and BootstrapLoop: a   *)
(* PING and, if that was written, a FIND_NODE each time.  The loop never   *)
(* ends.  After the first one NewSovereignNode returns, and main calls     *)
(* SovereignNode.Start.                                                    *)
BootPing(n) ==
  /\ boot[n] = "PING"
  /\ WriteTo(n, Seed, Plain("PING"))
  /\ boot' = [boot EXCEPT ![n] = IF open[n] THEN "FIND_NODE" ELSE "PING"]
  /\ UNCHANGED <<phase, p2pVars, store>>

BootFind_Once(n) ==
  /\ boot[n] = "FIND_NODE"
  /\ WriteTo(n, Seed, Plain("FIND_NODE"))
  /\ boot' = [boot EXCEPT ![n] = "off"]
  /\ phase' = [phase EXCEPT ![n] = IF @ = "bootstrap" THEN "running" ELSE @]
  /\ UNCHANGED <<p2pVars, store>>

BootFind(n) ==
  /\ boot[n] = "FIND_NODE"
  /\ WriteTo(n, Seed, Plain("FIND_NODE"))
  /\ boot' = [boot EXCEPT ![n] = "PING"]
  /\ phase' = [phase EXCEPT ![n] = IF @ = "bootstrap" THEN "running" ELSE @]
  /\ UNCHANGED <<p2pVars, store>>

StopKademlia_ClosesSocket(n) ==
  /\ phase[n] = "running"
  /\ Goes(n, "stopping")
  /\ open' = [open EXCEPT ![n] = FALSE]
  /\ UNCHANGED <<boot, running, loop, store, net>>

(* A signal, and SovereignNode.Stop: Kademlia.Stop, then the socket.  The  *)
(* stores it closes after that are those of ReplicatedFS.                  *)
StopKademlia(n) ==
  /\ phase[n] = "running"
  /\ Goes(n, "stopping")
  /\ running' = [running EXCEPT ![n] = FALSE]
  /\ UNCHANGED <<boot, open, loop, store, net>>

CloseTransport(n) ==
  /\ phase[n] = "stopping"
  /\ Goes(n, "stopped")
  /\ open' = [open EXCEPT ![n] = FALSE]
  /\ UNCHANGED <<boot, running, loop, store, net>>

(* The process ends: main returns after Stop, or it is killed at any time. *)
Exit(n) ==
  /\ phase[n] # "down"
  /\ Goes(n, "down")
  /\ boot' = [boot EXCEPT ![n] = "off"]
  /\ running' = [running EXCEPT ![n] = FALSE]
  /\ open' = [open EXCEPT ![n] = FALSE]
  /\ loop' = [loop EXCEPT ![n] = "none"]
  /\ store' = [store EXCEPT ![n] = Empty]
  /\ UNCHANGED net

-----------------------------------------------------------------------------
(* PoWManager.GetDifficulty, by the number of nodes of the sender. *)
Difficulty(nodes) ==
  CASE nodes <= 2 -> 0
    [] nodes \in 3..5 -> 4
    [] nodes \in 6..10 -> 12
    [] OTHER -> 20

(* TransportUDP.ReadFrom says that every sender has one node.  With a      *)
(* difficulty it would read a nonce in front, which no sender writes.      *)
Accepts == Difficulty(1) = 0

(* How many bytes of a message handleMessages compares with the literal of *)
(* a case, and how many the literal has: one is recognised if they agree.  *)
(* (HELLO is compared with 4 bytes: no handshake is ever answered.)        *)
Compared_OffByOne == [STORE |-> 6, FIND_VALUE |-> 10]

Compared == [STORE |-> 6, FIND_VALUE |-> 11]

Literal == [STORE |-> 6, FIND_VALUE |-> 11]

(* A message that is the literal alone is not recognised.                  *)
Recognised(m) ==
  Compared[m.kind] = Literal[m.kind] /\ m.text # <<EmptyPart>>

(* FindValue for the key that is the whole text. *)
Finds(n, text) == \E k \in DOMAIN store[n] : text = <<k>>

(* What handleMessages writes back, by the kind it recognises in m. *)
Reply(n, m) ==
  CASE m.kind = "PING" -> Plain("PONG")
    [] m.kind = "FIND_NODE" -> Plain("NODES")
    [] m.kind = "FIND_VALUE" ->
         IF Recognised(m) /\ Finds(n, m.text)
         THEN ValueOf(store[n][Head(m.text)]) ELSE Nothing
    [] OTHER -> Nothing

\* A STORE that handleMessages keeps; another one has no colon, or no text.
Keeps(m) == m.kind = "STORE" /\ Recognised(m) /\ Splits(m.text)

Stored_Swapped(n, m) ==
  IF Keeps(m) THEN Assign(store[n], Tail(m.text), Head(m.text)) ELSE store[n]

(* The data store after m. *)
Stored(n, m) ==
  IF Keeps(m) THEN Assign(store[n], Head(m.text), Tail(m.text)) ELSE store[n]

Answer(n, from, m, rest) ==
  LET received == [net EXCEPT ![<<from, n>>] = rest]
  IN  /\ net' = IF Reply(n, m) = Nothing THEN received
                ELSE Sent(received, <<n, from>>, Reply(n, m))
      /\ store' = [store EXCEPT ![n] = Stored(n, m)]

(* ReadFrom returns an error for the datagram. *)
Refuse(n, from, rest) ==
  /\ net' = [net EXCEPT ![<<from, n>>] = rest]
  /\ UNCHANGED store

NextTurn_Unchecked(n) == loop' = [loop EXCEPT ![n] = "read"]

(* for k.running *)
NextTurn(n) ==
  loop' = [loop EXCEPT ![n] = IF running[n] THEN "read" ELSE "none"]

(* One turn of handleMessages with the datagram m, of which the network may *)
(* still hold a copy.                                                      *)
Serve(n, from, m) ==
  /\ loop[n] = "read"
  /\ open[n]
  /\ net[<<from, n>>] = m
  /\ m # Nothing
  /\ \E rest \in {m, Nothing} :
       IF Accepts THEN Answer(n, from, m, rest) ELSE Refuse(n, from, rest)
  /\ NextTurn(n)
  /\ UNCHANGED <<phase, boot, running, open>>

ReadFails_Unchecked(n) ==
  /\ loop[n] = "read"
  /\ UNCHANGED vars

(* One turn in which ReadFrom times out, or finds the socket closed. *)
ReadFails(n) ==
  /\ loop[n] = "read"
  /\ NextTurn(n)
  /\ UNCHANGED <<phase, boot, running, open, store, net>>

-----------------------------------------------------------------------------
(* The user's netcat, and the network. *)
UserStores(n, text) ==
  /\ Post(User, n, StoreOf(text))
  /\ UNCHANGED <<phase, boot, p2pVars, store>>

UserAsks(n, text) ==
  /\ Post(User, n, FindOf(text))
  /\ UNCHANGED <<phase, boot, p2pVars, store>>

(* A datagram is lost, or has reached the user. *)
Lose(link) ==
  /\ net[link] # Nothing
  /\ net' = [net EXCEPT ![link] = Nothing]
  /\ UNCHANGED <<phase, boot, p2pVars, store>>

BootstrapRequest == {Plain("PING"), Plain("FIND_NODE")}

StunEnds(n) == StunAnswers(n) \/ StunFails(n)

Next ==
  \/ \E n \in Node :
       \/ Create(n) \/ CreateWithoutTransport(n)
       \/ StunEnds(n) \/ StunLost(n)
       \/ BootPing(n) \/ BootFind(n)
       \/ StopKademlia(n) \/ CloseTransport(n) \/ Exit(n)
       \/ ReadFails(n)
       \/ \E from \in Address, m \in Datagram : Serve(n, from, m)
  \/ \E n \in UserOf, text \in StoreText : UserStores(n, text)
  \/ \E n \in UserOf, text \in FindText : UserAsks(n, text)
  \/ \E link \in Address \X Address : Lose(link)

Spec == Init /\ [][Next]_vars

(* Goroutines run and tickers tick.  The user asks again and again.  The   *)
(* network is lossy but fair: of what is sent again and again, the requests *)
(* of BootstrapLoop and the user's questions, a copy arrives.  Nobody need *)
(* start, stop or kill a process.                                          *)
FairSpec ==
  /\ Spec
  /\ \A n \in Node :
       /\ WF_vars(StunEnds(n))
       /\ WF_vars(BootPing(n)) /\ WF_vars(BootFind(n))
       /\ WF_vars(CloseTransport(n))
       /\ WF_vars(ReadFails(n))
       /\ SF_vars(\E m \in BootstrapRequest : Serve(Seed, n, m))
  /\ \A n \in UserOf, text \in FindText :
       WF_vars(UserAsks(n, text)) /\ SF_vars(Serve(n, User, FindOf(text)))

-----------------------------------------------------------------------------
(* The state of each node and of the network has its type, and a node that *)
(* is not there has no goroutine, no socket and no values.                 *)
TypeOK ==
  /\ phase \in [Node -> Phase]
  /\ boot \in [Node -> {"PING", "FIND_NODE", "off"}]
  /\ running \in [Node -> BOOLEAN]
  /\ open \in [Node -> BOOLEAN]
  /\ loop \in [Node -> {"read", "none"}]
  /\ store \in [Node -> DataStore]
  /\ net \in [Address \X Address -> Datagram \cup {Nothing}]
  /\ \A n \in Node : phase[n] = "down" =>
       boot[n] = "off" /\ ~running[n] /\ ~open[n] /\ loop[n] = "none"
       /\ store[n] = Empty

(* SovereignNode.Stop ends Kademlia before it closes the socket: the loop  *)
(* of handleMessages, which tries again after every error, never spins on  *)
(* a closed socket.                                                        *)
NeverSpins == \A n \in Node : loop[n] = "read" /\ ~open[n] => ~running[n]

(* After Stop the goroutine of handleMessages ends, although Stop does not *)
(* wait for it (it is not counted in the WaitGroup).                       *)
LoopEnds ==
  \A n \in Node : ~<>[](phase[n] = "stopped" /\ loop[n] = "read")

Serving(n) == phase[n] = "running" /\ open[n]

(* BootstrapLoop reaches the seed again after any crash, restart or loss:  *)
(* while a node and its seed both stay up, the seed keeps answering it.    *)
Reconnects ==
  \A n \in Node :
    <>[](Serving(n) /\ Serving(Seed)) =>
      []<>(net[<<Seed, n>>] \in {Plain("PONG"), Plain("NODES")})

(* A user who asks for a key under which a node keeps a value is answered  *)
(* again and again, with the value it keeps then, whatever else this user  *)
(* sends (kademlia.go:245-263).  Not so for the empty key: "STORE::v"      *)
(* keeps a value under it, but "FIND_VALUE:" has no more than the 11 bytes *)
(* of the literal.                                                         *)
StoredIsFound ==
  \A n \in UserOf, k \in Key \ {EmptyPart} :
    <<k>> \in FindText =>
      (<>[](Serving(n) /\ k \in DOMAIN store[n]) =>
         []<>(k \in DOMAIN store[n] /\ net[<<n, User>>] = ValueOf(store[n][k])))

(* A value stays on the node the user sent it to: handleMessages keeps what *)
(* a STORE brings and passes it on to nobody, whatever the nodes exchange   *)
(* (kademlia.go:223-267).                                                  *)
StaysWhereSent == \A n \in Node \ UserOf : store[n] = Empty

(* Stop does not wait for the goroutine of handleMessages, so a STORE may   *)
(* still be kept after Stop has begun: one at most, in the last turn, and   *)
(* the loop does not come back while the process lives (kademlia.go:215-228). *)
OneLateStoreAtMost ==
  [][\A n \in Node : phase[n] \in {"stopping", "stopped"} =>
       /\ store'[n] # store[n] => loop'[n] = "none"
       /\ loop[n] = "none" =>
            /\ loop'[n] = "none"
            /\ store'[n] = store[n] \/ phase'[n] = "down"]_vars

=============================================================================
