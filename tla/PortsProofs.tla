---------------------------- MODULE PortsProofs ----------------------------
(***************************************************************************)
(* Proofs about module Ports, for any number of actors, ports and runtimes. *)
(* Every C function is shown to keep NodeSound; the actions follow.         *)
(***************************************************************************)
EXTENDS Ports, DataInduction, FiniteSetTheorems, TLAPS

(***************************************************************************)
(* The fields of the node.                                                  *)
(***************************************************************************)
LEMMA NodeFields ==
  ASSUME NEW n \in NodeType
  PROVE  /\ n.actors \in Seq(Actor) /\ n.actor \in [Actor -> ActorState]
         /\ n.port \in [Port -> PortType] /\ n.tunnel \in [Runtime -> TunnelType]
         /\ n.link \in [Runtime -> Nat \cup {NoLink}] /\ n.pending \in [Request -> 0 .. MaxPending]
         /\ n.phase \in Phase /\ n.full \in BOOLEAN
BY DEF NodeType

\* Putting a value into one field.
WithActors(n, x) == [n EXCEPT !.actors = x]
WithActor(n, x) == [n EXCEPT !.actor = x]
WithPort(n, x) == [n EXCEPT !.port = x]
WithTunnel(n, x) == [n EXCEPT !.tunnel = x]
WithLink(n, x) == [n EXCEPT !.link = x]
WithPending(n, x) == [n EXCEPT !.pending = x]
WithPhase(n, x) == [n EXCEPT !.phase = x]
WithFull(n, x) == [n EXCEPT !.full = x]

\* Replacing the list of actors.
LEMMA WithActorsFacts ==
  ASSUME NEW n \in NodeType, NEW x \in Seq(Actor), NEW m, m = WithActors(n, x)
  PROVE  /\ m \in NodeType /\ m.actors = x
         /\ m.actor = n.actor /\ m.port = n.port /\ m.tunnel = n.tunnel /\ m.link = n.link
         /\ m.pending = n.pending /\ m.phase = n.phase /\ m.full = n.full
BY DEF WithActors, NodeType

\* Replacing the states of the actors.
LEMMA WithActorFacts ==
  ASSUME NEW n \in NodeType, NEW x \in [Actor -> ActorState], NEW m, m = WithActor(n, x)
  PROVE  /\ m \in NodeType /\ m.actor = x
         /\ m.actors = n.actors /\ m.port = n.port /\ m.tunnel = n.tunnel /\ m.link = n.link
         /\ m.pending = n.pending /\ m.phase = n.phase /\ m.full = n.full
BY DEF WithActor, NodeType

\* Replacing the ports.
LEMMA WithPortFacts ==
  ASSUME NEW n \in NodeType, NEW x \in [Port -> PortType], NEW m, m = WithPort(n, x)
  PROVE  /\ m \in NodeType /\ m.port = x
         /\ m.actors = n.actors /\ m.actor = n.actor /\ m.tunnel = n.tunnel /\ m.link = n.link
         /\ m.pending = n.pending /\ m.phase = n.phase /\ m.full = n.full
BY DEF WithPort, NodeType

\* Replacing the tunnels.
LEMMA WithTunnelFacts ==
  ASSUME NEW n \in NodeType, NEW x \in [Runtime -> TunnelType], NEW m, m = WithTunnel(n, x)
  PROVE  /\ m \in NodeType /\ m.tunnel = x
         /\ m.actors = n.actors /\ m.actor = n.actor /\ m.port = n.port /\ m.link = n.link
         /\ m.pending = n.pending /\ m.phase = n.phase /\ m.full = n.full
BY DEF WithTunnel, NodeType

\* Replacing the reference counts of the links.
LEMMA WithLinkFacts ==
  ASSUME NEW n \in NodeType, NEW x \in [Runtime -> Nat \cup {NoLink}], NEW m, m = WithLink(n, x)
  PROVE  /\ m \in NodeType /\ m.link = x
         /\ m.actors = n.actors /\ m.actor = n.actor /\ m.port = n.port /\ m.tunnel = n.tunnel
         /\ m.pending = n.pending /\ m.phase = n.phase /\ m.full = n.full
BY DEF WithLink, NodeType

\* Replacing the table of pending requests.
LEMMA WithPendingFacts ==
  ASSUME NEW n \in NodeType, NEW x \in [Request -> 0 .. MaxPending], NEW m, m = WithPending(n, x)
  PROVE  /\ m \in NodeType /\ m.pending = x
         /\ m.actors = n.actors /\ m.actor = n.actor /\ m.port = n.port /\ m.tunnel = n.tunnel
         /\ m.link = n.link /\ m.phase = n.phase /\ m.full = n.full
BY DEF WithPending, NodeType

\* Replacing the phase of the connection.
LEMMA WithPhaseFacts ==
  ASSUME NEW n \in NodeType, NEW x \in Phase, NEW m, m = WithPhase(n, x)
  PROVE  /\ m \in NodeType /\ m.phase = x
         /\ m.actors = n.actors /\ m.actor = n.actor /\ m.port = n.port /\ m.tunnel = n.tunnel
         /\ m.link = n.link /\ m.pending = n.pending /\ m.full = n.full
BY DEF WithPhase, NodeType

\* Replacing the mark that the table of pending requests has been full.
LEMMA WithFullFacts ==
  ASSUME NEW n \in NodeType, NEW x \in BOOLEAN, NEW m, m = WithFull(n, x)
  PROVE  /\ m \in NodeType /\ m.full = x
         /\ m.actors = n.actors /\ m.actor = n.actor /\ m.port = n.port /\ m.tunnel = n.tunnel
         /\ m.link = n.link /\ m.pending = n.pending /\ m.phase = n.phase
BY DEF WithFull, NodeType

\* A port and a tunnel.
LEMMA PortFields ==
  ASSUME NEW n \in NodeType, NEW p \in Port
  PROVE  /\ n.port[p] \in PortType /\ n.port[p].state \in PortState
         /\ n.port[p].tunnel \in Runtime \cup {None} /\ n.port[p].peer_id \in Runtime \cup {None}
         /\ n.port[p].peer_port \in Port \cup {None, Freed} /\ n.port[p].retries \in 0 .. MaxRetries
<1>1. n.port[p] \in PortType
  BY NodeFields
<1> QED
  BY <1>1 DEF PortType

\* The types of a tunnel and of the count of its link.
LEMMA TunnelFields ==
  ASSUME NEW n \in NodeType, NEW r \in Runtime
  PROVE  /\ n.tunnel[r] \in TunnelType /\ n.tunnel[r].state \in TunnelState
         /\ n.tunnel[r].id \in Id /\ n.tunnel[r].ref_count \in Nat
         /\ n.link[r] \in Nat \cup {NoLink}
<1>1. n.tunnel[r] \in TunnelType /\ n.link[r] \in Nat \cup {NoLink}
  BY NodeFields
<1> QED
  BY <1>1 DEF TunnelType

\* Ports and their actors.
LEMMA PortOwner ==
  /\ \A p \in Port : /\ Owner(p) \in Actor
                     /\ \E i \in DOMAIN PortsOf[Owner(p)] : PortsOf[Owner(p)][i] = p
  /\ \A a \in Actor : /\ PortsOf[a] \in Seq(Port)
                      /\ \A i \in DOMAIN PortsOf[a] : PortsOf[a][i] \in Port /\ Owner(PortsOf[a][i]) = a
<1>1. \A a \in Actor : PortsOf[a] \in Seq(Port)
  BY PortAssumption
<1>2. ASSUME NEW p \in Port
      PROVE  Owner(p) \in Actor /\ \E i \in DOMAIN PortsOf[Owner(p)] : PortsOf[Owner(p)][i] = p
  <2>1. \E a \in Actor : p \in Range(PortsOf[a])
    BY DEF Port
  <2>2. Owner(p) \in Actor /\ p \in Range(PortsOf[Owner(p)])
    BY <2>1 DEF Owner
  <2> QED
    BY <2>2 DEF Range
<1>3. ASSUME NEW a \in Actor, NEW i \in DOMAIN PortsOf[a]
      PROVE  PortsOf[a][i] \in Port /\ Owner(PortsOf[a][i]) = a
  <2> DEFINE p == PortsOf[a][i]
  <2>1. p \in Range(PortsOf[a])
    BY DEF Range
  <2> HIDE DEF p
  <2>2. p \in Port
    BY <2>1 DEF Port
  <2>3. Owner(p) \in Actor /\ p \in Range(PortsOf[Owner(p)])
    BY <1>2, <2>2 DEF Range
  <2>4. Owner(p) = a
    BY <2>1, <2>3, PortAssumption
  <2> QED
    BY <2>2, <2>4 DEF p
<1> QED
  BY <1>1, <1>2, <1>3

\* Requests.
LEMMA Requests ==
  /\ \A p \in Port : <<"lookup", p>> \in Request /\ <<"connect", p>> \in Request
  /\ \A i \in Id : <<"tunnel", i>> \in Request
  /\ \A a \in Actor : <<"migrate", a>> \in Request
BY DEF Request

(***************************************************************************)
(* What the parts of the invariant depend on.                               *)
(***************************************************************************)
\* References depend on the tunnels the ports hold.
LEMMA SameRefs ==
  ASSUME NEW n, NEW m, NEW px, RefsSound(n, px),
         m.actors = n.actors, m.tunnel = n.tunnel, m.link = n.link,
         \A p \in Port : m.port[p].tunnel = n.port[p].tunnel
  PROVE  RefsSound(m, px)
<1>1. \A r : PortUsers(m, r) = PortUsers(n, r)
  BY DEF PortUsers
<1>2. \A r : /\ Open(m, r) <=> Open(n, r)
             /\ Needed(m, r, px) = Needed(n, r, px)
  BY DEF Open, Needed
<1>3. \A p : Exists(m, p) <=> Exists(n, p)
  BY DEF Exists
<1> QED
  BY <1>1, <1>2, <1>3 DEF RefsSound

\* Changing other fields than the state of a port.
LEMMA SameActors ==
  ASSUME NEW n, NEW m, ActorsSound(n), m.actor = n.actor,
         \A p \in Port : m.port[p].state = n.port[p].state
  PROVE  ActorsSound(m)
BY DEF ActorsSound

\* More requests may be under way.
LEMMA SameRequests ==
  ASSUME NEW n \in NodeType, NEW m \in NodeType, NEW X, NEW Y, RequestsSound(n, X),
         m.tunnel = n.tunnel, \A q \in Request : m.pending[q] >= n.pending[q],
         Calm => \A p \in Port \ Y : PortSound(m, p)
  PROVE  RequestsSound(m, Y)
<1> SUFFICES ASSUME Calm PROVE TunnelsSound(m)
  BY DEF RequestsSound
<1>1. TunnelsSound(n)
  BY DEF RequestsSound
<1>2. \A q \in Request : m.pending[q] \in Nat /\ n.pending[q] \in Nat
  BY NodeFields, BoundAssumption
<1>3. \A r \in Runtime : Open(m, r) <=> Open(n, r)
  BY DEF Open
<1>4. ASSUME NEW r \in Runtime, m.tunnel[r].state = "PENDING"
      PROVE  m.pending[<<"tunnel", m.tunnel[r].id>>] > 0
  <2>1. <<"tunnel", n.tunnel[r].id>> \in Request
    BY TunnelFields, Requests
  <2>2. n.pending[<<"tunnel", n.tunnel[r].id>>] > 0
    BY <1>1, <1>4 DEF TunnelsSound
  <2> QED
    BY <1>2, <2>1, <2>2
<1> QED
  BY <1>1, <1>3, <1>4 DEF TunnelsSound

\* A port that has not changed.
LEMMA SamePort ==
  ASSUME NEW n \in NodeType, NEW m \in NodeType, NEW p \in Port, PortSound(n, p),
         m.actors = n.actors, m.port[p].state = n.port[p].state, m.port[p].tunnel = n.port[p].tunnel,
         \A q \in Request : m.pending[q] >= n.pending[q]
  PROVE  PortSound(m, p)
<1>1. /\ m.pending[<<"lookup", p>>] >= n.pending[<<"lookup", p>>]
      /\ m.pending[<<"connect", p>>] >= n.pending[<<"connect", p>>]
  BY Requests
<1>2. \A q \in Request : m.pending[q] \in Nat /\ n.pending[q] \in Nat
  BY NodeFields, BoundAssumption
<1>3. /\ m.pending[<<"lookup", p>>] \in Nat /\ n.pending[<<"lookup", p>>] \in Nat
      /\ m.pending[<<"connect", p>>] \in Nat /\ n.pending[<<"connect", p>>] \in Nat
  BY <1>2, Requests
<1> QED
  BY <1>1, <1>3 DEF PortSound, Exists

(***************************************************************************)
(* Changing one port.                                                       *)
(***************************************************************************)
PutPort(n, p, v) == [n EXCEPT !.port[p] = v]

\* Everything but the ports and the actors' states stays.
PortsOnly(n, m) ==
  /\ m.actors = n.actors /\ m.tunnel = n.tunnel /\ m.link = n.link
  /\ m.pending = n.pending /\ m.phase = n.phase /\ m.full = n.full

\* Storing one port leaves the others and the rest of the node alone.
LEMMA PutPortFacts ==
  ASSUME NEW n \in NodeType, NEW p \in Port, NEW v \in PortType, NEW m, m = PutPort(n, p, v)
  PROVE  /\ m \in NodeType /\ PortsOnly(n, m) /\ m.actor = n.actor
         /\ m.port[p] = v /\ \A q \in Port : q # p => m.port[q] = n.port[q]
<1> DEFINE x == [n.port EXCEPT ![p] = v]
<1>1. m = WithPort(n, x)
  BY DEF PutPort, WithPort
<1>2. x \in [Port -> PortType] /\ x[p] = v /\ \A q \in Port : q # p => x[q] = n.port[q]
  BY NodeFields
<1> HIDE DEF x
<1>3. /\ m \in NodeType /\ m.port = x
      /\ m.actors = n.actors /\ m.actor = n.actor /\ m.tunnel = n.tunnel /\ m.link = n.link
      /\ m.pending = n.pending /\ m.phase = n.phase /\ m.full = n.full
  BY <1>1, <1>2, WithPortFacts
<1> QED
  BY <1>2, <1>3 DEF PortsOnly

\* The state of an actor is computed from its ports.
LEMMA StateChangedFacts ==
  ASSUME NEW n \in NodeType, NEW a \in Actor, NEW m, m = cc_actor_port_state_changed(n, a)
  PROVE  /\ m \in NodeType /\ PortsOnly(n, m) /\ m.port = n.port
         /\ \A b \in Actor : b # a => m.actor[b] = n.actor[b]
         /\ m.actor[a] = "ENABLED" =>
              \A i \in DOMAIN PortsOf[a] : n.port[PortsOf[a][i]].state = "ENABLED"
<1> DEFINE off == {i \in DOMAIN PortsOf[a] : n.port[PortsOf[a][i]].state # "ENABLED"}
           v == IF off = {} THEN "ENABLED"
                ELSE IF n.port[PortsOf[a][Min(off)]].state = "DO_DELETE" THEN "DO_DELETE" ELSE "PENDING"
           x == [n.actor EXCEPT ![a] = v]
<1>1. m = WithActor(n, x)
  BY DEF cc_actor_port_state_changed, WithActor
<1>2. v \in ActorState /\ (v = "ENABLED" => off = {})
  BY DEF ActorState
<1>3. off = {} => \A i \in DOMAIN PortsOf[a] : n.port[PortsOf[a][i]].state = "ENABLED"
  OBVIOUS
<1> HIDE DEF v, off
<1>4. x \in [Actor -> ActorState] /\ x[a] = v /\ \A b \in Actor : b # a => x[b] = n.actor[b]
  BY <1>2, NodeFields
<1> HIDE DEF x
<1>5. /\ m \in NodeType /\ m.actor = x
      /\ m.actors = n.actors /\ m.port = n.port /\ m.tunnel = n.tunnel /\ m.link = n.link
      /\ m.pending = n.pending /\ m.phase = n.phase /\ m.full = n.full
  BY <1>1, <1>4, WithActorFacts
<1> QED
  BY <1>2, <1>3, <1>4, <1>5 DEF PortsOnly

\* cc_port_set_state: the port has the new state, and only its actor may follow.
LEMMA SetStateFacts ==
  ASSUME NEW n \in NodeType, NEW p \in Port, NEW s \in PortState,
         NEW m, m = cc_port_set_state(n, p, s)
  PROVE  /\ m \in NodeType /\ PortsOnly(n, m)
         /\ \A q \in Port : q # p => m.port[q] = n.port[q]
         /\ m.port[p].state = s /\ m.port[p].tunnel = n.port[p].tunnel
         /\ m.port[p].peer_id = n.port[p].peer_id /\ m.port[p].peer_port = n.port[p].peer_port
         /\ ActorsSound(n) => ActorsSound(m)
<1> DEFINE retries == IF s = "ENABLED" /\ n.port[p].state # "ENABLED" THEN 0 ELSE n.port[p].retries
           v == [n.port[p] EXCEPT !.state = s, !.retries = retries]
           k == PutPort(n, p, v)
           a == Owner(p)
<1>1. m = cc_actor_port_state_changed(k, a)
  BY DEF cc_port_set_state, PutPort
<1>2. retries \in 0 .. MaxRetries
  BY PortFields, BoundAssumption
<1> HIDE DEF retries
<1>3. /\ v \in PortType /\ v.state = s /\ v.tunnel = n.port[p].tunnel
      /\ v.peer_id = n.port[p].peer_id /\ v.peer_port = n.port[p].peer_port
  <2>1. n.port[p] \in PortType
    BY PortFields
  <2> DEFINE w == n.port[p]
  <2> HIDE DEF w
  <2>2. w \in PortType => LET u == [w EXCEPT !.state = s, !.retries = retries]
                          IN /\ u \in PortType /\ u.state = s /\ u.tunnel = w.tunnel
                             /\ u.peer_id = w.peer_id /\ u.peer_port = w.peer_port
    BY <1>2 DEF PortType
  <2> QED
    BY <2>1, <2>2 DEF w
<1> HIDE DEF v
<1>4. /\ k \in NodeType /\ PortsOnly(n, k) /\ k.actor = n.actor
      /\ k.port[p] = v /\ \A q \in Port : q # p => k.port[q] = n.port[q]
  BY <1>3, PutPortFacts
<1> HIDE DEF k
<1>5. a \in Actor /\ \A q \in Port : Owner(q) = a => \E i \in DOMAIN PortsOf[a] : PortsOf[a][i] = q
  BY PortOwner
<1> HIDE DEF a
<1>6. /\ m \in NodeType /\ PortsOnly(k, m) /\ m.port = k.port
      /\ \A b \in Actor : b # a => m.actor[b] = k.actor[b]
      /\ m.actor[a] = "ENABLED" =>
           \A i \in DOMAIN PortsOf[a] : k.port[PortsOf[a][i]].state = "ENABLED"
  BY <1>1, <1>4, <1>5, StateChangedFacts
<1>7. ASSUME ActorsSound(n) PROVE ActorsSound(m)
  <2> SUFFICES ASSUME NEW q \in Port, m.actor[Owner(q)] = "ENABLED" PROVE m.port[q].state = "ENABLED"
    BY DEF ActorsSound
  <2>1. CASE Owner(q) = a
    BY <1>5, <1>6, <2>1
  <2>2. CASE Owner(q) # a
    <3>1. q # p /\ Owner(q) \in Actor
      BY <2>2, PortOwner DEF a
    <3>2. n.actor[Owner(q)] = "ENABLED"
      BY <1>4, <1>6, <2>2, <3>1
    <3> QED
      BY <1>4, <1>6, <1>7, <3>1, <3>2 DEF ActorsSound
  <2> QED
    BY <2>1, <2>2
<1> QED
  BY <1>3, <1>4, <1>6, <1>7 DEF PortsOnly

\* The state is one that port p may be put into.
CanBe(n, p, s) ==
  /\ s = "PENDING_LOOKUP" => n.pending[<<"lookup", p>>] > 0 /\ n.port[p].tunnel = None
  /\ s = "PENDING_CONNECT" => n.pending[<<"connect", p>>] > 0
  /\ s = "PENDING_TUNNEL" => n.port[p].tunnel # None

\* cc_port_set_state keeps the invariant and settles the port.
LEMMA SetStateSound ==
  ASSUME NEW n, NEW px, NEW X, NodeSound(n, px, X), NEW p \in Port, NEW s \in PortState,
         NEW m, m = cc_port_set_state(n, p, s),
         CanBe(n, p, s)
  PROVE  NodeSound(m, px, X \ {p})
<1>1. n \in NodeType /\ RefsSound(n, px) /\ ActorsSound(n) /\ RequestsSound(n, X)
  BY DEF NodeSound
<1>2. /\ m \in NodeType /\ PortsOnly(n, m)
      /\ \A q \in Port : q # p => m.port[q] = n.port[q]
      /\ m.port[p].state = s /\ m.port[p].tunnel = n.port[p].tunnel
      /\ ActorsSound(m)
  BY <1>1, SetStateFacts
<1>3. RefsSound(m, px)
  <2>1. \A q \in Port : m.port[q].tunnel = n.port[q].tunnel
    BY <1>2
  <2>2. m.actors = n.actors /\ m.tunnel = n.tunnel /\ m.link = n.link
    BY <1>2 DEF PortsOnly
  <2> QED
    BY <1>1, <2>1, <2>2, SameRefs
<1>4. m.tunnel = n.tunnel /\ m.actors = n.actors /\ \A q \in Request : m.pending[q] >= n.pending[q]
  BY <1>1, <1>2, NodeFields, BoundAssumption DEF PortsOnly
<1>5. ASSUME Calm, NEW q \in Port \ (X \ {p}) PROVE PortSound(m, q)
  <2>1. CASE q = p
    BY <1>2, <2>1 DEF PortSound, PortsOnly, CanBe
  <2>2. CASE q # p
    <3>1. PortSound(n, q)
      BY <1>1, <1>5, <2>2 DEF RequestsSound
    <3> QED
      BY <1>1, <1>2, <1>4, <2>2, <3>1, SamePort
  <2> QED
    BY <2>1, <2>2
<1>6. RequestsSound(m, X \ {p})
  BY <1>1, <1>2, <1>4, <1>5, SameRequests
<1> QED
  BY <1>2, <1>3, <1>6 DEF NodeSound

\* A change that no part of the invariant looks at.
LEMMA MinorPort ==
  ASSUME NEW n, NEW px, NEW X, NodeSound(n, px, X), NEW p \in Port, NEW v \in PortType,
         v.state = n.port[p].state, v.tunnel = n.port[p].tunnel, NEW m, m = PutPort(n, p, v)
  PROVE  /\ NodeSound(m, px, X) /\ PortsOnly(n, m) /\ m.port[p] = v
         /\ \A q \in Port : q # p => m.port[q] = n.port[q]
<1>1. n \in NodeType /\ RefsSound(n, px) /\ ActorsSound(n) /\ RequestsSound(n, X)
  BY DEF NodeSound
<1>2. /\ m \in NodeType /\ PortsOnly(n, m) /\ m.actor = n.actor
      /\ m.port[p] = v /\ \A q \in Port : q # p => m.port[q] = n.port[q]
  BY <1>1, PutPortFacts
<1>3. \A q \in Port : m.port[q].state = n.port[q].state /\ m.port[q].tunnel = n.port[q].tunnel
  BY <1>2
<1>4. /\ m.actors = n.actors /\ m.tunnel = n.tunnel /\ m.link = n.link
      /\ \A q \in Request : m.pending[q] >= n.pending[q]
  BY <1>1, <1>2, NodeFields, BoundAssumption DEF PortsOnly
<1>5. RefsSound(m, px)
  BY <1>1, <1>3, <1>4, SameRefs
<1>6. ActorsSound(m)
  BY <1>1, <1>2, <1>3, SameActors
<1>7. ASSUME Calm, NEW q \in Port \ X PROVE PortSound(m, q)
  <2>1. PortSound(n, q)
    BY <1>1, <1>7 DEF RequestsSound
  <2> QED
    BY <1>1, <1>2, <1>3, <1>4, <2>1, SamePort
<1>8. RequestsSound(m, X)
  BY <1>1, <1>2, <1>4, <1>7, SameRequests
<1> QED
  BY <1>2, <1>5, <1>6, <1>8 DEF NodeSound

\* Changing fields of a port.
SetPeer(v, x) == [v EXCEPT !.peer_id = x]
SetRetries(v, x) == [v EXCEPT !.retries = x]
SetTunnel(v, x) == [v EXCEPT !.tunnel = x]
SetPeers(v, x, y) == [v EXCEPT !.peer_port = x, !.peer_id = y]
SetTunnelPeer(v, x, y) == [v EXCEPT !.tunnel = x, !.peer_id = y]

\* Setting the runtime of the peer.
LEMMA SetPeerFacts ==
  ASSUME NEW v \in PortType, NEW x \in Runtime \cup {None}, NEW w, w = SetPeer(v, x)
  PROVE  /\ w \in PortType /\ w.state = v.state /\ w.tunnel = v.tunnel
         /\ w.peer_id = x /\ w.peer_port = v.peer_port
BY DEF PortType, SetPeer

\* Setting the number of retries.
LEMMA SetRetriesFacts ==
  ASSUME NEW v \in PortType, NEW x \in 0 .. MaxRetries, NEW w, w = SetRetries(v, x)
  PROVE  /\ w \in PortType /\ w.state = v.state /\ w.tunnel = v.tunnel
         /\ w.peer_id = v.peer_id /\ w.peer_port = v.peer_port
BY DEF PortType, SetRetries

\* Setting the tunnel of a port.
LEMMA SetTunnelFacts ==
  ASSUME NEW v \in PortType, NEW x \in Runtime \cup {None}, NEW w, w = SetTunnel(v, x)
  PROVE  /\ w \in PortType /\ w.state = v.state /\ w.tunnel = x
         /\ w.peer_id = v.peer_id /\ w.peer_port = v.peer_port
BY DEF PortType, SetTunnel

\* Setting the peer port and its runtime, as a local connection does.
LEMMA SetPeersFacts ==
  ASSUME NEW v \in PortType, NEW x \in Port \cup {None, Freed}, NEW y \in Runtime \cup {None},
         NEW w, w = SetPeers(v, x, y)
  PROVE  /\ w \in PortType /\ w.state = v.state /\ w.tunnel = v.tunnel
         /\ w.peer_id = y /\ w.peer_port = x
BY DEF PortType, SetPeers

\* Setting the tunnel of a port and the runtime it leads to.
LEMMA SetTunnelPeerFacts ==
  ASSUME NEW v \in PortType, NEW x \in Runtime \cup {None}, NEW y \in Runtime \cup {None},
         NEW w, w = SetTunnelPeer(v, x, y)
  PROVE  /\ w \in PortType /\ w.state = v.state /\ w.tunnel = x
         /\ w.peer_id = y /\ w.peer_port = v.peer_port
BY DEF PortType, SetTunnelPeer

\* A request is sent.
LEMMA AwaitFacts ==
  ASSUME NEW n \in NodeType, NEW q \in Request, NEW m, m = Await(n, q)
  PROVE  /\ m \in NodeType /\ m.actors = n.actors /\ m.actor = n.actor /\ m.port = n.port
         /\ m.tunnel = n.tunnel /\ m.link = n.link /\ m.phase = n.phase
         /\ m.pending[q] > 0 /\ \A k \in Request : m.pending[k] >= n.pending[k]
<1>1. MaxPending \in Nat \ {0} /\ n.pending \in [Request -> 0 .. MaxPending]
  BY NodeFields, BoundAssumption
<1> DEFINE x == [n.pending EXCEPT ![q] = @ + 1]
<1>2. /\ m \in NodeType /\ m.actors = n.actors /\ m.actor = n.actor /\ m.port = n.port
      /\ m.tunnel = n.tunnel /\ m.link = n.link /\ m.phase = n.phase
      /\ m.pending = IF n.pending[q] = MaxPending THEN n.pending ELSE x
  <2>1. CASE n.pending[q] = MaxPending
    <3>1. m = WithFull(n, TRUE)
      BY <2>1 DEF Await, WithFull
    <3> QED
      BY <2>1, <3>1, WithFullFacts, ZenonT(30)
  <2>2. CASE n.pending[q] # MaxPending
    <3>1. m = WithPending(n, x)
      BY <2>2 DEF Await, WithPending
    <3>2. x \in [Request -> 0 .. MaxPending]
      BY <1>1, <2>2
    <3> HIDE DEF x
    <3> QED
      BY <2>2, <3>1, <3>2, WithPendingFacts
  <2> QED
    BY <2>1, <2>2
<1>3. m.pending[q] > 0 /\ \A k \in Request : m.pending[k] >= n.pending[k]
  BY <1>1, <1>2
<1> QED
  BY <1>2, <1>3

\* cc_node_add_pending_msg: the request is under way and the node stays sound.
LEMMA AwaitSound ==
  ASSUME NEW n, NEW px, NEW X, NodeSound(n, px, X), NEW q \in Request, NEW m, m = Await(n, q)
  PROVE  /\ NodeSound(m, px, X) /\ m.pending[q] > 0
         /\ m.actors = n.actors /\ m.port = n.port /\ m.tunnel = n.tunnel /\ m.phase = n.phase
<1>1. n \in NodeType /\ RefsSound(n, px) /\ ActorsSound(n) /\ RequestsSound(n, X)
  BY DEF NodeSound
<1>3. /\ m \in NodeType /\ m.actors = n.actors /\ m.actor = n.actor /\ m.port = n.port
      /\ m.tunnel = n.tunnel /\ m.link = n.link /\ m.phase = n.phase
  BY <1>1, AwaitFacts
<1>4. m.pending[q] > 0 /\ \A k \in Request : m.pending[k] >= n.pending[k]
  BY <1>1, AwaitFacts
<1>5. \A p \in Port : m.port[p].state = n.port[p].state /\ m.port[p].tunnel = n.port[p].tunnel
  BY <1>3
<1>6. RefsSound(m, px)
  BY <1>1, <1>3, <1>5, SameRefs
<1>7. ActorsSound(m)
  BY <1>1, <1>3, <1>5, SameActors
<1>8. ASSUME Calm, NEW p \in Port \ X PROVE PortSound(m, p)
  <2>1. PortSound(n, p)
    BY <1>1, <1>8 DEF RequestsSound
  <2> QED
    BY <1>1, <1>3, <1>4, <1>5, <2>1, SamePort
<1>9. RequestsSound(m, X)
  BY <1>1, <1>3, <1>4, <1>8, SameRequests
<1> QED
  BY <1>3, <1>4, <1>6, <1>7, <1>9 DEF NodeSound

(***************************************************************************)
(* References.                                                              *)
(***************************************************************************)
\* The last reference frees the tunnel and takes one from the link.
LEMMA RemoveRefFacts ==
  ASSUME NEW n \in NodeType, NEW r \in Runtime, n.tunnel[r].ref_count # 0, n.link[r] \in Nat \ {0},
         NEW m, m = cc_tunnel_remove_ref(n, r)
  PROVE  /\ m \in NodeType /\ m.actors = n.actors /\ m.actor = n.actor /\ m.port = n.port
         /\ m.pending = n.pending /\ m.phase = n.phase
         /\ \A s \in Runtime : s # r => m.tunnel[s] = n.tunnel[s] /\ m.link[s] = n.link[s]
         /\ n.tunnel[r].ref_count = 1 =>
              /\ m.tunnel[r] = NoTunnel
              /\ m.link[r] = IF n.link[r] = 1 THEN NoLink ELSE n.link[r] - 1
         /\ n.tunnel[r].ref_count # 1 =>
              /\ m.tunnel[r].ref_count = n.tunnel[r].ref_count - 1
              /\ m.tunnel[r].state = n.tunnel[r].state /\ m.tunnel[r].id = n.tunnel[r].id
              /\ m.link[r] = n.link[r]
<1>1. n.tunnel \in [Runtime -> TunnelType] /\ n.link \in [Runtime -> Nat \cup {NoLink}]
  BY NodeFields
<1>2. n.tunnel[r] \in TunnelType /\ n.tunnel[r].ref_count \in Nat
  BY TunnelFields
<1>3. CASE n.tunnel[r].ref_count = 1
  <2> DEFINE x == [n.tunnel EXCEPT ![r] = NoTunnel]
             k == WithTunnel(n, x)
             y == [k.link EXCEPT ![r] = IF @ = 1 THEN NoLink ELSE @ - 1]
  <2>1. m = WithLink(k, y)
    BY <1>3 DEF cc_tunnel_remove_ref, cc_tunnel_free, cc_link_remove_ref, WithTunnel, WithLink
  <2>2. /\ x \in [Runtime -> TunnelType] /\ x[r] = NoTunnel
        /\ \A s \in Runtime : s # r => x[s] = n.tunnel[s]
    <3>1. NoTunnel \in TunnelType
      BY BoundAssumption DEF NoTunnel, TunnelType, TunnelState, Id
    <3> QED
      BY <1>1, <3>1
  <2> HIDE DEF x
  <2>3. /\ k \in NodeType /\ k.tunnel = x /\ k.actors = n.actors /\ k.actor = n.actor
        /\ k.port = n.port /\ k.link = n.link /\ k.pending = n.pending /\ k.phase = n.phase
    BY <2>2, WithTunnelFacts
  <2> HIDE DEF k
  <2>4. /\ y \in [Runtime -> Nat \cup {NoLink}]
        /\ y[r] = IF n.link[r] = 1 THEN NoLink ELSE n.link[r] - 1
        /\ \A s \in Runtime : s # r => y[s] = n.link[s]
    BY <1>1, <2>3
  <2> HIDE DEF y
  <2>5. /\ m \in NodeType /\ m.tunnel = x /\ m.actors = n.actors /\ m.actor = n.actor
        /\ m.port = n.port /\ m.link = y /\ m.pending = n.pending /\ m.phase = n.phase
    BY <2>1, <2>3, <2>4, WithLinkFacts
  <2> QED
    BY <1>3, <2>2, <2>4, <2>5
<1>4. CASE n.tunnel[r].ref_count # 1
  <2> DEFINE v == [n.tunnel[r] EXCEPT !.ref_count = @ - 1]
             x == [n.tunnel EXCEPT ![r] = v]
  <2>1. m = WithTunnel(n, x)
    BY <1>4 DEF cc_tunnel_remove_ref, WithTunnel
  <2>2. /\ v \in TunnelType /\ v.ref_count = n.tunnel[r].ref_count - 1
        /\ v.state = n.tunnel[r].state /\ v.id = n.tunnel[r].id
    BY <1>2 DEF TunnelType
  <2> HIDE DEF v
  <2>3. /\ x \in [Runtime -> TunnelType] /\ x[r] = v
        /\ \A s \in Runtime : s # r => x[s] = n.tunnel[s]
    BY <1>1, <2>2
  <2> HIDE DEF x
  <2>4. /\ m \in NodeType /\ m.tunnel = x /\ m.actors = n.actors /\ m.actor = n.actor
        /\ m.port = n.port /\ m.link = n.link /\ m.pending = n.pending /\ m.phase = n.phase
    BY <2>1, <2>3, WithTunnelFacts
  <2> QED
    BY <1>4, <2>2, <2>3, <2>4
<1> QED
  BY <1>3, <1>4

\* What an open tunnel that a port holds is worth.
LEMMA HeldTunnel ==
  ASSUME NEW n, NEW px, NEW X, NodeSound(n, px, X), NEW p \in Port, n.port[p].tunnel # None,
         NEW r, r = n.port[p].tunnel
  PROVE  /\ r \in Runtime /\ Open(n, r) /\ p \in PortUsers(n, r)
         /\ n.tunnel[r].ref_count # 0 /\ n.link[r] = Needed(n, r, px) /\ n.link[r] \in Nat \ {0}
<1>1. n \in NodeType /\ RefsSound(n, px)
  BY DEF NodeSound
<1>2. r \in Runtime
  BY <1>1, PortFields
<1>3. p \in PortUsers(n, r)
  BY DEF PortUsers
<1>4. /\ IsFiniteSet(PortUsers(n, r)) /\ n.tunnel[r].ref_count = Cardinality(PortUsers(n, r))
      /\ Open(n, r)
      /\ n.link[r] = Needed(n, r, px) \/ (Needed(n, r, px) = 0 /\ n.link[r] = NoLink)
  BY <1>1, <1>2, <1>3 DEF RefsSound
<1>5. Needed(n, r, px) \in Nat \ {0}
  BY <1>4 DEF Needed
<1>6. n.tunnel[r].ref_count # 0
  <2>1. Cardinality(PortUsers(n, r)) = 0 => PortUsers(n, r) = {}
    BY <1>4, FS_EmptySet
  <2> QED
    BY <1>3, <1>4, <2>1
<1> QED
  BY <1>2, <1>3, <1>4, <1>5, <1>6

\* A port gives its reference back.
LEMMA UnrefSound ==
  ASSUME NEW n, NEW px, NEW X, NodeSound(n, px, X), NEW p \in Port, NEW m, m = Unref(n, p)
  PROVE  /\ NodeSound(m, px, X \cup {p})
         /\ m.actors = n.actors /\ m.actor = n.actor /\ m.pending = n.pending /\ m.phase = n.phase
         /\ \A q \in Port : q # p => m.port[q] = n.port[q]
         /\ m.port[p].tunnel = None
         /\ m.port[p].state = n.port[p].state /\ m.port[p].peer_id = n.port[p].peer_id
         /\ m.port[p].peer_port = n.port[p].peer_port
<1>1. n \in NodeType /\ RefsSound(n, px) /\ ActorsSound(n) /\ RequestsSound(n, X)
  BY DEF NodeSound
<1>2. CASE n.port[p].tunnel = None
  <2>1. m = n
    BY <1>2 DEF Unref
  <2>2. RequestsSound(n, X \cup {p})
    BY <1>1 DEF RequestsSound
  <2> QED
    BY <1>1, <1>2, <2>1, <2>2 DEF NodeSound
<1>3. CASE n.port[p].tunnel # None
  <2> DEFINE r == n.port[p].tunnel
             k == cc_tunnel_remove_ref(n, r)
             v == SetTunnel(k.port[p], None)
  <2>1. m = PutPort(k, p, v)
    BY <1>3 DEF Unref, PutPort, SetTunnel
  <2> HIDE DEF r
  <2>2. /\ r \in Runtime /\ Open(n, r) /\ p \in PortUsers(n, r)
        /\ n.tunnel[r].ref_count # 0 /\ n.link[r] = Needed(n, r, px) /\ n.link[r] \in Nat \ {0}
    BY <1>3, HeldTunnel DEF r
  <2>3. /\ k \in NodeType /\ k.actors = n.actors /\ k.actor = n.actor /\ k.port = n.port
        /\ k.pending = n.pending /\ k.phase = n.phase
        /\ \A s \in Runtime : s # r => k.tunnel[s] = n.tunnel[s] /\ k.link[s] = n.link[s]
        /\ n.tunnel[r].ref_count = 1 =>
             /\ k.tunnel[r] = NoTunnel
             /\ k.link[r] = IF n.link[r] = 1 THEN NoLink ELSE n.link[r] - 1
        /\ n.tunnel[r].ref_count # 1 =>
             /\ k.tunnel[r].ref_count = n.tunnel[r].ref_count - 1
             /\ k.tunnel[r].state = n.tunnel[r].state /\ k.tunnel[r].id = n.tunnel[r].id
             /\ k.link[r] = n.link[r]
    BY <1>1, <2>2, RemoveRefFacts
  <2> HIDE DEF k
  <2>4. /\ v \in PortType /\ v.tunnel = None /\ v.state = n.port[p].state
        /\ v.peer_id = n.port[p].peer_id /\ v.peer_port = n.port[p].peer_port
    <3>1. k.port[p] \in PortType /\ k.port[p] = n.port[p]
      BY <2>3, PortFields
    <3> QED
      BY <3>1, SetTunnelFacts
  <2> HIDE DEF v
  <2>5. /\ m \in NodeType /\ PortsOnly(k, m) /\ m.actor = k.actor
        /\ m.port[p] = v /\ \A q \in Port : q # p => m.port[q] = k.port[q]
    BY <2>1, <2>3, <2>4, PutPortFacts
  <2>6. /\ m.tunnel = k.tunnel /\ m.link = k.link /\ m.actors = n.actors
        /\ m.pending = n.pending /\ m.phase = n.phase
    BY <2>3, <2>5 DEF PortsOnly
  <2>7. \A q \in Port : q # p => m.port[q] = n.port[q]
    BY <2>3, <2>5
  <2>8. /\ PortUsers(m, r) = PortUsers(n, r) \ {p}
        /\ \A s \in Runtime : s # r => PortUsers(m, s) = PortUsers(n, s)
    <3>1. None \notin Runtime
      BY RuntimeAssumption
    <3> QED
      BY <2>2, <2>4, <2>5, <2>7, <3>1 DEF PortUsers, r
  <2>9. \A s \in Runtime : s # r =>
          (Open(m, s) <=> Open(n, s)) /\ Needed(m, s, px) = Needed(n, s, px)
    BY <2>3, <2>6 DEF Open, Needed
  <2>10. /\ IsFiniteSet(PortUsers(n, r)) /\ n.tunnel[r].ref_count = Cardinality(PortUsers(n, r))
         /\ n.tunnel[r].ref_count \in Nat
    BY <1>1, <2>2, TunnelFields DEF RefsSound
  <2>11. /\ IsFiniteSet(PortUsers(m, r))
         /\ Cardinality(PortUsers(m, r)) = n.tunnel[r].ref_count - 1
    BY <2>2, <2>8, <2>10, FS_RemoveElement
  <2>12. /\ m.tunnel[r].ref_count = Cardinality(PortUsers(m, r))
         /\ ~Open(m, r) => PortUsers(m, r) = {}
         /\ m.link[r] = Needed(m, r, px) \/ (Needed(m, r, px) = 0 /\ m.link[r] = NoLink)
    <3>1. CASE n.tunnel[r].ref_count = 1
      <4>1. m.tunnel[r] = NoTunnel /\ m.link[r] = IF n.link[r] = 1 THEN NoLink ELSE n.link[r] - 1
        BY <2>3, <2>6, <3>1
      <4>2. ~Open(m, r) /\ m.tunnel[r].ref_count = 0
        BY <4>1 DEF Open, NoTunnel
      <4>3. Cardinality(PortUsers(m, r)) = 0
        BY <2>11, <3>1
      <4>4. PortUsers(m, r) = {}
        BY <2>11, <4>3, FS_EmptySet
      <4>5. Needed(m, r, px) = Needed(n, r, px) - 1
        BY <2>2, <4>2 DEF Needed
      <4>6. Needed(n, r, px) \in Nat
        BY DEF Needed
      <4> QED
        BY <2>2, <4>1, <4>2, <4>3, <4>4, <4>5, <4>6
    <3>2. CASE n.tunnel[r].ref_count # 1
      <4>1. /\ m.tunnel[r].ref_count = n.tunnel[r].ref_count - 1
            /\ m.tunnel[r].state = n.tunnel[r].state /\ m.link[r] = n.link[r]
        BY <2>3, <2>6, <3>2
      <4>2. Open(m, r) /\ Needed(m, r, px) = Needed(n, r, px)
        BY <2>2, <4>1 DEF Open, Needed
      <4> QED
        BY <2>2, <2>11, <4>1, <4>2
    <3> QED
      BY <3>1, <3>2
  <2>13. RefsSound(m, px)
    <3>1. ASSUME NEW q \in Port, m.port[q].tunnel # None PROVE Exists(m, q)
      <4>1. q # p /\ n.port[q].tunnel # None
        BY <2>4, <2>5, <2>7, <3>1
      <4>2. Exists(n, q)
        BY <1>1, <4>1 DEF RefsSound
      <4> QED
        BY <2>6, <4>2 DEF Exists
    <3>2. ASSUME NEW s \in Runtime
          PROVE  /\ IsFiniteSet(PortUsers(m, s)) /\ m.tunnel[s].ref_count = Cardinality(PortUsers(m, s))
                 /\ ~Open(m, s) => PortUsers(m, s) = {}
                 /\ m.link[s] = Needed(m, s, px) \/ (Needed(m, s, px) = 0 /\ m.link[s] = NoLink)
      <4>1. CASE s = r
        BY <2>11, <2>12, <4>1
      <4>2. CASE s # r
        <5>1. /\ IsFiniteSet(PortUsers(n, s)) /\ n.tunnel[s].ref_count = Cardinality(PortUsers(n, s))
              /\ ~Open(n, s) => PortUsers(n, s) = {}
              /\ n.link[s] = Needed(n, s, px) \/ (Needed(n, s, px) = 0 /\ n.link[s] = NoLink)
          BY <1>1 DEF RefsSound
        <5> QED
          BY <2>3, <2>6, <2>8, <2>9, <4>2, <5>1
      <4> QED
        BY <4>1, <4>2
    <3> QED
      BY <3>1, <3>2 DEF RefsSound
  <2>14. \A q \in Port : m.port[q].state = n.port[q].state
    BY <2>4, <2>5, <2>7
  <2>15. ActorsSound(m)
    BY <1>1, <2>3, <2>5, <2>14, SameActors
  <2>16. RequestsSound(m, X \cup {p})
    <3> SUFFICES ASSUME Calm
                 PROVE  TunnelsSound(m) /\ \A q \in Port \ (X \cup {p}) : PortSound(m, q)
      BY DEF RequestsSound
    <3>1. TunnelsSound(n) /\ \A q \in Port \ X : PortSound(n, q)
      BY <1>1 DEF RequestsSound
    <3>2. ASSUME NEW s \in Runtime
          PROVE  \/ m.tunnel[s].state = n.tunnel[s].state /\ m.tunnel[s].id = n.tunnel[s].id
                 \/ m.tunnel[s].state = "FREE"
      BY <2>3, <2>6 DEF NoTunnel
    <3>3. TunnelsSound(m)
      BY <2>6, <3>1, <3>2 DEF TunnelsSound, Open
    <3>4. ASSUME NEW q \in Port \ (X \cup {p}) PROVE PortSound(m, q)
      <4>1. PortSound(n, q) /\ m.port[q] = n.port[q]
        BY <2>7, <3>1
      <4> QED
        BY <2>6, <4>1 DEF PortSound, Exists
    <3> QED
      BY <3>3, <3>4
  <2> QED
    BY <2>3, <2>4, <2>5, <2>6, <2>7, <2>13, <2>15, <2>16 DEF NodeSound
<1> QED
  BY <1>2, <1>3

(***************************************************************************)
(* Tunnels.                                                                 *)
(***************************************************************************)
\* A new id is one that no open tunnel and no request has.
LEMMA FreshFacts ==
  ASSUME NEW n \in NodeType, FreshIds(n) # {}
  PROVE  /\ Fresh(n) \in Id /\ n.pending[<<"tunnel", Fresh(n)>>] = 0
         /\ \A s \in Runtime : Open(n, s) => n.tunnel[s].id # Fresh(n)
<1>1. FreshIds(n) \in SUBSET Nat
  BY BoundAssumption DEF FreshIds, Id
<1>2. \E i \in FreshIds(n) : \A j \in FreshIds(n) : i <= j
  BY <1>1, FirstExists
<1>3. Fresh(n) \in FreshIds(n)
  BY <1>2 DEF Fresh
<1>4. /\ Fresh(n) \in Id /\ ~(n.pending[<<"tunnel", Fresh(n)>>] > 0)
      /\ \A s \in Runtime : Open(n, s) => n.tunnel[s].id # Fresh(n)
  BY <1>3 DEF FreshIds
<1>5. n.pending[<<"tunnel", Fresh(n)>>] \in Nat
  BY <1>4, NodeFields, Requests, BoundAssumption
<1> QED
  BY <1>4, <1>5

\* A new tunnel that no port holds yet.
LEMMA TunnelMade ==
  ASSUME NEW n, NEW px, NEW X, NodeSound(n, px, X), NEW r \in Runtime, ~Open(n, r),
         NEW m \in NodeType, m.actors = n.actors, m.actor = n.actor, m.port = n.port,
         \A q \in Request : m.pending[q] >= n.pending[q],
         \A s \in Runtime : s # r => m.tunnel[s] = n.tunnel[s] /\ m.link[s] = n.link[s],
         m.tunnel[r].state \in {"ENABLED", "PENDING"}, m.tunnel[r].ref_count = 0,
         \A s \in Runtime : Open(n, s) => n.tunnel[s].id # m.tunnel[r].id,
         m.tunnel[r].state = "PENDING" => m.pending[<<"tunnel", m.tunnel[r].id>>] > 0,
         m.link[r] = (IF n.link[r] = NoLink THEN 0 ELSE n.link[r]) + 1
  PROVE  NodeSound(m, px, X)
<1>1. n \in NodeType /\ RefsSound(n, px) /\ ActorsSound(n) /\ RequestsSound(n, X)
  BY DEF NodeSound
<1>2. \A s : PortUsers(m, s) = PortUsers(n, s)
  BY DEF PortUsers
<1>3. \A p : Exists(m, p) <=> Exists(n, p)
  BY DEF Exists
<1>4. Open(m, r) /\ \A s \in Runtime : s # r => (Open(m, s) <=> Open(n, s))
  BY DEF Open
<1>5. RefsSound(m, px)
  <2>1. \A p \in Port : m.port[p].tunnel # None => Exists(m, p)
    BY <1>1, <1>3 DEF RefsSound
  <2>2. ASSUME NEW s \in Runtime
        PROVE  /\ IsFiniteSet(PortUsers(m, s)) /\ m.tunnel[s].ref_count = Cardinality(PortUsers(m, s))
               /\ ~Open(m, s) => PortUsers(m, s) = {}
               /\ m.link[s] = Needed(m, s, px) \/ (Needed(m, s, px) = 0 /\ m.link[s] = NoLink)
    <3>1. /\ IsFiniteSet(PortUsers(n, s)) /\ n.tunnel[s].ref_count = Cardinality(PortUsers(n, s))
          /\ ~Open(n, s) => PortUsers(n, s) = {}
          /\ n.link[s] = Needed(n, s, px) \/ (Needed(n, s, px) = 0 /\ n.link[s] = NoLink)
      BY <1>1 DEF RefsSound
    <3>2. CASE s = r
      <4>1. PortUsers(m, r) = {} /\ Cardinality({}) = 0 /\ IsFiniteSet({})
        BY <1>2, <3>1, <3>2, FS_EmptySet
      <4>2. Needed(m, r, px) = Needed(n, r, px) + 1 /\ Needed(n, r, px) \in Nat
        BY <1>4 DEF Needed
      <4>3. m.link[r] = Needed(m, r, px)
        BY <3>1, <3>2, <4>2 DEF NoLink
      <4> QED
        BY <1>4, <3>2, <4>1, <4>3
    <3>3. CASE s # r
      <4>1. Needed(m, s, px) = Needed(n, s, px)
        BY <1>4, <3>3 DEF Needed
      <4> QED
        BY <1>2, <1>4, <3>1, <3>3, <4>1
    <3> QED
      BY <3>2, <3>3
  <2> QED
    BY <2>1, <2>2 DEF RefsSound
<1>6. ActorsSound(m)
  BY <1>1, SameActors
<1>7. RequestsSound(m, X)
  <2> SUFFICES ASSUME Calm PROVE TunnelsSound(m) /\ \A p \in Port \ X : PortSound(m, p)
    BY DEF RequestsSound
  <2>1. TunnelsSound(n) /\ \A p \in Port \ X : PortSound(n, p)
    BY <1>1 DEF RequestsSound
  <2>2. ASSUME NEW s \in Runtime, NEW t \in Runtime,
               Open(m, s), Open(m, t), m.tunnel[s].id = m.tunnel[t].id
        PROVE  s = t
    <3>1. CASE s = r \/ t = r
      BY <1>4, <2>2, <3>1
    <3>2. CASE s # r /\ t # r
      BY <1>4, <2>1, <2>2, <3>2 DEF TunnelsSound
    <3> QED
      BY <3>1, <3>2
  <2>3. ASSUME NEW s \in Runtime
        PROVE  /\ m.tunnel[s].state # "DISCONNECTED"
               /\ m.tunnel[s].state = "PENDING" => m.pending[<<"tunnel", m.tunnel[s].id>>] > 0
    <3>1. CASE s = r
      BY <3>1
    <3>2. CASE s # r
      <4>1. /\ m.tunnel[s] = n.tunnel[s] /\ n.tunnel[s].state # "DISCONNECTED"
            /\ n.tunnel[s].state = "PENDING" => n.pending[<<"tunnel", n.tunnel[s].id>>] > 0
        BY <2>1, <3>2 DEF TunnelsSound
      <4>2. <<"tunnel", n.tunnel[s].id>> \in Request
        BY <1>1, TunnelFields, Requests
      <4>3. \A q \in Request : m.pending[q] \in Nat /\ n.pending[q] \in Nat
        BY <1>1, NodeFields, BoundAssumption
      <4> QED
        BY <4>1, <4>2, <4>3
    <3> QED
      BY <3>1, <3>2
  <2>4. ASSUME NEW p \in Port \ X PROVE PortSound(m, p)
    <3>1. PortSound(n, p)
      BY <2>1
    <3> QED
      BY <1>1, <3>1, SamePort
  <2> QED
    BY <2>2, <2>3, <2>4 DEF TunnelsSound
<1> QED
  BY <1>5, <1>6, <1>7 DEF NodeSound

\* A link without users, left by a request that could not be sent.
LEMMA LinkMade ==
  ASSUME NEW n, NEW px, NEW X, NodeSound(n, px, X), NEW r \in Runtime, NEW m, m = cc_link_create(n, r)
  PROVE  /\ NodeSound(m, px, X) /\ m.actors = n.actors /\ m.actor = n.actor /\ m.port = n.port
         /\ m.tunnel = n.tunnel /\ m.pending = n.pending /\ m.phase = n.phase
         /\ m.link[r] = IF n.link[r] = NoLink THEN 0 ELSE n.link[r]
         /\ \A s \in Runtime : s # r => m.link[s] = n.link[s]
<1>1. n \in NodeType /\ RefsSound(n, px) /\ ActorsSound(n) /\ RequestsSound(n, X)
  BY DEF NodeSound
<1>2. CASE n.link[r] # NoLink
  BY <1>2 DEF cc_link_create
<1>3. CASE n.link[r] = NoLink
  <2> DEFINE x == [n.link EXCEPT ![r] = 0]
  <2>1. m = WithLink(n, x)
    BY <1>3 DEF cc_link_create, WithLink
  <2>2. /\ x \in [Runtime -> Nat \cup {NoLink}] /\ x[r] = 0
        /\ \A s \in Runtime : s # r => x[s] = n.link[s]
    BY <1>1, NodeFields
  <2> HIDE DEF x
  <2>3. /\ m \in NodeType /\ m.link = x /\ m.actors = n.actors /\ m.actor = n.actor
        /\ m.port = n.port /\ m.tunnel = n.tunnel /\ m.pending = n.pending /\ m.phase = n.phase
    BY <1>1, <2>1, <2>2, WithLinkFacts
  <2>4. \A s : /\ PortUsers(m, s) = PortUsers(n, s) /\ (Open(m, s) <=> Open(n, s))
               /\ Needed(m, s, px) = Needed(n, s, px) /\ Needed(n, s, px) \in Nat
    BY <2>3 DEF PortUsers, Open, Needed
  <2>5. \A p : Exists(m, p) <=> Exists(n, p)
    BY <2>3 DEF Exists
  <2>6. ASSUME NEW s \in Runtime
        PROVE  m.link[s] = Needed(m, s, px) \/ (Needed(m, s, px) = 0 /\ m.link[s] = NoLink)
    <3>1. n.link[s] = Needed(n, s, px) \/ (Needed(n, s, px) = 0 /\ n.link[s] = NoLink)
      BY <1>1 DEF RefsSound
    <3> QED
      BY <1>3, <2>2, <2>3, <2>4, <3>1 DEF NoLink
  <2>7. RefsSound(m, px)
    BY <1>1, <2>3, <2>4, <2>5, <2>6 DEF RefsSound
  <2>8. ActorsSound(m) /\ RequestsSound(m, X)
    BY <1>1, <2>3 DEF ActorsSound, RequestsSound, TunnelsSound, PortSound, Exists, Open
  <2> QED
    BY <1>3, <2>2, <2>3, <2>7, <2>8 DEF NodeSound
<1> QED
  BY <1>2, <1>3, <1>1

\* cc_tunnel_create, for a runtime there is no tunnel to.
LEMMA CreateSound ==
  ASSUME NEW n, NEW px, NEW X, NodeSound(n, px, X), NEW r \in Runtime, ~Open(n, r),
         NEW st \in {"ENABLED", "DISCONNECTED"}, NEW m, m = cc_tunnel_create(n, r, st)
  PROVE  /\ NodeSound(m, px, X) /\ m.actors = n.actors /\ m.port = n.port /\ m.phase = n.phase
<1>1. n \in NodeType
  BY DEF NodeSound
<1> DEFINE k == cc_link_create(n, r)
           id == Fresh(n)
           New(s) == [k EXCEPT !.tunnel[r] = [state |-> s, id |-> id, ref_count |-> 0],
                               !.link[r] = @ + 1]
<1>2. m = IF FreshIds(n) = {} THEN [n EXCEPT !.full = TRUE]
          ELSE IF st = "ENABLED" THEN New("ENABLED")
          ELSE IF CanSend THEN Await(New("PENDING"), <<"tunnel", id>>)
          ELSE k
  BY DEF cc_tunnel_create
<1> HIDE DEF k, id
<1>3. /\ NodeSound(k, px, X) /\ k.actors = n.actors /\ k.actor = n.actor /\ k.port = n.port
      /\ k.tunnel = n.tunnel /\ k.pending = n.pending /\ k.phase = n.phase
      /\ k.link[r] = IF n.link[r] = NoLink THEN 0 ELSE n.link[r]
      /\ \A s \in Runtime : s # r => k.link[s] = n.link[s]
  BY LinkMade DEF k
<1>4. k \in NodeType
  BY <1>3 DEF NodeSound
<1>5. ASSUME NEW s \in {"ENABLED", "PENDING"}, FreshIds(n) # {}
      PROVE  /\ New(s) \in NodeType /\ New(s).actors = n.actors /\ New(s).actor = n.actor
             /\ New(s).port = n.port /\ New(s).pending = n.pending /\ New(s).phase = n.phase
             /\ \A t \in Runtime : t # r => New(s).tunnel[t] = n.tunnel[t] /\ New(s).link[t] = n.link[t]
             /\ New(s).tunnel[r].state = s /\ New(s).tunnel[r].id = id /\ New(s).tunnel[r].ref_count = 0
             /\ New(s).link[r] = (IF n.link[r] = NoLink THEN 0 ELSE n.link[r]) + 1
  <2> DEFINE v == [state |-> s, id |-> id, ref_count |-> 0]
             x == [k.tunnel EXCEPT ![r] = v]
             j == WithTunnel(k, x)
             y == [j.link EXCEPT ![r] = @ + 1]
  <2>1. New(s) = WithLink(j, y)
    BY DEF WithTunnel, WithLink
  <2>2. id \in Id
    BY <1>1, <1>5, FreshFacts DEF id
  <2>3. v \in TunnelType /\ v.state = s /\ v.id = id /\ v.ref_count = 0
    BY <2>2 DEF TunnelType, TunnelState
  <2> HIDE DEF v
  <2>4. x \in [Runtime -> TunnelType] /\ x[r] = v /\ \A t \in Runtime : t # r => x[t] = n.tunnel[t]
    BY <1>3, <1>4, <2>3, NodeFields
  <2> HIDE DEF x
  <2>5. /\ j \in NodeType /\ j.tunnel = x /\ j.actors = n.actors /\ j.actor = n.actor
        /\ j.port = n.port /\ j.link = k.link /\ j.pending = n.pending /\ j.phase = n.phase
    BY <1>3, <1>4, <2>4, WithTunnelFacts
  <2> HIDE DEF j
  <2>6. /\ y \in [Runtime -> Nat \cup {NoLink}]
        /\ y[r] = (IF n.link[r] = NoLink THEN 0 ELSE n.link[r]) + 1
        /\ \A t \in Runtime : t # r => y[t] = n.link[t]
    <3>1. k.link \in [Runtime -> Nat \cup {NoLink}] /\ k.link[r] \in Nat
      BY <1>1, <1>3, <1>4, NodeFields
    <3> QED
      BY <1>3, <2>5, <3>1
  <2> HIDE DEF y
  <2> DEFINE z == New(s)
  <2> HIDE DEF z
  <2>7. z = WithLink(j, y)
    BY <2>1 DEF z
  <2>8. /\ z \in NodeType /\ z.link = y /\ z.actors = n.actors /\ z.actor = n.actor
        /\ z.port = n.port /\ z.tunnel = x /\ z.pending = n.pending /\ z.phase = n.phase
    BY <2>5, <2>6, <2>7, WithLinkFacts
  <2>9. /\ z.tunnel[r] = v /\ z.link[r] = y[r]
        /\ \A t \in Runtime : t # r => z.tunnel[t] = n.tunnel[t] /\ z.link[t] = n.link[t]
    BY <2>4, <2>6, <2>8
  <2>10. /\ z \in NodeType /\ z.actors = n.actors /\ z.actor = n.actor
         /\ z.port = n.port /\ z.pending = n.pending /\ z.phase = n.phase
         /\ \A t \in Runtime : t # r => z.tunnel[t] = n.tunnel[t] /\ z.link[t] = n.link[t]
         /\ z.tunnel[r].state = s /\ z.tunnel[r].id = id /\ z.tunnel[r].ref_count = 0
         /\ z.link[r] = (IF n.link[r] = NoLink THEN 0 ELSE n.link[r]) + 1
    BY <2>3, <2>6, <2>8, <2>9
  <2> QED
    BY <2>10 DEF z
<1> HIDE DEF New
<1>6. CASE FreshIds(n) = {}
  <2>1. m = WithFull(n, TRUE)
    BY <1>2, <1>6 DEF WithFull
  <2>2. /\ m \in NodeType /\ m.actors = n.actors /\ m.actor = n.actor /\ m.port = n.port
        /\ m.tunnel = n.tunnel /\ m.link = n.link /\ m.pending = n.pending /\ m.phase = n.phase
    BY <1>1, <2>1, WithFullFacts, ZenonT(30)
  <2>3. RefsSound(n, px) /\ ActorsSound(n) /\ RequestsSound(n, X)
    BY DEF NodeSound
  <2>4. RefsSound(m, px)
    BY <2>2, <2>3, SameRefs
  <2>5. ActorsSound(m) /\ RequestsSound(m, X)
    BY <2>2, <2>3 DEF ActorsSound, RequestsSound, TunnelsSound, PortSound, Exists, Open
  <2> QED
    BY <2>2, <2>4, <2>5 DEF NodeSound
<1>7. ASSUME FreshIds(n) # {}
      PROVE  id \in Id /\ \A s \in Runtime : Open(n, s) => n.tunnel[s].id # id
  BY <1>1, <1>7, FreshFacts DEF id
<1>8. \A q \in Request : n.pending[q] \in Nat
  BY <1>1, NodeFields, BoundAssumption
<1>9. CASE FreshIds(n) # {} /\ st = "ENABLED"
  <2> DEFINE z == New("ENABLED")
  <2>1. m = z
    BY <1>2, <1>9
  <2>2. /\ z \in NodeType /\ z.actors = n.actors /\ z.actor = n.actor
        /\ z.port = n.port /\ z.pending = n.pending /\ z.phase = n.phase
        /\ \A t \in Runtime : t # r => z.tunnel[t] = n.tunnel[t] /\ z.link[t] = n.link[t]
        /\ z.tunnel[r].state = "ENABLED" /\ z.tunnel[r].id = id /\ z.tunnel[r].ref_count = 0
        /\ z.link[r] = (IF n.link[r] = NoLink THEN 0 ELSE n.link[r]) + 1
    BY <1>5, <1>9
  <2> HIDE DEF z
  <2>3. \A q \in Request : z.pending[q] >= n.pending[q]
    BY <1>8, <2>2
  <2>4. NodeSound(z, px, X)
    BY <1>7, <1>9, <2>2, <2>3, TunnelMade, ZenonT(30)
  <2> QED
    BY <2>1, <2>2, <2>4
<1>10. CASE FreshIds(n) # {} /\ st # "ENABLED" /\ CanSend
  <2> DEFINE z == New("PENDING")
             q == <<"tunnel", id>>
  <2>1. m = Await(z, q)
    BY <1>2, <1>10
  <2>2. /\ z \in NodeType /\ z.actors = n.actors /\ z.actor = n.actor
        /\ z.port = n.port /\ z.pending = n.pending /\ z.phase = n.phase
        /\ \A t \in Runtime : t # r => z.tunnel[t] = n.tunnel[t] /\ z.link[t] = n.link[t]
        /\ z.tunnel[r].state = "PENDING" /\ z.tunnel[r].id = id /\ z.tunnel[r].ref_count = 0
        /\ z.link[r] = (IF n.link[r] = NoLink THEN 0 ELSE n.link[r]) + 1
    BY <1>5, <1>10
  <2> HIDE DEF z
  <2>3. q \in Request
    BY <1>7, <1>10, Requests
  <2> HIDE DEF q
  <2>4. /\ m \in NodeType /\ m.actors = z.actors /\ m.actor = z.actor /\ m.port = z.port
        /\ m.tunnel = z.tunnel /\ m.link = z.link /\ m.phase = z.phase
        /\ m.pending[q] > 0 /\ \A i \in Request : m.pending[i] >= z.pending[i]
    BY <2>1, <2>2, <2>3, AwaitFacts
  <2>5. /\ m.actors = n.actors /\ m.actor = n.actor /\ m.port = n.port /\ m.phase = n.phase
        /\ \A i \in Request : m.pending[i] >= n.pending[i]
        /\ \A t \in Runtime : t # r => m.tunnel[t] = n.tunnel[t] /\ m.link[t] = n.link[t]
        /\ m.tunnel[r].state = "PENDING" /\ m.tunnel[r].id = id /\ m.tunnel[r].ref_count = 0
        /\ m.link[r] = (IF n.link[r] = NoLink THEN 0 ELSE n.link[r]) + 1
    BY <2>2, <2>4
  <2>6. m.pending[<<"tunnel", m.tunnel[r].id>>] > 0
    BY <2>4, <2>5 DEF q
  <2>7. NodeSound(m, px, X)
    BY <1>7, <1>10, <2>4, <2>5, <2>6, TunnelMade
  <2> QED
    BY <2>5, <2>7
<1>11. CASE FreshIds(n) # {} /\ st # "ENABLED" /\ ~CanSend
  BY <1>2, <1>3, <1>11
<1> QED
  BY <1>6, <1>9, <1>10, <1>11

\* A port gets a reference to an open tunnel.
LEMMA HoldSound ==
  ASSUME NEW n, NEW px, NEW X, NodeSound(n, px, X), NEW r \in Runtime, Open(n, r),
         NEW p \in Port, Exists(n, p), n.port[p].tunnel = None,
         NEW v \in PortType, v.tunnel = r, v.state = n.port[p].state,
         NEW m, m = PutPort(cc_tunnel_add_ref(n, r), p, v)
  PROVE  /\ NodeSound(m, px, X \cup {p}) /\ m.port[p] = v
         /\ m.actors = n.actors /\ m.phase = n.phase
<1>1. n \in NodeType /\ RefsSound(n, px) /\ ActorsSound(n) /\ RequestsSound(n, X)
  BY DEF NodeSound
<1> DEFINE k == cc_tunnel_add_ref(n, r)
           w == [n.tunnel[r] EXCEPT !.ref_count = @ + 1]
           x == [n.tunnel EXCEPT ![r] = w]
<1>2. k = WithTunnel(n, x)
  BY DEF cc_tunnel_add_ref, WithTunnel
<1>3. /\ w \in TunnelType /\ w.ref_count = n.tunnel[r].ref_count + 1
      /\ w.state = n.tunnel[r].state /\ w.id = n.tunnel[r].id
  <2>1. n.tunnel[r] \in TunnelType
    BY <1>1, TunnelFields
  <2> QED
    BY <2>1 DEF TunnelType
<1> HIDE DEF w
<1>4. x \in [Runtime -> TunnelType] /\ x[r] = w /\ \A s \in Runtime : s # r => x[s] = n.tunnel[s]
  BY <1>1, <1>3, NodeFields
<1> HIDE DEF x
<1>5. /\ k \in NodeType /\ k.tunnel = x /\ k.actors = n.actors /\ k.actor = n.actor
      /\ k.port = n.port /\ k.link = n.link /\ k.pending = n.pending /\ k.phase = n.phase
  BY <1>1, <1>2, <1>4, WithTunnelFacts
<1>6. m = PutPort(k, p, v)
  OBVIOUS
<1> HIDE DEF k
<1>7. /\ m \in NodeType /\ PortsOnly(k, m) /\ m.actor = k.actor
      /\ m.port[p] = v /\ \A q \in Port : q # p => m.port[q] = k.port[q]
  BY <1>5, <1>6, PutPortFacts
<1>8. /\ m.actors = n.actors /\ m.actor = n.actor /\ m.tunnel = x /\ m.link = n.link
      /\ m.pending = n.pending /\ m.phase = n.phase
      /\ \A q \in Port : q # p => m.port[q] = n.port[q]
  BY <1>5, <1>7 DEF PortsOnly
<1>9. \A s \in Runtime : m.tunnel[s].state = n.tunnel[s].state /\ m.tunnel[s].id = n.tunnel[s].id
  BY <1>3, <1>4, <1>8
<1>10. \A s \in Runtime : (Open(m, s) <=> Open(n, s)) /\ Needed(m, s, px) = Needed(n, s, px)
  BY <1>9 DEF Open, Needed
<1>11. None \notin Runtime
  BY RuntimeAssumption
<1>12. /\ PortUsers(m, r) = PortUsers(n, r) \cup {p} /\ p \notin PortUsers(n, r)
       /\ \A s \in Runtime : s # r => PortUsers(m, s) = PortUsers(n, s)
  BY <1>7, <1>8, <1>11 DEF PortUsers
<1>13. RefsSound(m, px)
  <2>1. ASSUME NEW q \in Port, m.port[q].tunnel # None PROVE Exists(m, q)
    <3>1. Exists(n, q)
      BY <1>1, <1>8, <2>1 DEF RefsSound
    <3> QED
      BY <1>8, <3>1 DEF Exists
  <2>2. ASSUME NEW s \in Runtime
        PROVE  /\ IsFiniteSet(PortUsers(m, s)) /\ m.tunnel[s].ref_count = Cardinality(PortUsers(m, s))
               /\ ~Open(m, s) => PortUsers(m, s) = {}
               /\ m.link[s] = Needed(m, s, px) \/ (Needed(m, s, px) = 0 /\ m.link[s] = NoLink)
    <3>1. /\ IsFiniteSet(PortUsers(n, s)) /\ n.tunnel[s].ref_count = Cardinality(PortUsers(n, s))
          /\ ~Open(n, s) => PortUsers(n, s) = {}
          /\ n.link[s] = Needed(n, s, px) \/ (Needed(n, s, px) = 0 /\ n.link[s] = NoLink)
      BY <1>1 DEF RefsSound
    <3>2. CASE s = r
      <4>1. /\ IsFiniteSet(PortUsers(m, r))
            /\ Cardinality(PortUsers(m, r)) = Cardinality(PortUsers(n, r)) + 1
        BY <1>12, <3>1, <3>2, FS_AddElement
      <4>2. Open(m, r)
        BY <1>10
      <4> QED
        BY <1>3, <1>4, <1>8, <1>10, <3>1, <3>2, <4>1, <4>2
    <3>3. CASE s # r
      BY <1>4, <1>8, <1>10, <1>12, <3>1, <3>3
    <3> QED
      BY <3>2, <3>3
  <2> QED
    BY <2>1, <2>2 DEF RefsSound
<1>14. \A q \in Port : m.port[q].state = n.port[q].state
  BY <1>7, <1>8
<1>15. ActorsSound(m)
  BY <1>1, <1>8, <1>14, SameActors
<1>16. RequestsSound(m, X \cup {p})
  <2> SUFFICES ASSUME Calm PROVE TunnelsSound(m) /\ \A q \in Port \ (X \cup {p}) : PortSound(m, q)
    BY DEF RequestsSound
  <2>1. TunnelsSound(n) /\ \A q \in Port \ X : PortSound(n, q)
    BY <1>1 DEF RequestsSound
  <2>2. TunnelsSound(m)
    BY <1>8, <1>9, <1>10, <2>1 DEF TunnelsSound
  <2>3. ASSUME NEW q \in Port \ (X \cup {p}) PROVE PortSound(m, q)
    <3>1. PortSound(n, q) /\ m.port[q] = n.port[q]
      BY <1>7, <1>8, <2>1
    <3> QED
      BY <1>8, <3>1 DEF PortSound, Exists
  <2> QED
    BY <2>2, <2>3
<1> QED
  BY <1>7, <1>8, <1>13, <1>15, <1>16 DEF NodeSound

(***************************************************************************)
(* Connecting a port.                                                       *)
(***************************************************************************)
\* What the callers rely on besides the invariant.
Frame(n, m) == m.actors = n.actors /\ m.phase = n.phase

\* cc_port_set_state as the last call for the port.
LEMMA SettleSound ==
  ASSUME NEW n, NEW px, NEW X, NodeSound(n, px, X), NEW p \in Port, X \subseteq {p},
         NEW s \in PortState, NEW m, m = cc_port_set_state(n, p, s),
         CanBe(n, p, s)
  PROVE  /\ NodeSound(m, px, {}) /\ Frame(n, m) /\ m.tunnel = n.tunnel
         /\ m.port[p].tunnel = n.port[p].tunnel /\ m.port[p].state = s
         /\ \A q \in Port : q # p => m.port[q] = n.port[q]
<1>1. X \ {p} = {}
  OBVIOUS
<1>2. NodeSound(m, px, X \ {p})
  BY SetStateSound
<1>3. n \in NodeType
  BY DEF NodeSound
<1>4. /\ PortsOnly(n, m) /\ m.port[p].tunnel = n.port[p].tunnel /\ m.port[p].state = s
      /\ \A q \in Port : q # p => m.port[q] = n.port[q]
  BY <1>3, SetStateFacts
<1>5. NodeSound(m, px, {})
  BY <1>1, <1>2
<1> QED
  BY <1>4, <1>5 DEF PortsOnly, Frame

\* Two ports of this node are connected.
Joined(k, x, y) ==
  cc_port_set_state([k EXCEPT !.port[x] = [@ EXCEPT !.peer_port = y, !.peer_id = Self]], x, "ENABLED")

\* One end of a local connection: the port is enabled and needs no tunnel.
LEMMA JoinedSound ==
  ASSUME NEW n, NEW px, NEW X, NodeSound(n, px, X), NEW x \in Port, NEW y \in Port,
         NEW m, m = Joined(n, x, y)
  PROVE  NodeSound(m, px, X \ {x}) /\ Frame(n, m)
<1> DEFINE v == SetPeers(n.port[x], y, Self)
           k == PutPort(n, x, v)
<1>1. m = cc_port_set_state(k, x, "ENABLED")
  BY DEF Joined, PutPort, SetPeers
<1>2. n \in NodeType
  BY DEF NodeSound
<1>3. n.port[x] \in PortType /\ Self \in Runtime \cup {None} /\ y \in Port \cup {None, Freed}
  BY <1>2, PortFields DEF Runtime
<1>4. v \in PortType /\ v.state = n.port[x].state /\ v.tunnel = n.port[x].tunnel
  BY <1>3, SetPeersFacts
<1> HIDE DEF v
<1>5. NodeSound(k, px, X) /\ PortsOnly(n, k)
  BY <1>4, MinorPort
<1> HIDE DEF k
<1>6. k \in NodeType /\ "ENABLED" \in PortState /\ CanBe(k, x, "ENABLED")
  BY <1>5 DEF NodeSound, PortState, CanBe
<1>7. PortsOnly(k, m)
  BY <1>1, <1>6, SetStateFacts
<1>8. NodeSound(m, px, X \ {x})
  BY <1>1, <1>5, <1>6, SetStateSound
<1> QED
  BY <1>5, <1>7, <1>8 DEF PortsOnly, Frame

\* cc_port_connect_local: both ends, the tunnel reference of the port given back first.
LEMMA ConnectLocalSound ==
  ASSUME NEW n, NEW px, NEW X, NodeSound(n, px, X), NEW p \in Port, X \subseteq {p}, PeerOf[p] # None,
         NEW m, m = cc_port_connect_local(n, p)
  PROVE  NodeSound(m, px, {}) /\ Frame(n, m)
<1> DEFINE q == PeerOf[p]
           n1 == Unref(n, p)
           n2 == Unref(n1, q)
           n3 == Joined(n2, p, q)
<1>1. m = Joined(n3, q, p)
  BY DEF cc_port_connect_local, Joined
<1>2. q \in Port
  BY PortAssumption
<1> HIDE DEF q, n1, n2, n3
<1>3. NodeSound(n1, px, X \cup {p}) /\ Frame(n, n1)
  BY UnrefSound DEF n1, Frame
<1>4. NodeSound(n2, px, (X \cup {p}) \cup {q}) /\ Frame(n1, n2)
  BY <1>2, <1>3, UnrefSound DEF n2, Frame
<1>5. NodeSound(n3, px, ((X \cup {p}) \cup {q}) \ {p}) /\ Frame(n2, n3)
  BY <1>2, <1>4, JoinedSound DEF n3
<1>6. NodeSound(m, px, (((X \cup {p}) \cup {q}) \ {p}) \ {q}) /\ Frame(n3, m)
  BY <1>1, <1>2, <1>5, JoinedSound
<1>7. (((X \cup {p}) \cup {q}) \ {p}) \ {q} = {}
  OBVIOUS
<1>8. NodeSound(m, px, {})
  BY <1>6, <1>7
<1> QED
  BY <1>3, <1>4, <1>5, <1>6, <1>8 DEF Frame

\* cc_port_connect_with_pending_tunnel: a port that then waits has its request under way.
LEMMA PendingTunnelSound ==
  ASSUME NEW n, NEW px, NodeSound(n, px, {}), NEW p \in Port,
         NEW m, m = cc_port_connect_with_pending_tunnel(n, p)
  PROVE  NodeSound(m, px, {}) /\ Frame(n, m)
<1>1. "PENDING_CONNECT" \in PortState /\ "DISCONNECTED" \in PortState /\ {p} \subseteq {p}
  BY DEF PortState
<1>2. CASE n.tunnel[n.port[p].tunnel].state = "PENDING"
  BY <1>2 DEF cc_port_connect_with_pending_tunnel, Frame
<1>3. CASE n.tunnel[n.port[p].tunnel].state # "PENDING" /\ TunnelUsable(n, p)
  <2> DEFINE q == <<"connect", p>>
             k == Await(n, q)
  <2>1. m = cc_port_set_state(k, p, "PENDING_CONNECT")
    BY <1>3 DEF cc_port_connect_with_pending_tunnel
  <2>2. q \in Request
    BY Requests
  <2> HIDE DEF q
  <2>3. NodeSound(k, px, {}) /\ k.pending[q] > 0 /\ Frame(n, k)
    BY <2>2, AwaitSound DEF Frame
  <2> HIDE DEF k
  <2>4. CanBe(k, p, "PENDING_CONNECT") /\ {} \subseteq {p}
    BY <2>3 DEF q, CanBe
  <2>5. NodeSound(m, px, {}) /\ Frame(k, m)
    BY <1>1, <2>1, <2>3, <2>4, SettleSound
  <2> QED
    BY <2>3, <2>5 DEF Frame
<1>4. CASE n.tunnel[n.port[p].tunnel].state # "PENDING" /\ ~TunnelUsable(n, p)
  <2> DEFINE k == Unref(n, p)
  <2>1. m = cc_port_set_state(k, p, "DISCONNECTED")
    BY <1>4 DEF cc_port_connect_with_pending_tunnel
  <2>2. NodeSound(k, px, {} \cup {p}) /\ Frame(n, k) /\ {} \cup {p} \subseteq {p}
    BY UnrefSound DEF Frame
  <2> HIDE DEF k
  <2>3. CanBe(k, p, "DISCONNECTED")
    BY DEF CanBe
  <2>4. NodeSound(m, px, {}) /\ Frame(k, m)
    BY <1>1, <2>1, <2>2, <2>3, SettleSound
  <2> QED
    BY <2>2, <2>4 DEF Frame
<1> QED
  BY <1>2, <1>3, <1>4

\* cc_port_get_tunnel: either the node is sound with the reference taken, or it is
\* as sound as before and the port still has no tunnel.
LEMMA GetTunnelSound ==
  ASSUME NEW n, NEW px, NEW X, NodeSound(n, px, X), NEW p \in Port, X \subseteq {p}, Exists(n, p),
         n.port[p].tunnel = None, n.port[p].peer_id # None, NEW m, m = cc_port_get_tunnel(n, p)
  PROVE  /\ NodeSound(m, px, {}) \/ (NodeSound(m, px, X) /\ m.port[p].tunnel = None)
         /\ Frame(n, m)
<1> DEFINE r == n.port[p].peer_id
           k == IF Open(n, r) THEN n ELSE cc_tunnel_create(n, r, "DISCONNECTED")
           v == SetTunnel(cc_tunnel_add_ref(k, r).port[p], r)
           h == PutPort(cc_tunnel_add_ref(k, r), p, v)
<1>1. m = IF Open(k, r) THEN cc_port_set_state(h, p, "PENDING_TUNNEL") ELSE k
  BY DEF cc_port_get_tunnel, PutPort, SetTunnel
<1>2. n \in NodeType
  BY DEF NodeSound
<1>3. r \in Runtime /\ "DISCONNECTED" \in {"ENABLED", "DISCONNECTED"}
  BY <1>2, PortFields
<1> HIDE DEF r
<1>4. NodeSound(k, px, X) /\ k.port = n.port /\ Frame(n, k)
  <2>1. CASE Open(n, r)
    BY <2>1 DEF Frame
  <2>2. CASE ~Open(n, r)
    <3> DEFINE j == cc_tunnel_create(n, r, "DISCONNECTED")
    <3>1. k = j
      BY <2>2
    <3> HIDE DEF j
    <3>2. NodeSound(j, px, X) /\ j.actors = n.actors /\ j.port = n.port /\ j.phase = n.phase
      BY <1>3, <2>2, CreateSound DEF j
    <3> QED
      BY <3>1, <3>2 DEF Frame
  <2> QED
    BY <2>1, <2>2
<1> HIDE DEF k
<1>5. CASE ~Open(k, r)
  BY <1>1, <1>4, <1>5
<1>6. CASE Open(k, r)
  <2>1. k \in NodeType
    BY <1>4 DEF NodeSound
  <2>2. cc_tunnel_add_ref(k, r).port = k.port
    BY <2>1 DEF cc_tunnel_add_ref, NodeType
  <2>3. v = SetTunnel(k.port[p], r) /\ k.port[p] \in PortType /\ r \in Runtime \cup {None}
    BY <1>3, <2>1, <2>2, PortFields
  <2> HIDE DEF v
  <2>4. v \in PortType /\ v.tunnel = r /\ v.state = k.port[p].state
    BY <2>3, SetTunnelFacts
  <2>5. Exists(k, p) /\ k.port[p].tunnel = None
    BY <1>4 DEF Exists, Frame
  <2>6. h = PutPort(cc_tunnel_add_ref(k, r), p, v)
    OBVIOUS
  <2> HIDE DEF h
  <2>7. NodeSound(h, px, X \cup {p}) /\ h.port[p] = v /\ Frame(k, h)
    BY <1>3, <1>4, <1>6, <2>4, <2>5, <2>6, HoldSound DEF Frame
  <2>8. CanBe(h, p, "PENDING_TUNNEL")
    BY <1>3, <2>4, <2>7, RuntimeAssumption DEF CanBe
  <2>9. "PENDING_TUNNEL" \in PortState /\ X \cup {p} \subseteq {p}
    BY DEF PortState
  <2>10. m = cc_port_set_state(h, p, "PENDING_TUNNEL")
    BY <1>1, <1>6
  <2>11. NodeSound(m, px, {}) /\ Frame(h, m)
    BY <2>7, <2>8, <2>9, <2>10, SettleSound
  <2> QED
    BY <1>4, <2>7, <2>11 DEF Frame
<1> QED
  BY <1>5, <1>6

\* cc_port_do_peer_lookup: a port that then waits has its request under way.
LEMMA LookupSound ==
  ASSUME NEW n, NEW px, NodeSound(n, px, {}), NEW p \in Port, n.port[p].tunnel = None,
         NEW m, m = cc_port_do_peer_lookup(n, p)
  PROVE  NodeSound(m, px, {}) /\ Frame(n, m)
<1>1. "PENDING_LOOKUP" \in PortState /\ "DISCONNECTED" \in PortState /\ {} \subseteq {p}
  BY DEF PortState
<1>2. CASE CanSend
  <2> DEFINE q == <<"lookup", p>>
             k == Await(n, q)
  <2>1. m = cc_port_set_state(k, p, "PENDING_LOOKUP")
    BY <1>2 DEF cc_port_do_peer_lookup
  <2>2. q \in Request
    BY Requests
  <2> HIDE DEF q
  <2>3. NodeSound(k, px, {}) /\ k.pending[q] > 0 /\ Frame(n, k) /\ k.port = n.port
    BY <2>2, AwaitSound DEF Frame
  <2> HIDE DEF k
  <2>4. CanBe(k, p, "PENDING_LOOKUP")
    BY <2>3 DEF q, CanBe
  <2>5. NodeSound(m, px, {}) /\ Frame(k, m)
    BY <1>1, <2>1, <2>3, <2>4, SettleSound
  <2> QED
    BY <2>3, <2>5 DEF Frame
<1>3. CASE ~CanSend
  <2>1. m = cc_port_set_state(n, p, "DISCONNECTED")
    BY <1>3 DEF cc_port_do_peer_lookup
  <2>2. CanBe(n, p, "DISCONNECTED")
    BY DEF CanBe
  <2> QED
    BY <1>1, <2>1, <2>2, SettleSound
<1> QED
  BY <1>2, <1>3

\* The end of cc_port_connect: the tunnel is given back and the peer is looked up.
LEMMA LookUpInsteadSound ==
  ASSUME NEW n, NEW px, NEW X, NodeSound(n, px, X), NEW p \in Port, X \subseteq {p},
         NEW m, m = LookUpInstead(n, p)
  PROVE  NodeSound(m, px, {}) /\ Frame(n, m)
<1> DEFINE k == Unref(n, p)
           v == SetPeer(k.port[p], None)
           h == PutPort(k, p, v)
           g == cc_port_set_state(h, p, "DISCONNECTED")
<1>1. m = cc_port_do_peer_lookup(g, p)
  BY DEF LookUpInstead, PutPort, SetPeer
<1>2. NodeSound(k, px, X \cup {p}) /\ Frame(n, k) /\ k.port[p].tunnel = None /\ X \cup {p} \subseteq {p}
  BY UnrefSound DEF Frame
<1> HIDE DEF k
<1>3. k.port[p] \in PortType /\ None \in Runtime \cup {None}
  BY <1>2, PortFields DEF NodeSound
<1>4. v \in PortType /\ v.state = k.port[p].state /\ v.tunnel = k.port[p].tunnel
  BY <1>3, SetPeerFacts
<1> HIDE DEF v
<1>5. NodeSound(h, px, X \cup {p}) /\ PortsOnly(k, h) /\ h.port[p] = v
  BY <1>2, <1>4, MinorPort
<1> HIDE DEF h
<1>6. CanBe(h, p, "DISCONNECTED") /\ "DISCONNECTED" \in PortState
  BY DEF CanBe, PortState
<1>7. NodeSound(g, px, {}) /\ Frame(h, g) /\ g.port[p].tunnel = h.port[p].tunnel
  BY <1>2, <1>5, <1>6, SettleSound
<1> HIDE DEF g
<1>8. g.port[p].tunnel = None
  BY <1>2, <1>4, <1>5, <1>7
<1>9. NodeSound(m, px, {}) /\ Frame(g, m)
  BY <1>1, <1>7, <1>8, LookupSound
<1> QED
  BY <1>2, <1>5, <1>7, <1>9 DEF Frame, PortsOnly

\* cc_port_connect keeps the invariant, whichever way it takes.
LEMMA ConnectSound ==
  ASSUME NEW n, NEW px, NEW X, NodeSound(n, px, X), NEW p \in Port, Exists(n, p),
         X = {} \/ (X = {p} /\ n.port[p].tunnel = None /\ n.port[p].state # "ENABLED"),
         NEW m, m = cc_port_connect(n, p)
  PROVE  /\ NodeSound(m, px, {}) \/ (m.full /\ X = {p})
         /\ Frame(n, m)
<1> DEFINE v == SetRetries(n.port[p], n.port[p].retries + 1)
           t == PutPort(n, p, v)
           k == IF t.port[p].tunnel = None /\ t.port[p].peer_id # None
                THEN cc_port_get_tunnel(t, p) ELSE t
<1>1. m = IF n.port[p].state = "ENABLED" THEN n
          ELSE IF n.port[p].retries = MaxRetries THEN cc_port_set_state(n, p, "DO_DELETE")
          ELSE IF LocalPeer(n, p) THEN cc_port_connect_local(t, p)
          ELSE IF k.full THEN k
          ELSE IF k.port[p].tunnel # None /\ TunnelUsable(k, p)
          THEN cc_port_connect_with_pending_tunnel(k, p)
          ELSE LookUpInstead(k, p)
  BY DEF cc_port_connect, PutPort, SetRetries
<1> DEFINE bare == n.port[p].tunnel = None
<1>0. X \subseteq {p} /\ (X = {} \/ (X = {p} /\ bare /\ n.port[p].state # "ENABLED"))
  OBVIOUS
<1> HIDE DEF bare
<1>2. CASE n.port[p].state = "ENABLED"
  BY <1>0, <1>1, <1>2 DEF Frame
<1>3. CASE n.port[p].state # "ENABLED" /\ n.port[p].retries = MaxRetries
  <2>1. m = cc_port_set_state(n, p, "DO_DELETE")
    BY <1>1, <1>3
  <2>2. CanBe(n, p, "DO_DELETE") /\ "DO_DELETE" \in PortState
    BY DEF CanBe, PortState
  <2> QED
    BY <1>0, <2>1, <2>2, SettleSound
<1>4. CASE n.port[p].state # "ENABLED" /\ n.port[p].retries # MaxRetries
  <2>1. n \in NodeType
    BY DEF NodeSound
  <2>2. n.port[p] \in PortType /\ n.port[p].retries + 1 \in 0 .. MaxRetries
    BY <1>4, <2>1, PortFields, BoundAssumption
  <2>3. v \in PortType /\ v.state = n.port[p].state /\ v.tunnel = n.port[p].tunnel
    BY <2>2, SetRetriesFacts
  <2> HIDE DEF v
  <2>4. NodeSound(t, px, X) /\ PortsOnly(n, t) /\ t.port[p] = v
    BY <2>3, MinorPort
  <2> HIDE DEF t
  <2>5. Frame(n, t) /\ Exists(t, p)
    BY <2>4 DEF PortsOnly, Frame, Exists
  <2>6. CASE LocalPeer(n, p)
    <3>1. m = cc_port_connect_local(t, p) /\ PeerOf[p] # None
      BY <1>1, <1>4, <2>6 DEF LocalPeer
    <3>2. NodeSound(m, px, {}) /\ Frame(t, m)
      BY <1>0, <2>4, <3>1, ConnectLocalSound
    <3> QED
      BY <2>5, <3>2 DEF Frame
  <2>7. CASE ~LocalPeer(n, p)
    <3>1. /\ Frame(t, k) /\ (NodeSound(k, px, {}) \/ NodeSound(k, px, X))
          /\ NodeSound(k, px, {}) \/ k.port[p].tunnel = None
      <4>1. CASE t.port[p].tunnel = None /\ t.port[p].peer_id # None
        <5> DEFINE j == cc_port_get_tunnel(t, p)
        <5>1. k = j
          BY <4>1
        <5> HIDE DEF j, k
        <5>2. /\ NodeSound(j, px, {}) \/ (NodeSound(j, px, X) /\ j.port[p].tunnel = None)
              /\ Frame(t, j)
          BY <1>0, <2>4, <2>5, <4>1, GetTunnelSound DEF j
        <5> QED
          BY <5>1, <5>2
      <4>2. CASE ~(t.port[p].tunnel = None /\ t.port[p].peer_id # None)
        <5>1. k = t
          BY <4>2
        <5>2. X = {} \/ t.port[p].tunnel = None
          BY <1>0, <2>3, <2>4 DEF bare
        <5> HIDE DEF k
        <5> QED
          BY <2>4, <5>1, <5>2 DEF Frame
      <4> QED
        BY <4>1, <4>2
    <3> HIDE DEF k
    <3>2. \/ m = k /\ m.full
          \/ m = cc_port_connect_with_pending_tunnel(k, p) /\ k.port[p].tunnel # None
          \/ m = LookUpInstead(k, p)
      BY <1>1, <1>4, <2>7
    <3>3. Frame(k, m) /\ (NodeSound(m, px, {}) \/ (m.full /\ X = {p}))
      <4>1. CASE m = k /\ m.full
        BY <1>0, <3>1, <4>1 DEF Frame
      <4>2. CASE m = cc_port_connect_with_pending_tunnel(k, p) /\ k.port[p].tunnel # None
        BY <3>1, <4>2, PendingTunnelSound
      <4>3. CASE m = LookUpInstead(k, p)
        <5>1. PICK Y : NodeSound(k, px, Y) /\ Y \subseteq {p}
          BY <1>0, <3>1
        <5> QED
          BY <4>3, <5>1, LookUpInsteadSound
      <4> QED
        BY <3>2, <4>1, <4>2, <4>3
    <3> QED
      BY <2>5, <3>1, <3>3 DEF Frame
  <2> QED
    BY <2>6, <2>7
<1> QED
  BY <1>2, <1>3, <1>4

\* Giving an actor a state.
PutActor(n, a, s) == [n EXCEPT !.actor[a] = s]

\* Storing the state of one actor; it may be enabled only if its ports are.
LEMMA PutActorFacts ==
  ASSUME NEW n \in NodeType, ActorsSound(n), NEW a \in Actor, NEW s \in ActorState,
         s = "ENABLED" => \A p \in Port : Owner(p) = a => n.port[p].state = "ENABLED",
         NEW m, m = PutActor(n, a, s)
  PROVE  m \in NodeType /\ PortsOnly(n, m) /\ m.port = n.port /\ ActorsSound(m)
<1> DEFINE x == [n.actor EXCEPT ![a] = s]
<1>1. m = WithActor(n, x)
  BY DEF WithActor, PutActor
<1>2. x \in [Actor -> ActorState] /\ x[a] = s /\ \A b \in Actor : b # a => x[b] = n.actor[b]
  BY NodeFields
<1> HIDE DEF x
<1>3. /\ m \in NodeType /\ m.actor = x /\ m.port = n.port /\ PortsOnly(n, m)
  BY <1>1, <1>2, WithActorFacts DEF PortsOnly
<1>4. ActorsSound(m)
  <2> SUFFICES ASSUME NEW p \in Port, m.actor[Owner(p)] = "ENABLED" PROVE m.port[p].state = "ENABLED"
    BY DEF ActorsSound
  <2>1. Owner(p) \in Actor
    BY PortOwner
  <2> QED
    BY <1>2, <1>3, <2>1 DEF ActorsSound
<1> QED
  BY <1>3, <1>4

\* The same for a sound node.
LEMMA SetActorSound ==
  ASSUME NEW n, NEW px, NEW X, NodeSound(n, px, X), NEW a \in Actor, NEW s \in ActorState,
         s = "ENABLED" => \A p \in Port : Owner(p) = a => n.port[p].state = "ENABLED",
         NEW m, m = PutActor(n, a, s)
  PROVE  NodeSound(m, px, X) /\ Frame(n, m) /\ m.port = n.port /\ m.tunnel = n.tunnel
<1>1. n \in NodeType /\ RefsSound(n, px) /\ ActorsSound(n) /\ RequestsSound(n, X)
  BY DEF NodeSound
<1>2. m \in NodeType /\ PortsOnly(n, m) /\ m.port = n.port /\ ActorsSound(m)
  BY <1>1, PutActorFacts
<1>3. RefsSound(m, px)
  BY <1>1, <1>2, SameRefs DEF PortsOnly
<1>4. RequestsSound(m, X)
  BY <1>1, <1>2 DEF RequestsSound, TunnelsSound, PortSound, Exists, Open, PortsOnly
<1> QED
  BY <1>2, <1>3, <1>4 DEF NodeSound, Frame, PortsOnly

(***************************************************************************)
(* The loops over the ports of an actor and over the actors.                *)
(***************************************************************************)
\* The states a loop goes through.
Reached(n, px) == {m \in NodeType : NodeSound(m, px, {}) /\ Frame(n, m)}
OwnPorts(a) == {p \in Port : Owner(p) = a}

\* The ports of an actor are the elements of its list of ports.
LEMMA OwnPortsFacts ==
  ASSUME NEW a \in Actor
  PROVE  /\ PortsOf[a] \in Seq(OwnPorts(a))
         /\ \A p \in OwnPorts(a) : p \in Port /\ \E i \in 1 .. Len(PortsOf[a]) : PortsOf[a][i] = p
         /\ Range(PortsOf[a]) = OwnPorts(a)
<1>1. PortsOf[a] \in Seq(Port) /\ \A i \in DOMAIN PortsOf[a] : PortsOf[a][i] \in Port /\ Owner(PortsOf[a][i]) = a
  BY PortOwner
<1>2. \A i \in DOMAIN PortsOf[a] : PortsOf[a][i] \in OwnPorts(a)
  BY <1>1 DEF OwnPorts
<1>3. Len(PortsOf[a]) \in Nat /\ DOMAIN PortsOf[a] = 1 .. Len(PortsOf[a])
  BY <1>1, Indexes
<1>4. PortsOf[a] \in Seq(OwnPorts(a))
  <2>1. PortsOf[a] \in [1 .. Len(PortsOf[a]) -> OwnPorts(a)]
    BY <1>1, <1>2, <1>3
  <2> QED
    BY <1>3, <2>1, SeqDef
<1>5. \A p \in OwnPorts(a) : p \in Port /\ \E i \in DOMAIN PortsOf[a] : PortsOf[a][i] = p
  BY PortOwner DEF OwnPorts
<1>6. Range(PortsOf[a]) = OwnPorts(a)
  BY <1>2, <1>5 DEF Range
<1> QED
  BY <1>3, <1>4, <1>5, <1>6

ConnectLoop == INSTANCE Folding WITH Op <- ConnectNext

\* The loop of cc_actor_connect_ports is a fold of the module Folding.
LEMMA ConnectLoopIs ==
  ASSUME NEW b, NEW s
  PROVE  FoldLeft(ConnectNext, b, s) = ConnectLoop!Fold(b, s)
BY DEF ConnectLoop!Fold, ConnectLoop!FoldLeft, ConnectLoop!MapThenFoldSet, ConnectLoop!Max,
       FoldLeft, MapThenFoldSet, Max

\* The states of the loop of cc_actor_connect_ports: while the actor counts as
\* enabled nothing has been done.
Connecting(n, px) ==
  {z \in [node : NodeType, state : {"ENABLED", "PENDING"}] :
     /\ NodeSound(z.node, px, {}) /\ Frame(n, z.node)
     /\ z.state = "ENABLED" => z.node = n}

\* One pass of that loop: it keeps the node sound, and ends "ENABLED" only if it
\* was and the port is.
LEMMA ConnectNextSound ==
  ASSUME NEW n, NEW px, NEW a \in Actor, a \in Range(n.actors),
         NEW z \in Connecting(n, px), NEW p \in OwnPorts(a)
  PROVE  /\ ConnectNext(z, p) \in Connecting(n, px)
         /\ ConnectNext(z, p).state = "ENABLED" => z.state = "ENABLED" /\ n.port[p].state = "ENABLED"
<1>1. /\ z.node \in NodeType /\ z.state \in {"ENABLED", "PENDING"}
      /\ NodeSound(z.node, px, {}) /\ Frame(n, z.node)
      /\ z.state = "ENABLED" => z.node = n
  BY DEF Connecting
<1>2. CASE z.node.port[p].state = "ENABLED"
  <2>1. ConnectNext(z, p) = z
    BY <1>2 DEF ConnectNext
  <2> QED
    BY <1>1, <1>2, <2>1
<1>3. CASE z.node.port[p].state # "ENABLED"
  <2> DEFINE m == cc_port_connect(z.node, p)
  <2>1. ConnectNext(z, p) = [node |-> m, state |-> "PENDING"]
    BY <1>3 DEF ConnectNext
  <2> HIDE DEF m
  <2>2. p \in Port /\ Exists(z.node, p)
    BY <1>1 DEF OwnPorts, Exists, Frame
  <2>3. NodeSound(m, px, {}) /\ Frame(z.node, m)
    <3>1. {} # {p}
      OBVIOUS
    <3> QED
      BY <1>1, <2>2, <3>1, ConnectSound DEF m
  <2>4. m \in NodeType /\ Frame(n, m)
    BY <1>1, <2>3 DEF NodeSound, Frame
  <2>5. [node |-> m, state |-> "PENDING"] \in Connecting(n, px)
    BY <2>3, <2>4 DEF Connecting
  <2> QED
    BY <2>1, <2>5
<1> QED
  BY <1>2, <1>3

\* cc_actor_connect_ports keeps the invariant.
LEMMA ConnectPortsSound ==
  ASSUME NEW n, NEW px, NodeSound(n, px, {}), NEW a \in Actor, a \in Range(n.actors),
         NEW m, m = cc_actor_connect_ports(n, a)
  PROVE  NodeSound(m, px, {}) /\ Frame(n, m)
<1> DEFINE s == PortsOf[a]
           base == [node |-> n, state |-> "ENABLED"]
           done == ConnectLoop!Fold(base, s)
           S == Connecting(n, px)
<1>1. m = [done.node EXCEPT !.actor[a] = done.state]
  BY ConnectLoopIs DEF cc_actor_connect_ports
<1>2. /\ s \in Seq(OwnPorts(a))
      /\ \A p \in OwnPorts(a) : p \in Port /\ \E i \in 1 .. Len(s) : s[i] = p
  BY OwnPortsFacts
<1> HIDE DEF s
<1>3. Len(s) \in Nat /\ \A i \in 1 .. Len(s) : s[i] \in OwnPorts(a)
  BY <1>2
<1>4. base \in S
  <2>1. n \in NodeType /\ Frame(n, n)
    BY DEF NodeSound, Frame
  <2> QED
    BY <2>1 DEF Connecting
<1> HIDE DEF base
<1>5. ConnectLoop!Runs(S, OwnPorts(a), base, s)
  <2>1. ConnectLoop!Closed(S, OwnPorts(a))
    BY ConnectNextSound DEF ConnectLoop!Closed
  <2> HIDE DEF S
  <2> QED
    BY <1>2, <1>4, <2>1, ConnectLoop!FoldRuns
<1>6. PICK r \in [0 .. Len(s) -> S] :
        /\ r[0] = base /\ r[Len(s)] = done
        /\ \A k \in 1 .. Len(s) : r[k] = ConnectNext(r[k - 1], s[k])
  BY <1>5 DEF ConnectLoop!Runs
<1> HIDE DEF done
<1> DEFINE K == {k \in Nat : k <= Len(s) => (r[k].state = "ENABLED" =>
                               \A i \in 1 .. k : n.port[s[i]].state = "ENABLED")}
<1>7. 0 \in K
  OBVIOUS
<1>8. ASSUME NEW k \in Nat, k \in K PROVE k + 1 \in K
  <2> SUFFICES ASSUME k + 1 <= Len(s), r[k + 1].state = "ENABLED", NEW i \in 1 .. k + 1
               PROVE  n.port[s[i]].state = "ENABLED"
    OBVIOUS
  <2>1. k + 1 \in 1 .. Len(s) /\ k \in 0 .. Len(s) /\ (k + 1) - 1 = k
    BY <1>3
  <2>2. r[k + 1] = ConnectNext(r[k], s[k + 1]) /\ r[k] \in S /\ s[k + 1] \in OwnPorts(a)
    BY <1>3, <1>6, <2>1
  <2>3. r[k].state = "ENABLED" /\ n.port[s[k + 1]].state = "ENABLED"
    BY <2>2, ConnectNextSound
  <2>4. i = k + 1 \/ i \in 1 .. k
    OBVIOUS
  <2> QED
    BY <1>3, <1>8, <2>3, <2>4
<1> HIDE DEF K
<1>9. Len(s) \in K
  BY <1>3, <1>7, <1>8, SetInduction
<1>10. done \in S
  BY <1>3, <1>6
<1>11. /\ NodeSound(done.node, px, {}) /\ Frame(n, done.node) /\ done.state \in ActorState
       /\ done.state = "ENABLED" => done.node = n
  BY <1>10 DEF Connecting, ActorState
<1>12. ASSUME done.state = "ENABLED", NEW p \in Port, Owner(p) = a
       PROVE  done.node.port[p].state = "ENABLED"
  <2>1. PICK i \in 1 .. Len(s) : s[i] = p
    BY <1>2, <1>12 DEF OwnPorts
  <2>2. n.port[p].state = "ENABLED"
    BY <1>6, <1>9, <1>12, <2>1 DEF K
  <2> QED
    BY <1>11, <1>12, <2>2
<1>13. NodeSound(m, px, {}) /\ Frame(done.node, m)
  <2> DEFINE d == done.node
             st == done.state
  <2>1. m = PutActor(d, a, st) /\ NodeSound(d, px, {}) /\ st \in ActorState
    BY <1>1, <1>11 DEF PutActor
  <2>2. st = "ENABLED" => \A p \in Port : Owner(p) = a => d.port[p].state = "ENABLED"
    BY <1>12
  <2> HIDE DEF d, st
  <2>3. NodeSound(m, px, {}) /\ Frame(d, m)
    BY <2>1, <2>2, SetActorSound
  <2> QED
    BY <2>3 DEF d
<1> QED
  BY <1>11, <1>13 DEF Frame

\* cc_port_disconnect keeps the invariant.
LEMMA DisconnectSound ==
  ASSUME NEW n, NEW px, NodeSound(n, px, {}), NEW p \in Port, NEW m, m = cc_port_disconnect(n, p, TRUE)
  PROVE  NodeSound(m, px, {}) /\ Frame(n, m)
<1> DEFINE q == n.port[p].peer_port
           u == Unref(n, p)
           k == IF q \in Port THEN cc_port_set_state(u, q, "DISCONNECTED") ELSE u
           v == SetPeers(k.port[p], None, None)
           h == PutPort(k, p, v)
<1>1. m = cc_port_set_state(h, p, "DISCONNECTED")
  BY DEF cc_port_disconnect, PutPort, SetPeers
<1> HIDE DEF q
<1>2. NodeSound(u, px, {} \cup {p}) /\ Frame(n, u)
  BY UnrefSound DEF Frame
<1> HIDE DEF u
<1>3. NodeSound(k, px, {p}) /\ Frame(u, k)
  <2>1. CASE q \in Port
    <3> DEFINE j == cc_port_set_state(u, q, "DISCONNECTED")
    <3>1. k = j
      BY <2>1
    <3> HIDE DEF k, j
    <3>2. CanBe(u, q, "DISCONNECTED") /\ "DISCONNECTED" \in PortState /\ u \in NodeType
      BY <1>2 DEF CanBe, PortState, NodeSound
    <3>3. NodeSound(j, px, ({} \cup {p}) \ {q})
      BY <1>2, <2>1, <3>2, SetStateSound DEF j
    <3>4. PortsOnly(u, j)
      BY <2>1, <3>2, SetStateFacts DEF j
    <3>5. RequestsSound(j, {p})
      BY <3>3 DEF NodeSound, RequestsSound
    <3> QED
      BY <3>1, <3>3, <3>4, <3>5 DEF NodeSound, PortsOnly, Frame
  <2>2. CASE q \notin Port
    <3>1. k = u /\ {} \cup {p} = {p}
      BY <2>2
    <3> HIDE DEF k
    <3> QED
      BY <1>2, <3>1 DEF Frame
  <2> QED
    BY <2>1, <2>2
<1> HIDE DEF k
<1>4. /\ k.port[p] \in PortType
      /\ None \in Runtime \cup {None} /\ None \in Port \cup {None, Freed}
  BY <1>3, PortFields DEF NodeSound
<1>5. v \in PortType /\ v.state = k.port[p].state /\ v.tunnel = k.port[p].tunnel
  BY <1>4, SetPeersFacts
<1> HIDE DEF v
<1>6. NodeSound(h, px, {p}) /\ PortsOnly(k, h)
  BY <1>3, <1>5, MinorPort
<1> HIDE DEF h
<1>7. CanBe(h, p, "DISCONNECTED") /\ "DISCONNECTED" \in PortState /\ {p} \subseteq {p}
  BY DEF CanBe, PortState
<1>8. NodeSound(m, px, {}) /\ Frame(h, m)
  BY <1>1, <1>6, <1>7, SettleSound
<1> QED
  BY <1>2, <1>3, <1>6, <1>8 DEF Frame, PortsOnly

\* A state of a loop.
LEMMA ReachedFacts ==
  ASSUME NEW n, NEW px
  PROVE  /\ NodeSound(n, px, {}) => n \in Reached(n, px)
         /\ \A m \in Reached(n, px) : NodeSound(m, px, {}) /\ Frame(n, m)
         /\ \A m \in Reached(n, px) : \A k :
              NodeSound(k, px, {}) /\ Frame(m, k) => k \in Reached(n, px)
BY DEF Reached, NodeSound, Frame

DisconnectLoop == INSTANCE Folding WITH Op <- LAMBDA k, p : cc_port_disconnect(k, p, TRUE)

\* The loop of cc_actor_disconnect is a fold of the module Folding.
LEMMA DisconnectLoopIs ==
  ASSUME NEW b, NEW s
  PROVE  FoldLeft(LAMBDA k, p : cc_port_disconnect(k, p, TRUE), b, s) = DisconnectLoop!Fold(b, s)
BY DEF DisconnectLoop!Fold, DisconnectLoop!FoldLeft, DisconnectLoop!MapThenFoldSet, DisconnectLoop!Max,
       FoldLeft, MapThenFoldSet, Max

\* All ports of an actor are disconnected when it migrates.
LEMMA DisconnectAllSound ==
  ASSUME NEW n, NEW px, NodeSound(n, px, {}), NEW a \in Actor,
         NEW m, m = DisconnectLoop!Fold(n, PortsOf[a])
  PROVE  NodeSound(m, px, {}) /\ Frame(n, m)
<1>1. m = DisconnectLoop!Fold(n, PortsOf[a])
  OBVIOUS
<1>2. DisconnectLoop!Closed(Reached(n, px), Port)
  BY DisconnectSound, ReachedFacts DEF DisconnectLoop!Closed
<1>3. n \in Reached(n, px) /\ PortsOf[a] \in Seq(Port)
  BY ReachedFacts, PortOwner
<1>4. DisconnectLoop!Fold(n, PortsOf[a]) \in Reached(n, px)
  BY <1>2, <1>3, DisconnectLoop!FoldStays
<1> QED
  BY <1>1, <1>4, ReachedFacts

TransmitLoop == INSTANCE Folding WITH Op <- cc_port_transmit

\* The loop of fire_actors is a fold of the module Folding.
LEMMA TransmitLoopIs ==
  ASSUME NEW b, NEW s
  PROVE  FoldLeft(cc_port_transmit, b, s) = TransmitLoop!Fold(b, s)
BY DEF TransmitLoop!Fold, TransmitLoop!FoldLeft, TransmitLoop!MapThenFoldSet, TransmitLoop!Max,
       FoldLeft, MapThenFoldSet, Max

\* cc_port_transmit: at most another attempt to connect.
LEMMA TransmitSound ==
  ASSUME NEW n, NEW px, NodeSound(n, px, {}), NEW p \in Port, NEW m, m = cc_port_transmit(n, p)
  PROVE  NodeSound(m, px, {}) /\ Frame(n, m)
<1>1. m = n \/ m = cc_port_connect_with_pending_tunnel(n, p)
  BY DEF cc_port_transmit
<1>2. CASE m = n
  BY <1>2 DEF Frame
<1>3. CASE m = cc_port_connect_with_pending_tunnel(n, p)
  BY <1>3, PendingTunnelSound
<1> QED
  BY <1>1, <1>2, <1>3

\* An actor's turn goes over all its ports.
LEMMA TransmitAllSound ==
  ASSUME NEW n, NEW px, NodeSound(n, px, {}), NEW a \in Actor,
         NEW m, m = TransmitLoop!Fold(n, PortsOf[a])
  PROVE  NodeSound(m, px, {}) /\ Frame(n, m)
<1>1. m = TransmitLoop!Fold(n, PortsOf[a])
  OBVIOUS
<1>2. TransmitLoop!Closed(Reached(n, px), Port)
  BY TransmitSound, ReachedFacts DEF TransmitLoop!Closed
<1>3. n \in Reached(n, px) /\ PortsOf[a] \in Seq(Port)
  BY ReachedFacts, PortOwner
<1>4. TransmitLoop!Fold(n, PortsOf[a]) \in Reached(n, px)
  BY <1>2, <1>3, TransmitLoop!FoldStays
<1> QED
  BY <1>1, <1>4, ReachedFacts

ConnectAllLoop == INSTANCE Folding WITH Op <- cc_actor_connect_ports

\* The loop over the actors after joining is a fold of the module Folding.
LEMMA ConnectAllLoopIs ==
  ASSUME NEW b, NEW s
  PROVE  FoldLeft(cc_actor_connect_ports, b, s) = ConnectAllLoop!Fold(b, s)
BY DEF ConnectAllLoop!Fold, ConnectAllLoop!FoldLeft, ConnectAllLoop!MapThenFoldSet, ConnectAllLoop!Max,
       FoldLeft, MapThenFoldSet, Max

\* The ports of all actors are connected when the node has joined.
LEMMA ConnectAllSound ==
  ASSUME NEW n, NEW px, NodeSound(n, px, {}),
         NEW m, m = ConnectAllLoop!Fold(n, n.actors)
  PROVE  NodeSound(m, px, {}) /\ Frame(n, m)
<1> DEFINE s == n.actors
<1>1. m = ConnectAllLoop!Fold(n, s)
  OBVIOUS
<1>2. s \in Seq(Actor)
  BY NodeFields DEF NodeSound
<1> DEFINE P == Actor \cap Range(n.actors)
<1>3. s \in Seq(P)
  <2>1. Len(s) \in Nat /\ DOMAIN s = 1 .. Len(s) /\ \A i \in DOMAIN s : s[i] \in P
    BY <1>2, Indexes DEF Range
  <2>2. s \in [1 .. Len(s) -> P]
    BY <1>2, <2>1
  <2> QED
    BY <2>1, <2>2, SeqDef
<1> HIDE DEF P
<1>4. ConnectAllLoop!Closed(Reached(n, px), P)
  <2>1. ASSUME NEW k \in Reached(n, px), NEW a \in P
        PROVE  cc_actor_connect_ports(k, a) \in Reached(n, px)
    <3> DEFINE j == cc_actor_connect_ports(k, a)
    <3>1. NodeSound(k, px, {}) /\ Frame(n, k)
      BY ReachedFacts
    <3>2. a \in Actor /\ a \in Range(k.actors)
      BY <3>1 DEF P, Frame
    <3> HIDE DEF j
    <3>3. NodeSound(j, px, {}) /\ Frame(k, j)
      BY <3>1, <3>2, ConnectPortsSound DEF j
    <3>4. j \in Reached(n, px)
      BY <3>3, ReachedFacts
    <3> QED
      BY <3>4 DEF j
  <2> QED
    BY <2>1 DEF ConnectAllLoop!Closed
<1>5. n \in Reached(n, px)
  BY ReachedFacts
<1> HIDE DEF s
<1>6. ConnectAllLoop!Fold(n, s) \in Reached(n, px)
  BY <1>3, <1>4, <1>5, ConnectAllLoop!FoldStays
<1> QED
  BY <1>1, <1>6, ReachedFacts

UnrefLoop == INSTANCE Folding WITH Op <- Unref

\* The loop over the ports in cc_actor_free is a fold of the module Folding.
LEMMA UnrefLoopIs ==
  ASSUME NEW b, NEW s
  PROVE  FoldLeft(Unref, b, s) = UnrefLoop!Fold(b, s)
BY DEF UnrefLoop!Fold, UnrefLoop!FoldLeft, UnrefLoop!MapThenFoldSet, UnrefLoop!Max,
       FoldLeft, MapThenFoldSet, Max

\* The states of the loop of cc_actor_free.
Freeing(n, px, a) == {m \in NodeType : NodeSound(m, px, OwnPorts(a)) /\ Frame(n, m)}

\* One pass of that loop gives back the reference of that port and of no other.
LEMMA FreeingStep ==
  ASSUME NEW n, NEW px, NEW a \in Actor, NEW k \in Freeing(n, px, a), NEW p \in OwnPorts(a)
  PROVE  /\ Unref(k, p) \in Freeing(n, px, a) /\ Unref(k, p).port[p].tunnel = None
         /\ \A q \in Port : q # p => Unref(k, p).port[q] = k.port[q]
<1> DEFINE m == Unref(k, p)
<1>1. NodeSound(k, px, OwnPorts(a)) /\ Frame(n, k) /\ p \in Port
  BY DEF Freeing, OwnPorts
<1> DEFINE X == OwnPorts(a)
<1>2. /\ NodeSound(m, px, OwnPorts(a) \cup {p}) /\ Frame(k, m) /\ m.port[p].tunnel = None
      /\ \A q \in Port : q # p => m.port[q] = k.port[q]
  <2>1. NodeSound(k, px, X) /\ m = Unref(k, p)
    BY <1>1
  <2> HIDE DEF m, X
  <2>2. /\ NodeSound(m, px, X \cup {p}) /\ m.actors = k.actors /\ m.phase = k.phase
        /\ m.port[p].tunnel = None
        /\ \A q \in Port : q # p => m.port[q] = k.port[q]
    BY <1>1, <2>1, UnrefSound
  <2> QED
    BY <2>2 DEF X, Frame
<1> HIDE DEF m
<1>3. OwnPorts(a) \cup {p} = OwnPorts(a)
  OBVIOUS
<1>4. m \in Freeing(n, px, a)
  BY <1>1, <1>2, <1>3 DEF Freeing, NodeSound, Frame
<1> QED
  BY <1>2, <1>4 DEF m

\* The ports of the actor give their tunnels back.
LEMMA UnrefAllSound ==
  ASSUME NEW n, NEW px, NodeSound(n, px, {}), NEW a \in Actor,
         NEW m, m = FoldLeft(Unref, n, PortsOf[a])
  PROVE  /\ NodeSound(m, px, OwnPorts(a)) /\ Frame(n, m)
         /\ \A p \in OwnPorts(a) : m.port[p].tunnel = None
<1> DEFINE s == PortsOf[a]
           S == Freeing(n, px, a)
<1>1. m = UnrefLoop!Fold(n, s)
  BY UnrefLoopIs
<1>2. /\ s \in Seq(OwnPorts(a))
      /\ \A p \in OwnPorts(a) : p \in Port /\ \E i \in 1 .. Len(s) : s[i] = p
  BY OwnPortsFacts
<1> HIDE DEF s
<1>3. Len(s) \in Nat /\ \A i \in 1 .. Len(s) : s[i] \in OwnPorts(a) /\ s[i] \in Port
  BY <1>2
<1>4. n \in S
  <2>1. RequestsSound(n, OwnPorts(a))
    BY DEF NodeSound, RequestsSound
  <2> QED
    BY <2>1 DEF Freeing, NodeSound, Frame
<1> DEFINE D == [p \in OwnPorts(a) |-> {k \in S : k.port[p].tunnel = None}]
<1>5. UnrefLoop!Closed(S, OwnPorts(a))
  BY FreeingStep DEF UnrefLoop!Closed
<1>6. UnrefLoop!Lasting(S, OwnPorts(a), D)
  <2>1. ASSUME NEW k \in S, NEW p \in OwnPorts(a)
        PROVE  /\ Unref(k, p) \in D[p]
               /\ \A q \in OwnPorts(a) : k \in D[q] => Unref(k, p) \in D[q]
    <3>1. /\ Unref(k, p) \in S /\ Unref(k, p).port[p].tunnel = None
          /\ \A q \in OwnPorts(a) : q # p => Unref(k, p).port[q] = k.port[q]
      BY <1>2, FreeingStep
    <3> HIDE DEF S
    <3>2. \A x \in S : \A q \in OwnPorts(a) : x \in D[q] <=> x.port[q].tunnel = None
      OBVIOUS
    <3> HIDE DEF D
    <3> QED
      BY <3>1, <3>2
  <2> HIDE DEF S, D
  <2> QED
    BY <2>1 DEF UnrefLoop!Lasting
<1> HIDE DEF S
<1>7. UnrefLoop!Fold(n, s) \in S
  BY <1>2, <1>4, <1>5, UnrefLoop!FoldStays
<1>8. \A i \in 1 .. Len(s) : UnrefLoop!Fold(n, s) \in D[s[i]]
  <2> HIDE DEF D
  <2> QED
    BY <1>2, <1>4, <1>5, <1>6, UnrefLoop!FoldVisits
<1>10. m \in S
  BY <1>1, <1>7
<1>11. NodeSound(m, px, OwnPorts(a)) /\ Frame(n, m)
  BY <1>10 DEF Freeing, S
<1>12. ASSUME NEW p \in OwnPorts(a) PROVE m.port[p].tunnel = None
  <2>1. PICK i \in 1 .. Len(s) : s[i] = p
    BY <1>2
  <2> QED
    BY <1>1, <1>8, <2>1
<1> QED
  BY <1>11, <1>12

\* What is left of a port when actor a and its ports are gone.
Left(v, mine, p) ==
  IF p \in mine THEN NoPort ELSE IF v.peer_port \in mine THEN [v EXCEPT !.peer_port = Freed] ELSE v

\* What cc_actor_free leaves of a port: nothing of its own ones, the tunnel of the others.
LEMMA LeftFacts ==
  ASSUME NEW v \in PortType, NEW mine, NEW p, NEW w, w = Left(v, mine, p)
  PROVE  /\ w \in PortType
         /\ p \notin mine => w.state = v.state /\ w.tunnel = v.tunnel
         /\ p \in mine => w.state = "DISCONNECTED" /\ w.tunnel = None
<1>1. /\ NoPort \in PortType /\ NoPort.state = "DISCONNECTED" /\ NoPort.tunnel = None
  BY BoundAssumption DEF NoPort, PortType, PortState
<1>2. LET u == [v EXCEPT !.peer_port = Freed]
      IN u \in PortType /\ u.state = v.state /\ u.tunnel = v.tunnel
  BY DEF PortType
<1> QED
  BY <1>1, <1>2 DEF Left

\* cc_actor_free keeps the invariant.
LEMMA FreeSound ==
  ASSUME NEW n, NEW px, NodeSound(n, px, {}), NEW a \in Actor, NEW m, m = cc_actor_free(n, a)
  PROVE  NodeSound(m, px, {}) /\ m.phase = n.phase
<1> DEFINE k == FoldLeft(Unref, n, PortsOf[a])
           mine == OwnPorts(a)
           x == RemoveFirst(k.actors, a)
           y == [k.actor EXCEPT ![a] = "PENDING"]
           z == [p \in Port |-> Left(k.port[p], mine, p)]
           n1 == WithActors(k, x)
           n2 == WithActor(n1, y)
<1>1. m = WithPort(n2, z)
  <2>1. Range(PortsOf[a]) = mine
    BY OwnPortsFacts
  <2> HIDE DEF k, mine
  <2> QED
    BY <2>1 DEF cc_actor_free, WithActors, WithActor, WithPort, Left, k
<1>2. /\ NodeSound(k, px, mine) /\ Frame(n, k)
      /\ \A p \in mine : k.port[p].tunnel = None
  BY UnrefAllSound
<1> HIDE DEF k
<1>3. k \in NodeType /\ RefsSound(k, px) /\ ActorsSound(k) /\ RequestsSound(k, mine)
  BY <1>2 DEF NodeSound
<1>4. /\ k.actors \in Seq(Actor) /\ k.actor \in [Actor -> ActorState]
      /\ \A p \in Port : k.port[p] \in PortType
  BY <1>3, NodeFields
<1>5. x \in Seq(Actor) /\ Range(k.actors) \ {a} \subseteq Range(x) /\ Range(x) \subseteq Range(k.actors)
  BY <1>4, RemoveFirstFacts
<1> HIDE DEF x
<1>6. y \in [Actor -> ActorState] /\ y[a] = "PENDING" /\ \A b \in Actor : b # a => y[b] = k.actor[b]
  BY <1>4 DEF ActorState
<1> HIDE DEF y
<1>7. ASSUME NEW p \in Port
      PROVE  /\ z[p] \in PortType
             /\ p \notin mine => z[p].state = k.port[p].state /\ z[p].tunnel = k.port[p].tunnel
             /\ p \in mine => z[p].state = "DISCONNECTED" /\ z[p].tunnel = None
  <2>1. z[p] = Left(k.port[p], mine, p) /\ k.port[p] \in PortType
    BY <1>4
  <2> HIDE DEF z, mine
  <2> QED
    BY <2>1, LeftFacts
<1>8. z \in [Port -> PortType]
  <2>1. z = [p \in Port |-> z[p]]
    OBVIOUS
  <2> HIDE DEF z
  <2> QED
    BY <1>7, <2>1
<1> HIDE DEF z
<1>9. /\ n1 \in NodeType /\ n1.actors = x /\ n1.actor = k.actor /\ n1.port = k.port
      /\ n1.tunnel = k.tunnel /\ n1.link = k.link /\ n1.pending = k.pending /\ n1.phase = k.phase
  BY <1>3, <1>5, WithActorsFacts
<1> HIDE DEF n1
<1>10. /\ n2 \in NodeType /\ n2.actors = x /\ n2.actor = y /\ n2.port = k.port
       /\ n2.tunnel = k.tunnel /\ n2.link = k.link /\ n2.pending = k.pending /\ n2.phase = k.phase
  BY <1>6, <1>9, WithActorFacts
<1> HIDE DEF n2
<1>11. /\ m \in NodeType /\ m.actors = x /\ m.actor = y /\ m.port = z
       /\ m.tunnel = k.tunnel /\ m.link = k.link /\ m.pending = k.pending /\ m.phase = k.phase
  BY <1>1, <1>8, <1>10, WithPortFacts
<1>12. \A p \in Port : m.port[p].tunnel = k.port[p].tunnel
  BY <1>2, <1>7, <1>11
<1>13. RefsSound(m, px)
  <2>1. \A r : PortUsers(m, r) = PortUsers(k, r)
    BY <1>12 DEF PortUsers
  <2>2. \A r : (Open(m, r) <=> Open(k, r)) /\ Needed(m, r, px) = Needed(k, r, px)
    BY <1>11 DEF Open, Needed
  <2>3. ASSUME NEW p \in Port, m.port[p].tunnel # None PROVE Exists(m, p)
    <3>1. k.port[p].tunnel # None /\ Exists(k, p)
      BY <1>3, <1>12, <2>3 DEF RefsSound
    <3>2. Owner(p) # a
      BY <1>2, <3>1 DEF OwnPorts
    <3> QED
      BY <1>5, <1>11, <3>1, <3>2 DEF Exists
  <2> QED
    BY <1>3, <1>11, <2>1, <2>2, <2>3 DEF RefsSound
<1>14. ActorsSound(m)
  <2> SUFFICES ASSUME NEW p \in Port, m.actor[Owner(p)] = "ENABLED" PROVE m.port[p].state = "ENABLED"
    BY DEF ActorsSound
  <2>1. Owner(p) \in Actor
    BY PortOwner
  <2>2. Owner(p) # a /\ k.actor[Owner(p)] = "ENABLED" /\ p \notin mine
    BY <1>6, <1>11, <2>1 DEF OwnPorts
  <2> QED
    BY <1>3, <1>7, <1>11, <2>2 DEF ActorsSound
<1>15. RequestsSound(m, {})
  <2> SUFFICES ASSUME Calm PROVE TunnelsSound(m) /\ \A p \in Port \ {} : PortSound(m, p)
    BY DEF RequestsSound
  <2>1. TunnelsSound(m)
    BY <1>3, <1>11 DEF RequestsSound, TunnelsSound, Open
  <2>2. ASSUME NEW p \in Port PROVE PortSound(m, p)
    <3>1. CASE p \in mine
      BY <1>7, <1>11, <3>1 DEF PortSound
    <3>2. CASE p \notin mine
      <4>1. PortSound(k, p)
        BY <1>3, <3>2 DEF RequestsSound
      <4>2. Exists(m, p) => Exists(k, p)
        BY <1>5, <1>11 DEF Exists
      <4> QED
        BY <1>7, <1>11, <3>2, <4>1, <4>2 DEF PortSound
    <3> QED
      BY <3>1, <3>2
  <2> QED
    BY <2>1, <2>2
<1> QED
  BY <1>2, <1>11, <1>13, <1>14, <1>15 DEF NodeSound, Frame

FreeLoop == INSTANCE Folding WITH Op <- cc_actor_free

\* The loop of cc_proto_parse_app_destroy is a fold of the module Folding.
LEMMA FreeLoopIs ==
  ASSUME NEW b, NEW s
  PROVE  FoldLeft(cc_actor_free, b, s) = FreeLoop!Fold(b, s)
BY DEF FreeLoop!Fold, FreeLoop!FoldLeft, FreeLoop!MapThenFoldSet, FreeLoop!Max,
       FoldLeft, MapThenFoldSet, Max

\* The actors on the node are listed in some order.
LEMMA ListOfSet ==
  ASSUME NEW S, NEW s \in Seq(S), NEW T \in SUBSET Range(s)
  PROVE  SetToSeq(T) \in Seq(S)
<1>1. Len(s) \in Nat /\ DOMAIN s = 1 .. Len(s)
  BY Indexes
<1>2. IsFiniteSet(Range(s))
  <2>1. IsFiniteSet(1 .. Len(s))
    BY <1>1, FS_Interval
  <2>2. s \in Surjection(1 .. Len(s), Range(s))
    <3>1. s \in [1 .. Len(s) -> Range(s)] /\ \A t \in Range(s) : \E i \in 1 .. Len(s) : s[i] = t
      BY <1>1 DEF Range
    <3> QED
      BY <3>1 DEF Surjection
  <2> QED
    BY <2>1, <2>2, FS_Surjection
<1>3. IsFiniteSet(T)
  BY <1>2, FS_Subset
<1> DEFINE c == Cardinality(T)
<1>4. c \in Nat /\ ExistsBijection(1 .. c, T)
  BY <1>3, FS_CardinalityType
<1> HIDE DEF c
<1>5. PICK f : f \in Bijection(1 .. c, T)
  BY <1>4 DEF ExistsBijection
<1>6. f \in [1 .. c -> T] /\ IsInjective(f)
  BY <1>5 DEF Bijection, Injection, IsInjective
<1>7. SetToSeq(T) \in [1 .. c -> T]
  BY <1>6 DEF SetToSeq, c
<1>8. T \subseteq S
  BY <1>1 DEF Range
<1>9. SetToSeq(T) \in [1 .. c -> S]
  BY <1>7, <1>8
<1> QED
  BY <1>4, <1>9, SeqDef

\* APP_DESTROY deletes actors one after the other.
LEMMA DestroySound ==
  ASSUME NEW n, NEW px, NodeSound(n, px, {}), NEW gone \in SUBSET Range(n.actors),
         NEW m, m = FreeLoop!Fold(n, SetToSeq(gone))
  PROVE  NodeSound(m, px, {}) /\ m.phase = n.phase
<1> DEFINE s == SetToSeq(gone)
           S == {k \in NodeType : NodeSound(k, px, {}) /\ k.phase = n.phase}
<1>1. m = FreeLoop!Fold(n, s)
  OBVIOUS
<1>2. n.actors \in Seq(Actor)
  BY NodeFields DEF NodeSound
<1>3. s \in Seq(Actor)
  BY <1>2, ListOfSet
<1> HIDE DEF s
<1>4. n \in S
  BY DEF NodeSound
<1>5. FreeLoop!Closed(S, Actor)
  <2>1. ASSUME NEW k \in S, NEW a \in Actor PROVE cc_actor_free(k, a) \in S
    <3> DEFINE j == cc_actor_free(k, a)
    <3> HIDE DEF j
    <3>1. NodeSound(j, px, {}) /\ j.phase = k.phase
      BY FreeSound DEF j
    <3>2. j \in S
      BY <3>1 DEF NodeSound
    <3> QED
      BY <3>2 DEF j
  <2> HIDE DEF S
  <2> QED
    BY <2>1 DEF FreeLoop!Closed
<1> HIDE DEF S
<1>6. FreeLoop!Fold(n, s) \in S
  BY <1>3, <1>4, <1>5, FreeLoop!FoldStays
<1> QED
  BY <1>1, <1>6 DEF S

(***************************************************************************)
(* Another proxy: tunnels and links are forgotten, then the ports.          *)
(***************************************************************************)
\* The states in which no port has gained a tunnel.
Forgetting(n) ==
  {m \in NodeType :
     /\ ActorsSound(m) /\ PortsOnly(n, m)
     /\ \A q \in Port : m.port[q].tunnel = None \/ m.port[q].tunnel = n.port[q].tunnel}

\* cc_port_disconnect without counting.
LEMMA ForgetPort ==
  ASSUME NEW n \in NodeType, ActorsSound(n), NEW p \in Port, NEW m, m = cc_port_disconnect(n, p, FALSE)
  PROVE  /\ m \in Forgetting(n) /\ m.port[p].tunnel = None
<1> DEFINE q == n.port[p].peer_port
           u == PutPort(n, p, SetTunnel(n.port[p], None))
           k == IF q \in Port THEN cc_port_set_state(u, q, "DISCONNECTED") ELSE u
           v == SetPeers(k.port[p], None, None)
           h == PutPort(k, p, v)
<1>1. m = cc_port_set_state(h, p, "DISCONNECTED")
  BY DEF cc_port_disconnect, PutPort, SetPeers, SetTunnel
<1>2. "DISCONNECTED" \in PortState /\ None \in Runtime \cup {None} /\ None \in Port \cup {None, Freed}
  BY DEF PortState
<1> HIDE DEF q
<1>3. /\ u \in NodeType /\ PortsOnly(n, u) /\ ActorsSound(u) /\ u.port[p].tunnel = None
      /\ \A x \in Port : x # p => u.port[x] = n.port[x]
  <2> DEFINE w == SetTunnel(n.port[p], None)
  <2>1. n.port[p] \in PortType
    BY PortFields
  <2>2. w \in PortType /\ w.tunnel = None /\ w.state = n.port[p].state
    BY <1>2, <2>1, SetTunnelFacts
  <2>3. u = PutPort(n, p, w)
    OBVIOUS
  <2> HIDE DEF w, u
  <2>4. /\ u \in NodeType /\ PortsOnly(n, u) /\ u.actor = n.actor
        /\ u.port[p] = w /\ \A x \in Port : x # p => u.port[x] = n.port[x]
    BY <2>2, <2>3, PutPortFacts
  <2>5. ActorsSound(u)
    BY <2>2, <2>4, SameActors
  <2> QED
    BY <2>2, <2>4, <2>5
<1> HIDE DEF u
<1>4. /\ k \in NodeType /\ PortsOnly(u, k) /\ ActorsSound(k)
      /\ \A x \in Port : k.port[x].tunnel = u.port[x].tunnel
  <2>1. CASE q \in Port
    <3> DEFINE j == cc_port_set_state(u, q, "DISCONNECTED")
    <3>1. k = j
      BY <2>1
    <3> HIDE DEF k, j
    <3>2. /\ j \in NodeType /\ PortsOnly(u, j) /\ ActorsSound(j)
          /\ \A x \in Port : x # q => j.port[x] = u.port[x]
          /\ j.port[q].tunnel = u.port[q].tunnel
      BY <1>2, <1>3, <2>1, SetStateFacts DEF j
    <3> QED
      BY <3>1, <3>2
  <2>2. CASE q \notin Port
    <3>1. k = u
      BY <2>2
    <3> HIDE DEF k
    <3> QED
      BY <1>3, <3>1 DEF PortsOnly
  <2> QED
    BY <2>1, <2>2
<1> HIDE DEF k
<1>5. v \in PortType /\ v.tunnel = k.port[p].tunnel /\ v.state = k.port[p].state
  <2>1. k.port[p] \in PortType
    BY <1>4, PortFields
  <2> QED
    BY <1>2, <2>1, SetPeersFacts
<1> HIDE DEF v
<1>6. /\ h \in NodeType /\ PortsOnly(k, h) /\ h.actor = k.actor
      /\ h.port[p] = v /\ \A x \in Port : x # p => h.port[x] = k.port[x]
  BY <1>4, <1>5, PutPortFacts
<1> HIDE DEF h
<1>7. ActorsSound(h)
  BY <1>4, <1>5, <1>6, SameActors
<1>8. /\ m \in NodeType /\ PortsOnly(h, m) /\ ActorsSound(m)
      /\ \A x \in Port : x # p => m.port[x] = h.port[x]
      /\ m.port[p].tunnel = h.port[p].tunnel
  <2> DEFINE j == cc_port_set_state(h, p, "DISCONNECTED")
  <2> HIDE DEF j
  <2>1. h \in NodeType
    BY <1>6
  <2>2. /\ j \in NodeType /\ PortsOnly(h, j) /\ (ActorsSound(h) => ActorsSound(j))
        /\ \A x \in Port : x # p => j.port[x] = h.port[x]
        /\ j.port[p].tunnel = h.port[p].tunnel
    BY <1>2, <2>1, SetStateFacts DEF j
  <2> QED
    BY <1>1, <1>7, <2>2 DEF j
<1>9. PortsOnly(n, m)
  BY <1>3, <1>4, <1>6, <1>8 DEF PortsOnly
<1>10. m.port[p].tunnel = None
  BY <1>3, <1>4, <1>5, <1>6, <1>8
<1>11. \A x \in Port : x # p => m.port[x].tunnel = n.port[x].tunnel
  BY <1>3, <1>4, <1>6, <1>8
<1> QED
  BY <1>8, <1>9, <1>10, <1>11 DEF Forgetting

\* Forgetting connections can be repeated.
LEMMA ForgettingFacts ==
  ASSUME NEW n
  PROVE  /\ n \in NodeType /\ ActorsSound(n) => n \in Forgetting(n)
         /\ \A m \in Forgetting(n) : m \in NodeType /\ ActorsSound(m)
         /\ \A m \in Forgetting(n) : \A k \in Forgetting(m) :
              /\ k \in Forgetting(n)
              /\ \A p \in Port : m.port[p].tunnel = None => k.port[p].tunnel = None
BY DEF Forgetting, PortsOnly

ForgetLoop == INSTANCE Folding WITH Op <- LAMBDA k, p : cc_port_disconnect(k, p, FALSE)

\* The loop of cc_actor_disconnect without messages is a fold of the module Folding.
LEMMA ForgetLoopIs ==
  ASSUME NEW b, NEW s
  PROVE  FoldLeft(LAMBDA k, p : cc_port_disconnect(k, p, FALSE), b, s) = ForgetLoop!Fold(b, s)
BY DEF ForgetLoop!Fold, ForgetLoop!FoldLeft, ForgetLoop!MapThenFoldSet, ForgetLoop!Max,
       FoldLeft, MapThenFoldSet, Max

\* cc_actor_disconnect leaves no port of the actor with a tunnel.
LEMMA ForgetActor ==
  ASSUME NEW n \in NodeType, ActorsSound(n), NEW a \in Actor, NEW m, m = cc_actor_disconnect(n, a, FALSE)
  PROVE  /\ m \in Forgetting(n)
         /\ \A p \in OwnPorts(a) : m.port[p].tunnel = None
<1> DEFINE s == PortsOf[a]
           S == Forgetting(n)
           k == ForgetLoop!Fold(n, s)
           D == [p \in Port |-> {x \in S : x.port[p].tunnel = None}]
<1>1. m = PutActor(k, a, "PENDING")
  BY ForgetLoopIs DEF cc_actor_disconnect, PutActor
<1>2. /\ s \in Seq(Port)
      /\ \A p \in OwnPorts(a) : p \in Port /\ \E i \in 1 .. Len(s) : s[i] = p
  BY OwnPortsFacts, PortOwner
<1> HIDE DEF s
<1>3. n \in S
  BY ForgettingFacts
<1>4. ASSUME NEW x \in S, NEW p \in Port
      PROVE  LET y == cc_port_disconnect(x, p, FALSE)
             IN y \in S /\ y.port[p].tunnel = None
                /\ \A q \in Port : x.port[q].tunnel = None => y.port[q].tunnel = None
  <2> DEFINE y == cc_port_disconnect(x, p, FALSE)
  <2> HIDE DEF y
  <2>1. x \in NodeType /\ ActorsSound(x)
    BY ForgettingFacts
  <2>2. y \in Forgetting(x) /\ y.port[p].tunnel = None
    BY <2>1, ForgetPort DEF y
  <2>3. y \in S /\ \A q \in Port : x.port[q].tunnel = None => y.port[q].tunnel = None
    BY <2>2, ForgettingFacts
  <2> QED
    BY <2>2, <2>3 DEF y
<1>5. ForgetLoop!Closed(S, Port)
  BY <1>4 DEF ForgetLoop!Closed
<1>6. ForgetLoop!Lasting(S, Port, D)
  <2> HIDE DEF S
  <2>1. \A x \in S : \A q \in Port : x \in D[q] <=> x.port[q].tunnel = None
    OBVIOUS
  <2> HIDE DEF D
  <2> QED
    BY <1>4, <2>1 DEF ForgetLoop!Lasting
<1> HIDE DEF S
<1>7. k \in S
  BY <1>2, <1>3, <1>5, ForgetLoop!FoldStays
<1>8. \A i \in 1 .. Len(s) : k \in D[s[i]]
  <2> HIDE DEF D
  <2> QED
    BY <1>2, <1>3, <1>5, <1>6, ForgetLoop!FoldVisits
<1>9. \A p \in OwnPorts(a) : k.port[p].tunnel = None
  BY <1>2, <1>8
<1> HIDE DEF k, D
<1>10. k \in NodeType /\ ActorsSound(k)
  BY <1>7, ForgettingFacts DEF S
<1>11. m \in NodeType /\ PortsOnly(k, m) /\ m.port = k.port /\ ActorsSound(m)
  <2>1. "PENDING" \in ActorState /\ "PENDING" # "ENABLED"
    BY DEF ActorState
  <2> QED
    BY <1>1, <1>10, <2>1, PutActorFacts
<1>12. m \in Forgetting(k)
  BY <1>11 DEF Forgetting
<1> QED
  BY <1>7, <1>9, <1>11, <1>12, ForgettingFacts DEF S

ForgetAllLoop == INSTANCE Folding WITH Op <- LAMBDA n, a : cc_actor_disconnect(n, a, FALSE)

\* The loop over the actors when the connection is lost is a fold of the module Folding.
LEMMA ForgetAllLoopIs ==
  ASSUME NEW b, NEW s
  PROVE  FoldLeft(LAMBDA n, a : cc_actor_disconnect(n, a, FALSE), b, s) = ForgetAllLoop!Fold(b, s)
BY DEF ForgetAllLoop!Fold, ForgetAllLoop!FoldLeft, ForgetAllLoop!MapThenFoldSet, ForgetAllLoop!Max,
       FoldLeft, MapThenFoldSet, Max

\* After all actors no port that exists has a tunnel.
LEMMA ForgetAll ==
  ASSUME NEW n \in NodeType, ActorsSound(n),
         NEW m, m = ForgetAllLoop!Fold(n, n.actors)
  PROVE  /\ m \in Forgetting(n)
         /\ \A p \in Port : Exists(n, p) => m.port[p].tunnel = None
<1> DEFINE s == n.actors
           S == Forgetting(n)
           k == ForgetAllLoop!Fold(n, s)
           D == [a \in Actor |-> {x \in S : \A p \in OwnPorts(a) : x.port[p].tunnel = None}]
<1>1. m = k
  OBVIOUS
<1>2. s \in Seq(Actor)
  BY NodeFields
<1>3. n \in S
  BY ForgettingFacts
<1>4. ASSUME NEW x \in S, NEW a \in Actor
      PROVE  LET y == cc_actor_disconnect(x, a, FALSE)
             IN y \in S /\ (\A p \in OwnPorts(a) : y.port[p].tunnel = None)
                /\ \A q \in Port : x.port[q].tunnel = None => y.port[q].tunnel = None
  <2> DEFINE y == cc_actor_disconnect(x, a, FALSE)
  <2> HIDE DEF y
  <2>1. x \in NodeType /\ ActorsSound(x)
    BY ForgettingFacts
  <2>2. y \in Forgetting(x) /\ \A p \in OwnPorts(a) : y.port[p].tunnel = None
    BY <2>1, ForgetActor DEF y
  <2>3. y \in S /\ \A q \in Port : x.port[q].tunnel = None => y.port[q].tunnel = None
    BY <2>2, ForgettingFacts
  <2> QED
    BY <2>2, <2>3 DEF y
<1>5. ForgetAllLoop!Closed(S, Actor)
  BY <1>4 DEF ForgetAllLoop!Closed
<1>6. ForgetAllLoop!Lasting(S, Actor, D)
  <2> HIDE DEF S
  <2>1. \A x \in S : \A b \in Actor : x \in D[b] <=> \A p \in OwnPorts(b) : x.port[p].tunnel = None
    OBVIOUS
  <2>2. \A b \in Actor : OwnPorts(b) \subseteq Port
    BY DEF OwnPorts
  <2> HIDE DEF D
  <2>3. ASSUME NEW x \in S, NEW a \in Actor
        PROVE  LET y == cc_actor_disconnect(x, a, FALSE)
               IN y \in D[a] /\ \A b \in Actor : x \in D[b] => y \in D[b]
    <3> DEFINE y == cc_actor_disconnect(x, a, FALSE)
    <3>1. y \in S /\ (\A p \in OwnPorts(a) : y.port[p].tunnel = None)
          /\ \A q \in Port : x.port[q].tunnel = None => y.port[q].tunnel = None
      BY <1>4
    <3> HIDE DEF y
    <3>2. y \in D[a] /\ \A b \in Actor : x \in D[b] => y \in D[b]
      BY <2>1, <2>2, <3>1
    <3> QED
      BY <3>2 DEF y
  <2> QED
    BY <2>3 DEF ForgetAllLoop!Lasting
<1> HIDE DEF S, s
<1>7. k \in S
  BY <1>2, <1>3, <1>5, ForgetAllLoop!FoldStays
<1>8. \A i \in 1 .. Len(s) : k \in D[s[i]]
  <2> HIDE DEF D
  <2> QED
    BY <1>2, <1>3, <1>5, <1>6, ForgetAllLoop!FoldVisits
<1> HIDE DEF k
<1>9. ASSUME NEW p \in Port, Exists(n, p) PROVE k.port[p].tunnel = None
  <2>1. PICK i \in DOMAIN s : s[i] = Owner(p)
    BY <1>9 DEF Exists, Range, s
  <2>2. i \in 1 .. Len(s) /\ s[i] \in Actor /\ p \in OwnPorts(s[i])
    BY <1>2, <2>1 DEF OwnPorts
  <2> QED
    BY <1>8, <2>2
<1> QED
  BY <1>1, <1>7, <1>9 DEF S

(***************************************************************************)
(* The actions.                                                             *)
(***************************************************************************)
\* The variables as one record.
LEMMA NodeIs ==
  /\ Node.actors = actors /\ Node.actor = actor /\ Node.port = port /\ Node.tunnel = tunnel
  /\ Node.link = link /\ Node.pending = pending /\ Node.phase = phase /\ Node.full = full
BY DEF Node

\* What the actions leave alone.
Rest == <<proxy, broken, losses, created>>

RestOK ==
  /\ proxy \in Peer /\ broken \in BOOLEAN
  /\ losses \in 0 .. MaxLosses /\ created \in 0 .. MaxCreated

\* What the invariant says of the node and of the counters.
LEMMA InvFacts ==
  ASSUME PortsInv
  PROVE  NodeSound(Node, proxy, {}) /\ Node \in NodeType /\ RestOK /\ (Calm => CanSend)
BY DEF PortsInv, NodeSound, TypeOK, RestOK

\* A step to a sound state.
LEMMA BecomesInv ==
  ASSUME NEW m, Becomes(m), NodeSound(m, proxy', {}), RestOK', Calm => m.phase # "down" /\ ~broken'
  PROVE  PortsInv'
<1>1. m \in NodeType
  BY DEF NodeSound
<1>2. /\ actors' = m.actors /\ actor' = m.actor /\ port' = m.port /\ tunnel' = m.tunnel
      /\ link' = m.link /\ pending' = m.pending /\ phase' = m.phase /\ full' = m.full
  BY DEF Becomes
<1>3. Node' = m
  <2>1. m = [actors |-> m.actors, actor |-> m.actor, port |-> m.port, tunnel |-> m.tunnel,
             link |-> m.link, pending |-> m.pending, phase |-> m.phase, full |-> m.full]
    BY <1>1 DEF NodeType
  <2> QED
    BY <1>2, <2>1 DEF Node
<1>4. TypeOK'
  <2>1. /\ m.actors \in Seq(Actor) /\ m.actor \in [Actor -> ActorState]
        /\ m.port \in [Port -> PortType] /\ m.tunnel \in [Runtime -> TunnelType]
        /\ m.link \in [Runtime -> Nat \cup {NoLink}] /\ m.pending \in [Request -> 0 .. MaxPending]
        /\ m.phase \in Phase /\ m.full \in BOOLEAN
    BY <1>1, NodeFields
  <2> QED
    BY <1>2, <2>1 DEF TypeOK, RestOK
<1>5. NodeSound(Node, proxy, {})'
  BY <1>3
<1>6. (Calm => CanSend)'
  BY <1>2 DEF CanSend, Up, Calm
<1> QED
  BY <1>4, <1>5, <1>6 DEF PortsInv

\* Most actions keep the rest and the phase.
LEMMA KeepsInv ==
  ASSUME PortsInv, NEW m, Becomes(m), NodeSound(m, proxy, {}), m.phase = phase,
         proxy' = proxy, broken' = broken, losses' = losses, created' \in 0 .. MaxCreated
  PROVE  PortsInv'
<1>1. RestOK /\ (Calm => CanSend)
  BY InvFacts
<1>2. RestOK' /\ (Calm => m.phase # "down" /\ ~broken')
  BY <1>1 DEF RestOK, CanSend, Up
<1>3. NodeSound(m, proxy', {})
  OBVIOUS
<1> QED
  BY <1>2, <1>3, BecomesInv

\* A step that only counts creations leaves the other counters alone.
LEMMA CountedFacts ==
  ASSUME PortsInv, Counted
  PROVE  proxy' = proxy /\ broken' = broken /\ losses' = losses /\ created' \in 0 .. MaxCreated
BY InvFacts DEF Counted, RestOK

\* cc_actor_migrate keeps the invariant.
LEMMA MigrateInv ==
  ASSUME PortsInv, NEW a \in Actor, cc_actor_migrate(a)
  PROVE  PortsInv'
<1> DEFINE n == DisconnectLoop!Fold(Node, PortsOf[a])
           m == IF CanSend THEN Await(n, <<"migrate", a>>) ELSE n
<1>1. Becomes(m) /\ Counted
  BY DisconnectLoopIs DEF cc_actor_migrate
<1>2. NodeSound(Node, proxy, {}) /\ Node.phase = phase
  BY InvFacts, NodeIs
<1>3. NodeSound(n, proxy, {}) /\ Frame(Node, n)
  BY <1>2, DisconnectAllSound
<1> HIDE DEF n
<1>4. NodeSound(m, proxy, {}) /\ m.phase = n.phase
  <2>1. CASE CanSend
    <3> DEFINE q == <<"migrate", a>>
               k == Await(n, q)
    <3>1. m = k
      BY <2>1
    <3>2. q \in Request
      BY Requests
    <3> HIDE DEF q, m, k
    <3>3. NodeSound(k, proxy, {}) /\ k.phase = n.phase
      BY <1>3, <3>2, AwaitSound DEF k
    <3> QED
      BY <3>1, <3>3
  <2>2. CASE ~CanSend
    BY <1>3, <2>2
  <2> QED
    BY <2>1, <2>2
<1> HIDE DEF m
<1>5. m.phase = phase
  BY <1>2, <1>3, <1>4 DEF Frame
<1> QED
  BY <1>1, <1>4, <1>5, CountedFacts, KeepsInv

\* The answer to a request is taken.
LEMMA AnsweredFacts ==
  ASSUME NEW q \in Request, PortsInv, IsPending(q), NEW m, m = Answered(q)
  PROVE  /\ m \in NodeType /\ RefsSound(m, proxy) /\ ActorsSound(m)
         /\ m.actors = actors /\ m.actor = actor /\ m.port = port /\ m.tunnel = tunnel
         /\ m.link = link /\ m.phase = phase
         /\ \A k \in Request : k # q => m.pending[k] = pending[k]
<1>1. Node \in NodeType /\ RefsSound(Node, proxy) /\ ActorsSound(Node)
  BY InvFacts DEF NodeSound
<1>2. pending \in [Request -> 0 .. MaxPending] /\ pending[q] > 0
  BY <1>1, NodeFields, NodeIs DEF IsPending
<1> DEFINE x == [pending EXCEPT ![q] = @ - 1]
<1>3. m = WithPending(Node, x)
  BY NodeIs DEF Answered, WithPending
<1>4. x \in [Request -> 0 .. MaxPending] /\ \A k \in Request : k # q => x[k] = pending[k]
  BY <1>2, BoundAssumption
<1> HIDE DEF x
<1>5. /\ m \in NodeType /\ m.pending = x /\ m.actors = Node.actors /\ m.actor = Node.actor
      /\ m.port = Node.port /\ m.tunnel = Node.tunnel /\ m.link = Node.link /\ m.phase = Node.phase
  BY <1>1, <1>3, <1>4, WithPendingFacts
<1>6. RefsSound(m, proxy)
  BY <1>1, <1>5, SameRefs
<1>7. ActorsSound(m)
  BY <1>1, <1>5, SameActors
<1> QED
  BY <1>4, <1>5, <1>6, <1>7, NodeIs

\* An answer that is not for a port outside X and not for a tunnel that waits.
LEMMA AnsweredSound ==
  ASSUME NEW q \in Request, PortsInv, IsPending(q), NEW m, m = Answered(q), NEW X,
         \A r \in Runtime : tunnel[r].state = "PENDING" => q # <<"tunnel", tunnel[r].id>>,
         \A p \in Port \ X : q # <<"lookup", p>> /\ q # <<"connect", p>>
  PROVE  NodeSound(m, proxy, X)
<1>1. /\ m \in NodeType /\ RefsSound(m, proxy) /\ ActorsSound(m)
      /\ m.actors = actors /\ m.port = port /\ m.tunnel = tunnel
      /\ \A k \in Request : k # q => m.pending[k] = pending[k]
  BY AnsweredFacts
<1>2. Node \in NodeType /\ RequestsSound(Node, {})
  BY InvFacts DEF NodeSound
<1>3. ASSUME Calm PROVE TunnelsSound(m)
  <2>1. TunnelsSound(Node)
    BY <1>2, <1>3 DEF RequestsSound
  <2>2. ASSUME NEW r \in Runtime, m.tunnel[r].state = "PENDING"
        PROVE  m.pending[<<"tunnel", m.tunnel[r].id>>] > 0
    <3>1. <<"tunnel", tunnel[r].id>> \in Request
      BY <1>2, TunnelFields, Requests, NodeIs
    <3>2. pending[<<"tunnel", tunnel[r].id>>] > 0
      BY <1>1, <2>1, <2>2, NodeIs DEF TunnelsSound
    <3> QED
      BY <1>1, <2>2, <3>1, <3>2
  <2> QED
    BY <1>1, <2>1, <2>2, NodeIs DEF TunnelsSound, Open
<1>4. ASSUME Calm, NEW p \in Port \ X PROVE PortSound(m, p)
  <2>1. PortSound(Node, p)
    BY <1>2, <1>4 DEF RequestsSound
  <2>2. /\ m.pending[<<"lookup", p>>] = pending[<<"lookup", p>>]
        /\ m.pending[<<"connect", p>>] = pending[<<"connect", p>>]
    BY <1>1, Requests
  <2> QED
    BY <1>1, <2>1, <2>2, NodeIs DEF PortSound, Exists
<1> QED
  BY <1>1, <1>3, <1>4 DEF NodeSound, RequestsSound

\* The port has settled.
LEMMA Settled ==
  ASSUME NEW n, NEW px, NEW p \in Port, NodeSound(n, px, {p}), Calm => PortSound(n, p)
  PROVE  NodeSound(n, px, {})
BY DEF NodeSound, RequestsSound

\* The answer to ACTOR_NEW keeps the invariant.
LEMMA MigrateReplyInv ==
  ASSUME PortsInv, NEW a \in Actor, cc_actor_migrate_reply_handler(a)
  PROVE  PortsInv'
<1> DEFINE q == <<"migrate", a>>
           n == Answered(q)
<1>1. IsPending(q) /\ Counted /\ (Becomes(n) \/ Becomes(cc_actor_free(n, a)))
  BY DEF cc_actor_migrate_reply_handler
<1>2. q \in Request
  BY Requests
<1>3. /\ \A r \in Runtime : tunnel[r].state = "PENDING" => q # <<"tunnel", tunnel[r].id>>
      /\ \A p \in Port \ {} : q # <<"lookup", p>> /\ q # <<"connect", p>>
  OBVIOUS
<1> HIDE DEF q
<1>4. NodeSound(n, proxy, {}) /\ n.phase = phase
  BY <1>1, <1>2, <1>3, AnsweredSound, AnsweredFacts
<1> HIDE DEF n
<1>5. CASE Becomes(n)
  BY <1>1, <1>4, <1>5, CountedFacts, KeepsInv
<1>6. CASE Becomes(cc_actor_free(n, a))
  <2> DEFINE m == cc_actor_free(n, a)
  <2> HIDE DEF m
  <2>1. NodeSound(m, proxy, {}) /\ m.phase = phase
    BY <1>4, FreeSound DEF m
  <2>2. Becomes(m)
    BY <1>6 DEF m
  <2> QED
    BY <1>1, <2>1, <2>2, CountedFacts, KeepsInv
<1> QED
  BY <1>1, <1>5, <1>6

\* APP_DESTROY keeps the invariant, whichever actors it frees.
LEMMA DestroyInv ==
  ASSUME PortsInv, cc_proto_parse_app_destroy
  PROVE  PortsInv'
<1>1. PICK gone \in SUBSET Range(actors) : Becomes(FoldLeft(cc_actor_free, Node, SetToSeq(gone)))
  BY DEF cc_proto_parse_app_destroy
<1>2. Counted
  BY DEF cc_proto_parse_app_destroy
<1>3. NodeSound(Node, proxy, {}) /\ Node.phase = phase /\ Node.actors = actors
  BY InvFacts, NodeIs
<1> DEFINE m == FoldLeft(cc_actor_free, Node, SetToSeq(gone))
<1>4. m = FreeLoop!Fold(Node, SetToSeq(gone))
  BY FreeLoopIs
<1>5. Becomes(m)
  BY <1>1
<1> HIDE DEF m
<1>6. NodeSound(m, proxy, {}) /\ m.phase = phase
  BY <1>3, <1>4, DestroySound
<1> QED
  BY <1>2, <1>5, <1>6, CountedFacts, KeepsInv

\* A round of the scheduler keeps the invariant.
LEMMA FireInv ==
  ASSUME PortsInv, NEW a \in Actor, fire_actors(a)
  PROVE  PortsInv'
<1>1. NodeSound(Node, proxy, {}) /\ Node.phase = phase
  BY InvFacts, NodeIs
<1>2. Counted
  BY DEF fire_actors
<1>3. CASE actor[a] = "DO_DELETE"
  <2> DEFINE m == cc_actor_free(Node, a)
  <2>1. Becomes(m)
    BY <1>3 DEF fire_actors
  <2> HIDE DEF m
  <2>2. NodeSound(m, proxy, {}) /\ m.phase = phase
    BY <1>1, FreeSound DEF m
  <2> QED
    BY <1>2, <2>1, <2>2, CountedFacts, KeepsInv
<1>4. CASE actor[a] # "DO_DELETE"
  <2> DEFINE m == FoldLeft(cc_port_transmit, Node, PortsOf[a])
  <2>1. Becomes(m)
    BY <1>4 DEF fire_actors
  <2>2. m = TransmitLoop!Fold(Node, PortsOf[a])
    BY TransmitLoopIs
  <2> HIDE DEF m
  <2>3. NodeSound(m, proxy, {}) /\ m.phase = phase
    BY <1>1, <2>2, TransmitAllSound DEF Frame
  <2> QED
    BY <1>2, <2>1, <2>3, CountedFacts, KeepsInv
<1> QED
  BY <1>3, <1>4

\* The answer to GET_PORT keeps the invariant.
LEMMA LookupReplyInv ==
  ASSUME PortsInv, NEW p \in Port, cc_port_get_peer_port_reply_handler(p)
  PROVE  PortsInv'
<1> DEFINE q == <<"lookup", p>>
           n == Answered(q)
<1>1. IsPending(q) /\ Counted
  BY DEF cc_port_get_peer_port_reply_handler
<1>2. \/ (~Exists(n, p) \/ n.port[p].state = "ENABLED") /\ Becomes(n)
      \/ Becomes(cc_port_set_state(n, p, "DO_DELETE"))
      \/ /\ Exists(n, p) /\ n.port[p].state # "ENABLED"
         /\ \E r \in Peer : Becomes(cc_port_connect([n EXCEPT !.port[p].peer_id = r], p))
  BY DEF cc_port_get_peer_port_reply_handler
<1>3. q \in Request
  BY Requests
<1>4. /\ \A r \in Runtime : tunnel[r].state = "PENDING" => q # <<"tunnel", tunnel[r].id>>
      /\ \A x \in Port \ {p} : q # <<"lookup", x>> /\ q # <<"connect", x>>
      /\ \A x \in Port : q # <<"connect", x>>
  OBVIOUS
<1> HIDE DEF q
<1>5. NodeSound(n, proxy, {p})
  BY <1>1, <1>3, <1>4, AnsweredSound
<1>6. /\ n.phase = phase /\ n.port = port /\ n.actors = actors
      /\ \A k \in Request : k # q => n.pending[k] = pending[k]
  BY <1>1, <1>3, AnsweredFacts
<1> HIDE DEF n
<1>7. Calm => PortSound(Node, p)
  BY InvFacts DEF NodeSound, RequestsSound
<1>8. (Exists(n, p) /\ n.port[p].state = "PENDING_LOOKUP") \/ (Calm => PortSound(n, p))
  <2>1. n.pending[<<"connect", p>>] = pending[<<"connect", p>>]
    BY <1>4, <1>6, Requests
  <2> QED
    BY <1>6, <1>7, <2>1, NodeIs DEF PortSound, Exists
<1>9. CASE (~Exists(n, p) \/ n.port[p].state = "ENABLED") /\ Becomes(n)
  <2>1. Calm => PortSound(n, p)
    BY <1>9 DEF PortSound
  <2>2. NodeSound(n, proxy, {})
    BY <1>5, <2>1, Settled
  <2> QED
    BY <1>1, <1>6, <1>9, <2>2, CountedFacts, KeepsInv
<1>10. CASE Becomes(cc_port_set_state(n, p, "DO_DELETE"))
  <2> DEFINE m == cc_port_set_state(n, p, "DO_DELETE")
  <2>1. CanBe(n, p, "DO_DELETE") /\ "DO_DELETE" \in PortState /\ {p} \subseteq {p}
    BY DEF CanBe, PortState
  <2> HIDE DEF m
  <2>2. NodeSound(m, proxy, {}) /\ Frame(n, m)
    BY <1>5, <2>1, SettleSound DEF m
  <2>3. m.phase = phase /\ Becomes(m)
    BY <1>6, <1>10, <2>2 DEF Frame, m
  <2> QED
    BY <1>1, <2>2, <2>3, CountedFacts, KeepsInv
<1>11. ASSUME Exists(n, p), n.port[p].state # "ENABLED",
              NEW r \in Peer, Becomes(cc_port_connect([n EXCEPT !.port[p].peer_id = r], p))
       PROVE  PortsInv'
  <2> DEFINE v == SetPeer(n.port[p], r)
             h == PutPort(n, p, v)
             m == cc_port_connect(h, p)
  <2>1. Becomes(m)
    BY <1>11 DEF PutPort, SetPeer
  <2>2. n \in NodeType
    BY <1>5 DEF NodeSound
  <2>3. n.port[p] \in PortType /\ r \in Runtime \cup {None}
    BY <2>2, PortFields DEF Runtime
  <2>4. v \in PortType /\ v.state = n.port[p].state /\ v.tunnel = n.port[p].tunnel
    BY <2>3, SetPeerFacts
  <2> HIDE DEF v
  <2>5. NodeSound(h, proxy, {p}) /\ PortsOnly(n, h) /\ h.port[p] = v
    BY <1>5, <2>4, MinorPort
  <2> HIDE DEF h
  <2>6. PICK X : /\ NodeSound(h, proxy, X)
                 /\ X = {} \/ (X = {p} /\ h.port[p].tunnel = None /\ h.port[p].state # "ENABLED")
    <3>1. CASE h.port[p].tunnel = None
      BY <1>11, <2>4, <2>5, <3>1
    <3>2. CASE h.port[p].tunnel # None
      <4>1. Calm => n.port[p].state # "PENDING_LOOKUP"
        <5>1. n.port[p].tunnel # None /\ Exists(Node, p)
          BY <1>6, <1>11, <2>4, <2>5, <3>2, NodeIs DEF Exists
        <5> QED
          BY <1>6, <1>7, <5>1, NodeIs DEF PortSound
      <4>2. Calm => PortSound(n, p)
        BY <1>8, <4>1
      <4>3. Calm => PortSound(h, p)
        BY <2>4, <2>5, <4>2 DEF PortSound, PortsOnly, Exists
      <4>4. NodeSound(h, proxy, {})
        BY <2>5, <4>3, Settled
      <4> QED
        BY <4>4
    <3> QED
      BY <3>1, <3>2
  <2>7. Exists(h, p) /\ h.phase = phase
    BY <1>6, <1>11, <2>5 DEF PortsOnly, Exists
  <2> HIDE DEF m
  <2>8. (NodeSound(m, proxy, {}) \/ m.full) /\ Frame(h, m)
    BY <2>6, <2>7, ConnectSound DEF m
  <2>9. NodeSound(m, proxy, {}) /\ m.phase = phase
    BY <2>1, <2>7, <2>8 DEF Becomes, Frame
  <2> QED
    BY <1>1, <2>1, <2>9, CountedFacts, KeepsInv
<1> QED
  BY <1>2, <1>9, <1>10, <1>11

\* The answer to PORT_CONNECT keeps the invariant.
LEMMA ConnectReplyInv ==
  ASSUME PortsInv, NEW p \in Port, cc_port_connect_reply_handler(p)
  PROVE  PortsInv'
<1> DEFINE q == <<"connect", p>>
           n == Answered(q)
<1>1. IsPending(q) /\ Counted
  BY DEF cc_port_connect_reply_handler
<1>2. \/ ~Exists(n, p) /\ Becomes(n)
      \/ \E s \in {"ENABLED", "DISCONNECTED"} : Becomes(cc_port_set_state(n, p, s))
  BY DEF cc_port_connect_reply_handler
<1>3. q \in Request
  BY Requests
<1>4. /\ \A r \in Runtime : tunnel[r].state = "PENDING" => q # <<"tunnel", tunnel[r].id>>
      /\ \A x \in Port \ {p} : q # <<"lookup", x>> /\ q # <<"connect", x>>
  OBVIOUS
<1> HIDE DEF q
<1>5. NodeSound(n, proxy, {p}) /\ n.phase = phase
  BY <1>1, <1>3, <1>4, AnsweredSound, AnsweredFacts
<1> HIDE DEF n
<1>6. CASE ~Exists(n, p) /\ Becomes(n)
  <2>1. Calm => PortSound(n, p)
    BY <1>6 DEF PortSound
  <2>2. NodeSound(n, proxy, {})
    BY <1>5, <2>1, Settled
  <2> QED
    BY <1>1, <1>5, <1>6, <2>2, CountedFacts, KeepsInv
<1>7. ASSUME NEW s \in {"ENABLED", "DISCONNECTED"}, Becomes(cc_port_set_state(n, p, s)) PROVE PortsInv'
  <2> DEFINE m == cc_port_set_state(n, p, s)
  <2>1. CanBe(n, p, s) /\ s \in PortState /\ {p} \subseteq {p}
    BY DEF CanBe, PortState
  <2> HIDE DEF m
  <2>2. NodeSound(m, proxy, {}) /\ Frame(n, m)
    BY <1>5, <2>1, SettleSound DEF m
  <2>3. m.phase = phase /\ Becomes(m)
    BY <1>5, <1>7, <2>2 DEF Frame, m
  <2> QED
    BY <1>1, <2>2, <2>3, CountedFacts, KeepsInv
<1> QED
  BY <1>2, <1>6, <1>7

\* An open tunnel changes and stays open.
PutTunnel(n, r, v) == [n EXCEPT !.tunnel[r] = v]

\* Storing an open tunnel with the same count keeps the counts exact.
LEMMA PutTunnelFacts ==
  ASSUME NEW n \in NodeType, NEW px, RefsSound(n, px), ActorsSound(n), NEW r \in Runtime, Open(n, r),
         NEW v \in TunnelType, v.state # "FREE", v.ref_count = n.tunnel[r].ref_count,
         NEW m, m = PutTunnel(n, r, v)
  PROVE  /\ m \in NodeType /\ RefsSound(m, px) /\ ActorsSound(m)
         /\ m.actors = n.actors /\ m.port = n.port /\ m.pending = n.pending /\ m.phase = n.phase
         /\ m.tunnel[r] = v /\ \A s \in Runtime : s # r => m.tunnel[s] = n.tunnel[s]
<1> DEFINE x == [n.tunnel EXCEPT ![r] = v]
<1>1. m = WithTunnel(n, x)
  BY DEF PutTunnel, WithTunnel
<1>2. x \in [Runtime -> TunnelType] /\ x[r] = v /\ \A s \in Runtime : s # r => x[s] = n.tunnel[s]
  BY NodeFields
<1> HIDE DEF x
<1>3. /\ m \in NodeType /\ m.tunnel = x /\ m.actors = n.actors /\ m.actor = n.actor
      /\ m.port = n.port /\ m.link = n.link /\ m.pending = n.pending /\ m.phase = n.phase
  BY <1>1, <1>2, WithTunnelFacts
<1>4. \A s \in Runtime : /\ PortUsers(m, s) = PortUsers(n, s)
                         /\ Open(m, s) <=> Open(n, s)
                         /\ Needed(m, s, px) = Needed(n, s, px)
                         /\ m.tunnel[s].ref_count = n.tunnel[s].ref_count
  <2>1. \A s \in Runtime : (Open(m, s) <=> Open(n, s)) /\ m.tunnel[s].ref_count = n.tunnel[s].ref_count
    BY <1>2, <1>3 DEF Open
  <2>2. \A s \in Runtime : PortUsers(m, s) = PortUsers(n, s)
    BY <1>3 DEF PortUsers
  <2> QED
    BY <2>1, <2>2 DEF Needed
<1>5. \A p : Exists(m, p) <=> Exists(n, p)
  BY <1>3 DEF Exists
<1>6. RefsSound(m, px)
  BY <1>3, <1>4, <1>5 DEF RefsSound
<1>7. ActorsSound(m)
  BY <1>3, SameActors
<1> QED
  BY <1>2, <1>3, <1>6, <1>7

\* The answer to TUNNEL_NEW keeps the invariant, also when the tunnel is gone.
LEMMA TunnelReplyInv ==
  ASSUME PortsInv, NEW id \in Id, tunnel_request_handler(id)
  PROVE  PortsInv'
<1> DEFINE q == <<"tunnel", id>>
           n == Answered(q)
           T == {r \in Runtime : Open(n, r) /\ n.tunnel[r].id = id}
<1>1. IsPending(q) /\ Counted
  BY DEF tunnel_request_handler
<1>2. \/ T = {} /\ Becomes(n)
      \/ \E r \in T, state \in {"ENABLED"} \cup (IF Faulty THEN {"DISCONNECTED"} ELSE {}) :
           Becomes([n EXCEPT !.tunnel[r].state = state])
  BY DEF tunnel_request_handler
<1>3. q \in Request /\ (\A x \in Port : q # <<"lookup", x>> /\ q # <<"connect", x>>)
      /\ \A i \in Id : q = <<"tunnel", i>> => i = id
  BY Requests
<1> HIDE DEF q
<1>4. /\ n \in NodeType /\ RefsSound(n, proxy) /\ ActorsSound(n)
      /\ n.actors = actors /\ n.port = port /\ n.tunnel = tunnel /\ n.phase = phase
      /\ \A k \in Request : k # q => n.pending[k] = pending[k]
  BY <1>1, <1>3, AnsweredFacts
<1>5. CASE T = {} /\ Becomes(n)
  <2>1. ASSUME NEW r \in Runtime, tunnel[r].state = "PENDING" PROVE q # <<"tunnel", tunnel[r].id>>
    <3>1. Open(n, r) /\ r \notin T
      BY <1>4, <1>5, <2>1 DEF Open
    <3>2. tunnel[r].id # id /\ tunnel[r].id \in Id
      BY <1>4, <3>1, TunnelFields
    <3> QED
      BY <1>3, <3>2
  <2>2. \A x \in Port \ {} : q # <<"lookup", x>> /\ q # <<"connect", x>>
    BY <1>3
  <2>3. NodeSound(n, proxy, {})
    BY <1>1, <1>3, <2>1, <2>2, AnsweredSound
  <2> HIDE DEF n
  <2> QED
    BY <1>1, <1>4, <1>5, <2>3, CountedFacts, KeepsInv
<1>6. ASSUME NEW r \in T, NEW state \in {"ENABLED"} \cup (IF Faulty THEN {"DISCONNECTED"} ELSE {}),
             Becomes([n EXCEPT !.tunnel[r].state = state])
      PROVE  PortsInv'
  <2> DEFINE v == [n.tunnel[r] EXCEPT !.state = state]
             m == PutTunnel(n, r, v)
  <2>1. Becomes(m)
    BY <1>6 DEF PutTunnel
  <2>2. r \in Runtime /\ Open(n, r) /\ n.tunnel[r].id = id
    OBVIOUS
  <2> HIDE DEF n
  <2>3. n.tunnel[r] \in TunnelType /\ state \in {"ENABLED", "DISCONNECTED"} /\ (Calm => state = "ENABLED")
    BY <1>4, <1>6, <2>2, TunnelFields DEF Calm
  <2>4. /\ v \in TunnelType /\ v.state = state /\ v.state # "FREE" /\ v.id = id
        /\ v.ref_count = n.tunnel[r].ref_count
    BY <2>2, <2>3 DEF TunnelType, TunnelState
  <2> HIDE DEF v
  <2>5. /\ m \in NodeType /\ RefsSound(m, proxy) /\ ActorsSound(m)
        /\ m.actors = n.actors /\ m.port = n.port /\ m.pending = n.pending /\ m.phase = n.phase
        /\ m.tunnel[r] = v /\ \A s \in Runtime : s # r => m.tunnel[s] = n.tunnel[s]
    BY <1>4, <2>2, <2>4, PutTunnelFacts
  <2> HIDE DEF m
  <2>6. ASSUME Calm PROVE TunnelsSound(m) /\ \A p \in Port : PortSound(m, p)
    <3>1. TunnelsSound(Node) /\ \A p \in Port : PortSound(Node, p)
      BY <2>6, InvFacts DEF NodeSound, RequestsSound
    <3>2. ASSUME NEW s \in Runtime, m.tunnel[s].state = "PENDING"
          PROVE  m.pending[<<"tunnel", m.tunnel[s].id>>] > 0
      <4>1. s # r
        BY <2>3, <2>4, <2>5, <2>6, <3>2
      <4>2. m.tunnel[s] = tunnel[s] /\ tunnel[s].state = "PENDING" /\ tunnel[s].id \in Id
        BY <1>4, <2>5, <3>2, <4>1, TunnelFields
      <4>3. Open(Node, s) /\ Open(Node, r) /\ tunnel[r].id = id
        BY <1>4, <2>2, <4>2, NodeIs DEF Open
      <4>4. tunnel[s].id # id
        BY <2>2, <3>1, <4>1, <4>3, NodeIs DEF TunnelsSound
      <4>5. <<"tunnel", tunnel[s].id>> \in Request /\ <<"tunnel", tunnel[s].id>> # q
        BY <1>3, <4>2, <4>4, Requests
      <4>6. pending[<<"tunnel", tunnel[s].id>>] > 0
        BY <3>1, <4>2, NodeIs DEF TunnelsSound
      <4> QED
        BY <1>4, <2>5, <4>2, <4>5, <4>6
    <3>3. ASSUME NEW s \in Runtime
          PROVE  /\ Open(m, s) <=> Open(Node, s)
                 /\ m.tunnel[s].id = Node.tunnel[s].id
                 /\ m.tunnel[s].state # "DISCONNECTED"
      <4>1. CASE s = r
        <5>1. m.tunnel[s].id = id /\ m.tunnel[s].state = "ENABLED"
          BY <2>3, <2>4, <2>5, <2>6, <4>1
        <5>2. Open(Node, s) /\ Node.tunnel[s].id = id
          BY <1>4, <2>2, <4>1, NodeIs DEF Open
        <5> QED
          BY <5>1, <5>2 DEF Open
      <4>2. CASE s # r
        <5>1. m.tunnel[s] = Node.tunnel[s]
          BY <1>4, <2>5, <4>2, NodeIs
        <5> QED
          BY <3>1, <5>1 DEF TunnelsSound, Open
      <4> QED
        BY <4>1, <4>2
    <3>4. TunnelsSound(m)
      BY <3>1, <3>2, <3>3 DEF TunnelsSound
    <3>5. ASSUME NEW p \in Port PROVE PortSound(m, p)
      <4>1. /\ m.pending[<<"lookup", p>>] = pending[<<"lookup", p>>]
            /\ m.pending[<<"connect", p>>] = pending[<<"connect", p>>]
        BY <1>3, <1>4, <2>5, Requests
      <4> QED
        BY <1>4, <2>5, <3>1, <4>1, NodeIs DEF PortSound, Exists
    <3> QED
      BY <3>4, <3>5
  <2>7. NodeSound(m, proxy, {}) /\ m.phase = phase
    BY <1>4, <2>5, <2>6 DEF NodeSound, RequestsSound
  <2> QED
    BY <1>1, <2>1, <2>7, CountedFacts, KeepsInv
<1> QED
  BY <1>2, <1>5, <1>6

\* A TUNNEL_NEW of another runtime keeps the invariant.
LEMMA TunnelNewInv ==
  ASSUME PortsInv, NEW r \in Peer, cc_tunnel_handle_tunnel_new_request(r)
  PROVE  PortsInv'
<1>1. NodeSound(Node, proxy, {}) /\ Node \in NodeType /\ Node.phase = phase
  BY InvFacts, NodeIs
<1>2. Counted /\ r \in Runtime
  BY DEF cc_tunnel_handle_tunnel_new_request, Runtime
<1>3. CASE ~Open(Node, r)
  <2> DEFINE m == cc_tunnel_create(Node, r, "ENABLED")
  <2>1. Becomes(m) /\ "ENABLED" \in {"ENABLED", "DISCONNECTED"}
    BY <1>3 DEF cc_tunnel_handle_tunnel_new_request
  <2> HIDE DEF m
  <2>2. NodeSound(m, proxy, {}) /\ m.phase = phase
    BY <1>1, <1>2, <1>3, <2>1, CreateSound DEF m
  <2> QED
    BY <1>2, <2>1, <2>2, CountedFacts, KeepsInv
<1>4. CASE Open(Node, r) /\ Becomes(Node)
  BY <1>1, <1>2, <1>4, CountedFacts, KeepsInv
<1>5. ASSUME Open(Node, r), FreshIds(Node) # {}, NEW id \in {tunnel[r].id, Fresh(Node)},
             Becomes([Node EXCEPT !.tunnel[r] = [@ EXCEPT !.state = "ENABLED", !.id = id]])
      PROVE  PortsInv'
  <2> DEFINE v == [Node.tunnel[r] EXCEPT !.state = "ENABLED", !.id = id]
             m == PutTunnel(Node, r, v)
  <2>1. Becomes(m)
    BY <1>5 DEF PutTunnel
  <2>2. /\ Node.tunnel[r] \in TunnelType /\ Node.tunnel[r].id \in Id
        /\ Fresh(Node) \in Id
        /\ \A s \in Runtime : Open(Node, s) => Node.tunnel[s].id # Fresh(Node)
    BY <1>1, <1>2, <1>5, TunnelFields, FreshFacts
  <2>3. id \in Id /\ id \in {Node.tunnel[r].id, Fresh(Node)}
    BY <1>5, <2>2, NodeIs
  <2>4. /\ v \in TunnelType /\ v.state = "ENABLED" /\ v.state # "FREE" /\ v.id = id
        /\ v.ref_count = Node.tunnel[r].ref_count
    <3> DEFINE w == Node.tunnel[r]
    <3>1. w \in TunnelType => LET u == [w EXCEPT !.state = "ENABLED", !.id = id]
                              IN u \in TunnelType /\ u.state = "ENABLED" /\ u.id = id
                                 /\ u.ref_count = w.ref_count
      <4> HIDE DEF w
      <4> QED
        BY <2>3 DEF TunnelType, TunnelState
    <3> QED
      BY <2>2, <3>1
  <2> HIDE DEF v
  <2>5. RefsSound(Node, proxy) /\ ActorsSound(Node) /\ RequestsSound(Node, {})
    BY <1>1 DEF NodeSound
  <2>6. /\ m \in NodeType /\ RefsSound(m, proxy) /\ ActorsSound(m)
        /\ m.actors = Node.actors /\ m.port = Node.port /\ m.pending = Node.pending
        /\ m.phase = Node.phase
        /\ m.tunnel[r] = v /\ \A s \in Runtime : s # r => m.tunnel[s] = Node.tunnel[s]
    BY <1>1, <1>2, <1>5, <2>4, <2>5, PutTunnelFacts
  <2> HIDE DEF m
  <2>7. ASSUME Calm PROVE TunnelsSound(m) /\ \A p \in Port : PortSound(m, p)
    <3>1. TunnelsSound(Node) /\ \A p \in Port : PortSound(Node, p)
      BY <2>5, <2>7 DEF RequestsSound
    <3>2. \A s \in Runtime : Open(m, s) <=> Open(Node, s)
      BY <1>2, <1>5, <2>4, <2>6 DEF Open
    <3>3. ASSUME NEW s \in Runtime, s # r, Open(Node, s) PROVE m.tunnel[s].id # id
      BY <1>2, <1>5, <2>2, <2>3, <2>6, <3>1, <3>3 DEF TunnelsSound
    <3>4. TunnelsSound(m)
      BY <2>4, <2>6, <3>1, <3>2, <3>3 DEF TunnelsSound
    <3>5. \A p \in Port : PortSound(m, p)
      BY <2>6, <3>1 DEF PortSound, Exists
    <3> QED
      BY <3>4, <3>5
  <2>8. NodeSound(m, proxy, {}) /\ m.phase = phase
    BY <1>1, <2>6, <2>7 DEF NodeSound, RequestsSound
  <2> QED
    BY <1>2, <2>1, <2>8, CountedFacts, KeepsInv
<1> QED
  BY <1>3, <1>4, <1>5 DEF cc_tunnel_handle_tunnel_new_request

\* A PORT_CONNECT of another runtime keeps the invariant.
LEMMA HandleConnectInv ==
  ASSUME PortsInv, NEW p \in Port, NEW id \in Id, cc_port_handle_connect(p, id)
  PROVE  PortsInv'
<1>1. NodeSound(Node, proxy, {}) /\ Node.phase = phase
  BY InvFacts, NodeIs
<1>2. Counted /\ Exists(Node, p) /\ "ENABLED" \in PortState
  BY DEF cc_port_handle_connect, PortState
<1> DEFINE n == Unref(Node, p)
           T == {r \in Runtime : Open(n, r) /\ n.tunnel[r].id = id}
<1>3. \/ Becomes(cc_port_set_state(Node, p, "ENABLED"))
      \/ Faulty /\ Becomes(n)
      \/ \E r \in T : Becomes(cc_port_set_state(
                        [cc_tunnel_add_ref(n, r) EXCEPT
                           !.port[p] = [@ EXCEPT !.tunnel = r, !.peer_id = r]], p, "ENABLED"))
  BY DEF cc_port_handle_connect
<1>4. /\ NodeSound(n, proxy, {} \cup {p}) /\ Frame(Node, n) /\ n.port[p].tunnel = None
      /\ {} \cup {p} = {p}
  BY <1>1, UnrefSound DEF Frame
<1> HIDE DEF n
<1>5. CASE Becomes(cc_port_set_state(Node, p, "ENABLED"))
  <2> DEFINE m == cc_port_set_state(Node, p, "ENABLED")
  <2>1. CanBe(Node, p, "ENABLED") /\ {} \subseteq {p}
    BY DEF CanBe
  <2> HIDE DEF m
  <2>2. NodeSound(m, proxy, {}) /\ Frame(Node, m)
    BY <1>1, <1>2, <2>1, SettleSound DEF m
  <2>3. m.phase = phase /\ Becomes(m)
    BY <1>1, <1>5, <2>2 DEF Frame, m
  <2> QED
    BY <1>2, <2>2, <2>3, CountedFacts, KeepsInv
<1>6. CASE Faulty /\ Becomes(n)
  <2>1. ~Calm
    BY <1>6 DEF Calm
  <2>2. NodeSound(n, proxy, {}) /\ n.phase = phase
    BY <1>1, <1>4, <2>1 DEF NodeSound, RequestsSound, Frame
  <2> QED
    BY <1>2, <1>6, <2>2, CountedFacts, KeepsInv
<1>7. ASSUME NEW r \in T,
             Becomes(cc_port_set_state(
               [cc_tunnel_add_ref(n, r) EXCEPT
                  !.port[p] = [@ EXCEPT !.tunnel = r, !.peer_id = r]], p, "ENABLED"))
      PROVE  PortsInv'
  <2> DEFINE v == SetTunnelPeer(cc_tunnel_add_ref(n, r).port[p], r, r)
             h == PutPort(cc_tunnel_add_ref(n, r), p, v)
             m == cc_port_set_state(h, p, "ENABLED")
  <2>1. Becomes(m)
    BY <1>7 DEF PutPort, SetTunnelPeer
  <2>2. r \in Runtime /\ Open(n, r) /\ n \in NodeType
    BY <1>4 DEF NodeSound
  <2>3. cc_tunnel_add_ref(n, r).port = n.port
    BY <2>2 DEF cc_tunnel_add_ref, NodeType
  <2>4. v = SetTunnelPeer(n.port[p], r, r) /\ n.port[p] \in PortType /\ r \in Runtime \cup {None}
    BY <2>2, <2>3, PortFields
  <2> HIDE DEF v
  <2>5. v \in PortType /\ v.tunnel = r /\ v.state = n.port[p].state
    BY <2>4, SetTunnelPeerFacts
  <2>6. Exists(n, p) /\ h = PutPort(cc_tunnel_add_ref(n, r), p, v)
    BY <1>2, <1>4 DEF Exists, Frame
  <2> HIDE DEF h, T
  <2>7. NodeSound(h, proxy, ({} \cup {p}) \cup {p}) /\ Frame(n, h) /\ ({} \cup {p}) \cup {p} \subseteq {p}
    BY <1>4, <2>2, <2>5, <2>6, HoldSound DEF Frame
  <2>8. CanBe(h, p, "ENABLED")
    BY DEF CanBe
  <2> HIDE DEF m
  <2>9. NodeSound(m, proxy, {}) /\ Frame(h, m)
    BY <1>2, <2>7, <2>8, SettleSound DEF m
  <2>10. m.phase = phase
    BY <1>1, <1>4, <2>7, <2>9 DEF Frame
  <2> QED
    BY <1>2, <2>1, <2>9, <2>10, CountedFacts, KeepsInv
<1> QED
  BY <1>3, <1>5, <1>6, <1>7

\* A PORT_DISCONNECT of another runtime keeps the invariant.
LEMMA HandleDisconnectInv ==
  ASSUME PortsInv, NEW p \in Port, cc_port_handle_disconnect(p)
  PROVE  PortsInv'
<1> DEFINE v == SetPeer(Node.port[p], None)
           h == PutPort(Node, p, v)
           k == cc_port_set_state(h, p, "DISCONNECTED")
           m == Unref(k, p)
<1>1. NodeSound(Node, proxy, {}) /\ Node.phase = phase /\ Node \in NodeType
  BY InvFacts, NodeIs
<1>2. Counted /\ Becomes(m)
  BY DEF cc_port_handle_disconnect, PutPort, SetPeer
<1>3. Node.port[p] \in PortType /\ None \in Runtime \cup {None}
  BY <1>1, PortFields
<1>4. v \in PortType /\ v.state = Node.port[p].state /\ v.tunnel = Node.port[p].tunnel
  BY <1>3, SetPeerFacts
<1> HIDE DEF v
<1>5. NodeSound(h, proxy, {}) /\ PortsOnly(Node, h)
  BY <1>1, <1>4, MinorPort
<1> HIDE DEF h
<1>6. CanBe(h, p, "DISCONNECTED") /\ "DISCONNECTED" \in PortState /\ {} \subseteq {p}
  BY DEF CanBe, PortState
<1>7. NodeSound(k, proxy, {}) /\ Frame(h, k) /\ k.port[p].state = "DISCONNECTED"
  BY <1>5, <1>6, SettleSound
<1> HIDE DEF k, m
<1>8. NodeSound(m, proxy, {} \cup {p}) /\ Frame(k, m) /\ m.port[p].state = "DISCONNECTED"
  BY <1>7, UnrefSound DEF m, Frame
<1>9. {} \cup {p} = {p} /\ PortSound(m, p)
  BY <1>8 DEF PortSound
<1>10. NodeSound(m, proxy, {})
  BY <1>8, <1>9, Settled
<1>11. m.phase = phase
  BY <1>1, <1>5, <1>7, <1>8 DEF Frame, PortsOnly
<1> QED
  BY <1>2, <1>10, <1>11, CountedFacts, KeepsInv

\* A new actor with ports that have no tunnel.
LEMMA NewActorSound ==
  ASSUME NEW n, NEW px, NodeSound(n, px, {}), NEW a \in Actor, a \notin Range(n.actors),
         NEW known \in [OwnPorts(a) -> Peer \cup {None}], NEW m, m = NewActor(n, a, known)
  PROVE  NodeSound(m, px, {}) /\ a \in Range(m.actors) /\ m.phase = n.phase
<1> DEFINE x == Append(n.actors, a)
           y == [n.actor EXCEPT ![a] = "PENDING"]
           z == [p \in Port |-> IF p \in OwnPorts(a) THEN SetPeer(NoPort, known[p]) ELSE n.port[p]]
           n1 == WithActors(n, x)
           n2 == WithActor(n1, y)
<1>1. m = WithPort(n2, z)
  <2>1. DOMAIN known = OwnPorts(a)
    OBVIOUS
  <2> QED
    BY <2>1 DEF NewActor, WithActors, WithActor, WithPort, SetPeer
<1>2. n \in NodeType /\ RefsSound(n, px) /\ ActorsSound(n) /\ RequestsSound(n, {})
  BY DEF NodeSound
<1>3. n.actors \in Seq(Actor) /\ n.actor \in [Actor -> ActorState] /\ n.port \in [Port -> PortType]
  BY <1>2, NodeFields
<1>4. x \in Seq(Actor) /\ Range(x) = Range(n.actors) \cup {a}
  <2> DEFINE s == n.actors
  <2>1. s \in Seq(Actor)
    BY <1>3
  <2> HIDE DEF s
  <2>2. /\ Append(s, a) \in Seq(Actor) /\ Len(s) \in Nat /\ DOMAIN s = 1 .. Len(s)
        /\ DOMAIN Append(s, a) = 1 .. Len(s) + 1
        /\ \A i \in 1 .. Len(s) : Append(s, a)[i] = s[i]
        /\ Append(s, a)[Len(s) + 1] = a
    BY <2>1
  <2>3. \A i \in 1 .. Len(s) + 1 : i \in 1 .. Len(s) \/ i = Len(s) + 1
    BY <2>2
  <2>4. Range(Append(s, a)) \subseteq Range(s) \cup {a}
    BY <2>2, <2>3 DEF Range
  <2>5. Range(s) \cup {a} \subseteq Range(Append(s, a))
    <3>1. Len(s) + 1 \in 1 .. Len(s) + 1 /\ \A i \in 1 .. Len(s) : i \in 1 .. Len(s) + 1
      BY <2>2
    <3> QED
      BY <2>2, <3>1 DEF Range
  <2> QED
    BY <2>2, <2>4, <2>5 DEF s
<1> HIDE DEF x
<1>5. y \in [Actor -> ActorState] /\ y[a] = "PENDING" /\ \A b \in Actor : b # a => y[b] = n.actor[b]
  BY <1>3 DEF ActorState
<1> HIDE DEF y
<1>6. ASSUME NEW p \in Port
      PROVE  /\ z[p] \in PortType
             /\ p \notin OwnPorts(a) => z[p] = n.port[p]
             /\ p \in OwnPorts(a) => z[p].state = "DISCONNECTED" /\ z[p].tunnel = None
  <2>1. NoPort \in PortType /\ NoPort.state = "DISCONNECTED" /\ NoPort.tunnel = None
    BY BoundAssumption DEF NoPort, PortType, PortState
  <2>2. CASE p \in OwnPorts(a)
    <3>1. z[p] = SetPeer(NoPort, known[p]) /\ known[p] \in Runtime \cup {None}
      BY <2>2 DEF Runtime
    <3> HIDE DEF z
    <3> QED
      BY <2>1, <2>2, <3>1, SetPeerFacts
  <2>3. CASE p \notin OwnPorts(a)
    BY <1>3, <2>3
  <2> QED
    BY <2>2, <2>3
<1>7. z \in [Port -> PortType]
  <2>1. z = [p \in Port |-> z[p]]
    OBVIOUS
  <2> HIDE DEF z
  <2> QED
    BY <1>6, <2>1
<1> HIDE DEF z
<1>8. /\ n1 \in NodeType /\ n1.actors = x /\ n1.actor = n.actor /\ n1.port = n.port
      /\ n1.tunnel = n.tunnel /\ n1.link = n.link /\ n1.pending = n.pending /\ n1.phase = n.phase
  BY <1>2, <1>4, WithActorsFacts
<1> HIDE DEF n1
<1>9. /\ n2 \in NodeType /\ n2.actors = x /\ n2.actor = y /\ n2.port = n.port
      /\ n2.tunnel = n.tunnel /\ n2.link = n.link /\ n2.pending = n.pending /\ n2.phase = n.phase
  BY <1>5, <1>8, WithActorFacts
<1> HIDE DEF n2
<1>10. /\ m \in NodeType /\ m.actors = x /\ m.actor = y /\ m.port = z
       /\ m.tunnel = n.tunnel /\ m.link = n.link /\ m.pending = n.pending /\ m.phase = n.phase
  BY <1>1, <1>7, <1>9, WithPortFacts
<1>11. ASSUME NEW p \in OwnPorts(a) PROVE p \in Port /\ ~Exists(n, p) /\ n.port[p].tunnel = None
  BY <1>2 DEF OwnPorts, Exists, RefsSound
<1>12. \A p \in Port : m.port[p].tunnel = n.port[p].tunnel /\ (Exists(n, p) => Exists(m, p))
  BY <1>4, <1>6, <1>10, <1>11 DEF Exists
<1>13. RefsSound(m, px)
  <2>1. \A r : PortUsers(m, r) = PortUsers(n, r)
    BY <1>12 DEF PortUsers
  <2>2. \A r : (Open(m, r) <=> Open(n, r)) /\ Needed(m, r, px) = Needed(n, r, px)
    BY <1>10 DEF Open, Needed
  <2> QED
    BY <1>2, <1>10, <1>12, <2>1, <2>2 DEF RefsSound
<1>14. ActorsSound(m)
  <2> SUFFICES ASSUME NEW p \in Port, m.actor[Owner(p)] = "ENABLED" PROVE m.port[p].state = "ENABLED"
    BY DEF ActorsSound
  <2>1. Owner(p) \in Actor
    BY PortOwner
  <2>2. Owner(p) # a /\ n.actor[Owner(p)] = "ENABLED" /\ p \notin OwnPorts(a)
    BY <1>5, <1>10, <2>1 DEF OwnPorts
  <2> QED
    BY <1>2, <1>6, <1>10, <2>2 DEF ActorsSound
<1>15. RequestsSound(m, {})
  <2> SUFFICES ASSUME Calm PROVE TunnelsSound(m) /\ \A p \in Port \ {} : PortSound(m, p)
    BY DEF RequestsSound
  <2>1. TunnelsSound(m)
    BY <1>2, <1>10 DEF RequestsSound, TunnelsSound, Open
  <2>2. ASSUME NEW p \in Port PROVE PortSound(m, p)
    <3>1. CASE p \in OwnPorts(a)
      BY <1>6, <1>10, <3>1 DEF PortSound
    <3>2. CASE p \notin OwnPorts(a)
      <4>1. PortSound(n, p)
        BY <1>2 DEF RequestsSound
      <4>2. Exists(m, p) => Exists(n, p)
        BY <1>4, <1>10, <3>2 DEF Exists, OwnPorts
      <4> QED
        BY <1>6, <1>10, <3>2, <4>1, <4>2 DEF PortSound
    <3> QED
      BY <3>1, <3>2
  <2> QED
    BY <2>1, <2>2
<1> QED
  BY <1>4, <1>10, <1>13, <1>14, <1>15 DEF NodeSound

\* Creating an actor keeps the invariant.
LEMMA CreateInv ==
  ASSUME PortsInv, NEW a \in Actor, cc_actor_create(a)
  PROVE  PortsInv'
<1>1. NodeSound(Node, proxy, {}) /\ Node.phase = phase /\ Node.actors = actors
  BY InvFacts, NodeIs
<1>2. PICK known \in [Range(PortsOf[a]) -> Peer \cup {None}] :
        Becomes(cc_actor_connect_ports(NewActor(Node, a, known), a))
  BY DEF cc_actor_create
<1>3. /\ a \notin Range(actors) /\ created' \in 0 .. MaxCreated
      /\ proxy' = proxy /\ broken' = broken /\ losses' = losses
  BY InvFacts, BoundAssumption DEF cc_actor_create, RestOK
<1>4. known \in [OwnPorts(a) -> Peer \cup {None}]
  BY OwnPortsFacts
<1> DEFINE n == NewActor(Node, a, known)
           m == cc_actor_connect_ports(n, a)
<1>5. Becomes(m)
  BY <1>2
<1> HIDE DEF n, m
<1>6. NodeSound(n, proxy, {}) /\ a \in Range(n.actors) /\ n.phase = Node.phase
  BY <1>1, <1>3, <1>4, NewActorSound DEF n
<1>7. NodeSound(m, proxy, {}) /\ m.phase = phase
  BY <1>1, <1>6, ConnectPortsSound DEF m, Frame
<1> QED
  BY <1>3, <1>5, <1>7, KeepsInv

\* The phase is not part of what is sound.
LEMMA PhaseSound ==
  ASSUME NEW n, NEW px, NodeSound(n, px, {}), NEW ph \in Phase, NEW m, m = WithPhase(n, ph)
  PROVE  NodeSound(m, px, {}) /\ m.phase = ph /\ m.actors = n.actors
<1>1. n \in NodeType /\ RefsSound(n, px) /\ ActorsSound(n) /\ RequestsSound(n, {})
  BY DEF NodeSound
<1>2. /\ m \in NodeType /\ m.phase = ph /\ m.actors = n.actors /\ m.actor = n.actor
      /\ m.port = n.port /\ m.tunnel = n.tunnel /\ m.link = n.link /\ m.pending = n.pending
  BY <1>1, WithPhaseFacts
<1>3. RefsSound(m, px)
  BY <1>1, <1>2, SameRefs
<1>4. ActorsSound(m) /\ RequestsSound(m, {})
  BY <1>1, <1>2 DEF ActorsSound, RequestsSound, TunnelsSound, PortSound, Exists, Open
<1> QED
  BY <1>2, <1>3, <1>4 DEF NodeSound

\* Connecting the ports of all actors after joining keeps the invariant.
LEMMA ConnectPortsInv ==
  ASSUME PortsInv, ConnectPorts
  PROVE  PortsInv'
<1> DEFINE n == WithPhase(Node, "started")
           m == ConnectAllLoop!Fold(n, n.actors)
<1>1. NodeSound(Node, proxy, {}) /\ Node.actors = actors /\ RestOK /\ (Calm => CanSend)
  BY InvFacts, NodeIs
<1>2. "started" \in Phase /\ n = [Node EXCEPT !.phase = "started"] /\ Counted
  BY DEF Phase, WithPhase, ConnectPorts
<1>3. n.actors = actors
  BY NodeIs DEF Node, WithPhase
<1>4. Becomes(m)
  BY <1>2, <1>3, ConnectAllLoopIs DEF ConnectPorts
<1> HIDE DEF n
<1>5. NodeSound(n, proxy, {}) /\ n.phase = "started"
  BY <1>1, <1>2, PhaseSound DEF n
<1> HIDE DEF m
<1>6. NodeSound(m, proxy, {}) /\ m.phase = "started"
  BY <1>5, ConnectAllSound DEF m, Frame
<1>7. proxy' = proxy /\ RestOK' /\ (Calm => m.phase # "down" /\ ~broken')
  BY <1>1, <1>2, <1>6 DEF Counted, RestOK, CanSend
<1>8. NodeSound(m, proxy', {})
  BY <1>6, <1>7
<1> QED
  BY <1>4, <1>7, <1>8, BecomesInv

\* Nothing is pointed to and the new proxy's link is held twice.
LEMMA ForgottenSound ==
  ASSUME NEW n \in NodeType, ~Calm, ActorsSound(n), NEW px \in Runtime,
         \A p \in Port : n.port[p].tunnel = None,
         \A s \in Runtime : n.tunnel[s] = NoTunnel /\ n.link[s] = IF s = px THEN 2 ELSE NoLink
  PROVE  NodeSound(n, px, {})
<1>1. ASSUME NEW s \in Runtime
      PROVE  /\ IsFiniteSet(PortUsers(n, s)) /\ n.tunnel[s].ref_count = Cardinality(PortUsers(n, s))
             /\ ~Open(n, s) => PortUsers(n, s) = {}
             /\ n.link[s] = Needed(n, s, px) \/ (Needed(n, s, px) = 0 /\ n.link[s] = NoLink)
  <2>1. PortUsers(n, s) = {}
    BY RuntimeAssumption DEF PortUsers
  <2>2. IsFiniteSet({}) /\ Cardinality({}) = 0
    BY FS_EmptySet
  <2>3. n.tunnel[s].ref_count = 0 /\ ~Open(n, s)
    BY DEF NoTunnel, Open
  <2>4. Needed(n, s, px) = IF s = px THEN 2 ELSE 0
    BY <2>3 DEF Needed
  <2> QED
    BY <2>1, <2>2, <2>3, <2>4
<1> QED
  BY <1>1 DEF NodeSound, RefsSound, RequestsSound

\* Joining a proxy keeps the invariant: its tunnel and link are made with their counts.
LEMMA JoinInv ==
  ASSUME PortsInv, NEW r \in Peer, JoinProxy(r)
  PROVE  PortsInv'
<1>1. NodeSound(Node, proxy, {}) /\ Node \in NodeType /\ RestOK /\ (Calm => CanSend)
  BY InvFacts
<1>2. ~Calm /\ "joining" \in Phase /\ r \in Runtime
  BY <1>1 DEF JoinProxy, CanSend, Phase, Runtime
<1>3. RestOK' /\ proxy' = r
  BY <1>1 DEF JoinProxy, RestOK
<1>4. CASE r = proxy
  <2> DEFINE m == WithPhase(Node, "joining")
  <2>1. Becomes(m)
    BY <1>4 DEF JoinProxy, WithPhase
  <2> HIDE DEF m
  <2>2. NodeSound(m, proxy', {})
    BY <1>1, <1>2, <1>3, <1>4, PhaseSound DEF m
  <2> QED
    BY <1>2, <1>3, <2>1, <2>2, BecomesInv
<1>5. CASE r # proxy
  <2> DEFINE x == [s \in Runtime |-> NoTunnel]
             y == [s \in Runtime |-> IF s = r THEN 2 ELSE NoLink]
             n1 == WithPhase(Node, "joining")
             n2 == WithTunnel(n1, x)
             n3 == WithLink(n2, y)
             m == ForgetAllLoop!Fold(n3, n3.actors)
  <2>1. n3 = [Node EXCEPT !.phase = "joining", !.tunnel = x, !.link = y]
    BY DEF WithPhase, WithTunnel, WithLink
  <2>2. n3.actors = actors
    BY NodeIs DEF Node, WithPhase, WithTunnel, WithLink
  <2>3. Becomes(m)
    BY <1>5, <2>1, <2>2, ForgetAllLoopIs DEF JoinProxy
  <2>4. x \in [Runtime -> TunnelType] /\ y \in [Runtime -> Nat \cup {NoLink}]
    <3>1. NoTunnel \in TunnelType
      BY BoundAssumption DEF NoTunnel, TunnelType, TunnelState, Id
    <3> QED
      BY <3>1 DEF NoLink
  <2>5. \A s \in Runtime : x[s] = NoTunnel /\ y[s] = IF s = r THEN 2 ELSE NoLink
    OBVIOUS
  <2> HIDE DEF x, y, m
  <2>6. /\ n1 \in NodeType /\ n1.actors = Node.actors /\ n1.actor = Node.actor /\ n1.port = Node.port
    BY <1>1, <1>2, WithPhaseFacts
  <2> HIDE DEF n1
  <2>7. /\ n2 \in NodeType /\ n2.actors = Node.actors /\ n2.actor = Node.actor /\ n2.port = Node.port
        /\ n2.tunnel = x
    BY <2>4, <2>6, WithTunnelFacts
  <2> HIDE DEF n2
  <2>8. /\ n3 \in NodeType /\ n3.actors = Node.actors /\ n3.actor = Node.actor /\ n3.port = Node.port
        /\ n3.tunnel = x /\ n3.link = y
    BY <2>4, <2>7, WithLinkFacts
  <2> HIDE DEF n3
  <2>9. ActorsSound(n3)
    <3>1. ActorsSound(Node)
      BY <1>1 DEF NodeSound
    <3> QED
      BY <2>8, <3>1, SameActors
  <2>10. /\ m \in Forgetting(n3)
         /\ \A p \in Port : Exists(n3, p) => m.port[p].tunnel = None
    BY <2>8, <2>9, ForgetAll DEF m
  <2>11. m \in NodeType /\ ActorsSound(m) /\ m.tunnel = x /\ m.link = y
    BY <2>8, <2>10 DEF Forgetting, PortsOnly
  <2>12. ASSUME NEW p \in Port PROVE m.port[p].tunnel = None
    <3>1. CASE Exists(n3, p)
      BY <2>10, <3>1
    <3>2. CASE ~Exists(n3, p)
      <4>1. ~Exists(Node, p)
        BY <2>8, <3>2 DEF Exists
      <4>2. n3.port[p].tunnel = None
        BY <1>1, <2>8, <4>1 DEF NodeSound, RefsSound
      <4> QED
        BY <2>10, <4>2 DEF Forgetting
    <3> QED
      BY <3>1, <3>2
  <2>13. NodeSound(m, r, {})
    BY <1>2, <2>5, <2>11, <2>12, ForgottenSound
  <2> QED
    BY <1>2, <1>3, <2>3, <2>13, BecomesInv
<1> QED
  BY <1>4, <1>5

\* A broken connection the node has not noticed keeps the invariant.
LEMMA BreaksInv ==
  ASSUME PortsInv, ConnectionBreaks
  PROVE  PortsInv'
<1>1. NodeSound(Node, proxy, {}) /\ Node \in NodeType /\ RestOK
  BY InvFacts
<1>2. ~Calm /\ RestOK' /\ proxy' = proxy
  BY <1>1, BoundAssumption DEF ConnectionBreaks, Calm, RestOK
<1>3. TypeOK
  BY DEF PortsInv
<1>4. TypeOK' /\ Node' = Node
  BY <1>2, <1>3 DEF ConnectionBreaks, TypeOK, RestOK, Node
<1> QED
  BY <1>1, <1>2, <1>4 DEF PortsInv, Calm

\* Noticing it, which forgets requests, tunnels and links, keeps the invariant.
LEMMA LostInv ==
  ASSUME PortsInv, ConnectionLost
  PROVE  PortsInv'
<1> DEFINE x == [q \in Request |-> 0]
           n == WithPending(Node, x)
           m == WithPhase(n, "down")
<1>1. NodeSound(Node, proxy, {}) /\ Node \in NodeType /\ RestOK /\ (Calm => CanSend)
  BY InvFacts
<1>2. ~Calm
  BY <1>1 DEF ConnectionLost, CanSend
<1>3. RestOK' /\ proxy' = proxy
  BY <1>1 DEF ConnectionLost, RestOK
<1>4. x \in [Request -> 0 .. MaxPending] /\ "down" \in Phase
  BY BoundAssumption DEF Phase
<1>5. x = [q \in Request |-> 0]
  OBVIOUS
<1> HIDE DEF x
<1>6. /\ n \in NodeType /\ n.actors = Node.actors /\ n.actor = Node.actor /\ n.port = Node.port
      /\ n.tunnel = Node.tunnel /\ n.link = Node.link /\ n.full = Node.full /\ n.pending = x
  BY <1>1, <1>4, WithPendingFacts
<1> HIDE DEF n
<1>7. RefsSound(n, proxy) /\ ActorsSound(n)
  <2>1. RefsSound(Node, proxy) /\ ActorsSound(Node)
    BY <1>1 DEF NodeSound
  <2> QED
    BY <1>6, <2>1, SameRefs, SameActors
<1>8. NodeSound(n, proxy, {})
  BY <1>2, <1>6, <1>7 DEF NodeSound, RequestsSound
<1>9. NodeSound(m, proxy, {})
  BY <1>4, <1>8, PhaseSound
<1>10. /\ m.actors = actors /\ m.actor = actor /\ m.port = port /\ m.tunnel = tunnel
       /\ m.link = link /\ m.full = full /\ m.pending = x /\ m.phase = "down"
  BY <1>4, <1>6, WithPhaseFacts, NodeIs
<1>11. m \in NodeType
  BY <1>9 DEF NodeSound
<1> HIDE DEF m
<1>12. Node' = m
  <2>1. m = [actors |-> m.actors, actor |-> m.actor, port |-> m.port, tunnel |-> m.tunnel,
             link |-> m.link, pending |-> m.pending, phase |-> m.phase, full |-> m.full]
    BY <1>11 DEF NodeType
  <2> QED
    BY <1>5, <1>10, <2>1 DEF ConnectionLost, Node
<1>13. TypeOK'
  <2>1. TypeOK
    BY DEF PortsInv
  <2> QED
    BY <1>3, <1>4, <1>5, <2>1 DEF ConnectionLost, TypeOK, RestOK
<1> QED
  BY <1>2, <1>3, <1>9, <1>12, <1>13 DEF PortsInv, Calm

\* The invariant holds in the beginning.
LEMMA PortsInit ==
  ASSUME Init
  PROVE  PortsInv
<1>1. /\ <<>> \in Seq(Actor) /\ NoPort \in PortType /\ NoTunnel \in TunnelType
      /\ {"down", "joining", "started"} \subseteq Phase /\ "PENDING" \in ActorState
  BY BoundAssumption DEF NoPort, PortType, PortState, NoTunnel, TunnelType, TunnelState, Id, Phase, ActorState
<1>2. TypeOK
  <2>1. /\ actors \in Seq(Actor) /\ actor \in [Actor -> ActorState]
        /\ port \in [Port -> PortType] /\ tunnel \in [Runtime -> TunnelType]
    BY <1>1 DEF Init
  <2>2. link \in [Runtime -> Nat \cup {NoLink}]
    BY DEF Init
  <2>3. pending \in [Request -> 0 .. MaxPending]
    <3>1. 0 \in 0 .. MaxPending
      BY BoundAssumption
    <3> QED
      BY <3>1 DEF Init
  <2>4. losses \in 0 .. MaxLosses /\ created \in 0 .. MaxCreated
    BY BoundAssumption DEF Init
  <2>5. proxy \in Peer /\ phase \in Phase /\ broken \in BOOLEAN /\ full \in BOOLEAN
    BY <1>1, RuntimeAssumption DEF Init
  <2> QED
    BY <2>1, <2>2, <2>3, <2>4, <2>5 DEF TypeOK
<1>3. Node \in NodeType
  BY <1>2 DEF TypeOK, Node, NodeType
<1>4. ActorsSound(Node)
  <2>1. \A p \in Port : actor[Owner(p)] = "PENDING"
    BY PortOwner DEF Init
  <2> QED
    BY <2>1, NodeIs DEF ActorsSound
<1>5. /\ \A p \in Port : /\ Node.port[p].tunnel = None
                         /\ Node.port[p].state = "DISCONNECTED"
      /\ \A s \in Runtime : /\ Node.tunnel[s] = NoTunnel
                            /\ Node.link[s] = IF s = FirstProxy THEN 2 ELSE NoLink
  BY NodeIs DEF Init, NoPort
<1>6. RefsSound(Node, proxy)
  <2>1. ASSUME NEW s \in Runtime
        PROVE  /\ IsFiniteSet(PortUsers(Node, s))
               /\ Node.tunnel[s].ref_count = Cardinality(PortUsers(Node, s))
               /\ ~Open(Node, s) => PortUsers(Node, s) = {}
               /\ \/ Node.link[s] = Needed(Node, s, proxy)
                  \/ Needed(Node, s, proxy) = 0 /\ Node.link[s] = NoLink
    <3>1. PortUsers(Node, s) = {}
      BY <1>5, RuntimeAssumption DEF PortUsers
    <3>2. IsFiniteSet({}) /\ Cardinality({}) = 0
      BY FS_EmptySet
    <3>3. Node.tunnel[s].ref_count = 0 /\ ~Open(Node, s)
      BY <1>5 DEF NoTunnel, Open
    <3>4. Needed(Node, s, proxy) = IF s = FirstProxy THEN 2 ELSE 0
      BY <3>3 DEF Needed, Init
    <3> QED
      BY <1>5, <3>1, <3>2, <3>3, <3>4
  <2> QED
    BY <1>5, <2>1 DEF RefsSound
<1>7. RequestsSound(Node, {})
  <2>1. TunnelsSound(Node)
    BY <1>5 DEF TunnelsSound, Open, NoTunnel
  <2>2. \A p \in Port : PortSound(Node, p)
    BY <1>5 DEF PortSound
  <2> QED
    BY <2>1, <2>2 DEF RequestsSound
<1>8. CanSend
  BY DEF Init, CanSend, Up
<1> QED
  BY <1>2, <1>3, <1>4, <1>6, <1>7, <1>8 DEF PortsInv, NodeSound

\* Every step keeps it.
LEMMA PortsNext ==
  ASSUME PortsInv, [Next]_vars
  PROVE  PortsInv'
<1>1. CASE UNCHANGED vars
  <2>1. /\ Node' = Node /\ proxy' = proxy /\ (CanSend' <=> CanSend)
        /\ (TypeOK => TypeOK')
    BY <1>1 DEF vars, Node, CanSend, Up, TypeOK
  <2> QED
    BY <2>1 DEF PortsInv, Calm
<1>2. CASE Asked
  BY <1>2, CreateInv, MigrateInv, DestroyInv, TunnelNewInv, HandleConnectInv, HandleDisconnectInv DEF Asked
<1>3. CASE Reply
  BY <1>3, MigrateReplyInv, TunnelReplyInv, LookupReplyInv, ConnectReplyInv DEF Reply
<1>4. CASE \E a \in Actor : fire_actors(a)
  BY <1>4, FireInv
<1>5. CASE ConnectionBreaks \/ ConnectionLost \/ (\E r \in Peer : JoinProxy(r)) \/ ConnectPorts
  BY <1>5, BreaksInv, LostInv, JoinInv, ConnectPortsInv
<1> QED
  BY <1>1, <1>2, <1>3, <1>4, <1>5 DEF Next

\* The inductive invariant holds in every state.
LEMMA PortsAlways == Spec => []PortsInv
<1>1. Init => PortsInv
  BY PortsInit
<1>2. PortsInv /\ [Next]_vars => PortsInv'
  BY PortsNext
<1> QED
  BY <1>1, <1>2, PTL DEF Spec

(***************************************************************************)
(* The theorems.                                                            *)
(***************************************************************************)
\* The variables keep their types: no list of calls, answers and failures takes
\* a counter of cc_port.c, cc_tunnel.c or cc_link.c out of its range.
THEOREM PortsTypeCorrect == Spec => []TypeOK
<1>1. PortsInv => TypeOK
  BY DEF PortsInv
<1> QED
  BY <1>1, PortsAlways, PTL

\* The reference counts of tunnels and links are the numbers of their users
\* (cc_tunnel_add_ref, cc_tunnel_remove_ref, cc_link_add_ref,
\* cc_link_remove_ref), for any actors, ports and runtimes.
THEOREM CountsAreUsers == Spec => []RefCounts
<1>1. PortsInv => RefCounts
  <2> SUFFICES ASSUME PortsInv, NEW r \in Runtime
               PROVE  LET needed == (IF Open(Node, r) THEN 1 ELSE 0) + (IF r = proxy THEN 2 ELSE 0)
                      IN /\ Users(r) # {} => Open(Node, r)
                         /\ Open(Node, r) => tunnel[r].ref_count = Cardinality(Users(r))
                         /\ link[r] = needed \/ (needed = 0 /\ link[r] = NoLink)
    BY DEF RefCounts
  <2>1. RefsSound(Node, proxy)
    BY InvFacts DEF NodeSound
  <2>2. Users(r) = PortUsers(Node, r)
    BY <2>1, NodeIs, RuntimeAssumption DEF Users, PortUsers, RefsSound
  <2> QED
    BY <2>1, <2>2, NodeIs DEF RefsSound, Needed
<1> QED
  BY <1>1, PortsAlways, PTL

\* An actor that is enabled has only enabled ports: the scheduler fires only
\* connected actors.
THEOREM EnabledAreConnected == Spec => []EnabledIsConnected
<1>1. PortsInv => EnabledIsConnected
  <2> SUFFICES ASSUME PortsInv PROVE EnabledIsConnected
    OBVIOUS
  <2>1. ActorsSound(Node)
    BY InvFacts DEF NodeSound
  <2> QED
    BY <2>1, NodeIs DEF ActorsSound, EnabledIsConnected
<1> QED
  BY <1>1, PortsAlways, PTL

\* While the connection is not lost and requests are not refused, a port never
\* waits for an answer that cannot come.
THEOREM WaitingIsAnswered ==
  ASSUME Calm
  PROVE  Spec => []WaitingAnswered
<1>1. PortsInv => WaitingAnswered
  <2> SUFFICES ASSUME PortsInv, NEW p \in Port, Exists(Node, p)
               PROVE  /\ port[p].state = "PENDING_LOOKUP" => pending[<<"lookup", p>>] > 0
                      /\ port[p].state = "PENDING_CONNECT" => pending[<<"connect", p>>] > 0
                      /\ port[p].state = "PENDING_TUNNEL" =>
                           /\ port[p].tunnel # None
                           /\ LET t == tunnel[port[p].tunnel]
                              IN t.state = "ENABLED" \/ (t.state = "PENDING" /\ pending[<<"tunnel", t.id>>] > 0)
    BY DEF WaitingAnswered
  <2>1. NodeSound(Node, proxy, {}) /\ Node \in NodeType
    BY InvFacts
  <2>2. TunnelsSound(Node) /\ PortSound(Node, p)
    BY <2>1 DEF NodeSound, RequestsSound
  <2>3. /\ port[p].state = "PENDING_LOOKUP" => pending[<<"lookup", p>>] > 0
        /\ port[p].state = "PENDING_CONNECT" => pending[<<"connect", p>>] > 0
        /\ port[p].state = "PENDING_TUNNEL" => port[p].tunnel # None
    BY <2>2, NodeIs DEF PortSound
  <2>4. ASSUME port[p].tunnel # None
        PROVE  LET t == tunnel[port[p].tunnel]
               IN t.state = "ENABLED" \/ (t.state = "PENDING" /\ pending[<<"tunnel", t.id>>] > 0)
    <3> DEFINE r == Node.port[p].tunnel
    <3>1. r = port[p].tunnel /\ Node.port[p].tunnel # None
      BY <2>4, NodeIs
    <3> HIDE DEF r
    <3>2. r \in Runtime /\ Open(Node, r)
      BY <2>1, <3>1, HeldTunnel DEF r
    <3>3. Node.tunnel[r].state \in {"ENABLED", "PENDING"}
      BY <2>1, <2>2, <3>2, TunnelFields DEF TunnelsSound, TunnelState, Open
    <3> QED
      BY <2>2, <3>1, <3>2, <3>3, NodeIs DEF TunnelsSound
  <2> QED
    BY <2>3, <2>4
<1> QED
  BY <1>1, PortsAlways, PTL
=============================================================================
