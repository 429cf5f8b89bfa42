-------------------------------- MODULE Ports --------------------------------
(***************************************************************************)
(* How the ports of the actors on the node get connected: ports (cc_port.c),*)
(* the token tunnels they share (cc_tunnel.c), the links below the tunnels  *)
(* (cc_link.c) and the state an actor derives from its ports (cc_actor.c),  *)
(* with the messages of cc_proto.c that change them.                        *)
(*                                                                          *)
(* A port looks its peer up in the registry, asks the peer's runtime for a  *)
(* tunnel, then asks to be connected over it.  Each request is answered     *)
(* later, in any order, while other runtimes open tunnels and connect and   *)
(* disconnect ports by themselves.  The peer runtimes and the registry are  *)
(* the environment.  What the tokens do is in TokenTransfer.                *)
(*                                                                          *)
(* A C function is an operator from the state of the node before to the     *)
(* state after it; an action is a message handled, or one actor's turn in   *)
(* the scheduler.                                                           *)
(***************************************************************************)
EXTENDS Integers, Sequences, FiniteSets, SequencesExt

CONSTANTS
  Actor,
  PortsOf,     \* PortsOf[a]: the ports of actor a, in-ports before out-ports
  PeerOf,      \* PeerOf[p]: the peer port, or None if it is never on this node
  Peer,        \* the other runtimes
  Self,        \* this runtime
  None, Freed, \* a null pointer, and a pointer to memory that has been freed
  FirstProxy,  \* the runtime that is the proxy in the beginning
  MaxRetries,  \* connection attempts of a port: 5 in the code
  MaxIds,      \* bound: tunnel ids in use at a time
  MaxPending,  \* bound: answers to the same request under way
  MaxLosses,   \* bound: times the connection to the proxy is lost
  MaxCreated,  \* bound: actors received
  Faulty       \* whether others refuse requests and use tunnels this node does not have

Runtime == Peer \cup {Self}
Port == UNION {Range(PortsOf[a]) : a \in Actor}
Owner(p) == CHOOSE a \in Actor : p \in Range(PortsOf[a])
Id == 1 .. MaxIds

ASSUME PortAssumption ==
  /\ PortsOf \in [Actor -> Seq(Port)]
  /\ \A a, b \in Actor : a # b => Range(PortsOf[a]) \cap Range(PortsOf[b]) = {}
  /\ PeerOf \in [Port -> Port \cup {None}]
  /\ \A p \in Port : PeerOf[p] # None => PeerOf[PeerOf[p]] = p
ASSUME RuntimeAssumption == FirstProxy \in Peer /\ Self \notin Peer /\ None \notin Runtime
ASSUME BoundAssumption ==
  /\ {MaxRetries, MaxIds, MaxPending} \subseteq Nat \ {0}
  /\ {MaxLosses, MaxCreated} \subseteq Nat /\ Faulty \in BOOLEAN

VARIABLES
  actors,   \* node->actors, in the order of the list
  actor,    \* the state of each actor
  port,     \* each port; the value of a port that does not exist is not used
  tunnel,   \* the token tunnel to each runtime
  link,     \* ref_count of the link to each runtime
  pending,  \* requests sent and not answered
  proxy,    \* the peer of node->proxy_link
  phase,    \* of the connection to the proxy
  broken,   \* the connection is broken and the node has not noticed
  losses, created, \* counters for the bounds
  full      \* a step that exceeds MaxIds or MaxPending is not taken

vars == <<actors, actor, port, tunnel, link, pending, proxy, phase, broken, losses, created, full>>

NoLink == -1
TunnelState == {"FREE", "DISCONNECTED", "ENABLED", "PENDING"}
Phase == {"down", "joining", "started"}
ActorState == {"PENDING", "ENABLED", "DO_DELETE"}
PortState == {"DISCONNECTED", "ENABLED", "PENDING_LOOKUP", "PENDING_TUNNEL", "PENDING_CONNECT", "DO_DELETE"}
PortType ==
  [state : PortState, tunnel : Runtime \cup {None}, peer_id : Runtime \cup {None},
   peer_port : Port \cup {None, Freed}, retries : 0 .. MaxRetries]
TunnelType == [state : TunnelState, id : Id, ref_count : Nat]
Request == ({"lookup", "connect"} \X Port) \cup ({"tunnel"} \X Id) \cup ({"migrate"} \X Actor)

TypeOK ==
  /\ actors \in Seq(Actor)
  /\ actor \in [Actor -> ActorState]
  /\ port \in [Port -> PortType]
  /\ tunnel \in [Runtime -> TunnelType]
  /\ link \in [Runtime -> Nat \cup {NoLink}]
  /\ pending \in [Request -> 0 .. MaxPending]
  /\ proxy \in Peer
  /\ phase \in Phase /\ broken \in BOOLEAN
  /\ losses \in 0 .. MaxLosses /\ created \in 0 .. MaxCreated /\ full \in BOOLEAN

\* The state the operators work on, and the step to it.
Node == [actors |-> actors, actor |-> actor, port |-> port, tunnel |-> tunnel,
         link |-> link, pending |-> pending, phase |-> phase, full |-> full]

Becomes(n) ==
  /\ ~n.full
  /\ actors' = n.actors /\ actor' = n.actor /\ port' = n.port /\ tunnel' = n.tunnel
  /\ link' = n.link /\ pending' = n.pending /\ phase' = n.phase /\ full' = n.full

\* Messages are received until the node notices that the connection is lost;
\* sending fails from the moment it breaks.
Up == phase # "down"
CanSend == Up /\ ~broken

\* A request was sent: its answer is awaited.
Await(n, request) ==
  IF n.pending[request] = MaxPending THEN [n EXCEPT !.full = TRUE]
  ELSE [n EXCEPT !.pending[request] = @ + 1]

Exists(n, p) == Owner(p) \in Range(n.actors)

(***************************************************************************)
(* Tunnels and links.                                                       *)
(***************************************************************************)
NoTunnel == [state |-> "FREE", id |-> 1, ref_count |-> 0]
Open(n, r) == n.tunnel[r].state # "FREE"

cc_link_remove_ref(n, r) ==
  [n EXCEPT !.link[r] = IF @ = 1 THEN NoLink ELSE @ - 1]

\* Mutant: the link's reference is dropped twice.
cc_tunnel_free_twice(n, r) ==
  cc_link_remove_ref(cc_link_remove_ref(
    [n EXCEPT !.tunnel[r] = NoTunnel], r), r)

cc_tunnel_free(n, r) ==
  cc_link_remove_ref([n EXCEPT !.tunnel[r] = NoTunnel], r)

\* Mutant: the new user is not counted.
cc_tunnel_add_ref_missing(n, r) == n

cc_tunnel_add_ref(n, r) == [n EXCEPT !.tunnel[r].ref_count = @ + 1]

cc_tunnel_remove_ref(n, r) ==
  IF n.tunnel[r].ref_count = 1
  THEN cc_tunnel_free(n, r)
  ELSE [n EXCEPT !.tunnel[r].ref_count = @ - 1]

\* Mutant: the port forgets the tunnel and keeps its reference.
Unref_leak(n, p) == [n EXCEPT !.port[p].tunnel = None]

\* Drop the reference of port p, if it has one.
Unref(n, p) ==
  IF n.port[p].tunnel = None THEN n
  ELSE [cc_tunnel_remove_ref(n, n.port[p].tunnel) EXCEPT !.port[p].tunnel = None]

\* An id no tunnel and no unanswered request has.
FreshIds(n) ==
  Id \ ({n.tunnel[r].id : r \in {s \in Runtime : Open(n, s)}}
          \cup {i \in Id : n.pending[<<"tunnel", i>>] > 0})
Fresh(n) == CHOOSE i \in FreshIds(n) : \A j \in FreshIds(n) : i <= j

cc_link_create(n, r) == IF n.link[r] = NoLink THEN [n EXCEPT !.link[r] = 0] ELSE n

\* A new token tunnel to r; without a connection only the link is left.
cc_tunnel_create(n, r, state) ==
  LET m == cc_link_create(n, r)
      New(s) == [m EXCEPT !.tunnel[r] = [state |-> s, id |-> Fresh(n), ref_count |-> 0],
                          !.link[r] = @ + 1]
  IN IF FreshIds(n) = {} THEN [n EXCEPT !.full = TRUE]
     ELSE IF state = "ENABLED" THEN New("ENABLED")
     ELSE IF CanSend THEN Await(New("PENDING"), <<"tunnel", Fresh(n)>>)
     ELSE m

(***************************************************************************)
(* The state of an actor follows from its ports: the first one that is not  *)
(* connected decides.                                                       *)
(***************************************************************************)
\* Mutant: only the in-port is looked at.
cc_actor_port_state_changed_first(n, a) ==
  [n EXCEPT !.actor[a] =
     CASE n.port[Head(PortsOf[a])].state = "ENABLED" -> "ENABLED"
       [] n.port[Head(PortsOf[a])].state = "DO_DELETE" -> "DO_DELETE"
       [] OTHER -> "PENDING"]

cc_actor_port_state_changed(n, a) ==
  LET off == {i \in DOMAIN PortsOf[a] : n.port[PortsOf[a][i]].state # "ENABLED"}
  IN [n EXCEPT !.actor[a] =
        IF off = {} THEN "ENABLED"
        ELSE IF n.port[PortsOf[a][Min(off)]].state = "DO_DELETE" THEN "DO_DELETE" ELSE "PENDING"]

\* Mutant: the actor is not told.
cc_port_set_state_quiet(n, p, state) == [n EXCEPT !.port[p].state = state]

cc_port_set_state(n, p, state) ==
  LET retries == IF state = "ENABLED" /\ n.port[p].state # "ENABLED" THEN 0 ELSE n.port[p].retries
  IN cc_actor_port_state_changed(
       [n EXCEPT !.port[p] = [@ EXCEPT !.state = state, !.retries = retries]], Owner(p))

(***************************************************************************)
(* Connecting a port.                                                       *)
(***************************************************************************)
LocalPeer(n, p) == PeerOf[p] # None /\ Exists(n, PeerOf[p])

cc_port_connect_local(n, p) ==
  LET q == PeerOf[p]
      m == Unref(Unref(n, p), q)
      Joined(k, x, y) == cc_port_set_state(
        [k EXCEPT !.port[x] = [@ EXCEPT !.peer_port = y, !.peer_id = Self]], x, "ENABLED")
  IN Joined(Joined(m, p, q), q, p)

\* The tunnel of the port is on its way, or can be used now.
TunnelUsable(n, p) ==
  LET t == n.tunnel[n.port[p].tunnel]
  IN t.state = "PENDING" \/ (t.state = "ENABLED" /\ CanSend)

cc_port_connect_with_pending_tunnel(n, p) ==
  IF n.tunnel[n.port[p].tunnel].state = "PENDING" THEN n
  ELSE IF TunnelUsable(n, p)
  THEN cc_port_set_state(Await(n, <<"connect", p>>), p, "PENDING_CONNECT")
  ELSE cc_port_set_state(Unref(n, p), p, "DISCONNECTED")

cc_port_get_tunnel(n, p) ==
  LET r == n.port[p].peer_id
      m == IF Open(n, r) THEN n ELSE cc_tunnel_create(n, r, "DISCONNECTED")
  IN IF Open(m, r)
     THEN cc_port_set_state(
            [cc_tunnel_add_ref(m, r) EXCEPT !.port[p].tunnel = r], p, "PENDING_TUNNEL")
     ELSE m

cc_port_do_peer_lookup(n, p) ==
  IF CanSend
  THEN cc_port_set_state(Await(n, <<"lookup", p>>), p, "PENDING_LOOKUP")
  ELSE cc_port_set_state(n, p, "DISCONNECTED")

\* Look the peer up when there is no tunnel to use.
LookUpInstead(n, p) ==
  LET m == Unref(n, p)
  IN cc_port_do_peer_lookup(
       cc_port_set_state([m EXCEPT !.port[p].peer_id = None], p, "DISCONNECTED"), p)

cc_port_connect(n, p) ==
  LET tried == [n EXCEPT !.port[p].retries = @ + 1]
      m == IF tried.port[p].tunnel = None /\ tried.port[p].peer_id # None
           THEN cc_port_get_tunnel(tried, p) ELSE tried
  IN IF n.port[p].state = "ENABLED" THEN n
     ELSE IF n.port[p].retries = MaxRetries THEN cc_port_set_state(n, p, "DO_DELETE")
     ELSE IF LocalPeer(n, p) THEN cc_port_connect_local(tried, p)
     ELSE IF m.full THEN m
     ELSE IF m.port[p].tunnel # None /\ TunnelUsable(m, p)
     THEN cc_port_connect_with_pending_tunnel(m, p)
     ELSE LookUpInstead(m, p)

\* The port that is not connected yet makes the actor pending, also when the
\* attempt connects it at once.
ConnectNext(acc, p) ==
  IF acc.node.port[p].state = "ENABLED" THEN acc
  ELSE [node |-> cc_port_connect(acc.node, p), state |-> "PENDING"]

cc_actor_connect_ports(n, a) ==
  LET done == FoldLeft(ConnectNext, [node |-> n, state |-> "ENABLED"], PortsOf[a])
  IN [done.node EXCEPT !.actor[a] = done.state]

(***************************************************************************)
(* Disconnecting a port and deleting an actor.                              *)
(***************************************************************************)
\* Writing through a pointer to a deleted port changes nothing that is left.
cc_port_disconnect(n, p, unref_tunnel) ==
  LET q == n.port[p].peer_port
      m == IF unref_tunnel THEN Unref(n, p) ELSE [n EXCEPT !.port[p].tunnel = None]
      k == IF q \in Port THEN cc_port_set_state(m, q, "DISCONNECTED") ELSE m
  IN cc_port_set_state(
       [k EXCEPT !.port[p] = [@ EXCEPT !.peer_port = None, !.peer_id = None]], p, "DISCONNECTED")

cc_actor_disconnect(n, a, unref_tunnel) ==
  LET m == FoldLeft(LAMBDA k, p : cc_port_disconnect(k, p, unref_tunnel), n, PortsOf[a])
  IN [m EXCEPT !.actor[a] = "PENDING"]

\* The ports go with the actor; their local peers are not told.
NoPort == [state |-> "DISCONNECTED", tunnel |-> None, peer_id |-> None, peer_port |-> None, retries |-> 0]
cc_actor_free(n, a) ==
  LET m == FoldLeft(Unref, n, PortsOf[a])
      mine == Range(PortsOf[a])
  IN [m EXCEPT
        !.actors = RemoveFirst(@, a),
        !.actor[a] = "PENDING",
        !.port = [p \in Port |-> IF p \in mine THEN NoPort
                                 ELSE IF m.port[p].peer_port \in mine
                                 THEN [m.port[p] EXCEPT !.peer_port = Freed]
                                 ELSE m.port[p]]]

(***************************************************************************)
(* Messages from other runtimes.                                            *)
(***************************************************************************)
Counted == UNCHANGED <<proxy, broken, losses, created>>

\* ACTOR_NEW: the sender may know where the peer ports are.  The ports are
\* stored in the registry first: nothing is created when that cannot be sent.
NewActor(n, a, known) ==
  [n EXCEPT !.actors = Append(@, a),
            !.actor[a] = "PENDING",
            !.port = [p \in Port |-> IF p \in DOMAIN known
                                     THEN [NoPort EXCEPT !.peer_id = known[p]] ELSE n.port[p]]]

cc_actor_create(a) ==
  /\ CanSend /\ a \notin Range(actors) /\ created < MaxCreated
  /\ created' = created + 1 /\ UNCHANGED <<proxy, broken, losses>>
  /\ \E known \in [Range(PortsOf[a]) -> Peer \cup {None}] :
       Becomes(cc_actor_connect_ports(NewActor(Node, a, known), a))

\* APP_DESTROY
cc_proto_parse_app_destroy ==
  /\ Up /\ Counted
  /\ \E gone \in SUBSET Range(actors) \ {{}} :
       Becomes(FoldLeft(cc_actor_free, Node, SetToSeq(gone)))

\* ACTOR_MIGRATE, and the answer of the runtime the actor is sent to.
cc_actor_migrate(a) ==
  /\ Up /\ a \in Range(actors) /\ Counted
  /\ LET n == FoldLeft(LAMBDA k, p : cc_port_disconnect(k, p, TRUE), Node, PortsOf[a])
     IN Becomes(IF CanSend THEN Await(n, <<"migrate", a>>) ELSE n)

\* Take the answer to a request.
Answered(request) == [Node EXCEPT !.pending[request] = @ - 1]
IsPending(request) == Up /\ pending[request] > 0

cc_actor_migrate_reply_handler(a) ==
  /\ IsPending(<<"migrate", a>>) /\ Counted
  /\ LET n == Answered(<<"migrate", a>>)
     IN \/ a \in Range(actors) /\ Becomes(cc_actor_free(n, a))
        \/ (Faulty \/ a \notin Range(actors)) /\ Becomes(n)

\* TUNNEL_NEW from runtime r; the two ids are compared when both ends have
\* asked for a tunnel, and the id of the other end may replace ours.
cc_tunnel_handle_tunnel_new_request(r) ==
  /\ Up /\ Counted
  /\ IF ~Open(Node, r)
     THEN Becomes(cc_tunnel_create(Node, r, "ENABLED"))
     ELSE \/ tunnel[r].state = "ENABLED" /\ Becomes(Node)
          \/ /\ tunnel[r].state # "ENABLED" /\ FreshIds(Node) # {}
             /\ \E id \in {tunnel[r].id, Fresh(Node)} :
                  Becomes([Node EXCEPT !.tunnel[r] = [@ EXCEPT !.state = "ENABLED", !.id = id]])

\* Mutant: the state of the tunnel is not set.
tunnel_request_handler_ignored(id) ==
  IsPending(<<"tunnel", id>>) /\ Counted /\ Becomes(Answered(<<"tunnel", id>>))

tunnel_request_handler(id) ==
  /\ IsPending(<<"tunnel", id>>) /\ Counted
  /\ LET n == Answered(<<"tunnel", id>>)
         T == {r \in Runtime : Open(n, r) /\ n.tunnel[r].id = id}
     IN \/ T = {} /\ Becomes(n)
        \/ \E r \in T, state \in {"ENABLED"} \cup (IF Faulty THEN {"DISCONNECTED"} ELSE {}) :
             Becomes([n EXCEPT !.tunnel[r].state = state])

\* PORT_CONNECT over tunnel id, from the runtime that has the peer port.
cc_port_handle_connect(p, id) ==
  /\ Up /\ Exists(Node, p) /\ ~LocalPeer(Node, p) /\ Counted
  /\ IF port[p].tunnel # None /\ tunnel[port[p].tunnel].id = id
     THEN Becomes(cc_port_set_state(Node, p, "ENABLED"))
     ELSE LET n == Unref(Node, p)
              T == {r \in Runtime : Open(n, r) /\ n.tunnel[r].id = id}
          IN \/ T = {} /\ Faulty /\ Becomes(n)
             \/ \E r \in T :
                  Becomes(cc_port_set_state(
                    [cc_tunnel_add_ref(n, r) EXCEPT
                       !.port[p] = [@ EXCEPT !.tunnel = r, !.peer_id = r]], p, "ENABLED"))

\* PORT_DISCONNECT
cc_port_handle_disconnect(p) ==
  /\ Up /\ Exists(Node, p) /\ ~LocalPeer(Node, p) /\ Counted
  /\ Becomes(Unref(cc_port_set_state([Node EXCEPT !.port[p].peer_id = None],
                                     p, "DISCONNECTED"), p))

\* The registry's answer: the runtime of the peer port, or none.
cc_port_get_peer_port_reply_handler(p) ==
  /\ IsPending(<<"lookup", p>>) /\ Counted
  /\ LET n == Answered(<<"lookup", p>>)
     IN IF ~Exists(n, p) \/ n.port[p].state = "ENABLED"
        THEN Becomes(n)
        ELSE \/ Faulty /\ Becomes(cc_port_set_state(n, p, "DO_DELETE"))
             \/ \E r \in Peer : Becomes(cc_port_connect([n EXCEPT !.port[p].peer_id = r], p))

cc_port_connect_reply_handler(p) ==
  /\ IsPending(<<"connect", p>>) /\ Counted
  /\ LET n == Answered(<<"connect", p>>)
     IN \/ ~Exists(n, p) /\ Becomes(n)
        \/ Exists(n, p) /\ Becomes(cc_port_set_state(n, p, "ENABLED"))
        \/ Exists(n, p) /\ Faulty /\ Becomes(cc_port_set_state(n, p, "DISCONNECTED"))

(***************************************************************************)
(* The scheduler and the connection to the proxy.                           *)
(***************************************************************************)
\* Mutant: ports that wait for a tunnel are passed over.
cc_port_transmit_enabled(n, p) == n

\* A port that waits for its tunnel asks to be connected when it is there.
cc_port_transmit(n, p) ==
  IF /\ n.port[p].state = "PENDING_TUNNEL" /\ n.port[p].tunnel # None
     /\ n.tunnel[n.port[p].tunnel].state = "ENABLED"
  THEN cc_port_connect_with_pending_tunnel(n, p)
  ELSE n

\* One actor's turn.
fire_actors(a) ==
  /\ phase # "joining" /\ a \in Range(actors) /\ Counted
  /\ Becomes(IF actor[a] = "DO_DELETE" THEN cc_actor_free(Node, a)
             ELSE FoldLeft(cc_port_transmit, Node, PortsOf[a]))
  /\ Node' # Node

ConnectionBreaks ==
  /\ CanSend /\ losses < MaxLosses
  /\ losses' = losses + 1 /\ broken' = TRUE
  /\ UNCHANGED <<actors, actor, port, tunnel, link, pending, proxy, phase, created, full>>

\* The node notices; answers that were under way are lost.
ConnectionLost ==
  /\ Up /\ broken
  /\ phase' = "down" /\ broken' = FALSE
  /\ pending' = [request \in Request |-> 0]
  /\ UNCHANGED <<actors, actor, port, tunnel, link, proxy, losses, created, full>>

\* The node has joined a proxy: another one than before makes it forget all
\* tunnels and links.  The storage and the proxy tunnel hold the proxy's link.
JoinProxy(r) ==
  /\ ~Up /\ proxy' = r
  /\ UNCHANGED <<broken, losses, created>>
  /\ IF r = proxy
     THEN Becomes([Node EXCEPT !.phase = "joining"])
     ELSE LET forgotten == [Node EXCEPT
                !.phase = "joining",
                !.tunnel = [s \in Runtime |-> NoTunnel],
                !.link = [s \in Runtime |-> IF s = r THEN 2 ELSE NoLink]]
          IN Becomes(FoldLeft(LAMBDA n, a : cc_actor_disconnect(n, a, FALSE), forgotten, actors))

\* The proxy has answered the setup or wake-up message.
ConnectPorts ==
  /\ phase = "joining" /\ Counted
  /\ Becomes(FoldLeft(cc_actor_connect_ports, [Node EXCEPT !.phase = "started"], actors))

Init ==
  /\ actors = <<>>
  /\ actor = [a \in Actor |-> "PENDING"]
  /\ port = [p \in Port |-> NoPort]
  /\ tunnel = [r \in Runtime |-> NoTunnel]
  /\ link = [r \in Runtime |-> IF r = FirstProxy THEN 2 ELSE NoLink]
  /\ pending = [request \in Request |-> 0]
  /\ proxy = FirstProxy /\ phase = "started" /\ broken = FALSE
  /\ losses = 0 /\ created = 0 /\ full = FALSE

\* What other runtimes and the operator ask for.
Asked ==
  \/ \E a \in Actor : cc_actor_create(a) \/ cc_actor_migrate(a)
  \/ cc_proto_parse_app_destroy
  \/ \E r \in Peer : cc_tunnel_handle_tunnel_new_request(r)
  \/ \E p \in Port : cc_port_handle_disconnect(p) \/ \E id \in Id : cc_port_handle_connect(p, id)

\* Answers to what the node asked for.
Reply ==
  \/ \E a \in Actor : cc_actor_migrate_reply_handler(a)
  \/ \E id \in Id : tunnel_request_handler(id)
  \/ \E p \in Port : cc_port_get_peer_port_reply_handler(p) \/ cc_port_connect_reply_handler(p)

Next ==
  \/ Asked \/ Reply
  \/ \E a \in Actor : fire_actors(a)
  \/ ConnectionBreaks \/ ConnectionLost \/ (\E r \in Peer : JoinProxy(r)) \/ ConnectPorts

Spec == Init /\ [][Next]_vars

\* Answers arrive, the loop of cc_node_run goes round, and it connects again.
FairSpec ==
  /\ Spec
  /\ WF_vars(Reply)
  /\ \A a \in Actor : WF_vars(fire_actors(a))
  /\ WF_vars(ConnectionLost \/ (\E r \in Peer : JoinProxy(r)) \/ ConnectPorts)

(***************************************************************************)
(* Properties.                                                              *)
(***************************************************************************)
Users(r) == {p \in Port : Exists(Node, p) /\ port[p].tunnel = r}

\* The counts of cc_tunnel_add_ref and cc_link_add_ref are the numbers of
\* users: a tunnel or link is neither freed while a port or tunnel points to
\* it nor kept after the last one, whatever the order in which ports are
\* connected, disconnected and deleted, tunnels are opened from both ends and
\* proxies change.  (A link without users is left by a tunnel request that
\* could not be sent, and a tunnel without users by a TUNNEL_NEW.)
RefCounts ==
  \A r \in Runtime :
    LET needed == (IF Open(Node, r) THEN 1 ELSE 0) + (IF r = proxy THEN 2 ELSE 0)
    IN /\ Users(r) # {} => Open(Node, r)
       /\ Open(Node, r) => tunnel[r].ref_count = Cardinality(Users(r))
       /\ link[r] = needed \/ (needed = 0 /\ link[r] = NoLink)

\* The scheduler fires only actors that are connected: no sequence of answers,
\* disconnects and deletions leaves an actor enabled (cc_actor.c) while one of
\* its ports is not (cc_port.c).
EnabledIsConnected ==
  \A p \in Port : Exists(Node, p) /\ actor[Owner(p)] = "ENABLED" => port[p].state = "ENABLED"

\* A port never waits for an answer that cannot come: what the states
\* PENDING_LOOKUP, PENDING_TUNNEL and PENDING_CONNECT of cc_port.c wait for is
\* under way, or the tunnel is there for cc_port_transmit to use.  For a
\* connection that is not lost and requests that are not refused.
WaitingAnswered ==
  \A p \in Port : Exists(Node, p) =>
    /\ port[p].state = "PENDING_LOOKUP" => pending[<<"lookup", p>>] > 0
    /\ port[p].state = "PENDING_CONNECT" => pending[<<"connect", p>>] > 0
    /\ port[p].state = "PENDING_TUNNEL" =>
         /\ port[p].tunnel # None
         /\ LET t == tunnel[port[p].tunnel]
            IN t.state = "ENABLED" \/ (t.state = "PENDING" /\ pending[<<"tunnel", t.id>>] > 0)

\* Every attempt of cc_port_connect comes to an end.
Waiting(p) == Exists(Node, p) /\ port[p].state \in {"PENDING_LOOKUP", "PENDING_TUNNEL", "PENDING_CONNECT"}
WaitingEnds == \A p \in Port : Waiting(p) ~> ~Waiting(p)

\* The error message of cc_port_transmit, "Port '%s' is enabled without a
\* peer", is never logged: an enabled port has a tunnel or a local peer.
EnabledHasPeer ==
  \A p \in Port : Exists(Node, p) /\ port[p].state = "ENABLED" =>
    port[p].tunnel # None \/ port[p].peer_port # None

(***************************************************************************)
(* The inductive invariant behind the safety properties.  It is a predicate *)
(* on the state n the operators work on; px is the proxy.                   *)
(***************************************************************************)
NodeType ==
  [actors : Seq(Actor), actor : [Actor -> ActorState], port : [Port -> PortType],
   tunnel : [Runtime -> TunnelType], link : [Runtime -> Nat \cup {NoLink}],
   pending : [Request -> 0 .. MaxPending], phase : Phase, full : BOOLEAN]

\* References: only ports that exist hold a tunnel, which is open and counts them.
PortUsers(n, r) == {p \in Port : n.port[p].tunnel = r}
Needed(n, r, px) == (IF Open(n, r) THEN 1 ELSE 0) + (IF r = px THEN 2 ELSE 0)
RefsSound(n, px) ==
  /\ \A p \in Port : n.port[p].tunnel # None => Exists(n, p)
  /\ \A r \in Runtime :
       /\ IsFiniteSet(PortUsers(n, r)) /\ n.tunnel[r].ref_count = Cardinality(PortUsers(n, r))
       /\ ~Open(n, r) => PortUsers(n, r) = {}
       /\ n.link[r] = Needed(n, r, px) \/ (Needed(n, r, px) = 0 /\ n.link[r] = NoLink)

\* Actors: one that is enabled has no port that is not.
ActorsSound(n) ==
  \A p \in Port : n.actor[Owner(p)] = "ENABLED" => n.port[p].state = "ENABLED"

\* Requests, for a connection that is not lost and requests that are not
\* refused: open tunnels have ids of their own and are enabled or asked for, and
\* what a port waits for is under way.  The ports in X may be in between.
Calm == MaxLosses = 0 /\ ~Faulty
TunnelsSound(n) ==
  /\ \A r, s \in Runtime : Open(n, r) /\ Open(n, s) /\ n.tunnel[r].id = n.tunnel[s].id => r = s
  /\ \A r \in Runtime :
       /\ n.tunnel[r].state # "DISCONNECTED"
       /\ n.tunnel[r].state = "PENDING" => n.pending[<<"tunnel", n.tunnel[r].id>>] > 0
PortSound(n, p) == Exists(n, p) =>
  /\ n.port[p].state = "PENDING_LOOKUP" => n.pending[<<"lookup", p>>] > 0 /\ n.port[p].tunnel = None
  /\ n.port[p].state = "PENDING_CONNECT" => n.pending[<<"connect", p>>] > 0
  /\ n.port[p].state = "PENDING_TUNNEL" => n.port[p].tunnel # None
RequestsSound(n, X) == Calm => TunnelsSound(n) /\ \A p \in Port \ X : PortSound(n, p)

NodeSound(n, px, X) ==
  n \in NodeType /\ RefsSound(n, px) /\ ActorsSound(n) /\ RequestsSound(n, X)

PortsInv ==
  /\ TypeOK
  /\ NodeSound(Node, proxy, {})
  /\ Calm => CanSend
=============================================================================
