-------------------------------- MODULE Node --------------------------------
(***************************************************************************)
(* The life of a runtime (cc_node.c, cc_api.c): it starts from its state    *)
(* file, joins a proxy, opens the storage and the proxy tunnel, reports     *)
(* itself, runs, asks to sleep, stops on request, and may crash at any time *)
(* and start again.  The node is one thread; everything it waits for comes  *)
(* out of cc_platform_evt_wait, and pc is the place of the call.            *)
(*                                                                          *)
(* The proxy and the connection to it are the environment.  The actors are  *)
(* one port, connected to the proxy over a token tunnel: its looking up and *)
(* connecting, which Ports has in full, is one waiting state here.          *)
(***************************************************************************)
EXTENDS Integers, Sequences, SequencesExt

CONSTANTS
  Proxy,         \* the runtimes that may answer
  Uris,          \* node->proxy_uris: for each, whether a client can be made for it
  None,
  RefModulus,    \* tunnel->ref_count is an uint8_t: 256 in the code
  UseSleep,      \* CC_USE_SLEEP
  Checkpointing, \* CC_USE_CHECKPOINTING
  Faulty,        \* whether the proxy refuses requests
  MaxLosses,     \* bound: connections lost or refused
  MaxBoots,      \* bound: starts of the node
  MaxMessages,   \* bound: messages the proxy sends by itself
  MaxSleeps      \* bound: requests to sleep

ASSUME NodeAssumption ==
  /\ Uris \in Seq(BOOLEAN) /\ Uris # <<>> /\ None \notin Proxy
  /\ RefModulus \in Nat \ {0, 1} /\ {UseSleep, Checkpointing, Faulty} \subseteq BOOLEAN
  /\ {MaxLosses, MaxBoots, MaxMessages, MaxSleeps} \subseteq Nat

VARIABLES
  node,     \* cc_node_t and where the thread is
  file,     \* CC_STATE_FILE
  conn,     \* "none", "up", or "broken": lost, and the node has not noticed
  server,   \* the runtime at the other end of the connection
  toProxy, toNode, \* messages under way on the connection
  configured,      \* the runtimes that handled this node's CONFIG
  past,            \* "interrupted": a connection broke before its proxy had handled CONFIG;
                   \* "forced": a node that was not started asked to sleep;
                   \* "refused": the proxy refused a request;
                   \* "told": a DESTROY was handled, no other answer being due
  losses, boots, messages, sleeps  \* counters for the bounds

vars == <<node, file, conn, server, toProxy, toNode, configured, past,
          losses, boots, messages, sleeps>>
env == <<losses, boots, messages, sleeps>>

Type == {"storage", "proxy", "token"}
NoTunnel == [state |-> "FREE", ref_count |-> 0, restored |-> FALSE]
NoFile == [kind |-> "none"]
Torn == [kind |-> "torn"]
Config == [kind |-> "config"]

Waits == {"wait_join", "wait_tunnels", "wait_setup", "main", "wait_sleep"}
Running == Waits \cup {"dial", "stop", "save"}
Pc == Running \cup {"off", "fault"}

TunnelState == {"FREE", "DISCONNECTED", "PENDING", "ENABLED"}
PortState == {"none", "DISCONNECTED", "PENDING", "ENABLED"}
NodeType ==
  [pc : Pc, state : {"DO_START", "PENDING", "STARTED", "DO_SLEEP", "STOP"},
   stop_method : {"CLEAN", "MIGRATE"}, uri : 1 .. Len(Uris),
   transport : {"NULL", "INTERFACE_UP", "DISCONNECTED", "CONNECTED", "PENDING", "ENABLED"},
   client : 0 .. Len(Uris), peer : Proxy \cup {None}, link : Proxy \cup {None},
   new_proxy : BOOLEAN, port : PortState,
   tunnel : [Type -> [state : TunnelState, ref_count : 0 .. RefModulus - 1, restored : BOOLEAN]]]
FileType ==
  {NoFile, Torn, Config}
    \cup [kind : {"state"}, link : Proxy \cup {None}, port : PortState, tunnel : [Type -> TunnelState]]

TypeOK ==
  /\ node \in NodeType /\ file \in FileType
  /\ conn \in {"none", "up", "broken"} /\ server \in Proxy
  /\ configured \subseteq Proxy /\ past \subseteq {"interrupted", "forced", "refused", "told"}
  /\ losses \in 0 .. MaxLosses /\ boots \in 0 .. MaxBoots
  /\ messages \in 0 .. MaxMessages /\ sleeps \in 0 .. MaxSleeps

(***************************************************************************)
(* The handlers work on the node, the file and what is sent, as one record. *)
(***************************************************************************)
Here == [n |-> node, file |-> file, sent |-> <<>>]

CanSend == conn = "up"

\* Add a message to what the step sends; cc_transport_send fails when the connection is broken.
Send(h, m) == IF CanSend THEN [h EXCEPT !.sent = Append(@, m)] ELSE h

\* The step to h.
Becomes(h) ==
  /\ node' = h.n /\ file' = h.file
  /\ toProxy' = IF conn = "up" THEN toProxy \o h.sent ELSE toProxy

At(h, pc) == [h EXCEPT !.n.pc = pc]
State(h, s) == [h EXCEPT !.n.state = s]

(***************************************************************************)
(* The state file.                                                          *)
(***************************************************************************)
cc_tunnel_serialize(t) == t.state

cc_node_set_state(h, include_state) ==
  [h EXCEPT !.file =
     IF include_state
     THEN [kind |-> "state", link |-> h.n.link, port |-> h.n.port,
           tunnel |-> [t \in Type |-> cc_tunnel_serialize(h.n.tunnel[t])]]
     ELSE Config]

\* Links and tunnels come back without the references their users had; the
\* port counts its own again.
cc_tunnel_deserialize(saved, uses) ==
  IF saved = "FREE" THEN NoTunnel
  ELSE [state |-> saved, ref_count |-> uses, restored |-> TRUE]

\* A tunnel that is not enabled is requested as it is created, and a port that
\* is not enabled is connected at once: both use the transport client, which
\* does not exist yet.
RestoreFaults(f) ==
  \/ \E t \in Type : f.tunnel[t] \notin {"FREE", "ENABLED"}
  \/ f.port \notin {"none", "ENABLED"}

NewNode ==
  [pc |-> "dial", state |-> "DO_START", stop_method |-> "CLEAN", uri |-> 1, transport |-> "NULL",
   client |-> 0, peer |-> None, link |-> None, new_proxy |-> TRUE, port |-> "none",
   tunnel |-> [t \in Type |-> NoTunnel]]

cc_node_get_state(f) ==
  IF RestoreFaults(f) THEN [NewNode EXCEPT !.pc = "fault"]
  ELSE [NewNode EXCEPT
          !.link = f.link, !.port = f.port,
          !.tunnel = [t \in Type |-> cc_tunnel_deserialize(f.tunnel[t], IF t = "token" THEN 1 ELSE 0)]]

\* A file that cannot be decoded resets the node, which saves its new identity.
cc_node_setup(f) ==
  CASE f.kind = "state" -> [n |-> cc_node_get_state(f), file |-> f]
    [] f.kind = "torn"  -> [n |-> NewNode, file |-> Config]
    [] OTHER            -> [n |-> NewNode, file |-> f]

(***************************************************************************)
(* Tunnels.                                                                 *)
(***************************************************************************)
\* Mutant: the request is not remembered as pending.
cc_tunnel_create_unmarked(h, t) ==
  Send([h EXCEPT !.n.tunnel[t] = [state |-> "DISCONNECTED", ref_count |-> 1, restored |-> FALSE]],
       [type |-> "tunnel", of |-> t])

\* Create tunnel t, ask for it, and take the reference of its user.
cc_tunnel_create(h, t) ==
  Send([h EXCEPT !.n.tunnel[t] = [state |-> "PENDING", ref_count |-> 1, restored |-> FALSE]],
       [type |-> "tunnel", of |-> t])

\* Mutant: the count is not a number of 8 bits.
cc_tunnel_remove_ref_signed(h, t) ==
  LET left == h.n.tunnel[t].ref_count - 1
      freed == [h EXCEPT !.n.tunnel[t] = NoTunnel]
  IN IF left # 0 THEN [h EXCEPT !.n.tunnel[t].ref_count = left]
     ELSE IF h.n.state # "DO_SLEEP" THEN Send(freed, [type |-> "destroy", of |-> t])
     ELSE freed

\* Mutant: a node that goes to sleep destroys its tunnels too.
cc_tunnel_remove_ref_asleep(h, t) ==
  LET left == (h.n.tunnel[t].ref_count + RefModulus - 1) % RefModulus IN
  IF left # 0 THEN [h EXCEPT !.n.tunnel[t].ref_count = left]
  ELSE Send([h EXCEPT !.n.tunnel[t] = NoTunnel], [type |-> "destroy", of |-> t])

\* Mutant: the last user does not tell the peer.
cc_tunnel_remove_ref_silent(h, t) ==
  LET left == (h.n.tunnel[t].ref_count + RefModulus - 1) % RefModulus IN
  IF left = 0 THEN [h EXCEPT !.n.tunnel[t] = NoTunnel]
  ELSE [h EXCEPT !.n.tunnel[t].ref_count = left]

cc_tunnel_remove_ref(h, t) ==
  LET left == (h.n.tunnel[t].ref_count + RefModulus - 1) % RefModulus
      freed == [h EXCEPT !.n.tunnel[t] = NoTunnel]
  IN IF left # 0 THEN [h EXCEPT !.n.tunnel[t].ref_count = left]
     ELSE IF h.n.state # "DO_SLEEP" THEN Send(freed, [type |-> "destroy", of |-> t])
     ELSE freed

tunnel_request_handler(h, m) ==
  IF h.n.tunnel[m.of].state = "FREE" THEN h
  ELSE [h EXCEPT !.n.tunnel[m.of].state = IF m.ok THEN "ENABLED" ELSE "DISCONNECTED"]

\* A port that is not connected asks for the token tunnel, and then to be
\* connected over it: a port that waits for either is PENDING here.  If the tunnel
\* was refused, or the request to be connected cannot be sent, the port gives the
\* tunnel back and looks its peer up again, which takes it to a new tunnel at once
\* here.  The limit on the attempts, which marks the port for deletion, is in Ports.
cc_port_connect(h) ==
  LET token == h.n.tunnel["token"].state
      given == IF token = "FREE" THEN h
               ELSE cc_tunnel_remove_ref([h EXCEPT !.n.port = "DISCONNECTED"], "token")
  IN IF h.n.port \in {"none", "ENABLED"} \/ token = "PENDING" THEN h
     ELSE IF ~CanSend THEN given
     ELSE IF token = "ENABLED" THEN Send([h EXCEPT !.n.port = "PENDING"], [type |-> "connect"])
     ELSE [cc_tunnel_create(given, "token") EXCEPT !.n.port = "PENDING"]

\* Free the port; its tunnel loses a user.
cc_actor_free(h) ==
  IF h.n.port \in {"PENDING", "ENABLED"}
  THEN cc_tunnel_remove_ref([h EXCEPT !.n.port = "none"], "token")
  ELSE [h EXCEPT !.n.port = "none"]

(***************************************************************************)
(* Messages: what the handlers do when cc_platform_evt_wait reads one.      *)
(***************************************************************************)
\* While the transport is not enabled any message is read as the answer to the
\* join request; one that offers another serializer leaves the node waiting.
proto_handle_join_reply(h, m) ==
  IF m.type = "join" /\ m.ok THEN [h EXCEPT !.n.peer = server, !.n.transport = "ENABLED"] ELSE h

cc_node_setup_reply_handler(h, m) == IF m.ok THEN State(h, "STARTED") ELSE h

cc_node_enter_sleep_reply_handler(h, m) == State(h, IF m.ok THEN "DO_SLEEP" ELSE "STARTED")

proto_parse_destroy(h, m) ==
  Send([State(h, "STOP") EXCEPT !.n.stop_method = IF m.migrate THEN "MIGRATE" ELSE "CLEAN"],
       [type |-> "destroyed"])

cc_proto_parse_actor_new(h) ==
  IF h.n.port # "none" THEN h
  ELSE cc_port_connect([h EXCEPT !.n.port = "DISCONNECTED"])

\* A token tunnel that opens is used by the port that waits for it; one that is
\* refused leaves the port waiting until the next time the ports are connected.
Opened(h, m) ==
  LET answered == tunnel_request_handler(h, m) IN
  IF m.of = "token" /\ m.ok THEN cc_port_connect(answered) ELSE answered

cc_port_connect_reply_handler(h) ==
  IF h.n.port = "PENDING" THEN [h EXCEPT !.n.port = "ENABLED"] ELSE h

cc_proto_parse_message(h, m) ==
  IF h.n.transport # "ENABLED" THEN proto_handle_join_reply(h, m)
  ELSE CASE m.type = "tunnel"    -> Opened(h, m)
         [] m.type = "connect"   -> cc_port_connect_reply_handler(h)
         [] m.type \in {"setup", "wake"} -> cc_node_setup_reply_handler(h, m)
         [] m.type = "sleep"     -> cc_node_enter_sleep_reply_handler(h, m)
         [] m.type = "stop"      -> proto_parse_destroy(h, m)
         [] m.type = "actor_new" -> cc_proto_parse_actor_new(h)
         [] OTHER                -> h

Handled(m) == m.type \notin {"setup", "wake"} \/ m.ok

cc_node_handle_message(h, m) ==
  LET done == cc_proto_parse_message(h, m) IN
  IF Checkpointing /\ Handled(m) /\ done.n.state = "STARTED" THEN cc_node_set_state(done, TRUE)
  ELSE done

(***************************************************************************)
(* Connecting to the proxy: cc_node_connect_to_proxy up to each of its      *)
(* waits.                                                                   *)
(***************************************************************************)
\* The top of the loop in cc_node_run.
Top(h) ==
  IF h.n.state = "STOP" THEN At(h, "stop")
  ELSE IF h.n.transport = "ENABLED" THEN At(h, "main")
  ELSE At(State([h EXCEPT !.n.uri = 1], "DO_START"), "dial")

\* Mutant: the next URI is tried though the node was told to stop.
NextUri_stopped(h) ==
  IF h.n.uri < Len(Uris) THEN At(State([h EXCEPT !.n.uri = @ + 1], "DO_START"), "dial") ELSE At(h, "main")

\* An attempt failed: the next URI, or go on without a connection.
NextUri(h) ==
  IF h.n.state # "STOP" /\ h.n.uri < Len(Uris)
  THEN At(State([h EXCEPT !.n.uri = @ + 1], "DO_START"), "dial")
  ELSE At(h, "main")

\* Mutant: the node forgets the tunnels of the last proxy but not its port's.
NewProxy_port(h) ==
  [h EXCEPT !.n.tunnel = [t \in Type |-> NoTunnel], !.n.link = None]

\* Another proxy than before: its tunnels are gone, the ports are disconnected.
NewProxy(h) ==
  [h EXCEPT !.n.tunnel = [t \in Type |-> NoTunnel], !.n.link = None,
            !.n.port = IF @ = "none" THEN "none" ELSE "DISCONNECTED"]

\* The loop that waits for the answer to the setup, which a stop ends too.
Reported(h) ==
  CASE h.n.state = "STARTED" -> At(cc_port_connect(h), "main")
    [] h.n.state = "STOP"    -> NextUri(h)
    [] OTHER                 -> h

\* Both tunnels are there and the node reports itself.
Report(h) ==
  IF \E t \in {"storage", "proxy"} : h.n.tunnel[t].state # "ENABLED" THEN NextUri(h)
  ELSE IF ~CanSend THEN NextUri(h)
  ELSE Reported(At(Send(h, [type |-> IF h.n.new_proxy THEN "setup" ELSE "wake"]), "wait_setup"))

\* The loop that waits for the tunnels: its condition, and what follows it.
AwaitTunnels(h) ==
  IF (\E t \in {"storage", "proxy"} : h.n.tunnel[t].state = "PENDING") /\ h.n.state # "STOP"
  THEN At(h, "wait_tunnels")
  ELSE Report(h)

Missing(h) == {t \in {"storage", "proxy"} : h.n.tunnel[t].state = "FREE"}

\* Mutant: a proxy the node already knew is set up again.
Joined_setup(h) ==
  LET known == [(IF h.n.link \in {None, h.n.peer} THEN h ELSE NewProxy(h))
                  EXCEPT !.n.link = h.n.peer, !.n.new_proxy = FALSE]
      first == IF "storage" \in Missing(known) THEN cc_tunnel_create(known, "storage") ELSE known
      both == IF "proxy" \in Missing(first) THEN cc_tunnel_create(first, "proxy") ELSE first
  IN IF Missing(known) # {} /\ ~CanSend THEN NextUri(known) ELSE AwaitTunnels(both)

\* The link to the runtime that answered, which may be another one than before.
Linked(h) ==
  [(IF h.n.link \in {None, h.n.peer} THEN h ELSE NewProxy(h))
     EXCEPT !.n.link = h.n.peer, !.n.new_proxy = (h.n.link # h.n.peer)]

\* The join was answered: link and tunnels to the proxy are created if they
\* are not there.
Joined(h) ==
  LET known == Linked(h)
      first == IF "storage" \in Missing(known) THEN cc_tunnel_create(known, "storage") ELSE known
      both == IF "proxy" \in Missing(first) THEN cc_tunnel_create(first, "proxy") ELSE first
  IN IF Missing(known) # {} /\ ~CanSend THEN NextUri(known) ELSE AwaitTunnels(both)

(***************************************************************************)
(* Sleeping and stopping.                                                   *)
(***************************************************************************)
\* Save, free everything and power down.
DeepSleep(h) ==
  [At(cc_actor_free(cc_node_set_state(h, TRUE)), "off") EXCEPT !.n.transport = "NULL"]

\* After the one wait for the answer to the request to sleep.
Awake(h) == IF h.n.state = "DO_SLEEP" THEN DeepSleep(h) ELSE Top(State(h, "STARTED"))

cc_node_enter_sleep(h) ==
  IF h.n.transport # "ENABLED" THEN DeepSleep(h)
  ELSE IF ~CanSend THEN Top(State(h, "STARTED"))
  ELSE At(State(Send(h, [type |-> "sleep"]), "PENDING"), "wait_sleep")

\* Migrate the actor to the proxy or remove it, then drop the node's own tunnels.
\* A replica that ends with its node is removed rather than migrated: its port
\* gives the tunnel back all the same, only the message to the proxy is another.
cc_node_stop(h) ==
  LET sent == IF h.n.port # "none" /\ h.n.stop_method = "MIGRATE"
              THEN Send(h, [type |-> "actor_new"]) ELSE h
      Drop(g, t) == IF g.n.tunnel[t].state = "FREE" THEN g ELSE cc_tunnel_remove_ref(g, t)
  IN At(Drop(Drop(cc_actor_free(sent), "proxy"), "storage"), "save")

(***************************************************************************)
(* The node's steps.                                                        *)
(***************************************************************************)
\* cc_transport_create fails for the URI, or connecting or sending the join
\* request fails: the client is left with a socket that is not connected.  The
\* client made for the first URI is kept for all the others.
Client(n) == IF n.client = 0 /\ Uris[n.uri] THEN n.uri ELSE n.client

DialFails ==
  /\ node.pc = "dial"
  /\ LET client == Client(node) IN
     \/ /\ client = 0
        /\ Becomes(NextUri(Here)) /\ UNCHANGED <<losses, conn, toNode>>
     \/ /\ client # 0 /\ losses < MaxLosses
        /\ \E t \in {node.transport, "CONNECTED"} :
             Becomes(NextUri([Here EXCEPT !.n.client = client,
                              !.n.transport = IF t = "NULL" THEN "INTERFACE_UP" ELSE t]))
        /\ losses' = losses + 1 /\ conn' = "broken" /\ toNode' = <<>>
  /\ UNCHANGED <<server, configured, past, boots, messages, sleeps>>

\* The connection is up and the join request sent.
Dial ==
  /\ node.pc = "dial"
  /\ Client(node) # 0
  /\ node' = [node EXCEPT !.client = Client(node), !.transport = "PENDING", !.pc = "wait_join"]
  /\ server' \in Proxy
  /\ conn' = "up" /\ toProxy' = <<[type |-> "join"]>> /\ toNode' = <<>>
  /\ UNCHANGED <<file, configured, past, env>>

\* What follows the wait at h.n.pc.
After(h) ==
  CASE h.n.pc = "wait_join"    -> IF h.n.transport = "ENABLED" THEN Joined(h) ELSE h
    [] h.n.pc = "wait_tunnels" -> AwaitTunnels(h)
    [] h.n.pc = "wait_setup"   -> Reported(h)
    [] h.n.pc = "wait_sleep"   -> Awake(h)
    [] h.n.pc = "main"         -> Top(h)

\* cc_platform_evt_wait watches the connection only in these states.
Watched == node.transport \in {"PENDING", "ENABLED"}

SetupUnderWay == \E m \in Range(toProxy) \cup Range(toNode) : m.type \in {"setup", "wake"}

\* The wait reads a message; when it powers down the node the connection is closed.
Receive ==
  /\ node.pc \in Waits /\ Watched /\ toNode # <<>>
  /\ LET h == After(cc_node_handle_message(Here, Head(toNode))) IN
     /\ Becomes(h)
     /\ conn' = IF h.n.pc = "off" THEN "none" ELSE conn
     /\ toNode' = IF h.n.pc = "off" THEN <<>> ELSE Tail(toNode)
  /\ past' = IF /\ Head(toNode).type = "stop" /\ node.transport = "ENABLED"
                /\ node.pc # "wait_sleep" /\ ~SetupUnderWay
             THEN past \cup {"told"} ELSE past
  /\ UNCHANGED <<server, configured, env>>

\* The wait fails: the main loop marks the transport, the connect loop gives up
\* the attempt, and the wait for the answer to a sleep request does not look.
EvtWaitFails ==
  /\ node.pc \in Waits /\ Watched /\ toNode = <<>> /\ conn = "broken"
  /\ Becomes(CASE node.pc = "main"       -> Top([Here EXCEPT !.n.transport = "DISCONNECTED"])
               [] node.pc = "wait_sleep" -> Awake(Here)
               [] OTHER                  -> NextUri(Here))
  /\ UNCHANGED <<conn, server, toNode, configured, past, env>>

Quiet == ~Watched \/ (toNode = <<>> /\ conn # "broken")

EvtWaitTimesOut ==
  /\ node.pc \in {"main", "wait_sleep"} /\ Quiet
  /\ Becomes(After(Here))
  /\ UNCHANGED <<conn, server, toNode, configured, past, env>>

\* Nothing to do for long enough: ask to sleep, or sleep at once without a proxy.
TrySleep ==
  /\ UseSleep /\ sleeps < MaxSleeps
  /\ node.pc = "main" /\ Quiet
  /\ sleeps' = sleeps + 1
  /\ LET h == cc_node_enter_sleep(Here) IN
     /\ Becomes(h)
     /\ conn' = IF h.n.pc = "off" THEN "none" ELSE conn
     /\ toNode' = IF h.n.pc = "off" THEN <<>> ELSE toNode
  /\ past' = IF node.state = "STARTED" THEN past ELSE past \cup {"forced"}
  /\ UNCHANGED <<server, configured, losses, boots, messages>>

Stop ==
  /\ node.pc = "stop"
  /\ Becomes(cc_node_stop(Here))
  /\ UNCHANGED <<conn, server, toNode, configured, past, env>>

SaveAndExit ==
  /\ node.pc = "save"
  /\ Becomes([At(cc_node_set_state(Here, FALSE), "off") EXCEPT !.n.transport = "NULL"])
  /\ conn' = "none" /\ toNode' = <<>>
  /\ UNCHANGED <<server, toProxy, configured, past, env>>

NodeStep ==
  DialFails \/ Dial \/ Receive \/ EvtWaitFails \/ EvtWaitTimesOut \/ TrySleep \/ Stop \/ SaveAndExit

\* cc_api_runtime_init and the beginning of cc_node_run.
Boot ==
  /\ node.pc = "off" /\ boots < MaxBoots
  /\ boots' = boots + 1
  /\ node' = cc_node_setup(file).n /\ file' = cc_node_setup(file).file
  /\ past' = past \ {"told"}
  /\ UNCHANGED <<conn, server, toProxy, toNode, configured, losses, messages, sleeps>>

\* The node may be writing its state: after a message, when it stops, or on its
\* way to sleep.  (cc_node_reset writes over a file that is torn already.)
Saving ==
  \/ Checkpointing /\ node.state = "STARTED"
  \/ node.pc = "save"
  \/ UseSleep /\ node.pc = "main" /\ node.transport # "ENABLED"
  \/ node.pc = "wait_sleep" /\ toNode # <<>> /\ Head(toNode) = [type |-> "sleep", ok |-> TRUE]

\* Power is lost.  cc_platform_file_write truncates the file before it writes.
Crash ==
  /\ node.pc \in Running /\ boots < MaxBoots
  /\ node' = [NewNode EXCEPT !.pc = "off"]
  /\ \/ file' = file
     \/ Saving /\ file' = Torn
  /\ conn' = "none" /\ toNode' = <<>>
  /\ UNCHANGED <<server, toProxy, configured, past, env>>

(***************************************************************************)
(* The proxy and the connection.                                            *)
(***************************************************************************)
Answer(m, ok) == IF m.type = "tunnel" THEN [type |-> "tunnel", of |-> m.of, ok |-> ok]
                 ELSE [type |-> m.type, ok |-> ok]

\* The proxy handles a message; only port connections and token tunnels are
\* never refused here.
ProxyHandles ==
  /\ toProxy # <<>>
  /\ LET m == Head(toProxy) IN
     \E ok \in IF Faulty /\ m.type # "connect" /\ (m.type = "tunnel" => m.of # "token")
               THEN BOOLEAN ELSE {TRUE} :
       /\ toNode' = IF conn = "up" /\ m.type \notin {"destroy", "destroyed", "actor_new"}
                    THEN Append(toNode, Answer(m, ok)) ELSE toNode
       /\ configured' = IF m.type = "setup" /\ ok THEN configured \cup {server} ELSE configured
       /\ past' = IF ok THEN past ELSE past \cup {"refused"}
  /\ toProxy' = Tail(toProxy)
  /\ UNCHANGED <<node, file, conn, server, env>>

\* A proxy that knows the node sends it an actor, or tells it to stop.
ProxySends ==
  /\ conn = "up" /\ server \in configured /\ messages < MaxMessages
  /\ \A i \in DOMAIN toProxy : toProxy[i].type # "join"
  /\ \E m \in {[type |-> "actor_new"]} \cup {[type |-> "stop", migrate |-> b] : b \in BOOLEAN} :
       toNode' = Append(toNode, m)
  /\ messages' = messages + 1
  /\ UNCHANGED <<node, file, conn, server, toProxy, configured, past, losses, boots, sleeps>>

\* The connection breaks; what has already arrived may still be read.
Lose ==
  /\ conn = "up" /\ losses < MaxLosses
  /\ conn' = "broken" /\ losses' = losses + 1
  /\ toProxy' = <<>> /\ toNode' \in {toNode, <<>>}
  /\ past' = IF server \in configured THEN past ELSE past \cup {"interrupted"}
  /\ UNCHANGED <<node, file, server, configured, boots, messages, sleeps>>

Next == NodeStep \/ Boot \/ Crash \/ ProxyHandles \/ ProxySends \/ Lose

Init ==
  /\ node = [NewNode EXCEPT !.pc = "off"] /\ file = NoFile
  /\ conn = "none" /\ server \in Proxy /\ toProxy = <<>> /\ toNode = <<>>
  /\ configured = {} /\ past = {}
  /\ losses = 0 /\ boots = 0 /\ messages = 0 /\ sleeps = 0

Spec == Init /\ [][Next]_vars

\* The node's loop never pauses for ever and the proxy handles what it gets.
FairSpec == Spec /\ WF_vars(NodeStep) /\ WF_vars(ProxyHandles)

(***************************************************************************)
(* Properties.                                                              *)
(***************************************************************************)
\* A node that runs connected to its proxy has the link and both of its
\* tunnels to that proxy; cc_node_enter_sleep, which leaves a node STARTED
\* whatever it was, is the exception.  A port holds the token tunnel exactly while it
\* is connected or getting connected.
StartedIsConnected ==
  /\ node.pc = "main" /\ node.state = "STARTED" /\ node.transport = "ENABLED"
       => \/ "forced" \in past
          \/ /\ node.link = node.peer
             /\ node.tunnel["storage"].state = "ENABLED" /\ node.tunnel["proxy"].state = "ENABLED"
  /\ node.pc \in Running \ {"save"}
       => (node.tunnel["token"].state # "FREE" <=> node.port \in {"PENDING", "ENABLED"})

\* A node that runs has told its proxy its attributes and capabilities: it
\* sends WAKEUP in place of CONFIG only to a runtime that has handled a CONFIG.
\* The exceptions are a connection that broke before the proxy was set up, and
\* a node that was not started and asked to sleep.
StartedIsConfigured ==
  node.pc = "main" /\ node.state = "STARTED" /\ node.transport = "ENABLED"
    => node.peer \in configured \/ past \cap {"interrupted", "forced"} # {}

\* When the node stops (cc_node_stop) it gives its tunnels back to the proxy,
\* apart from the storage and proxy tunnels that came out of the state file:
\* nobody counted a reference to them.
StopReleases ==
  [][node.pc = "stop" /\ node'.pc = "save" /\ conn = "up"
       => \A t \in Type : node.tunnel[t].state # "FREE" /\ (node.tunnel[t].restored => t = "token")
                            => [type |-> "destroy", of |-> t] \in Range(toProxy')]_vars

\* A node that goes to sleep keeps the tunnels it has saved: it does not
\* destroy them at the proxy.
SleepKeepsTunnels ==
  [][node.pc \in {"main", "wait_sleep"} /\ node'.pc = "off"
       => \A t \in Type : [type |-> "destroy", of |-> t] \in Range(toProxy')
                            => [type |-> "destroy", of |-> t] \in Range(toProxy)]_vars

\* Tunnel t is waited for, and neither the request nor an answer is under way.
Orphan(t) ==
  /\ node.tunnel[t].state = "PENDING"
  /\ [type |-> "tunnel", of |-> t] \notin Range(toProxy)
  /\ \A i \in DOMAIN toNode : ~(toNode[i].type = "tunnel" /\ toNode[i].of = t)

\* The connect loop ends: again and again the node is running with its proxy, or
\* off, if the proxy refuses nothing; DO_SLEEP is the state of a node that runs on
\* because the answer to its request to sleep came late.  The one thing that keeps
\* it out is a tunnel whose request was lost with an earlier connection:
\* cc_node_connect_to_proxy waits for it for ever.
Connects ==
  []<>(\/ node.state \in {"STARTED", "DO_SLEEP"} \/ node.pc \in {"off", "fault"}
       \/ Orphan("storage") \/ Orphan("proxy") \/ "refused" \in past)

\* "assert constrained_process.poll() == 0" (test.py): a node that has been told to
\* stop ends, wherever in its connect loop the DESTROY was handled.  Two things
\* lose the order, both by making the node STARTED whatever it was: the answer to
\* a CONFIG or WAKEUP sent before (cc_node_setup_reply_handler), and a request to
\* sleep made before the loop of cc_node_run looks at its state again.
Abolished ==
  "told" \in past ~> (node.pc \in {"off", "fault"} \/ "forced" \in past)

(***************************************************************************)
(* The inductive invariant behind the safety properties: for a node n with  *)
(* requests tp and answers tn under way.                                    *)
(***************************************************************************)
Request == [type : {"join", "setup", "wake", "connect", "sleep", "destroyed", "actor_new"}]
             \cup [type : {"tunnel", "destroy"}, of : Type]
Reply == [type : {"join", "setup", "wake", "connect", "sleep"}, ok : BOOLEAN]
           \cup [type : {"tunnel"}, of : Type, ok : BOOLEAN]
           \cup [type : {"actor_new"}] \cup [type : {"stop"}, migrate : BOOLEAN]

\* The requests that will be answered.
Going == IF conn = "up" THEN toProxy ELSE <<>>

About(m, t) == m.type = "tunnel" /\ m.of = t
NoneAbout(s, t) == \A i \in 1 .. Len(s) : ~About(s[i], t)
OnceAbout(s, t) == \A i, j \in 1 .. Len(s) : About(s[i], t) /\ About(s[j], t) => i = j
Has(s, types) == \E i \in 1 .. Len(s) : s[i].type \in types

\* A tunnel is asked for once, and is pending as long as the answer is due.  Its
\* one user is counted, except for the node itself after a restart.
TunnelsSound(n, tp, tn) ==
  \A t \in Type :
    /\ OnceAbout(tp, t) /\ OnceAbout(tn, t) /\ (NoneAbout(tp, t) \/ NoneAbout(tn, t))
    /\ n.tunnel[t].state = "PENDING" \/ (NoneAbout(tp, t) /\ NoneAbout(tn, t))
    /\ n.tunnel[t].state # "FREE"
         => n.tunnel[t].ref_count = IF n.tunnel[t].restored /\ t # "token" THEN 0 ELSE 1

PortSound(port, token) == token # "FREE" <=> port \in {"PENDING", "ENABLED"}

Forced == "forced" \in past
Excused == past \cap {"interrupted", "forced"} # {}

\* The link and both tunnels to the proxy are there.
Attached(n) ==
  n.link = n.peer /\ n.tunnel["storage"].state = "ENABLED" /\ n.tunnel["proxy"].state = "ENABLED"

\* A node that runs, or will when an answer under way arrives, is attached to
\* its proxy and known to it.
Engaged(n) == n.state \in {"STARTED", "PENDING", "DO_SLEEP"} \/ n.pc = "wait_sleep"
Accepts(m) == m.type = "setup" /\ m.ok
Accepted(tn) == \E i \in 1 .. Len(tn) : Accepts(tn[i])
Reports == {"setup", "wake", "sleep"}
ReportsSound(n, tp, tn) ==
  /\ Engaged(n) \/ n.pc = "wait_setup" \/ Has(tp, Reports) \/ Has(tn, Reports)
       => n.transport = "ENABLED" /\ (Forced \/ Attached(n))
  /\ Engaged(n) \/ Has(tp, {"wake", "sleep"}) \/ Has(tn, {"wake", "sleep"}) \/ Accepted(tn)
       => Excused \/ n.peer \in configured

\* The runtime the node has a link to knows the node, or refused it a tunnel,
\* or the node is about to report itself to it.
LinkSound(n) ==
  n.link # None =>
    \/ n.link \in configured \/ Excused
    \/ \E t \in {"storage", "proxy"} : n.tunnel[t].state = "DISCONNECTED"
    \/ conn = "up" /\ n.transport = "ENABLED" /\ n.link = server /\ n.pc # "dial" /\ n.new_proxy

\* The connection, as far as the node knows.
ConnSound(n, tn) ==
  /\ n.transport = "ENABLED" => n.peer = server
  /\ n.transport # "ENABLED" /\ n.pc # "wait_join" => conn # "up" /\ tn = <<>>

NodeSound(n, tp, tn) ==
  TunnelsSound(n, tp, tn) /\ ReportsSound(n, tp, tn) /\ LinkSound(n) /\ ConnSound(n, tn)

\* In which state the node waits where,
PlaceSound(n) ==
  /\ n.pc \in {"dial", "wait_join", "wait_tunnels", "wait_setup"} => n.state = "DO_START"
  /\ n.pc = "wait_join" => n.transport = "PENDING"
  /\ n.pc = "wait_sleep" => n.state = "PENDING"
  /\ n.pc = "stop" => n.state = "STOP"

\* and what has been asked for already.
WaitSound(n, tp, tn) ==
  /\ n.pc = "wait_join" => /\ ~Has(tp, {"tunnel"}) /\ ~Has(tn, {"tunnel"})
                           /\ conn = "up" \/ server \in configured \/ Excused
  /\ n.pc \in {"wait_join", "wait_tunnels"} => ~Has(tp, Reports) /\ ~Has(tn, Reports)
  /\ n.pc = "wait_setup" => ~Has(tp, {"sleep"}) /\ ~Has(tn, {"sleep"})
  /\ n.pc = "wait_tunnels" => /\ n.transport = "ENABLED" /\ n.link = n.peer
                              /\ \A t \in {"storage", "proxy"} : n.tunnel[t].state # "FREE"

FileSound(f) == f.kind = "state" =>
  /\ PortSound(f.port, f.tunnel["token"])
  /\ f.link = None \/ f.link \in configured \/ Excused

NodeInv ==
  /\ TypeOK /\ toProxy \in Seq(Request) /\ toNode \in Seq(Reply)
  /\ FileSound(file)
  /\ node.pc \in {"off", "fault"} => conn # "up" /\ toNode = <<>>
  /\ node.pc \in Running \ {"save"} =>
       /\ NodeSound(node, Going, toNode) /\ PlaceSound(node) /\ WaitSound(node, Going, toNode)
       /\ PortSound(node.port, node.tunnel["token"].state)
=============================================================================
