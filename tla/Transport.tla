----------------------------- MODULE Transport -----------------------------
(***************************************************************************)
(* The byte stream under the runtime (cc_transport.c, the socket, spritzer  *)
(* and FCM transports, cc_platform_evt_wait of the platforms): connecting   *)
(* to the proxy, joining, and assembling messages out of what the stream    *)
(* happens to deliver.                                                      *)
(*                                                                          *)
(* The node is one thread.  Everything that is received is received inside  *)
(* cc_platform_evt_wait; node.at is the call of it the thread is in.  The   *)
(* proxy, TCP, and on Android the Java side of the two pipes, are the       *)
(* environment.  A byte is the message it belongs to and its place in it:   *)
(* first the length prefix, then the payload.                               *)
(***************************************************************************)
EXTENDS Integers, Sequences

CONSTANTS
  Hosts,          \* the platforms to look at, a subset of AllHosts
  PrefixSize,     \* CC_TRANSPORT_LEN_PREFIX_SIZE: 4 in the code
  Sizes,          \* payload sizes of messages
  TornMessages,   \* whether a connection may end within a message
  SplitHosts,     \* the platforms on which a read may return half a length prefix
  Uri,            \* the proxy URI of each: "ssdp" (ask the network for one) or "calvinip"
  MaxFds,         \* descriptors the process may have open
  MaxFaults,      \* bound: connections cut, refused or given up
  MaxMessages     \* bound: messages sent on a connection

AllHosts == {"x86", "esp8266", "spritzer", "android", "fcm"}

ASSUME TransportAssumption ==
  /\ Hosts \subseteq AllHosts /\ SplitHosts \subseteq AllHosts /\ TornMessages \in BOOLEAN
  /\ Uri \in [AllHosts -> {"ssdp", "calvinip"}] /\ MaxFds \in Nat
  /\ PrefixSize \in Nat \ {0} /\ Sizes \subseteq Nat \ {0} /\ \E s \in Sizes : \A t \in Sizes : t <= s
  /\ MaxFaults \in Nat /\ MaxMessages \in Nat

VARIABLES
  host,     \* the platform; "android" is a socket on Android, "fcm" its messaging service
  node,     \* the thread and its cc_transport_client_t
  wire,     \* bytes under way to the node on the current connection
  open,     \* whether the other end of the connection is there
  conn,     \* number of the connection
  pipe,     \* downstream_platform_fd: commands from Java
  sent, handled,   \* messages the proxy sent and the handler was called with, on this connection
  fds,      \* descriptors the transport has opened and not closed
  asked,    \* a reconnect was asked for and no connection was made since
  faults

vars == <<host, node, wire, open, conn, pipe, sent, handled, fds, asked, faults>>

State == {"NULL", "INTERFACE_DOWN", "INTERFACE_UP", "CONNECTED", "DISCONNECTED", "PENDING", "ENABLED"}
Message == [conn : 1 .. MaxFaults + 1, k : 1 .. MaxMessages, size : Sizes]
NoRx == [bytes |-> <<>>, size |-> 0]
Garbled == [conn |-> 0, k |-> 0, size |-> 0]
Biggest == CHOOSE s \in Sizes : \A t \in Sizes : t <= s
ByteType == [m : Message, at : 1 .. PrefixSize + Biggest]

Byte(m, i) == [m |-> m, at |-> i]
Payload(m) == [i \in 1 .. m.size |-> Byte(m, PrefixSize + i)]
\* cc_transport_set_length_prefix in front of the payload, which is what both ends write.
Framed(m) == [i \in 1 .. PrefixSize |-> Byte(m, i)] \o Payload(m)

TypeOK ==
  /\ host \in Hosts
  /\ node \in [pc : {"loop", "dial", "wait", "prefix", "payload", "stopped"},
               at : {"if_down", "connecting", "joining", "fired", "idle"},
               state : State, stop : BOOLEAN,
               rx : [bytes : Seq(ByteType), size : Nat]]
  /\ node.pc = "payload" => Len(node.rx.bytes) < node.rx.size
  /\ open \in BOOLEAN /\ fds \in 0 .. MaxFds /\ conn \in 0 .. MaxFaults + 1 /\ asked \in BOOLEAN
  /\ handled \in Seq(Message \cup {Garbled}) /\ faults \in 0 .. MaxFaults

Android == host \in {"android", "fcm"}
Socket == host # "fcm"

(***************************************************************************)
(* Sending and connecting.                                                  *)
(***************************************************************************)
At(n, at) == [n EXCEPT !.pc = "wait", !.at = at]

\* The rest of a round of cc_node_run: actors fire or do not, then it waits.
Round(n) == {At(n, "fired"), At(n, "idle")}

\* cc_transport_join, and the wait for the answer if the request went out.
cc_transport_join(n, sends) ==
  IF sends THEN {At([n EXCEPT !.state = "PENDING"], "joining")} ELSE Round(n)

\* The while loops of cc_node_connect_to_proxy: what comes after the wait at n.at.
cc_node_connect_to_proxy_waits(n) ==
  LET again == ~n.stop /\ n.state = IF n.at = "if_down" THEN "INTERFACE_DOWN" ELSE "PENDING"
  IN CASE n.at \in {"if_down", "connecting", "joining"} /\ again -> {At(n, n.at)}
       [] n.at = "if_down" /\ ~again                             -> {[n EXCEPT !.pc = "dial"]}
       [] n.at = "connecting" /\ ~again                          -> cc_transport_join(n, TRUE)
       [] OTHER                                                  -> Round(n)

\* A new connection: nothing of the old one is reachable any more.
NewConnection(there) ==
  /\ conn' = conn + 1 /\ wire' = <<>> /\ open' = there
  /\ sent' = <<>> /\ handled' = <<>> /\ asked' = FALSE

NoConnection == UNCHANGED <<conn, wire, open, sent, handled, asked>>

Fault == faults < MaxFaults /\ faults' = faults + 1

(***************************************************************************)
(* Descriptors, and the outcomes of looking for a proxy: whether it was     *)
(* found, and how many descriptors are open then.                           *)
(***************************************************************************)
NewSocket(d) == IF d < MaxFds THEN {d + 1} ELSE {}

\* The ssdp request: its socket is closed only once an answer was received.
cc_transport_socket_discover_location(d) ==
  {<<FALSE, x>> : x \in {d} \cup NewSocket(d)} \cup {<<TRUE, d>> : x \in NewSocket(d)}

\* The proxy's HTTP description: the socket is closed once it was read.
cc_transport_socket_get_ip_uri(d) ==
  {<<FALSE, x>> : x \in {d} \cup NewSocket(d)} \cup {<<TRUE, d>> : x \in NewSocket(d)}

cc_transport_socket_discover_proxy(d) ==
  UNION {IF r[1] THEN cc_transport_socket_get_ip_uri(r[2]) \cup {<<FALSE, r[2]>>} ELSE {r} :
           r \in cc_transport_socket_discover_location(d)}

cc_transport_socket_create(d) ==
  IF Uri[host] = "ssdp" THEN cc_transport_socket_discover_proxy(d) ELSE {<<TRUE, d>>}

\* Spritzer knows only addresses.
cc_transport_spritzer_create(d) == {<<Uri[host] = "calvinip", d>>}

cc_transport_fcm_create(d) == {<<TRUE, d>>}

\* The create of the URI's transport.
cc_transport_create(d) ==
  CASE host = "spritzer" -> cc_transport_spritzer_create(d)
    [] host = "fcm"      -> cc_transport_fcm_create(d)
    [] OTHER             -> cc_transport_socket_create(d)

\* Sockets are not closed: close gets the first word of the client, its type,
\* for a descriptor.
cc_transport_socket_disconnect(d) == d

\* The loop of cc_node_run, as far as it is about the connection: it is made
\* when the client is not enabled.
cc_node_run_loop ==
  /\ node.pc = "loop"
  /\ \/ /\ node.stop
        /\ node' = [node EXCEPT !.pc = "stopped"]
        /\ fds' = cc_transport_socket_disconnect(fds) /\ UNCHANGED faults
     \/ /\ ~node.stop /\ node.state = "NULL"
        /\ \E r \in cc_transport_create(fds) :
             /\ fds' = r[2]
             /\ IF r[1] THEN /\ node' = [node EXCEPT !.state = "INTERFACE_UP", !.rx = NoRx, !.pc = "dial"]
                             /\ UNCHANGED faults
                ELSE node' \in Round(node) /\ (Fault \/ (fds = MaxFds /\ UNCHANGED faults))
     \/ /\ ~node.stop /\ node.state # "NULL"
        /\ node' \in CASE node.state = "ENABLED"        -> Round(node)
                        [] node.state = "INTERFACE_DOWN" -> {At(node, "if_down")}
                        [] OTHER                         -> {[node EXCEPT !.pc = "dial"]}
        /\ UNCHANGED <<fds, faults>>
  /\ NoConnection /\ UNCHANGED <<host, pipe>>

\* connect of the socket and spritzer transports: a new socket, whatever became
\* of the last one, and a call that blocks until the connection is made.  It may
\* be lost before the join request is out.
cc_transport_socket_connect ==
  /\ Socket /\ UNCHANGED pipe
  /\ \/ /\ fds' \in NewSocket(fds)
        /\ \/ /\ NewConnection(TRUE) /\ UNCHANGED faults
              /\ node' \in cc_transport_join([node EXCEPT !.state = "CONNECTED"], TRUE)
           \/ /\ NewConnection(FALSE) /\ Fault
              /\ node' \in cc_transport_join([node EXCEPT !.state = "CONNECTED"], FALSE)
           \/ /\ Fault /\ node' \in Round(node)
              /\ wire' = <<>> /\ open' = FALSE /\ UNCHANGED <<conn, sent, handled, asked>>
     \/ /\ fds = MaxFds /\ node' \in Round(node)
        /\ wire' = <<>> /\ open' = FALSE /\ UNCHANGED <<conn, sent, handled, asked, fds, faults>>

\* Java's answer to the request to connect.
fcmTransportConnected == [cmd |-> "FR"]

\* connect of FCM asks Java, and waits for its answer.
transport_fcm_connect ==
  /\ ~Socket /\ UNCHANGED fds
  /\ \/ /\ NewConnection(TRUE) /\ UNCHANGED faults
        /\ pipe' = Append(pipe, fcmTransportConnected)
        /\ node' = At([node EXCEPT !.state = "PENDING"], "connecting")
     \/ /\ Fault /\ NoConnection /\ UNCHANGED pipe
        /\ node' \in Round([node EXCEPT !.state = "INTERFACE_DOWN"])

Connect ==
  /\ node.pc = "dial"
  /\ cc_transport_socket_connect \/ transport_fcm_connect
  /\ UNCHANGED host

(***************************************************************************)
(* Receiving.                                                               *)
(***************************************************************************)
\* What the caller of cc_platform_evt_wait does with its answer.  The call after
\* a round in which actors fired drops it.
Return(n, status) ==
  CASE n.at \in {"if_down", "connecting", "joining"} ->
         IF status = "FAIL" THEN Round(n)
         ELSE cc_node_connect_to_proxy_waits(n)
    [] n.at = "idle" /\ status = "FAIL" -> {[n EXCEPT !.state = "DISCONNECTED", !.pc = "loop"]}
    [] OTHER -> {[n EXCEPT !.pc = "loop"]}

MutantSilent(n) == Return(n, "DATA_READ")

\* What cc_platform_evt_wait does when cc_transport_handle_data failed: the
\* RTOS platforms take the client down themselves, x86 leaves that to the
\* caller, and the callback of Android's looper tells nobody.
x86_failed(n) == Return(n, "FAIL")
esp8266_failed(n) == Return([n EXCEPT !.state = "DISCONNECTED"], "FAIL")
spritzer_failed(n) == Return([n EXCEPT !.state = "DISCONNECTED"], "FAIL")
platform_android_socket_fd_handler(n) == Return(n, "DATA_READ")

HandleDataFailed(n) ==
  CASE host = "x86"      -> x86_failed(n)
    [] host = "esp8266"  -> esp8266_failed(n)
    [] host = "spritzer" -> spritzer_failed(n)
    [] OTHER             -> platform_android_socket_fd_handler(n)

MutantEnabledOnly == node.state = "ENABLED"

Polled == node.state \in {"PENDING", "ENABLED"}
Readable == Socket /\ Polled /\ (wire # <<>> \/ ~open)

\* The half of a message that is in rx_buffer is continued.
cc_transport_handle_data(n) == [n EXCEPT !.pc = IF n.rx = NoRx THEN "prefix" ELSE "payload"]

Reads == Readable /\ node' = cc_transport_handle_data(node) /\ UNCHANGED faults

\* select with a timeout, on x86, esp8266 and spritzer; it may fail, which only
\* x86 looks at.
SelectWait ==
  /\ ~Android
  /\ \/ Reads
     \/ ~Readable /\ node' \in Return(node, "TIMEOUT") /\ UNCHANGED faults
     \/ host = "x86" /\ Polled /\ Fault /\ node' \in Return(node, "FAIL")

\* The looper.  Unless the transport is polled it sleeps and looks at nothing,
\* and it calls a timeout DATA_READ.
LooperWait ==
  /\ Android
  /\ \/ Reads
     \/ /\ ~Readable /\ (pipe = <<>> \/ ~Polled)
        /\ node' \in Return(node, IF Polled THEN "DATA_READ" ELSE "TIMEOUT")
        /\ UNCHANGED faults

cc_platform_evt_wait ==
  /\ node.pc = "wait"
  /\ SelectWait \/ LooperWait
  /\ NoConnection /\ UNCHANGED <<host, pipe, fds>>

\* proto_handle_join_reply while the client is not enabled; the handlers of the
\* commands otherwise.  What cannot be decoded is dropped.
cc_node_handle_message(n, m) ==
  IF n.state # "ENABLED" /\ m # Garbled /\ m.k = 1 THEN [n EXCEPT !.state = "ENABLED"] ELSE n

\* The lengths that PrefixSize bytes can be read as.
cc_transport_get_message_len(bytes) ==
  IF \E m \in Message : bytes = SubSeq(Framed(m), 1, PrefixSize) THEN {bytes[1].m.size}
  ELSE 1 .. Biggest

Read(n) == wire' = SubSeq(wire, n + 1, Len(wire))

\* recv of the length: short is an error, and what was read is gone.
ReadPrefix ==
  /\ node.pc = "prefix"
  /\ \/ /\ wire = <<>> /\ ~open
        /\ node' \in HandleDataFailed(node) /\ UNCHANGED <<wire, faults>>
     \/ \E n \in 1 .. PrefixSize - 1 :
          /\ n <= Len(wire)
          /\ \/ host \in SplitHosts /\ Fault
             \/ n = Len(wire) /\ ~open /\ UNCHANGED faults
          /\ Read(n) /\ node' \in HandleDataFailed(node)
     \/ /\ PrefixSize <= Len(wire)
        /\ Read(PrefixSize) /\ UNCHANGED faults
        /\ \E size \in cc_transport_get_message_len(SubSeq(wire, 1, PrefixSize)) :
             node' = [node EXCEPT !.pc = "payload", !.rx = [bytes |-> <<>>, size |-> size]]
  /\ UNCHANGED <<host, open, conn, pipe, sent, handled, asked, fds>>

MutantFragment(rx, bytes) == TRUE
MutantLonger(rx, bytes) == Len(bytes) = rx.size + 1

Complete(rx, bytes) == Len(bytes) = rx.size

\* Blocks until there is something.  A complete message goes to the handler and
\* the buffer is emptied; a fragment is waited for here, whatever the timeout.
ReadPayload ==
  /\ node.pc = "payload"
  /\ \/ /\ wire = <<>> /\ ~open
        /\ node' \in HandleDataFailed(node) /\ UNCHANGED <<wire, handled>>
     \/ \E n \in 1 .. node.rx.size - Len(node.rx.bytes) :
          LET bytes == node.rx.bytes \o SubSeq(wire, 1, n)
              m == IF \E x \in Message : bytes = Payload(x) THEN bytes[1].m ELSE Garbled
          IN /\ n <= Len(wire) /\ Read(n)
             /\ IF Complete(node.rx, bytes)
                THEN /\ handled' = Append(handled, m)
                     /\ node' \in Return([cc_node_handle_message(node, m) EXCEPT !.rx = NoRx], "DATA_READ")
                ELSE node' = [node EXCEPT !.rx.bytes = bytes] /\ UNCHANGED handled
  /\ UNCHANGED <<host, open, conn, pipe, sent, asked, fds, faults>>

\* The commands from Java.  cc_api_reconnect counts on somebody to take the
\* interface up again.
command_transport_connected(n) == [n EXCEPT !.state = "CONNECTED"]
command_rt_stop(n) == [n EXCEPT !.stop = TRUE]
cc_api_reconnect(n) == IF n.state = "ENABLED" THEN [n EXCEPT !.state = "INTERFACE_DOWN"] ELSE n
command_calvin_msg(n, m) == cc_node_handle_message(n, m)

\* The looper finds a command only while the transport is polled.  The same poll
\* may go on with the socket.
handle_platform_call ==
  /\ Android /\ node.pc = "wait" /\ Polled /\ pipe # <<>>
  /\ LET c == Head(pipe)
         n == CASE c.cmd = "FR" -> command_transport_connected(node)
                [] c.cmd = "RS" -> command_rt_stop(node)
                [] c.cmd = "RC" -> cc_api_reconnect(node)
                [] c.cmd = "CM" -> command_calvin_msg(node, c.m)
     IN /\ node' \in Return(n, "DATA_READ") \cup (IF Readable THEN {cc_transport_handle_data(n)} ELSE {})
        /\ handled' = IF c.cmd = "CM" THEN Append(handled, c.m) ELSE handled
        /\ asked' = (asked \/ (node.state = "ENABLED" /\ n.state = "INTERFACE_DOWN"))
  /\ pipe' = Tail(pipe)
  /\ UNCHANGED <<host, wire, open, conn, sent, fds, faults>>

NodeStep == cc_node_run_loop \/ Connect \/ cc_platform_evt_wait \/ ReadPrefix \/ ReadPayload \/ handle_platform_call

(***************************************************************************)
(* The environment.                                                         *)
(***************************************************************************)
\* FCM hands Java whole messages, and Java puts them into the pipe.
runtimeCalvinPayload(m) == [cmd |-> "CM", m |-> m]

\* The proxy answers the join request with its first message and goes on.
ProxySends ==
  /\ open /\ Len(sent) < MaxMessages /\ node.state \in {"PENDING", "ENABLED"}
  /\ (~Socket /\ sent = <<>>) => node.at = "joining"
  /\ \E size \in Sizes :
       LET m == [conn |-> conn, k |-> Len(sent) + 1, size |-> size]
       IN /\ sent' = Append(sent, m)
          /\ IF Socket THEN wire' = wire \o Framed(m) /\ UNCHANGED pipe
             ELSE pipe' = Append(pipe, runtimeCalvinPayload(m)) /\ UNCHANGED wire
  /\ UNCHANGED <<host, node, open, conn, handled, asked, fds, faults>>

\* The connection is lost, with the end of what was under way.
Cut ==
  /\ Socket /\ open /\ Fault /\ open' = FALSE
  /\ \E n \in 0 .. Len(wire) :
       /\ n < Len(wire) => TornMessages \/ wire[n + 1].at = 1
       /\ wire' = SubSeq(wire, 1, n)
  /\ UNCHANGED <<host, node, conn, pipe, sent, handled, asked, fds>>

\* Java: the connectivity changed, or the service stops.
JavaCommands ==
  /\ Android /\ Fault
  /\ \E cmd \in {"RC", "RS"} : pipe' = Append(pipe, [cmd |-> cmd])
  /\ UNCHANGED <<host, node, wire, open, conn, sent, handled, asked, fds>>

Init ==
  /\ host \in Hosts
  /\ node = [pc |-> "loop", at |-> "idle", state |-> "NULL", stop |-> FALSE, rx |-> NoRx]
  /\ wire = <<>> /\ open = FALSE /\ conn = 0 /\ pipe = <<>>
  /\ sent = <<>> /\ handled = <<>> /\ asked = FALSE /\ fds = 0 /\ faults = 0

Next == NodeStep \/ ProxySends \/ Cut \/ JavaCommands

Spec == Init /\ [][Next]_vars

\* The thread runs, the proxy answers a join, and rounds in which no actor
\* fires come again and again.
FairSpec ==
  /\ Spec
  /\ WF_vars(NodeStep)
  /\ WF_vars(sent = <<>> /\ ProxySends)
  /\ SF_vars(cc_node_run_loop /\ node'.at = "idle")

(***************************************************************************)
(* Properties.                                                              *)
(***************************************************************************)
C == INSTANCE Channel

\* What cc_node_handle_message is called with on a connection is what the proxy
\* sent on it, whole, in order and once (cc_transport_handle_data).
ImplementsChannel == C!Spec

\* "calls handler when a compelete message has been received" (cc_transport.h):
\* the handler is never called with anything else.
CompleteMessages == \A i \in 1 .. Len(handled) : handled[i] # Garbled

\* A lost connection is noticed and replaced: the node is enabled on one whose
\* other end is there again, or was stopped, or has no descriptor left for a
\* socket, every connection having cost one.  On Android nobody notices.
Rejoins ==
  (~Android /\ ~open) ~>
     (Android \/ node.pc = "stopped" \/ (open /\ node.state = "ENABLED") \/ fds = MaxFds)

\* A message that was sent is handled unless its connection is lost or given up.
AllHandled ==
  \A k \in 1 .. MaxMessages :
    (Len(sent) >= k /\ open) ~> (Len(handled) >= k \/ ~open \/ Len(sent) < k \/ node.stop \/ asked)

(***************************************************************************)
(* Inductive invariants: what holds together with the properties above.     *)
(***************************************************************************)
Command == [cmd : {"FR", "RC", "RS"}] \cup [cmd : {"CM"}, m : Message]

StreamsTyped ==
  /\ wire \in Seq(ByteType) /\ pipe \in Seq(Command) /\ sent \in Seq(Message)
  /\ \A k \in 1 .. Len(sent) : sent[k].k = k
  /\ open => conn > 0
  /\ node.rx = NoRx \/ Len(node.rx.bytes) < node.rx.size

\* Where the thread can be.
ThreadSound ==
  /\ node.pc \in {"prefix", "payload"} => Socket /\ node.state # "DISCONNECTED"
  /\ node.pc = "loop" => node.at \in {"fired", "idle"}
  /\ node.pc = "dial" => ~node.stop
  /\ node.at = "if_down" => node.pc = "wait" /\ node.state = "INTERFACE_DOWN" /\ ~node.stop
  /\ node.at = "connecting" => ~Socket
  /\ node.state = "DISCONNECTED" => ~Android

\* The node connects again though nothing more goes wrong: it has lost the
\* connection, or given it up, or never had one.
Redials(n) ==
  /\ ~n.stop
  /\ \/ n.pc = "dial"
     \/ /\ n.state \notin {"ENABLED", "INTERFACE_DOWN"}
        /\ ~(n.state = "PENDING" /\ n.at \in {"connecting", "joining"} /\ n.pc # "loop")

\* Every connection after the first was paid for by a fault.
Budget ==
  /\ conn <= faults + 1
  /\ ~open \/ Redials(node) => conn <= faults
  /\ ~Socket => conn <= 1 /\ (~open \/ Redials(node) => conn = 0)

\* Commands in the pipe: only FCM gets messages and the answer to connect
\* there.  The answer comes once, while the node waits for it.
PipeSound ==
  \A i \in 1 .. Len(pipe) : pipe[i].cmd \in {"FR", "CM"} =>
    /\ ~Socket /\ conn > 0
    /\ pipe[i].cmd = "FR" =>
         /\ \A j \in 1 .. Len(pipe) : pipe[j].cmd = "FR" => j = i
         /\ node.stop \/ (/\ node.pc = "wait" /\ node.at = "connecting" /\ node.state = "PENDING"
                          /\ sent = <<>> /\ \A j \in 1 .. Len(pipe) : pipe[j].cmd # "CM")

TransportInv == TypeOK /\ StreamsTyped /\ ThreadSound /\ Budget /\ PipeSound

\* Connections end between messages, and no socket of x86 or Android returns
\* half a length prefix.
Whole == ~TornMessages /\ SplitHosts \subseteq {"esp8266", "spritzer"}

\* The messages in the pipe are the ones not yet handled, in order.
PipeInOrder ==
  /\ \A i \in 1 .. Len(pipe) : pipe[i].cmd = "CM" =>
       /\ pipe[i].m.k \in Len(handled) + 1 .. Len(sent) /\ pipe[i].m = sent[pipe[i].m.k]
       /\ \A j \in 1 .. Len(pipe) : pipe[j].cmd = "CM" /\ i < j => pipe[i].m.k < pipe[j].m.k
  /\ \A k \in Len(handled) + 1 .. Len(sent) : \E i \in 1 .. Len(pipe) : pipe[i].cmd = "CM" /\ pipe[i].m.k = k

\* The last byte of the frame of m.
FrameEnd(m) == PrefixSize + m.size

\* Byte j of w belongs to a message of snt, and is followed by the rest of it,
\* which is there whole, and then by the next message.
Continues(w, snt, j) ==
  LET m == w[j].m
  IN /\ m.k \in 1 .. Len(snt) /\ m = snt[m.k] /\ w[j].at <= FrameEnd(m)
     /\ \A i \in w[j].at .. FrameEnd(m) : j + i - w[j].at <= Len(w) /\ w[j + i - w[j].at] = Byte(m, i)
     /\ w[j].at = FrameEnd(m) /\ j < Len(w) => m.k < Len(snt) /\ w[j + 1] = Byte(snt[m.k + 1], 1)

\* A stretch of the stream of the messages in snt, which ends with a message.
Stretch(w, snt) == \A j \in 1 .. Len(w) : Continues(w, snt, j)

\* What was sent is what was handled (h messages), what has been read of the
\* message that is being received, if the thread is inside one, and what is
\* under way (w), all of it as long as the other end is there (o).
Aligned(inside, rx, w, o, snt, h) ==
  /\ h <= Len(snt) /\ Stretch(w, snt)
  /\ w # <<>> => /\ h < Len(snt)
                 /\ w[1] = Byte(snt[h + 1], IF inside THEN PrefixSize + Len(rx.bytes) + 1 ELSE 1)
                 /\ o => w[Len(w)].m.k = Len(snt)
  /\ w = <<>> => ~inside /\ (o => h = Len(snt))
  /\ inside => /\ rx.size = snt[h + 1].size
               /\ \A i \in 1 .. Len(rx.bytes) : rx.bytes[i] = Byte(snt[h + 1], PrefixSize + i)
  /\ ~inside => rx = NoRx

ChannelInv ==
  /\ Len(handled) <= Len(sent)
  /\ Socket /\ node.state # "DISCONNECTED" =>
       Aligned(node.pc = "payload", node.rx, wire, open, sent, Len(handled))
  /\ ~Socket => PipeInOrder
  /\ node.pc # "payload" => node.rx = NoRx
=============================================================================
