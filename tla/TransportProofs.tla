-------------------------- MODULE TransportProofs --------------------------
(***************************************************************************)
(* Proofs about Transport: its type, and that the handler is called with    *)
(* the messages the proxy sent (Channel).                                   *)
(*                                                                          *)
(* TransportInv says where the thread can be and what the streams hold; its *)
(* Budget bounds the number of connections.  ChannelInv adds, for           *)
(* connections that end between messages, that the bytes under way continue *)
(* what has been read.                                                      *)
(***************************************************************************)
EXTENDS Transport, SequenceTheorems, TLAPS

Pc == {"loop", "dial", "wait", "prefix", "payload", "stopped"}
Where == {"if_down", "connecting", "joining", "fired", "idle"}
Status == {"FAIL", "DATA_READ", "TIMEOUT"}
RxType == [bytes : Seq(ByteType), size : Nat]
NodeType == [pc : Pc, at : Where, state : State, stop : BOOLEAN, rx : RxType]

(***************************************************************************)
(* The client's record.                                                     *)
(***************************************************************************)
SetPc(n, x) == [n EXCEPT !.pc = x]
SetState(n, x) == [n EXCEPT !.state = x]
SetStop(n) == [n EXCEPT !.stop = TRUE]
SetRx(n, x) == [n EXCEPT !.rx = x]

\* The fields of a node.
LEMMA NodeFields ==
  ASSUME NEW n \in NodeType
  PROVE  /\ n.pc \in Pc /\ n.at \in Where /\ n.state \in State /\ n.stop \in BOOLEAN /\ n.rx \in RxType
         /\ n.rx.bytes \in Seq(ByteType) /\ n.rx.size \in Nat
BY DEF NodeType, RxType

\* Changing one field of it.
LEMMA SetPcFacts ==
  ASSUME NEW n \in NodeType, NEW x \in Pc, NEW m, m = SetPc(n, x)
  PROVE  m \in NodeType /\ m.pc = x /\ m.at = n.at /\ m.state = n.state /\ m.stop = n.stop /\ m.rx = n.rx
BY DEF NodeType, SetPc

\* Setting the state of the transport.
LEMMA SetStateFacts ==
  ASSUME NEW n \in NodeType, NEW x \in State, NEW m, m = SetState(n, x)
  PROVE  m \in NodeType /\ m.pc = n.pc /\ m.at = n.at /\ m.state = x /\ m.stop = n.stop /\ m.rx = n.rx
BY DEF NodeType, SetState

\* Asking the node to stop.
LEMMA SetStopFacts ==
  ASSUME NEW n \in NodeType, NEW m, m = SetStop(n)
  PROVE  m \in NodeType /\ m.pc = n.pc /\ m.at = n.at /\ m.state = n.state /\ m.stop = TRUE /\ m.rx = n.rx
BY DEF NodeType, SetStop

\* Setting the receive buffer.
LEMMA SetRxFacts ==
  ASSUME NEW n \in NodeType, NEW x \in RxType, NEW m, m = SetRx(n, x)
  PROVE  m \in NodeType /\ m.pc = n.pc /\ m.at = n.at /\ m.state = n.state /\ m.stop = n.stop /\ m.rx = x
BY DEF NodeType, SetRx

\* Entering a wait.
LEMMA AtFacts ==
  ASSUME NEW n \in NodeType, NEW x \in Where, NEW m, m = At(n, x)
  PROVE  m \in NodeType /\ m.pc = "wait" /\ m.at = x /\ m.state = n.state /\ m.stop = n.stop /\ m.rx = n.rx
BY DEF NodeType, At, Pc

\* The rest of a round leaves the client alone.
LEMMA RoundFacts ==
  ASSUME NEW n \in NodeType, NEW m \in Round(n)
  PROVE  /\ m \in NodeType /\ m.pc = "wait" /\ m.at \in {"fired", "idle"}
         /\ m.state = n.state /\ m.stop = n.stop /\ m.rx = n.rx
<1>1. PICK x \in {"fired", "idle"} : m = At(n, x)
  BY DEF Round
<1>2. x \in Where
  BY DEF Where
<1> QED
  BY <1>1, <1>2, AtFacts

\* After the join request went out, its answer is waited for.
LEMMA JoinFacts ==
  ASSUME NEW n \in NodeType, NEW b \in BOOLEAN, NEW m \in cc_transport_join(n, b)
  PROVE  /\ m \in NodeType /\ m.pc = "wait" /\ m.stop = n.stop /\ m.rx = n.rx
         /\ b => m.at = "joining" /\ m.state = "PENDING"
         /\ ~b => m.at \in {"fired", "idle"} /\ m.state = n.state
<1>1. CASE b
  <2> DEFINE s == SetState(n, "PENDING")
  <2>1. m = At(s, "joining")
    BY <1>1 DEF cc_transport_join, SetState
  <2>2. "PENDING" \in State /\ "joining" \in Where
    BY DEF State, Where
  <2>3. s \in NodeType /\ s.state = "PENDING" /\ s.stop = n.stop /\ s.rx = n.rx
    BY <2>2, SetStateFacts
  <2> HIDE DEF s
  <2> QED
    BY <1>1, <2>1, <2>2, <2>3, AtFacts
<1>2. CASE ~b
  <2>1. m \in Round(n)
    BY <1>2 DEF cc_transport_join
  <2> QED
    BY <1>2, <2>1, RoundFacts
<1> QED
  BY <1>1, <1>2

\* What a thread that waits for the interface has to be like: nothing but a stop
\* would end that wait.
DownSound(n) == n.at = "if_down" => n.state = "INTERFACE_DOWN" /\ ~n.stop

\* The waits of cc_node_connect_to_proxy.
LEMMA WaitsFacts ==
  ASSUME NEW n \in NodeType, DownSound(n), NEW m \in cc_node_connect_to_proxy_waits(n)
  PROVE  /\ m \in NodeType /\ m.pc = "wait" /\ m.stop = n.stop /\ m.rx = n.rx
         /\ \/ m.at = n.at /\ m.at = "if_down" /\ m.state = n.state
            \/ m.at = n.at /\ m.at \in {"connecting", "joining"} /\ n.state = "PENDING" /\ m.state = n.state
            \/ /\ n.at = "connecting" /\ m.at = "joining" /\ m.state = "PENDING"
               /\ n.state # "PENDING" \/ n.stop
            \/ /\ m.at \in {"fired", "idle"} /\ m.state = n.state /\ n.at \in {"joining", "fired", "idle"}
               /\ n.at = "joining" => n.state # "PENDING" \/ n.stop
<1>1. CASE n.at = "if_down"
  <2>1. m = At(n, "if_down") /\ "if_down" \in Where
    BY <1>1 DEF cc_node_connect_to_proxy_waits, DownSound, Where
  <2> QED
    BY <1>1, <2>1, AtFacts
<1>2. CASE n.at = "connecting" /\ n.state = "PENDING" /\ ~n.stop
  <2>1. m = At(n, "connecting") /\ "connecting" \in Where
    BY <1>2 DEF cc_node_connect_to_proxy_waits, Where
  <2> QED
    BY <1>2, <2>1, AtFacts
<1>3. CASE n.at = "connecting" /\ ~(n.state = "PENDING" /\ ~n.stop)
  <2>1. m \in cc_transport_join(n, TRUE)
    BY <1>3 DEF cc_node_connect_to_proxy_waits
  <2> QED
    BY <1>3, <2>1, JoinFacts
<1>4. CASE n.at = "joining" /\ n.state = "PENDING" /\ ~n.stop
  <2>1. m = At(n, "joining") /\ "joining" \in Where
    BY <1>4 DEF cc_node_connect_to_proxy_waits, Where
  <2> QED
    BY <1>4, <2>1, AtFacts
<1>5. CASE n.at = "joining" /\ ~(n.state = "PENDING" /\ ~n.stop)
  <2>1. m \in Round(n)
    BY <1>5 DEF cc_node_connect_to_proxy_waits
  <2> QED
    BY <1>5, <2>1, RoundFacts
<1>6. CASE n.at \in {"fired", "idle"}
  <2>1. m \in Round(n)
    BY <1>6 DEF cc_node_connect_to_proxy_waits
  <2> QED
    BY <1>6, <2>1, RoundFacts
<1> QED
  BY <1>1, <1>2, <1>3, <1>4, <1>5, <1>6, NodeFields DEF Where

\* What becomes of the node when cc_platform_evt_wait returns: it does not
\* connect again unless it was going to, or the wait failed.
LEMMA ReturnFacts ==
  ASSUME NEW n \in NodeType, n.pc \in {"wait", "prefix", "payload"}, DownSound(n),
         NEW s \in Status, NEW m \in Return(n, s)
  PROVE  /\ m \in NodeType /\ m.pc \in {"wait", "loop"} /\ m.stop = n.stop /\ m.rx = n.rx
         /\ m.pc = "loop" => m.at \in {"fired", "idle"}
         /\ m.at = "if_down" => m.pc = "wait" /\ m.state = "INTERFACE_DOWN" /\ ~m.stop
         /\ m.at = "connecting" => n.at = "connecting"
         /\ s # "FAIL" /\ Redials(m) => Redials(n)
         /\ \/ m.state = n.state
            \/ n.at = "connecting" /\ m.state = "PENDING" /\ s # "FAIL"
            \/ s = "FAIL" /\ m.state = "DISCONNECTED"
<1>1. CASE n.at \in {"if_down", "connecting", "joining"} /\ s = "FAIL"
  <2>1. m \in Round(n)
    BY <1>1 DEF Return
  <2> QED
    BY <1>1, <2>1, RoundFacts
<1>2. CASE n.at \in {"if_down", "connecting", "joining"} /\ s # "FAIL"
  <2>1. m \in cc_node_connect_to_proxy_waits(n)
    BY <1>2 DEF Return
  <2> QED
    BY <1>2, <2>1, WaitsFacts DEF Redials, DownSound
<1>3. CASE n.at = "idle" /\ s = "FAIL"
  <2> DEFINE d == SetState(n, "DISCONNECTED")
  <2>1. m = SetPc(d, "loop")
    BY <1>3 DEF Return, SetPc, SetState, NodeType
  <2>2. "DISCONNECTED" \in State /\ "loop" \in Pc
    BY DEF State, Pc
  <2>3. d \in NodeType /\ d.at = n.at /\ d.state = "DISCONNECTED" /\ d.stop = n.stop /\ d.rx = n.rx
    BY <2>2, SetStateFacts
  <2> HIDE DEF d
  <2> QED
    BY <1>3, <2>1, <2>2, <2>3, SetPcFacts
<1>4. CASE n.at \in {"fired", "idle"} /\ ~(n.at = "idle" /\ s = "FAIL")
  <2>1. m = SetPc(n, "loop") /\ "loop" \in Pc
    BY <1>4 DEF Return, SetPc, Pc
  <2> QED
    BY <1>4, <2>1, SetPcFacts DEF Redials
<1> QED
  BY <1>1, <1>2, <1>3, <1>4, NodeFields DEF Where

(***************************************************************************)
(* The invariant of the thread and the streams.                             *)
(***************************************************************************)
\* Sizes of messages and of frames.
LEMMA BiggestFacts ==
  /\ Biggest \in Sizes /\ Biggest \in Nat \ {0} /\ \A t \in Sizes : t \in Nat \ {0} /\ t <= Biggest
  /\ PrefixSize \in Nat \ {0} /\ MaxFaults \in Nat /\ MaxMessages \in Nat /\ MaxFds \in Nat
<1>1. \E s \in Sizes : \A t \in Sizes : t <= s
  BY TransportAssumption
<1>2. Biggest \in Sizes /\ \A t \in Sizes : t <= Biggest
  BY <1>1 DEF Biggest
<1> QED
  BY <1>2, TransportAssumption

\* The fields of a message, and of the bytes it is made of.
LEMMA MessageFields ==
  ASSUME NEW m \in Message
  PROVE  /\ m.conn \in 1 .. MaxFaults + 1 /\ m.k \in 1 .. MaxMessages
         /\ m.size \in Sizes /\ m.size \in Nat \ {0} /\ m.size <= Biggest
         /\ \A i \in 1 .. PrefixSize + m.size :
              /\ Byte(m, i) \in ByteType /\ Byte(m, i).m = m /\ Byte(m, i).at = i
<1>1. m.conn \in 1 .. MaxFaults + 1 /\ m.k \in 1 .. MaxMessages /\ m.size \in Sizes
  BY DEF Message
<1>2. m.size \in Nat \ {0} /\ m.size <= Biggest /\ Biggest \in Nat /\ PrefixSize \in Nat
  BY <1>1, BiggestFacts
<1>3. ASSUME NEW i \in 1 .. PrefixSize + m.size
      PROVE  i \in 1 .. PrefixSize + Biggest
  BY <1>2
<1> QED
  BY <1>1, <1>2, <1>3 DEF Byte, ByteType

\* The node and the streams are of their types.
LEMMA InvFacts ==
  ASSUME TransportInv
  PROVE  /\ host \in Hosts /\ node \in NodeType /\ open \in BOOLEAN /\ fds \in 0 .. MaxFds
         /\ conn \in 0 .. MaxFaults + 1 /\ asked \in BOOLEAN /\ handled \in Seq(Message \cup {Garbled})
         /\ faults \in 0 .. MaxFaults /\ DownSound(node)
         /\ wire \in Seq(ByteType) /\ pipe \in Seq(Command) /\ sent \in Seq(Message)
         /\ \A k \in 1 .. Len(sent) : sent[k].k = k
BY DEF TransportInv, TypeOK, StreamsTyped, ThreadSound, NodeType, RxType, Pc, Where, DownSound

\* A step that leaves the pipe and what was sent alone: the invariant is about
\* where the thread is, and whether it may connect again.
LEMMA QuietStep ==
  ASSUME TransportInv,
         UNCHANGED <<host, pipe, conn, sent>>,
         wire' \in Seq(ByteType), handled' \in Seq(Message \cup {Garbled}), asked' \in BOOLEAN,
         node' \in NodeType, fds' \in 0 .. MaxFds, faults' \in faults .. MaxFaults,
         open' \in BOOLEAN, open' => open, open /\ ~open' => Socket /\ conn <= faults',
         node'.stop = node.stop,
         node'.rx = NoRx \/ Len(node'.rx.bytes) < node'.rx.size,
         node'.pc = "payload" => Len(node'.rx.bytes) < node'.rx.size,
         ThreadSound',
         Redials(node') => Redials(node) \/ (Socket /\ conn <= faults'),
         \A i \in 1 .. Len(pipe) : pipe[i].cmd = "FR" => node.stop
  PROVE  TransportInv'
<1>1. TypeOK'
  BY InvFacts DEF TypeOK, NodeType, RxType, Pc, Where
<1>2. StreamsTyped'
  BY DEF TransportInv, StreamsTyped
<1>3. Budget'
  <2>1. conn \in Nat /\ faults \in Nat /\ faults' \in Nat /\ faults <= faults' /\ Socket' = Socket
    BY InvFacts, BiggestFacts DEF Socket
  <2>2. conn <= faults + 1 /\ (~open \/ Redials(node) => conn <= faults)
        /\ (~Socket => conn <= 1 /\ (~open \/ Redials(node) => conn = 0))
    BY DEF TransportInv, Budget
  <2>3. Redials(node)' = Redials(node')
    BY DEF Redials
  <2>4. ~open' \/ Redials(node') => conn <= faults' /\ (~Socket => conn = 0)
    <3>1. CASE ~open'
      BY <2>1, <2>2, <3>1
    <3>2. CASE Redials(node')
      <4>1. CASE Redials(node)
        BY <2>1, <2>2, <4>1
      <4>2. CASE Socket /\ conn <= faults'
        BY <4>2
      <4> QED
        BY <3>2, <4>1, <4>2
    <3> QED
      BY <3>1, <3>2
  <2>5. conn' = conn
    OBVIOUS
  <2>6. conn <= faults' + 1
    <3>1. conn <= faults + 1
      BY <2>2
    <3>2. \A c, f, g \in Nat : c <= f + 1 /\ f <= g => c <= g + 1
      OBVIOUS
    <3> QED
      BY <2>1, <3>1, <3>2
  <2> QED
    BY <2>1, <2>2, <2>3, <2>4, <2>5, <2>6 DEF Budget
<1>4. PipeSound'
  BY DEF TransportInv, PipeSound, Socket
<1> QED
  BY <1>1, <1>2, <1>3, <1>4 DEF TransportInv

\* The answer to connect finds the node waiting for it, so elsewhere it is
\* there only if the node is being stopped.
LEMMA NoAnswer ==
  ASSUME TransportInv, Socket \/ node.pc # "wait" \/ node.at # "connecting" \/ node.state # "PENDING"
  PROVE  \A i \in 1 .. Len(pipe) : pipe[i].cmd = "FR" => node.stop
BY DEF TransportInv, PipeSound

\* Looking for a proxy leaves no more descriptors open than there can be.
Outcome == BOOLEAN \X (0 .. MaxFds)

\* cc_transport_create ends in one of its outcomes.
LEMMA CreateFacts ==
  ASSUME NEW d \in 0 .. MaxFds
  PROVE  cc_transport_create(d) \subseteq Outcome
<1>1. ASSUME NEW x \in 0 .. MaxFds
      PROVE  NewSocket(x) \subseteq 0 .. MaxFds
  BY BiggestFacts DEF NewSocket
<1>2. ASSUME NEW x \in 0 .. MaxFds
      PROVE  {<<FALSE, y>> : y \in {x} \cup NewSocket(x)} \cup {<<TRUE, x>> : y \in NewSocket(x)} \subseteq Outcome
  <2>1. NewSocket(x) \subseteq 0 .. MaxFds
    BY <1>1
  <2>2. \A y \in 0 .. MaxFds : <<FALSE, y>> \in Outcome /\ <<TRUE, y>> \in Outcome
    BY DEF Outcome
  <2> HIDE DEF Outcome
  <2> QED
    BY <2>1, <2>2
<1>3. \A x \in 0 .. MaxFds : /\ cc_transport_socket_discover_location(x) \subseteq Outcome
                             /\ cc_transport_socket_get_ip_uri(x) \subseteq Outcome
  BY <1>2 DEF cc_transport_socket_discover_location, cc_transport_socket_get_ip_uri
<1>4. ASSUME NEW q \in cc_transport_socket_discover_proxy(d)
      PROVE  q \in Outcome
  <2>1. PICK p \in cc_transport_socket_discover_location(d) :
          q \in IF p[1] THEN cc_transport_socket_get_ip_uri(p[2]) \cup {<<FALSE, p[2]>>} ELSE {p}
    BY <1>4 DEF cc_transport_socket_discover_proxy
  <2>2. p \in Outcome
    BY <1>3
  <2>3. p[2] \in 0 .. MaxFds /\ <<FALSE, p[2]>> \in Outcome
    BY <2>2 DEF Outcome
  <2>4. q \in cc_transport_socket_get_ip_uri(p[2]) \/ q = <<FALSE, p[2]>> \/ q = p
    BY <2>1
  <2> QED
    BY <1>3, <2>2, <2>3, <2>4
<1>5. <<TRUE, d>> \in Outcome /\ <<Uri[host] = "calvinip", d>> \in Outcome
  BY DEF Outcome
<1>6. cc_transport_socket_create(d) \subseteq Outcome
  BY <1>4, <1>5 DEF cc_transport_socket_create
<1> HIDE DEF Outcome
<1>7. cc_transport_spritzer_create(d) \subseteq Outcome /\ cc_transport_fcm_create(d) \subseteq Outcome
  BY <1>5 DEF cc_transport_spritzer_create, cc_transport_fcm_create
<1>8. CASE host = "spritzer"
  BY <1>7, <1>8 DEF cc_transport_create
<1>9. CASE host = "fcm"
  BY <1>7, <1>9 DEF cc_transport_create
<1>10. CASE host \notin {"spritzer", "fcm"}
  BY <1>6, <1>10 DEF cc_transport_create
<1> QED
  BY <1>8, <1>9, <1>10

\* The loop of cc_node_run stops, waits, or goes on to connect.
LEMMA LoopEffects ==
  ASSUME TransportInv, cc_node_run_loop
  PROVE  /\ node' \in NodeType /\ node'.stop = node.stop /\ node'.pc \in {"stopped", "wait", "dial"}
         /\ node'.pc = "dial" => ~node.stop
         /\ node'.rx \in {node.rx, NoRx} /\ node'.at \in {"if_down", "fired", "idle"}
         /\ node'.at = "if_down" => node'.pc = "wait" /\ node'.state = "INTERFACE_DOWN" /\ ~node'.stop
         /\ node'.state = node.state \/ (node.state = "NULL" /\ node'.state = "INTERFACE_UP")
         /\ Redials(node') => Redials(node)
         /\ fds' \in 0 .. MaxFds /\ faults' \in faults .. MaxFaults
         /\ UNCHANGED <<host, pipe, conn, wire, open, sent, handled, asked>>
<1>1. /\ node \in NodeType /\ node.pc = "loop" /\ node.at \in {"fired", "idle"}
      /\ fds \in 0 .. MaxFds /\ faults \in 0 .. MaxFaults
      /\ UNCHANGED <<host, pipe, conn, wire, open, sent, handled, asked>>
  BY InvFacts DEF TransportInv, ThreadSound, cc_node_run_loop, NoConnection
<1>2. "stopped" \in Pc /\ "dial" \in Pc /\ "if_down" \in Where /\ "INTERFACE_UP" \in State
      /\ NoRx \in RxType /\ faults \in faults .. MaxFaults
  BY <1>1, BiggestFacts DEF Pc, Where, State, NoRx, RxType
<1>3. Fault => faults' \in faults .. MaxFaults
  BY <1>1, BiggestFacts DEF Fault
<1>4. CASE node.stop
  <2>1. node' = SetPc(node, "stopped") /\ fds' = fds /\ faults' = faults
    BY <1>4 DEF cc_node_run_loop, SetPc, cc_transport_socket_disconnect
  <2>2. /\ node' \in NodeType /\ node'.pc = "stopped" /\ node'.at = node.at /\ node'.state = node.state
        /\ node'.stop = node.stop /\ node'.rx = node.rx
    BY <1>1, <1>2, <2>1, SetPcFacts
  <2>3. ~Redials(node')
    BY <1>4, <2>2 DEF Redials
  <2> QED
    BY <1>1, <1>2, <2>1, <2>2, <2>3
<1>5. CASE ~node.stop /\ node.state = "NULL"
  <2>1. PICK r \in cc_transport_create(fds) :
          /\ fds' = r[2]
          /\ IF r[1] THEN /\ node' = [node EXCEPT !.state = "INTERFACE_UP", !.rx = NoRx, !.pc = "dial"]
                          /\ UNCHANGED faults
             ELSE node' \in Round(node) /\ (Fault \/ (fds = MaxFds /\ UNCHANGED faults))
    BY <1>5 DEF cc_node_run_loop
  <2>2. r[1] \in BOOLEAN /\ fds' \in 0 .. MaxFds
    <3>1. r \in Outcome
      BY <1>1, CreateFacts
    <3> QED
      BY <2>1, <3>1 DEF Outcome
  <2>3. Redials(node)
    BY <1>1, <1>5 DEF Redials
  <2>4. CASE r[1]
    <3> DEFINE u == SetState(node, "INTERFACE_UP")
               v == SetRx(u, NoRx)
    <3>1. node' = SetPc(v, "dial") /\ faults' = faults
      BY <1>1, <2>1, <2>4 DEF SetState, SetRx, SetPc, NodeType
    <3>2. u \in NodeType /\ u.at = node.at /\ u.stop = node.stop /\ u.state = "INTERFACE_UP"
      BY <1>1, <1>2, SetStateFacts
    <3> HIDE DEF u
    <3>3. v \in NodeType /\ v.at = node.at /\ v.stop = node.stop /\ v.state = "INTERFACE_UP" /\ v.rx = NoRx
      BY <1>2, <3>2, SetRxFacts
    <3> HIDE DEF v
    <3> QED
      BY <1>1, <1>2, <1>5, <2>2, <2>3, <3>1, <3>3, SetPcFacts
  <2>5. CASE ~r[1]
    <3>1. node' \in Round(node) /\ faults' \in faults .. MaxFaults
      BY <1>2, <1>3, <2>1, <2>5
    <3> QED
      BY <1>1, <2>2, <2>3, <3>1, RoundFacts
  <2> QED
    BY <2>2, <2>4, <2>5
<1>6. CASE ~node.stop /\ node.state # "NULL"
  <2>1. /\ node' \in CASE node.state = "ENABLED"        -> Round(node)
                        [] node.state = "INTERFACE_DOWN" -> {At(node, "if_down")}
                        [] OTHER                         -> {[node EXCEPT !.pc = "dial"]}
        /\ UNCHANGED <<fds, faults>>
    BY <1>6 DEF cc_node_run_loop
  <2>2. CASE node.state = "ENABLED"
    <3>1. node' \in Round(node)
      BY <2>1, <2>2
    <3> QED
      BY <1>1, <1>2, <2>1, <2>2, <3>1, RoundFacts DEF Redials
  <2>3. CASE node.state = "INTERFACE_DOWN"
    <3>1. node' = At(node, "if_down")
      BY <2>1, <2>3
    <3> QED
      BY <1>1, <1>2, <1>6, <2>1, <2>3, <3>1, AtFacts DEF Redials
  <2>4. CASE node.state \notin {"ENABLED", "INTERFACE_DOWN"}
    <3>1. node' = SetPc(node, "dial")
      BY <2>1, <2>4 DEF SetPc
    <3>2. Redials(node)
      BY <1>1, <1>6, <2>4 DEF Redials
    <3> QED
      BY <1>1, <1>2, <1>6, <2>1, <2>4, <3>1, <3>2, SetPcFacts
  <2> QED
    BY <2>2, <2>3, <2>4
<1> QED
  BY <1>1, <1>4, <1>5, <1>6, NodeFields

\* The head of the loop of cc_node_run keeps the invariant.
LEMMA LoopStep ==
  ASSUME TransportInv, cc_node_run_loop
  PROVE  TransportInv'
<1>1. /\ node' \in NodeType /\ node'.stop = node.stop /\ node'.pc \in {"stopped", "wait", "dial"}
      /\ node'.pc = "dial" => ~node.stop
      /\ node'.rx \in {node.rx, NoRx} /\ node'.at \in {"if_down", "fired", "idle"}
      /\ node'.at = "if_down" => node'.pc = "wait" /\ node'.state = "INTERFACE_DOWN" /\ ~node'.stop
      /\ node'.state = node.state \/ (node.state = "NULL" /\ node'.state = "INTERFACE_UP")
      /\ Redials(node') => Redials(node)
      /\ fds' \in 0 .. MaxFds /\ faults' \in faults .. MaxFaults
      /\ UNCHANGED <<host, pipe, conn, wire, open, sent, handled, asked>>
  BY LoopEffects
<1>2. ThreadSound'
  BY <1>1 DEF TransportInv, ThreadSound, Socket, Android
<1>3. node'.rx = NoRx \/ Len(node'.rx.bytes) < node'.rx.size
  BY <1>1 DEF TransportInv, StreamsTyped
<1>4. \A i \in 1 .. Len(pipe) : pipe[i].cmd = "FR" => node.stop
  <2>1. node.pc = "loop"
    BY DEF cc_node_run_loop
  <2> QED
    BY <2>1, NoAnswer
<1>5. /\ wire' \in Seq(ByteType) /\ handled' \in Seq(Message \cup {Garbled}) /\ asked' \in BOOLEAN
      /\ open' \in BOOLEAN /\ open' = open
  BY <1>1, InvFacts
<1> QED
  BY <1>1, <1>2, <1>3, <1>4, <1>5, QuietStep

\* Reading goes on with the length, or with the message that was begun.
LEMMA HandleDataFacts ==
  ASSUME NEW n \in NodeType, NEW m, m = cc_transport_handle_data(n)
  PROVE  /\ m \in NodeType /\ m.pc = (IF n.rx = NoRx THEN "prefix" ELSE "payload")
         /\ m.at = n.at /\ m.state = n.state /\ m.stop = n.stop /\ m.rx = n.rx
<1>1. m = SetPc(n, IF n.rx = NoRx THEN "prefix" ELSE "payload")
  BY DEF cc_transport_handle_data, SetPc
<1>2. (IF n.rx = NoRx THEN "prefix" ELSE "payload") \in Pc
  BY DEF Pc
<1> QED
  BY <1>1, <1>2, SetPcFacts

\* cc_platform_evt_wait: begins to read, or returns.
LEMMA WaitEffects ==
  ASSUME TransportInv, cc_platform_evt_wait
  PROVE  /\ node' \in NodeType /\ node'.stop = node.stop /\ node'.rx = node.rx
         /\ \/ /\ node'.pc \in {"wait", "loop"} /\ (node'.pc = "loop" => node'.at \in {"fired", "idle"})
               /\ node'.at = "if_down" => node'.pc = "wait" /\ node'.state = "INTERFACE_DOWN" /\ ~node'.stop
               /\ node'.at = "connecting" => ~Socket
            \/ /\ Socket /\ Polled /\ node'.at = node.at /\ node'.state = node.state
               /\ node'.pc = IF node.rx = NoRx THEN "prefix" ELSE "payload"
         /\ \/ node'.state = node.state
            \/ ~Socket /\ node'.state = "PENDING"
            \/ host = "x86" /\ node'.state = "DISCONNECTED"
         /\ Redials(node') => Redials(node) \/ (Socket /\ conn <= faults')
         /\ faults' \in faults .. MaxFaults
         /\ \A i \in 1 .. Len(pipe) : pipe[i].cmd = "FR" => node.stop
         /\ UNCHANGED <<host, pipe, conn, wire, open, sent, handled, asked, fds>>
<1>1. /\ node \in NodeType /\ node.pc = "wait" /\ DownSound(node) /\ faults \in 0 .. MaxFaults
      /\ conn \in Nat /\ conn <= faults + 1 /\ (node.at = "connecting" => ~Socket)
      /\ UNCHANGED <<host, pipe, conn, wire, open, sent, handled, asked, fds>>
  BY InvFacts, BiggestFacts DEF TransportInv, ThreadSound, Budget, cc_platform_evt_wait, NoConnection
<1>2. "FAIL" \in Status /\ "TIMEOUT" \in Status /\ "DATA_READ" \in Status
      /\ faults \in faults .. MaxFaults /\ node.pc \in {"wait", "prefix", "payload"}
  BY <1>1, BiggestFacts DEF Status
<1>3. \A i \in 1 .. Len(pipe) : pipe[i].cmd = "FR" => node.stop
  <2>1. CASE ~Socket /\ node.at = "connecting" /\ node.state = "PENDING"
    <3>1. Android /\ Polled /\ ~Readable
      BY <2>1 DEF Android, Socket, Polled, Readable
    <3>2. pipe = <<>>
      BY <2>1, <3>1 DEF cc_platform_evt_wait, SelectWait, LooperWait, Reads
    <3> QED
      BY <3>2
  <2>2. CASE ~(~Socket /\ node.at = "connecting" /\ node.state = "PENDING")
    BY <2>2, NoAnswer
  <2> QED
    BY <2>1, <2>2
<1>4. CASE Reads
  <2>1. /\ node' \in NodeType /\ node'.pc = (IF node.rx = NoRx THEN "prefix" ELSE "payload")
        /\ node'.at = node.at /\ node'.state = node.state /\ node'.stop = node.stop /\ node'.rx = node.rx
        /\ Socket /\ Polled /\ faults' = faults
    BY <1>1, <1>4, HandleDataFacts DEF Reads, Readable
  <2>2. Redials(node') => Redials(node)
    BY <1>1, <2>1 DEF Redials
  <2> QED
    BY <1>1, <1>2, <1>3, <2>1, <2>2
<1>5. ASSUME NEW s \in Status, s # "FAIL", node' \in Return(node, s), faults' = faults
      PROVE  /\ node' \in NodeType /\ node'.stop = node.stop /\ node'.rx = node.rx
             /\ node'.pc \in {"wait", "loop"} /\ (node'.pc = "loop" => node'.at \in {"fired", "idle"})
             /\ node'.at = "if_down" => node'.pc = "wait" /\ node'.state = "INTERFACE_DOWN" /\ ~node'.stop
             /\ node'.at = "connecting" => ~Socket
             /\ node'.state = node.state \/ (~Socket /\ node'.state = "PENDING")
             /\ Redials(node') => Redials(node)
             /\ faults' \in faults .. MaxFaults
  BY <1>1, <1>2, <1>5, ReturnFacts
<1>6. CASE ~Reads /\ SelectWait
  <2>1. CASE node' \in Return(node, "TIMEOUT") /\ UNCHANGED faults
    BY <1>1, <1>2, <1>3, <1>5, <2>1
  <2>2. CASE host = "x86" /\ Polled /\ Fault /\ node' \in Return(node, "FAIL")
    <3>1. /\ node' \in NodeType /\ node'.stop = node.stop /\ node'.rx = node.rx
          /\ node'.pc \in {"wait", "loop"} /\ (node'.pc = "loop" => node'.at \in {"fired", "idle"})
          /\ node'.at = "if_down" => node'.pc = "wait" /\ node'.state = "INTERFACE_DOWN" /\ ~node'.stop
          /\ node'.at = "connecting" => node.at = "connecting"
          /\ \/ node'.state = node.state
             \/ node.at = "connecting" /\ node'.state = "PENDING"
             \/ node'.state = "DISCONNECTED"
      BY <1>1, <1>2, <2>2, ReturnFacts
    <3>2. Socket /\ conn <= faults' /\ faults' \in faults .. MaxFaults
      BY <1>1, <2>2, BiggestFacts DEF Socket, Fault
    <3> QED
      BY <1>1, <1>3, <2>2, <3>1, <3>2
  <2> QED
    BY <1>6, <2>1, <2>2 DEF SelectWait
<1>7. CASE ~Reads /\ LooperWait
  <2>1. PICK s \in {"DATA_READ", "TIMEOUT"} : node' \in Return(node, s) /\ faults' = faults
    BY <1>7 DEF LooperWait
  <2>2. s \in Status /\ s # "FAIL"
    BY <1>2
  <2> QED
    BY <1>1, <1>3, <1>5, <2>1, <2>2
<1> QED
  BY <1>4, <1>6, <1>7 DEF cc_platform_evt_wait

\* The end of a wait keeps the invariant.
LEMMA WaitStep ==
  ASSUME TransportInv, cc_platform_evt_wait
  PROVE  TransportInv'
<1>1. /\ node' \in NodeType /\ node'.stop = node.stop /\ node'.rx = node.rx
      /\ \/ /\ node'.pc \in {"wait", "loop"} /\ (node'.pc = "loop" => node'.at \in {"fired", "idle"})
            /\ node'.at = "if_down" => node'.pc = "wait" /\ node'.state = "INTERFACE_DOWN" /\ ~node'.stop
            /\ node'.at = "connecting" => ~Socket
         \/ /\ Socket /\ Polled /\ node'.at = node.at /\ node'.state = node.state
            /\ node'.pc = IF node.rx = NoRx THEN "prefix" ELSE "payload"
      /\ \/ node'.state = node.state
         \/ ~Socket /\ node'.state = "PENDING"
         \/ host = "x86" /\ node'.state = "DISCONNECTED"
      /\ Redials(node') => Redials(node) \/ (Socket /\ conn <= faults')
      /\ faults' \in faults .. MaxFaults
      /\ \A i \in 1 .. Len(pipe) : pipe[i].cmd = "FR" => node.stop
      /\ UNCHANGED <<host, pipe, conn, wire, open, sent, handled, asked, fds>>
  BY WaitEffects
<1>2. ThreadSound'
  BY <1>1 DEF TransportInv, ThreadSound, Socket, Android, Polled
<1>3. /\ node'.rx = NoRx \/ Len(node'.rx.bytes) < node'.rx.size
      /\ node'.pc = "payload" => node'.rx # NoRx
  BY <1>1 DEF TransportInv, StreamsTyped
<1>4. /\ wire' \in Seq(ByteType) /\ handled' \in Seq(Message \cup {Garbled}) /\ asked' \in BOOLEAN
      /\ open' \in BOOLEAN /\ open' = open /\ fds' \in 0 .. MaxFds
  BY <1>1, InvFacts
<1> QED
  BY <1>1, <1>2, <1>3, <1>4, QuietStep

\* Where a wait that returned leaves the thread.
Resumed(m) ==
  /\ m.pc \in {"wait", "loop"} /\ (m.pc = "loop" => m.at \in {"fired", "idle"})
  /\ m.at = "if_down" => m.pc = "wait" /\ m.state = "INTERFACE_DOWN" /\ ~m.stop
  /\ m.at = "connecting" => ~Socket

\* Reading failed: the platforms other than Android take the connection down,
\* at once or through cc_node_run.
LEMMA FailedFacts ==
  ASSUME TransportInv, node.pc \in {"prefix", "payload"}, NEW m \in HandleDataFailed(node)
  PROVE  /\ m \in NodeType /\ Resumed(m) /\ m.stop = node.stop /\ m.rx = node.rx
         /\ m.state = node.state \/ (m.state = "DISCONNECTED" /\ ~Android)
         /\ host \in {"esp8266", "spritzer"} => m.state = "DISCONNECTED"
<1>1. /\ node \in NodeType /\ node.at # "if_down" /\ DownSound(node) /\ Socket
      /\ (node.at = "connecting" => ~Socket) /\ node.state # "DISCONNECTED"
  BY InvFacts DEF TransportInv, ThreadSound
<1>2. "FAIL" \in Status /\ "DATA_READ" \in Status /\ node.pc \in {"wait", "prefix", "payload"}
      /\ "DISCONNECTED" \in State
  BY DEF Status, State
<1>3. host \in AllHosts \ {"fcm"}
  BY <1>1, TransportAssumption, InvFacts DEF Socket
<1>4. CASE host = "x86"
  <2>1. m \in Return(node, "FAIL")
    BY <1>4 DEF HandleDataFailed, x86_failed
  <2> QED
    BY <1>1, <1>2, <1>4, <2>1, ReturnFacts DEF Resumed, Android
<1>5. CASE host \in {"esp8266", "spritzer"}
  <2> DEFINE d == SetState(node, "DISCONNECTED")
  <2>1. m \in Return(d, "FAIL")
    BY <1>5 DEF HandleDataFailed, esp8266_failed, spritzer_failed, SetState
  <2>2. d \in NodeType /\ d.pc = node.pc /\ d.at = node.at /\ d.state = "DISCONNECTED"
        /\ d.stop = node.stop /\ d.rx = node.rx
    BY <1>1, <1>2, SetStateFacts
  <2> HIDE DEF d
  <2>3. DownSound(d) /\ d.pc \in {"wait", "prefix", "payload"}
    BY <1>1, <1>2, <2>2 DEF DownSound
  <2> QED
    BY <1>1, <1>2, <1>5, <2>1, <2>2, <2>3, ReturnFacts DEF Resumed, Android
<1>6. CASE host = "android"
  <2>1. m \in Return(node, "DATA_READ")
    BY <1>6 DEF HandleDataFailed, platform_android_socket_fd_handler
  <2> QED
    BY <1>1, <1>2, <1>6, <2>1, ReturnFacts DEF Resumed, Android
<1> QED
  BY <1>3, <1>4, <1>5, <1>6 DEF AllHosts

\* A length that was read is the one of some message.
LEMMA LengthFacts ==
  ASSUME NEW w \in Seq(ByteType), PrefixSize <= Len(w),
         NEW size \in cc_transport_get_message_len(SubSeq(w, 1, PrefixSize))
  PROVE  size \in Nat \ {0}
<1> DEFINE bytes == SubSeq(w, 1, PrefixSize)
<1>1. bytes \in Seq(ByteType) /\ Len(bytes) = PrefixSize /\ PrefixSize \in Nat \ {0}
  BY BiggestFacts
<1>2. bytes[1] \in ByteType
  BY <1>1
<1>3. bytes[1].m \in Message
  BY <1>2 DEF ByteType
<1> HIDE DEF bytes
<1>4. bytes[1].m.size \in Nat \ {0}
  BY <1>3, MessageFields
<1>5. size = bytes[1].m.size \/ size \in 1 .. Biggest
  BY DEF cc_transport_get_message_len, bytes
<1> QED
  BY <1>4, <1>5, BiggestFacts

\* What is left after n bytes have been read.
LEMMA ReadFacts ==
  ASSUME NEW w \in Seq(ByteType), NEW n \in 0 .. Len(w), NEW v, v = SubSeq(w, n + 1, Len(w))
  PROVE  /\ v \in Seq(ByteType) /\ Len(v) = Len(w) - n
         /\ \A j \in 1 .. Len(v) : v[j] = w[n + j]
<1>1. Len(w) \in Nat
  BY LenProperties
<1>2. CASE n = Len(w)
  BY <1>1, <1>2
<1>3. CASE n < Len(w)
  BY <1>1, <1>3
<1> QED
  BY <1>1, <1>2, <1>3

\* The outcomes of reading the length.
PrefixFails ==
  /\ node'.rx = node.rx /\ Resumed(node')
  /\ node'.state = node.state \/ (node'.state = "DISCONNECTED" /\ ~Android)
  /\ host \in {"esp8266", "spritzer"} => node'.state = "DISCONNECTED"
  /\ conn <= faults'
  /\ \/ wire = <<>> /\ ~open /\ wire' = <<>>
     \/ \E n \in 1 .. PrefixSize - 1 :
          n <= Len(wire) /\ wire' = SubSeq(wire, n + 1, Len(wire)) /\ (host \in SplitHosts \/ (n = Len(wire) /\ ~open))

PrefixComes ==
  /\ PrefixSize <= Len(wire) /\ wire' = SubSeq(wire, PrefixSize + 1, Len(wire))
  /\ node'.pc = "payload" /\ node'.at = node.at /\ node'.state = node.state /\ faults' = faults
  /\ \E size \in cc_transport_get_message_len(SubSeq(wire, 1, PrefixSize)) :
       node'.rx = [bytes |-> <<>>, size |-> size]

\* What a thread that reads can count on.
LEMMA ReadingFacts ==
  ASSUME TransportInv, node.pc \in {"prefix", "payload"}
  PROVE  /\ node \in NodeType /\ Socket /\ wire \in Seq(ByteType) /\ Len(wire) \in Nat
         /\ PrefixSize \in Nat \ {0} /\ node.state # "DISCONNECTED"
         /\ faults \in 0 .. MaxFaults /\ faults \in faults .. MaxFaults /\ conn \in Nat
         /\ conn <= faults + 1 /\ (~open => conn <= faults)
         /\ node.at # "if_down" /\ node.at # "connecting"
BY InvFacts, BiggestFacts DEF TransportInv, ThreadSound, Budget

\* What reading the length prefix may do: fail, or start a message.
LEMMA PrefixEffects ==
  ASSUME TransportInv, ReadPrefix
  PROVE  /\ node' \in NodeType /\ node'.stop = node.stop /\ Socket /\ wire' \in Seq(ByteType)
         /\ faults' \in faults .. MaxFaults
         /\ PrefixFails \/ PrefixComes
         /\ UNCHANGED <<host, open, conn, pipe, sent, handled, asked, fds>>
<1>0. node.pc = "prefix" /\ UNCHANGED <<host, open, conn, pipe, sent, handled, asked, fds>>
  BY DEF ReadPrefix
<1>1. /\ node \in NodeType /\ node.pc = "prefix" /\ node.pc \in {"prefix", "payload"} /\ Socket
      /\ wire \in Seq(ByteType) /\ Len(wire) \in Nat /\ PrefixSize \in Nat \ {0}
      /\ faults \in 0 .. MaxFaults /\ faults \in faults .. MaxFaults /\ conn \in Nat
      /\ conn <= faults + 1 /\ (~open => conn <= faults)
      /\ UNCHANGED <<host, open, conn, pipe, sent, handled, asked, fds>>
  BY <1>0, ReadingFacts
<1>2. ASSUME node' \in HandleDataFailed(node)
      PROVE  /\ node' \in NodeType /\ node'.stop = node.stop
             /\ node'.rx = node.rx /\ Resumed(node')
             /\ node'.state = node.state \/ (node'.state = "DISCONNECTED" /\ ~Android)
             /\ host \in {"esp8266", "spritzer"} => node'.state = "DISCONNECTED"
  BY <1>1, <1>2, FailedFacts
<1>3. CASE wire = <<>> /\ ~open /\ node' \in HandleDataFailed(node) /\ UNCHANGED <<wire, faults>>
  BY <1>1, <1>2, <1>3 DEF PrefixFails
<1>4. ASSUME NEW n \in 1 .. PrefixSize - 1, n <= Len(wire),
             (host \in SplitHosts /\ Fault) \/ (n = Len(wire) /\ ~open /\ UNCHANGED faults),
             Read(n), node' \in HandleDataFailed(node)
      PROVE  node' \in NodeType /\ node'.stop = node.stop /\ wire' \in Seq(ByteType)
             /\ faults' \in faults .. MaxFaults /\ PrefixFails
  <2>1. faults' \in faults .. MaxFaults /\ conn <= faults'
    BY <1>1, <1>4, BiggestFacts DEF Fault
  <2>2. n \in 0 .. Len(wire) /\ wire' = SubSeq(wire, n + 1, Len(wire))
    BY <1>1, <1>4 DEF Read
  <2>3. wire' \in Seq(ByteType)
    BY <1>1, <2>2, ReadFacts
  <2>4. host \in SplitHosts \/ (n = Len(wire) /\ ~open)
    BY <1>4
  <2> QED
    BY <1>2, <1>4, <2>1, <2>2, <2>3, <2>4 DEF PrefixFails
<1>5. ASSUME PrefixSize <= Len(wire), Read(PrefixSize), UNCHANGED faults,
             NEW size \in cc_transport_get_message_len(SubSeq(wire, 1, PrefixSize)),
             node' = [node EXCEPT !.pc = "payload", !.rx = [bytes |-> <<>>, size |-> size]]
      PROVE  node' \in NodeType /\ node'.stop = node.stop /\ wire' \in Seq(ByteType)
             /\ faults' \in faults .. MaxFaults /\ PrefixComes
  <2> DEFINE rx == [bytes |-> <<>>, size |-> size]
             v == SetRx(node, rx)
  <2>1. size \in Nat \ {0}
    BY <1>1, <1>5, LengthFacts
  <2>2. rx \in RxType /\ "payload" \in Pc
    BY <2>1 DEF RxType, Pc
  <2>3. node' = SetPc(v, "payload")
    BY <1>1, <1>5 DEF SetPc, SetRx, NodeType
  <2> HIDE DEF rx
  <2>4. v \in NodeType /\ v.at = node.at /\ v.state = node.state /\ v.stop = node.stop /\ v.rx = rx
    BY <1>1, <2>2, SetRxFacts
  <2> HIDE DEF v
  <2>5. /\ node' \in NodeType /\ node'.pc = "payload" /\ node'.at = node.at /\ node'.state = node.state
        /\ node'.stop = node.stop /\ node'.rx = rx
    BY <2>2, <2>3, <2>4, SetPcFacts
  <2>6. PrefixSize \in 0 .. Len(wire) /\ wire' = SubSeq(wire, PrefixSize + 1, Len(wire))
    BY <1>1, <1>5 DEF Read
  <2>7. wire' \in Seq(ByteType)
    BY <1>1, <2>6, ReadFacts
  <2>8. PrefixComes
    BY <1>5, <2>5, <2>6 DEF PrefixComes, rx
  <2> QED
    BY <1>1, <1>5, <2>5, <2>7, <2>8
<1> QED
  BY <1>1, <1>2, <1>3, <1>4, <1>5 DEF ReadPrefix

\* Reading the length prefix keeps the invariant.
LEMMA PrefixStep ==
  ASSUME TransportInv, ReadPrefix
  PROVE  TransportInv'
<1>1. node.pc \in {"prefix", "payload"}
  BY DEF ReadPrefix
<1>2. /\ node' \in NodeType /\ node'.stop = node.stop /\ Socket /\ wire' \in Seq(ByteType)
      /\ faults' \in faults .. MaxFaults
      /\ PrefixFails \/ PrefixComes
      /\ UNCHANGED <<host, open, conn, pipe, sent, handled, asked, fds>>
  BY PrefixEffects
<1>3. /\ handled' \in Seq(Message \cup {Garbled}) /\ asked' \in BOOLEAN
      /\ open' \in BOOLEAN /\ open' = open /\ fds' \in 0 .. MaxFds
      /\ node \in NodeType /\ wire \in Seq(ByteType)
  BY <1>2, InvFacts
<1>4. \A i \in 1 .. Len(pipe) : pipe[i].cmd = "FR" => node.stop
  BY <1>2, NoAnswer
<1>5. CASE PrefixFails
  <2>1. ThreadSound'
    BY <1>2, <1>5 DEF PrefixFails, Resumed, TransportInv, ThreadSound, Socket, Android
  <2>2. node'.pc # "payload" /\ (node'.rx = NoRx \/ Len(node'.rx.bytes) < node'.rx.size)
    BY <1>5 DEF PrefixFails, Resumed, TransportInv, StreamsTyped
  <2>3. conn <= faults'
    BY <1>5 DEF PrefixFails
  <2> QED
    BY <1>2, <1>3, <1>4, <2>1, <2>2, <2>3, QuietStep
<1>6. CASE PrefixComes
  <2>1. /\ node'.pc = "payload" /\ node'.at = node.at /\ node'.state = node.state
        /\ PrefixSize <= Len(wire)
    BY <1>6 DEF PrefixComes
  <2>2. PICK size \in cc_transport_get_message_len(SubSeq(wire, 1, PrefixSize)) :
          node'.rx = [bytes |-> <<>>, size |-> size]
    BY <1>6 DEF PrefixComes
  <2>3. size \in Nat \ {0}
    BY <1>3, <2>1, LengthFacts
  <2>4. Len(node'.rx.bytes) < node'.rx.size
    BY <2>2, <2>3
  <2>5. ThreadSound'
    BY <1>1, <1>2, <2>1 DEF TransportInv, ThreadSound, Socket, Android
  <2>6. Redials(node') => Redials(node)
    BY <1>1, <1>2, <2>1 DEF Redials
  <2> QED
    BY <1>2, <1>3, <1>4, <2>4, <2>5, <2>6, QuietStep
<1> QED
  BY <1>2, <1>5, <1>6

\* Only the first message of a connection changes the state of the client.
LEMMA HandleFacts ==
  ASSUME NEW n \in NodeType, NEW x, NEW m, m = cc_node_handle_message(n, x)
  PROVE  /\ m \in NodeType /\ m.pc = n.pc /\ m.at = n.at /\ m.stop = n.stop /\ m.rx = n.rx
         /\ m.state = n.state \/ m.state = "ENABLED"
<1>1. m = SetState(n, "ENABLED") \/ m = n
  BY DEF cc_node_handle_message, SetState
<1>2. "ENABLED" \in State
  BY DEF State
<1> QED
  BY <1>1, <1>2, SetStateFacts

\* The outcomes of reading a payload.
PayloadFails ==
  /\ wire = <<>> /\ ~open /\ UNCHANGED <<wire, handled>>
  /\ node'.rx = node.rx /\ Resumed(node') /\ conn <= faults
  /\ node'.state = node.state \/ (node'.state = "DISCONNECTED" /\ ~Android)

Bytes(n) == node.rx.bytes \o SubSeq(wire, 1, n)
Whose(bytes) == IF \E x \in Message : bytes = Payload(x) THEN bytes[1].m ELSE Garbled

PayloadComes ==
  \E n \in 1 .. node.rx.size - Len(node.rx.bytes) :
    /\ n <= Len(wire) /\ wire' = SubSeq(wire, n + 1, Len(wire))
    /\ \/ /\ Len(Bytes(n)) = node.rx.size /\ handled' = Append(handled, Whose(Bytes(n)))
          /\ node'.rx = NoRx /\ Resumed(node') /\ (Redials(node') => Redials(node))
          /\ node'.state = node.state \/ node'.state = "ENABLED"
       \/ /\ Len(Bytes(n)) < node.rx.size /\ handled' = handled
          /\ node'.pc = "payload" /\ node'.at = node.at /\ node'.state = node.state
          /\ node'.rx = [bytes |-> Bytes(n), size |-> node.rx.size]

\* The bytes of the message being read, with n more of them: typed and no more than its size.
LEMMA BytesFacts ==
  ASSUME TransportInv, node.pc = "payload", NEW n \in 1 .. node.rx.size - Len(node.rx.bytes), n <= Len(wire)
  PROVE  /\ Bytes(n) \in Seq(ByteType) /\ Len(Bytes(n)) = Len(node.rx.bytes) + n
         /\ Len(Bytes(n)) \in 1 .. node.rx.size
         /\ Whose(Bytes(n)) \in Message \cup {Garbled}
         /\ \A i \in 1 .. Len(Bytes(n)) :
              Bytes(n)[i] = IF i <= Len(node.rx.bytes) THEN node.rx.bytes[i] ELSE wire[i - Len(node.rx.bytes)]
<1> DEFINE b == node.rx.bytes
           v == SubSeq(wire, 1, n)
<1>1. b \in Seq(ByteType) /\ Len(b) \in Nat /\ node.rx.size \in Nat /\ wire \in Seq(ByteType) /\ Len(wire) \in Nat
  BY InvFacts, NodeFields
<1>2. v \in Seq(ByteType) /\ Len(v) = n /\ \A i \in 1 .. n : v[i] = wire[i]
  BY <1>1
<1> HIDE DEF b, v
<1>3. b \o v \in Seq(ByteType) /\ Len(b \o v) = Len(b) + n
      /\ \A i \in 1 .. Len(b) + n : (b \o v)[i] = IF i <= Len(b) THEN b[i] ELSE v[i - Len(b)]
  BY <1>1, <1>2, ConcatProperties
<1>4. Bytes(n) = b \o v
  BY DEF Bytes, b, v
<1>5. Len(Bytes(n)) \in 1 .. node.rx.size
  BY <1>1, <1>3, <1>4 DEF b
<1>6. Bytes(n)[1] \in ByteType
  BY <1>3, <1>4, <1>5
<1>7. Whose(Bytes(n)) \in Message \cup {Garbled}
  BY <1>6 DEF Whose, ByteType
<1>8. \A i \in 1 .. Len(Bytes(n)) : Bytes(n)[i] = IF i <= Len(b) THEN b[i] ELSE wire[i - Len(b)]
  BY <1>1, <1>2, <1>3, <1>4
<1> QED
  BY <1>3, <1>4, <1>5, <1>7, <1>8 DEF b

\* What reading the payload may do: fail, go on, or complete the message.
LEMMA PayloadEffects ==
  ASSUME TransportInv, ReadPayload
  PROVE  /\ node' \in NodeType /\ node'.stop = node.stop /\ Socket
         /\ PayloadFails \/ PayloadComes
         /\ UNCHANGED <<host, open, conn, pipe, sent, asked, fds, faults>>
<1>0. node.pc = "payload" /\ UNCHANGED <<host, open, conn, pipe, sent, asked, fds, faults>>
  BY DEF ReadPayload
<1>1. /\ node \in NodeType /\ node.pc \in {"prefix", "payload"} /\ Socket /\ DownSound(node)
      /\ node.pc \in {"wait", "prefix", "payload"} /\ wire \in Seq(ByteType) /\ Len(wire) \in Nat
      /\ (~open => conn <= faults) /\ node.at # "if_down" /\ node.at # "connecting"
      /\ node.rx.size \in Nat /\ Len(node.rx.bytes) \in Nat
  BY <1>0, ReadingFacts, InvFacts, NodeFields
<1>2. CASE wire = <<>> /\ ~open /\ node' \in HandleDataFailed(node) /\ UNCHANGED <<wire, handled>>
  <2>1. /\ node' \in NodeType /\ Resumed(node') /\ node'.stop = node.stop /\ node'.rx = node.rx
        /\ node'.state = node.state \/ (node'.state = "DISCONNECTED" /\ ~Android)
    BY <1>1, <1>2, FailedFacts
  <2>2. PayloadFails
    BY <1>1, <1>2, <2>1 DEF PayloadFails
  <2> QED
    BY <1>0, <1>1, <2>1, <2>2
<1>3. ASSUME NEW n \in 1 .. node.rx.size - Len(node.rx.bytes), n <= Len(wire), Read(n),
             IF Complete(node.rx, Bytes(n))
             THEN /\ handled' = Append(handled, Whose(Bytes(n)))
                  /\ node' \in Return([cc_node_handle_message(node, Whose(Bytes(n))) EXCEPT !.rx = NoRx], "DATA_READ")
             ELSE node' = [node EXCEPT !.rx.bytes = Bytes(n)] /\ UNCHANGED handled
      PROVE  node' \in NodeType /\ node'.stop = node.stop /\ PayloadComes
  <2>1. wire' = SubSeq(wire, n + 1, Len(wire))
    BY <1>3 DEF Read
  <2>2. Bytes(n) \in Seq(ByteType) /\ Len(Bytes(n)) \in 1 .. node.rx.size
    BY <1>0, <1>3, BytesFacts
  <2>3. CASE Len(Bytes(n)) = node.rx.size
    <3> DEFINE x == Whose(Bytes(n))
               m == cc_node_handle_message(node, x)
               d == SetRx(m, NoRx)
    <3>1. handled' = Append(handled, x) /\ node' \in Return(d, "DATA_READ")
      BY <1>3, <2>3 DEF Complete, SetRx
    <3> HIDE DEF x
    <3>2. /\ m \in NodeType /\ m.pc = node.pc /\ m.at = node.at /\ m.stop = node.stop
          /\ m.state = node.state \/ m.state = "ENABLED"
      BY <1>1, HandleFacts
    <3> HIDE DEF m
    <3>3. NoRx \in RxType
      BY DEF NoRx, RxType
    <3>4. /\ d \in NodeType /\ d.pc = node.pc /\ d.at = node.at /\ d.stop = node.stop /\ d.rx = NoRx
          /\ d.state = node.state \/ d.state = "ENABLED"
      BY <3>2, <3>3, SetRxFacts
    <3> HIDE DEF d
    <3>5. DownSound(d) /\ "DATA_READ" \in Status /\ d.pc \in {"wait", "prefix", "payload"}
      BY <1>1, <3>4 DEF DownSound, Status
    <3>6. /\ node' \in NodeType /\ Resumed(node') /\ node'.stop = node.stop /\ node'.rx = NoRx
          /\ node'.state = d.state /\ (Redials(node') => Redials(d))
      BY <1>1, <3>1, <3>4, <3>5, ReturnFacts DEF Resumed
    <3>7. Redials(d) => Redials(node)
      BY <1>1, <3>4 DEF Redials
    <3> QED
      BY <1>3, <2>1, <2>3, <3>1, <3>4, <3>6, <3>7 DEF PayloadComes, x
  <2>4. CASE Len(Bytes(n)) # node.rx.size
    <3> DEFINE rx == [bytes |-> Bytes(n), size |-> node.rx.size]
    <3>1. node.rx \in RxType
      BY <1>1, NodeFields
    <3>2. [node.rx EXCEPT !.bytes = Bytes(n)] = rx
      BY <3>1 DEF RxType
    <3>3. node' = [node EXCEPT !.rx = [node.rx EXCEPT !.bytes = Bytes(n)]] /\ handled' = handled
      BY <1>1, <1>3, <2>4 DEF Complete, NodeType
    <3>4. node' = SetRx(node, rx)
      BY <3>2, <3>3 DEF SetRx
    <3>5. rx \in RxType
      BY <1>1, <2>2 DEF RxType
    <3> HIDE DEF rx
    <3>6. /\ node' \in NodeType /\ node'.pc = node.pc /\ node'.at = node.at /\ node'.state = node.state
          /\ node'.stop = node.stop /\ node'.rx = rx
      BY <1>1, <3>4, <3>5, SetRxFacts
    <3>7. Len(Bytes(n)) < node.rx.size
      BY <1>1, <2>2, <2>4
    <3> QED
      BY <1>0, <1>3, <2>1, <3>3, <3>6, <3>7 DEF PayloadComes, rx
  <2> QED
    BY <2>3, <2>4
<1>4. CASE \E n \in 1 .. node.rx.size - Len(node.rx.bytes) :
             /\ n <= Len(wire) /\ Read(n)
             /\ IF Complete(node.rx, Bytes(n))
                THEN /\ handled' = Append(handled, Whose(Bytes(n)))
                     /\ node' \in Return([cc_node_handle_message(node, Whose(Bytes(n))) EXCEPT !.rx = NoRx], "DATA_READ")
                ELSE node' = [node EXCEPT !.rx.bytes = Bytes(n)] /\ UNCHANGED handled
  BY <1>0, <1>1, <1>3, <1>4
<1> QED
  BY <1>2, <1>4 DEF ReadPayload, Bytes, Whose

\* Reading the payload keeps the invariant.
LEMMA PayloadStep ==
  ASSUME TransportInv, ReadPayload
  PROVE  TransportInv'
<1>0. node.pc = "payload"
  BY DEF ReadPayload
<1>1. /\ node' \in NodeType /\ node'.stop = node.stop /\ Socket
      /\ PayloadFails \/ PayloadComes
      /\ UNCHANGED <<host, open, conn, pipe, sent, asked, fds, faults>>
  BY PayloadEffects
<1>2. /\ asked' \in BOOLEAN /\ open' \in BOOLEAN /\ open' = open /\ fds' \in 0 .. MaxFds
      /\ node \in NodeType /\ wire \in Seq(ByteType) /\ Len(wire) \in Nat
      /\ handled \in Seq(Message \cup {Garbled}) /\ faults' \in faults .. MaxFaults
  BY <1>1, InvFacts, BiggestFacts
<1>3. \A i \in 1 .. Len(pipe) : pipe[i].cmd = "FR" => node.stop
  BY <1>1, NoAnswer
<1>4. CASE PayloadFails
  <2>1. ThreadSound'
    BY <1>1, <1>4 DEF PayloadFails, Resumed, TransportInv, ThreadSound, Socket, Android
  <2>2. node'.pc # "payload" /\ (node'.rx = NoRx \/ Len(node'.rx.bytes) < node'.rx.size)
    BY <1>4 DEF PayloadFails, Resumed, TransportInv, StreamsTyped
  <2>3. conn <= faults' /\ wire' \in Seq(ByteType) /\ handled' \in Seq(Message \cup {Garbled})
    BY <1>1, <1>2, <1>4 DEF PayloadFails
  <2> QED
    BY <1>1, <1>2, <1>3, <2>1, <2>2, <2>3, QuietStep
<1>5. CASE PayloadComes
  <2>1. PICK n \in 1 .. node.rx.size - Len(node.rx.bytes) :
          /\ n <= Len(wire) /\ wire' = SubSeq(wire, n + 1, Len(wire))
          /\ \/ /\ Len(Bytes(n)) = node.rx.size /\ handled' = Append(handled, Whose(Bytes(n)))
                /\ node'.rx = NoRx /\ Resumed(node') /\ (Redials(node') => Redials(node))
                /\ node'.state = node.state \/ node'.state = "ENABLED"
             \/ /\ Len(Bytes(n)) < node.rx.size /\ handled' = handled
                /\ node'.pc = "payload" /\ node'.at = node.at /\ node'.state = node.state
                /\ node'.rx = [bytes |-> Bytes(n), size |-> node.rx.size]
    BY <1>5 DEF PayloadComes
  <2>2. Whose(Bytes(n)) \in Message \cup {Garbled}
    BY <1>0, <2>1, BytesFacts
  <2>3. n \in 0 .. Len(wire)
    BY <1>2, <2>1
  <2>4. wire' \in Seq(ByteType)
    BY <1>2, <2>1, <2>3, ReadFacts
  <2>5. CASE /\ handled' = Append(handled, Whose(Bytes(n)))
             /\ node'.rx = NoRx /\ Resumed(node') /\ (Redials(node') => Redials(node))
             /\ node'.state = node.state \/ node'.state = "ENABLED"
    <3>1. ThreadSound'
      BY <1>1, <2>5 DEF Resumed, TransportInv, ThreadSound, Socket, Android
    <3>2. node'.pc # "payload"
      BY <2>5 DEF Resumed
    <3>3. handled' \in Seq(Message \cup {Garbled})
      BY <1>2, <2>2, <2>5, AppendProperties
    <3> QED
      BY <1>1, <1>2, <1>3, <2>4, <2>5, <3>1, <3>2, <3>3, QuietStep
  <2>6. CASE /\ Len(Bytes(n)) < node.rx.size /\ handled' = handled
             /\ node'.pc = "payload" /\ node'.at = node.at /\ node'.state = node.state
             /\ node'.rx = [bytes |-> Bytes(n), size |-> node.rx.size]
    <3>1. ThreadSound'
      BY <1>0, <1>1, <2>6 DEF TransportInv, ThreadSound, Socket, Android
    <3>2. Redials(node') => Redials(node)
      BY <1>0, <1>1, <2>6 DEF Redials
    <3>3. Len(node'.rx.bytes) < node'.rx.size
      BY <2>6
    <3> QED
      BY <1>1, <1>2, <1>3, <2>4, <2>6, <3>1, <3>2, <3>3, QuietStep
  <2> QED
    BY <2>1, <2>5, <2>6
<1> QED
  BY <1>1, <1>4, <1>5

\* The connection is cut: whatever comes next, a fault was counted.
LEMMA CutStep ==
  ASSUME TransportInv, Cut
  PROVE  TransportInv'
<1>1. /\ Socket /\ open /\ open' = FALSE /\ faults' = faults + 1 /\ faults < MaxFaults
      /\ UNCHANGED <<host, node, conn, pipe, sent, handled, asked, fds>>
  BY DEF Cut, Fault
<1>2. PICK n \in 0 .. Len(wire) : wire' = SubSeq(wire, 1, n)
  BY DEF Cut
<1>3. /\ node \in NodeType /\ wire \in Seq(ByteType) /\ handled \in Seq(Message \cup {Garbled})
      /\ asked \in BOOLEAN /\ fds \in 0 .. MaxFds /\ faults \in 0 .. MaxFaults /\ conn \in Nat
      /\ conn <= faults + 1 /\ MaxFaults \in Nat
  BY InvFacts, BiggestFacts DEF TransportInv, Budget
<1>4. wire' \in Seq(ByteType)
  BY <1>2, <1>3, SubSeqProperties
<1>5. faults' \in faults .. MaxFaults /\ conn <= faults'
  BY <1>1, <1>3
<1>6. ThreadSound'
  BY <1>1 DEF TransportInv, ThreadSound, Socket, Android
<1>7. /\ node'.rx = NoRx \/ Len(node'.rx.bytes) < node'.rx.size
      /\ node'.pc = "payload" => Len(node'.rx.bytes) < node'.rx.size
  BY <1>1 DEF TransportInv, StreamsTyped, TypeOK
<1>8. \A i \in 1 .. Len(pipe) : pipe[i].cmd = "FR" => node.stop
  BY <1>1, NoAnswer
<1> QED
  BY <1>1, <1>3, <1>4, <1>5, <1>6, <1>7, <1>8, QuietStep

\* The socket transports: there is a new connection, or there is none.
NewConnectionMade ==
  /\ conn' = conn + 1 /\ wire' = <<>> /\ sent' = <<>> /\ handled' = <<>> /\ asked' = FALSE
  /\ \/ open' = TRUE /\ node'.at = "joining" /\ node'.state = "PENDING" /\ faults' = faults
     \/ /\ open' = FALSE /\ node'.at \in {"fired", "idle"} /\ node'.state = "CONNECTED"
        /\ faults' = faults + 1 /\ faults' <= MaxFaults

NoConnectionMade ==
  /\ wire' = <<>> /\ open' = FALSE /\ UNCHANGED <<conn, sent, handled, asked>>
  /\ node'.at \in {"fired", "idle"} /\ node'.state = node.state /\ faults' \in faults .. MaxFaults

\* What an attempt to connect a socket may do.
LEMMA SocketConnectEffects ==
  ASSUME TransportInv, node.pc = "dial", cc_transport_socket_connect
  PROVE  /\ Socket /\ pipe' = pipe /\ fds' \in 0 .. MaxFds
         /\ node' \in NodeType /\ node'.pc = "wait" /\ node'.stop = node.stop /\ node'.rx = node.rx
         /\ NewConnectionMade \/ NoConnectionMade
<1>1. /\ Socket /\ pipe' = pipe /\ node \in NodeType /\ fds \in 0 .. MaxFds /\ faults \in 0 .. MaxFaults
      /\ faults \in faults .. MaxFaults /\ MaxFaults \in Nat
  BY InvFacts, BiggestFacts DEF cc_transport_socket_connect
<1>2. fds' \in NewSocket(fds) => fds' \in 0 .. MaxFds
  BY <1>1, BiggestFacts DEF NewSocket
<1>3. Fault => faults' \in faults .. MaxFaults /\ faults' = faults + 1 /\ faults' <= MaxFaults
  BY <1>1 DEF Fault
<1> DEFINE c == SetState(node, "CONNECTED")
<1>4. /\ c \in NodeType /\ c.state = "CONNECTED" /\ c.stop = node.stop /\ c.rx = node.rx
  <2>1. "CONNECTED" \in State
    BY DEF State
  <2> QED
    BY <1>1, <2>1, SetStateFacts
<1>5. \/ /\ fds' \in NewSocket(fds) /\ NewConnection(TRUE) /\ UNCHANGED faults
         /\ node' \in cc_transport_join(c, TRUE)
      \/ /\ fds' \in NewSocket(fds) /\ NewConnection(FALSE) /\ Fault
         /\ node' \in cc_transport_join(c, FALSE)
      \/ /\ fds' \in NewSocket(fds) /\ Fault /\ node' \in Round(node)
         /\ wire' = <<>> /\ open' = FALSE /\ UNCHANGED <<conn, sent, handled, asked>>
      \/ /\ fds = MaxFds /\ node' \in Round(node)
         /\ wire' = <<>> /\ open' = FALSE /\ UNCHANGED <<conn, sent, handled, asked, fds, faults>>
  BY DEF cc_transport_socket_connect, SetState
<1> HIDE DEF c
<1>6. CASE /\ fds' \in NewSocket(fds) /\ NewConnection(TRUE) /\ UNCHANGED faults
           /\ node' \in cc_transport_join(c, TRUE)
  <2>1. /\ node' \in NodeType /\ node'.pc = "wait" /\ node'.stop = c.stop /\ node'.rx = c.rx
        /\ node'.at = "joining" /\ node'.state = "PENDING"
    BY <1>4, <1>6, JoinFacts
  <2>2. NewConnectionMade
    BY <1>6, <2>1 DEF NewConnectionMade, NewConnection
  <2> QED
    BY <1>1, <1>2, <1>4, <1>6, <2>1, <2>2
<1>7. CASE /\ fds' \in NewSocket(fds) /\ NewConnection(FALSE) /\ Fault
           /\ node' \in cc_transport_join(c, FALSE)
  <2>1. /\ node' \in NodeType /\ node'.pc = "wait" /\ node'.stop = c.stop /\ node'.rx = c.rx
        /\ node'.at \in {"fired", "idle"} /\ node'.state = "CONNECTED"
    BY <1>4, <1>7, JoinFacts
  <2>2. NewConnectionMade
    BY <1>3, <1>7, <2>1 DEF NewConnectionMade, NewConnection
  <2> QED
    BY <1>1, <1>2, <1>4, <1>7, <2>1, <2>2
<1>8. CASE /\ fds' \in NewSocket(fds) /\ Fault /\ node' \in Round(node)
           /\ wire' = <<>> /\ open' = FALSE /\ UNCHANGED <<conn, sent, handled, asked>>
  BY <1>1, <1>2, <1>3, <1>8, RoundFacts DEF NoConnectionMade
<1>9. CASE /\ fds = MaxFds /\ node' \in Round(node)
           /\ wire' = <<>> /\ open' = FALSE /\ UNCHANGED <<conn, sent, handled, asked, fds, faults>>
  BY <1>1, <1>9, RoundFacts DEF NoConnectionMade
<1> QED
  BY <1>5, <1>6, <1>7, <1>8, <1>9

\* An attempt to connect a socket keeps the invariant.
LEMMA SocketConnectStep ==
  ASSUME TransportInv, node.pc = "dial", cc_transport_socket_connect, UNCHANGED host
  PROVE  TransportInv'
<1>1. /\ Socket /\ pipe' = pipe /\ fds' \in 0 .. MaxFds
      /\ node' \in NodeType /\ node'.pc = "wait" /\ node'.stop = node.stop /\ node'.rx = node.rx
      /\ NewConnectionMade \/ NoConnectionMade
  BY SocketConnectEffects
<1>2. /\ faults \in 0 .. MaxFaults /\ conn \in Nat /\ conn <= faults /\ MaxFaults \in Nat
      /\ Socket' = Socket /\ Android' = Android /\ ~node.stop
  <2>1. Redials(node) /\ ~node.stop
    BY DEF TransportInv, ThreadSound, Redials
  <2>2. conn <= faults
    BY <2>1 DEF TransportInv, Budget
  <2> QED
    BY <2>1, <2>2, InvFacts, BiggestFacts DEF Socket, Android
<1>3. /\ node'.rx = NoRx \/ Len(node'.rx.bytes) < node'.rx.size
      /\ node'.pc # "payload"
  BY <1>1 DEF TransportInv, StreamsTyped
<1>4. CASE NoConnectionMade
  <2>1. ThreadSound'
    BY <1>1, <1>2, <1>4 DEF NoConnectionMade, TransportInv, ThreadSound
  <2>2. \A i \in 1 .. Len(pipe) : pipe[i].cmd = "FR" => node.stop
    BY <1>1, NoAnswer
  <2>3. /\ wire' = <<>> /\ open' = FALSE /\ UNCHANGED <<conn, sent, handled, asked>> /\ faults' \in faults .. MaxFaults
    BY <1>4 DEF NoConnectionMade
  <2>4. conn <= faults'
    BY <1>2, <2>3
  <2>5. wire' \in Seq(ByteType) /\ handled' \in Seq(Message \cup {Garbled}) /\ asked' \in BOOLEAN
    BY <2>3, InvFacts
  <2> QED
    BY <1>1, <1>3, <2>1, <2>2, <2>3, <2>4, <2>5, QuietStep
<1>5. CASE NewConnectionMade
  <2>1. /\ conn' = conn + 1 /\ wire' = <<>> /\ sent' = <<>> /\ handled' = <<>> /\ asked' = FALSE
        /\ open' \in BOOLEAN /\ faults' \in 0 .. MaxFaults
        /\ node'.state \in {"PENDING", "CONNECTED"} /\ node'.at \in {"joining", "fired", "idle"}
    <3>1. faults' = faults \/ (faults' = faults + 1 /\ faults' <= MaxFaults)
      BY <1>5 DEF NewConnectionMade
    <3>2. faults' \in 0 .. MaxFaults
      BY <1>2, <3>1
    <3> QED
      BY <1>5, <3>2 DEF NewConnectionMade
  <2>2. TypeOK'
    <3>1. conn' \in 0 .. MaxFaults + 1
      BY <1>2, <2>1
    <3>2. host' \in Hosts
      BY InvFacts
    <3>3. handled' \in Seq(Message \cup {Garbled})
      BY <2>1
    <3> QED
      BY <1>1, <1>3, <2>1, <3>1, <3>2, <3>3 DEF TypeOK, NodeType, RxType, Pc, Where
  <2>3. StreamsTyped'
    <3>1. conn' > 0
      BY <1>2, <2>1
    <3>2. pipe' \in Seq(Command)
      BY <1>1, InvFacts
    <3> QED
      BY <1>3, <2>1, <3>1, <3>2 DEF StreamsTyped
  <2>4. ThreadSound'
    BY <1>1, <1>2, <2>1 DEF ThreadSound
  <2>5. Budget'
    <3>1. CASE open' = TRUE /\ node'.at = "joining" /\ node'.state = "PENDING" /\ faults' = faults
      BY <1>1, <1>2, <2>1, <3>1 DEF Budget, Redials
    <3>2. CASE open' = FALSE /\ faults' = faults + 1
      <4>1. conn' <= faults' /\ conn' <= faults' + 1
        BY <1>2, <2>1, <3>2
      <4> QED
        BY <1>1, <1>2, <4>1 DEF Budget
    <3> QED
      BY <1>5, <3>1, <3>2 DEF NewConnectionMade
  <2>6. PipeSound'
    BY <1>1, <1>2 DEF TransportInv, PipeSound
  <2> QED
    BY <2>2, <2>3, <2>4, <2>5, <2>6 DEF TransportInv
<1> QED
  BY <1>1, <1>4, <1>5

\* FCM: Java is asked to connect, and there is something to wait for.
FcmConnectionMade ==
  /\ conn' = conn + 1 /\ wire' = <<>> /\ sent' = <<>> /\ handled' = <<>> /\ asked' = FALSE /\ open' = TRUE
  /\ pipe' = Append(pipe, fcmTransportConnected) /\ faults' = faults
  /\ node'.at = "connecting" /\ node'.state = "PENDING"

FcmFails ==
  /\ UNCHANGED <<conn, wire, open, sent, handled, asked, pipe>> /\ faults' \in faults .. MaxFaults
  /\ node'.at \in {"fired", "idle"} /\ node'.state = "INTERFACE_DOWN"

\* What an attempt to connect over FCM may do.
LEMMA FcmConnectEffects ==
  ASSUME TransportInv, node.pc = "dial", transport_fcm_connect
  PROVE  /\ ~Socket /\ fds' = fds
         /\ node' \in NodeType /\ node'.pc = "wait" /\ node'.stop = node.stop /\ node'.rx = node.rx
         /\ FcmConnectionMade \/ FcmFails
<1>1. ~Socket /\ fds' = fds /\ node \in NodeType /\ faults \in 0 .. MaxFaults /\ MaxFaults \in Nat
  BY InvFacts, BiggestFacts DEF transport_fcm_connect
<1>2. "PENDING" \in State /\ "INTERFACE_DOWN" \in State /\ "connecting" \in Where
  BY DEF State, Where
<1>3. CASE /\ NewConnection(TRUE) /\ UNCHANGED faults
           /\ pipe' = Append(pipe, fcmTransportConnected)
           /\ node' = At([node EXCEPT !.state = "PENDING"], "connecting")
  <2> DEFINE c == SetState(node, "PENDING")
  <2>1. node' = At(c, "connecting")
    BY <1>3 DEF SetState
  <2>2. c \in NodeType /\ c.state = "PENDING" /\ c.stop = node.stop /\ c.rx = node.rx
    BY <1>1, <1>2, SetStateFacts
  <2> HIDE DEF c
  <2>3. /\ node' \in NodeType /\ node'.pc = "wait" /\ node'.at = "connecting" /\ node'.state = c.state
        /\ node'.stop = c.stop /\ node'.rx = c.rx
    BY <1>2, <2>1, <2>2, AtFacts
  <2>4. FcmConnectionMade
    BY <1>3, <2>2, <2>3 DEF FcmConnectionMade, NewConnection
  <2> QED
    BY <1>1, <2>2, <2>3, <2>4
<1>4. CASE /\ Fault /\ NoConnection /\ UNCHANGED pipe
           /\ node' \in Round([node EXCEPT !.state = "INTERFACE_DOWN"])
  <2> DEFINE c == SetState(node, "INTERFACE_DOWN")
  <2>1. node' \in Round(c)
    BY <1>4 DEF SetState
  <2>2. c \in NodeType /\ c.state = "INTERFACE_DOWN" /\ c.stop = node.stop /\ c.rx = node.rx
    BY <1>1, <1>2, SetStateFacts
  <2> HIDE DEF c
  <2>3. /\ node' \in NodeType /\ node'.pc = "wait" /\ node'.at \in {"fired", "idle"}
        /\ node'.state = c.state /\ node'.stop = c.stop /\ node'.rx = c.rx
    BY <2>1, <2>2, RoundFacts
  <2>4. faults' \in faults .. MaxFaults
    BY <1>1, <1>4 DEF Fault
  <2>5. FcmFails
    BY <1>4, <2>2, <2>3, <2>4 DEF FcmFails, NoConnection
  <2> QED
    BY <1>1, <2>2, <2>3, <2>5
<1> QED
  BY <1>3, <1>4 DEF transport_fcm_connect

\* A sequence with one more element.
LEMMA AppendFacts ==
  ASSUME NEW S, NEW s \in Seq(S), NEW x \in S, NEW t, t = Append(s, x)
  PROVE  /\ t \in Seq(S) /\ Len(t) = Len(s) + 1 /\ Len(s) \in Nat
         /\ \A i \in 1 .. Len(s) : t[i] = s[i]
         /\ t[Len(s) + 1] = x
         /\ \A i \in 1 .. Len(t) : i \in 1 .. Len(s) \/ i = Len(s) + 1
BY AppendProperties, LenProperties

\* An attempt to connect over FCM keeps the invariant.
LEMMA FcmConnectStep ==
  ASSUME TransportInv, node.pc = "dial", transport_fcm_connect, UNCHANGED host
  PROVE  TransportInv'
<1>1. /\ ~Socket /\ fds' = fds
      /\ node' \in NodeType /\ node'.pc = "wait" /\ node'.stop = node.stop /\ node'.rx = node.rx
      /\ FcmConnectionMade \/ FcmFails
  BY FcmConnectEffects
<1>2. /\ faults \in 0 .. MaxFaults /\ conn = 0 /\ MaxFaults \in Nat
      /\ Socket' = Socket /\ Android' = Android /\ ~node.stop
  <2>1. Redials(node) /\ ~node.stop
    BY DEF TransportInv, ThreadSound, Redials
  <2>2. conn = 0
    BY <1>1, <2>1 DEF TransportInv, Budget
  <2> QED
    BY <2>1, <2>2, InvFacts, BiggestFacts DEF Socket, Android
<1>3. /\ node'.rx = NoRx \/ Len(node'.rx.bytes) < node'.rx.size
      /\ node'.pc # "payload"
  BY <1>1 DEF TransportInv, StreamsTyped
<1>4. \A i \in 1 .. Len(pipe) : pipe[i].cmd \notin {"FR", "CM"}
  BY <1>2 DEF TransportInv, PipeSound
<1>5. CASE FcmFails
  <2>1. ThreadSound'
    BY <1>1, <1>2, <1>5 DEF FcmFails, ThreadSound
  <2>2. UNCHANGED <<conn, wire, open, sent, handled, asked, pipe>> /\ faults' \in faults .. MaxFaults
    BY <1>5 DEF FcmFails
  <2>3. ~Redials(node')
    BY <1>1, <1>5 DEF FcmFails, Redials
  <2>4. /\ wire' \in Seq(ByteType) /\ handled' \in Seq(Message \cup {Garbled}) /\ asked' \in BOOLEAN
        /\ open' \in BOOLEAN /\ open' = open /\ fds' \in 0 .. MaxFds
    BY <1>1, <2>2, InvFacts
  <2> QED
    BY <1>1, <1>3, <1>4, <2>1, <2>2, <2>3, <2>4, QuietStep
<1>6. CASE FcmConnectionMade
  <2>1. /\ conn' = 1 /\ wire' = <<>> /\ sent' = <<>> /\ handled' = <<>> /\ asked' = FALSE /\ open' = TRUE
        /\ pipe' = Append(pipe, fcmTransportConnected) /\ faults' = faults
        /\ node'.at = "connecting" /\ node'.state = "PENDING"
    BY <1>2, <1>6 DEF FcmConnectionMade
  <2>2. TypeOK'
    <3>1. conn' \in 0 .. MaxFaults + 1
      BY <1>2, <2>1
    <3>2. host' \in Hosts /\ fds' \in 0 .. MaxFds /\ faults' \in 0 .. MaxFaults
      BY <1>1, <2>1, InvFacts
    <3>3. handled' \in Seq(Message \cup {Garbled})
      BY <2>1
    <3> QED
      BY <1>1, <1>3, <2>1, <3>1, <3>2, <3>3 DEF TypeOK, NodeType, RxType, Pc, Where
  <2>3. fcmTransportConnected \in Command /\ pipe \in Seq(Command) /\ fcmTransportConnected.cmd = "FR"
    BY InvFacts DEF fcmTransportConnected, Command
  <2>4. /\ pipe' \in Seq(Command) /\ Len(pipe') = Len(pipe) + 1 /\ Len(pipe) \in Nat
        /\ \A i \in 1 .. Len(pipe) : pipe'[i] = pipe[i]
        /\ pipe'[Len(pipe) + 1] = fcmTransportConnected
        /\ \A i \in 1 .. Len(pipe') : i \in 1 .. Len(pipe) \/ i = Len(pipe) + 1
    BY <2>1, <2>3, AppendFacts
  <2>5. StreamsTyped'
    BY <1>3, <2>1, <2>4 DEF StreamsTyped
  <2>6. ThreadSound'
    BY <1>1, <1>2, <2>1 DEF ThreadSound, Socket, Android
  <2>7. Budget'
    BY <1>1, <1>2, <2>1 DEF Budget, Redials
  <2>8. PipeSound'
    <3>1. \A i \in 1 .. Len(pipe') : pipe'[i].cmd \in {"FR", "CM"} => i = Len(pipe) + 1
      BY <1>4, <2>4
    <3>2. pipe'[Len(pipe) + 1].cmd = "FR"
      BY <2>3, <2>4
    <3>3. \A j \in 1 .. Len(pipe') : pipe'[j].cmd # "CM"
      BY <3>1, <3>2
    <3> QED
      BY <1>1, <1>2, <2>1, <3>1, <3>3 DEF PipeSound
  <2> QED
    BY <2>2, <2>5, <2>6, <2>7, <2>8 DEF TransportInv
<1> QED
  BY <1>1, <1>5, <1>6

\* The commands: what each does to the client.
Called(n, c) ==
  CASE c.cmd = "FR" -> command_transport_connected(n)
    [] c.cmd = "RS" -> command_rt_stop(n)
    [] c.cmd = "RC" -> cc_api_reconnect(n)
    [] c.cmd = "CM" -> command_calvin_msg(n, c.m)

\* What a command of the Java side holds.
LEMMA CommandFields ==
  ASSUME NEW c \in Command
  PROVE  c.cmd \in {"FR", "RS", "RC", "CM"} /\ (c.cmd = "CM" => c.m \in Message)
BY DEF Command

\* What a command does to the node.
LEMMA CalledFacts ==
  ASSUME NEW n \in NodeType, NEW c \in Command, NEW m, m = Called(n, c)
  PROVE  /\ m \in NodeType /\ m.pc = n.pc /\ m.at = n.at /\ m.rx = n.rx
         /\ c.cmd = "FR" => m.state = "CONNECTED" /\ m.stop = n.stop
         /\ c.cmd = "RS" => m.state = n.state /\ m.stop = TRUE
         /\ c.cmd = "RC" => /\ m.state = (IF n.state = "ENABLED" THEN "INTERFACE_DOWN" ELSE n.state)
                            /\ m.stop = n.stop
         /\ c.cmd = "CM" => (m.state = n.state \/ m.state = "ENABLED") /\ m.stop = n.stop
<1>1. "CONNECTED" \in State /\ "INTERFACE_DOWN" \in State
  BY DEF State
<1>2. CASE c.cmd = "FR"
  <2>1. m = SetState(n, "CONNECTED")
    BY <1>2 DEF Called, command_transport_connected, SetState
  <2> QED
    BY <1>1, <1>2, <2>1, SetStateFacts
<1>3. CASE c.cmd = "RS"
  <2>1. m = SetStop(n)
    BY <1>3 DEF Called, command_rt_stop, SetStop
  <2> QED
    BY <1>3, <2>1, SetStopFacts
<1>4. CASE c.cmd = "RC"
  <2>1. m = IF n.state = "ENABLED" THEN SetState(n, "INTERFACE_DOWN") ELSE n
    BY <1>4 DEF Called, cc_api_reconnect, SetState
  <2>2. CASE n.state = "ENABLED"
    <3>1. m = SetState(n, "INTERFACE_DOWN")
      BY <2>1, <2>2
    <3> QED
      BY <1>1, <1>4, <2>2, <3>1, SetStateFacts
  <2>3. CASE n.state # "ENABLED"
    BY <1>4, <2>1, <2>3
  <2> QED
    BY <2>2, <2>3
<1>5. CASE c.cmd = "CM"
  <2>1. m = cc_node_handle_message(n, c.m)
    BY <1>5 DEF Called, command_calvin_msg
  <2> QED
    BY <1>5, <2>1, HandleFacts
<1> QED
  BY <1>2, <1>3, <1>4, <1>5, CommandFields

\* What the looper does with a command.
CallHandled(c) ==
  /\ node'.rx = node.rx /\ (node.stop => node'.stop) /\ (c.cmd = "RS" => node'.stop)
  /\ \/ Resumed(node')
     \/ /\ Socket /\ node'.at = node.at /\ node.at # "if_down" /\ node.at # "connecting"
        /\ node'.pc = IF node.rx = NoRx THEN "prefix" ELSE "payload"
  /\ node'.state # "DISCONNECTED"
  /\ Redials(node') => Redials(node)
  /\ c.cmd = "RC" /\ node.at = "connecting" /\ node.state = "PENDING" /\ ~node.stop =>
       node'.pc = "wait" /\ node'.at = "connecting" /\ node'.state = "PENDING"
  /\ handled' = IF c.cmd = "CM" THEN Append(handled, c.m) ELSE handled

\* What handle_platform_call does to the pipe and the node.
LEMMA CallEffects ==
  ASSUME TransportInv, handle_platform_call
  PROVE  /\ Android /\ Polled /\ node' \in NodeType /\ pipe # <<>> /\ Head(pipe) \in Command /\ pipe' = Tail(pipe)
         /\ CallHandled(Head(pipe)) /\ asked' \in BOOLEAN
         /\ UNCHANGED <<host, wire, open, conn, sent, fds, faults>>
<1> DEFINE c == Head(pipe)
           n == Called(node, c)
<1>1. /\ Android /\ node.pc = "wait" /\ Polled /\ pipe # <<>> /\ pipe' = Tail(pipe)
      /\ node' \in Return(n, "DATA_READ") \cup (IF Readable THEN {cc_transport_handle_data(n)} ELSE {})
      /\ handled' = IF c.cmd = "CM" THEN Append(handled, c.m) ELSE handled
      /\ asked' = (asked \/ (node.state = "ENABLED" /\ n.state = "INTERFACE_DOWN"))
      /\ UNCHANGED <<host, wire, open, conn, sent, fds, faults>>
  BY DEF handle_platform_call, Called
<1>2. /\ node \in NodeType /\ pipe \in Seq(Command) /\ asked \in BOOLEAN
      /\ node.state \in {"PENDING", "ENABLED"} /\ node.at # "if_down"
      /\ (node.at = "connecting" => ~Socket)
  BY <1>1, InvFacts DEF Polled, TransportInv, ThreadSound
<1>3. c \in Command /\ c = pipe[1] /\ 1 \in 1 .. Len(pipe)
  BY <1>1, <1>2
<1> HIDE DEF c
<1>4. c.cmd \in {"FR", "RS", "RC", "CM"}
  BY <1>3, CommandFields
<1>5. /\ n \in NodeType /\ n.pc = node.pc /\ n.at = node.at /\ n.rx = node.rx
      /\ c.cmd = "FR" => n.state = "CONNECTED" /\ n.stop = node.stop
      /\ c.cmd = "RS" => n.state = node.state /\ n.stop = TRUE
      /\ c.cmd = "RC" => /\ n.state = (IF node.state = "ENABLED" THEN "INTERFACE_DOWN" ELSE node.state)
                         /\ n.stop = node.stop
      /\ c.cmd = "CM" => (n.state = node.state \/ n.state = "ENABLED") /\ n.stop = node.stop
  <2>1. node \in NodeType /\ c \in Command /\ n = Called(node, c)
    BY <1>2, <1>3
  <2> HIDE DEF n
  <2> QED
    BY <2>1, CalledFacts, ZenonT(60)
<1> HIDE DEF n
<1>6. asked' \in BOOLEAN
  BY <1>1, <1>2
<1>7. c.cmd = "FR" => ~Socket /\ (node.stop \/ (node.at = "connecting" /\ node.state = "PENDING"))
  BY <1>3 DEF TransportInv, PipeSound
<1>8. /\ DownSound(n) /\ "DATA_READ" \in Status /\ n.pc \in {"wait", "prefix", "payload"}
      /\ n.state # "DISCONNECTED" /\ (node.stop => n.stop) /\ (c.cmd = "RS" => n.stop) /\ n.stop \in BOOLEAN
  BY <1>1, <1>2, <1>4, <1>5, NodeFields DEF DownSound, Status
<1>9. c.cmd # "FR" /\ Redials(n) => Redials(node)
  BY <1>1, <1>2, <1>4, <1>5 DEF Redials
<1>10. CASE node' \in Return(n, "DATA_READ")
  <2>1. /\ node' \in NodeType /\ node'.pc \in {"wait", "loop"} /\ node'.stop = n.stop /\ node'.rx = n.rx
        /\ node'.pc = "loop" => node'.at \in {"fired", "idle"}
        /\ node'.at = "if_down" => node'.pc = "wait" /\ node'.state = "INTERFACE_DOWN" /\ ~node'.stop
        /\ node'.at = "connecting" => n.at = "connecting"
        /\ Redials(node') => Redials(n)
        /\ node'.state = n.state \/ (n.at = "connecting" /\ node'.state = "PENDING")
    BY <1>5, <1>8, <1>10, ReturnFacts
  <2>2. Resumed(node')
    BY <1>2, <1>5, <2>1 DEF Resumed
  <2>3. ASSUME n.at = "connecting"
        PROVE  node' \in cc_node_connect_to_proxy_waits(n)
    BY <1>10, <2>3 DEF Return
  <2>4. Redials(node') => Redials(node)
    <3>1. CASE c.cmd # "FR"
      BY <1>9, <2>1, <3>1
    <3>2. CASE node.stop
      BY <1>8, <2>1, <3>2 DEF Redials
    <3>3. CASE c.cmd = "FR" /\ node.at = "connecting"
      <4>1. node'.pc = "wait" /\ node'.at = "joining" /\ node'.state = "PENDING"
        BY <1>5, <1>8, <2>3, <3>3, WaitsFacts
      <4> QED
        BY <4>1 DEF Redials
    <3> QED
      BY <1>7, <3>1, <3>2, <3>3
  <2>5. ASSUME c.cmd = "RC", node.at = "connecting", node.state = "PENDING", ~node.stop
        PROVE  node'.pc = "wait" /\ node'.at = "connecting" /\ node'.state = "PENDING"
    BY <1>5, <1>8, <2>3, <2>5, WaitsFacts
  <2>6. CallHandled(c)
    BY <1>1, <1>5, <1>8, <2>1, <2>2, <2>4, <2>5 DEF CallHandled
  <2> QED
    BY <1>1, <1>3, <1>6, <2>1, <2>6 DEF c
<1>11. CASE Readable /\ node' = cc_transport_handle_data(n)
  <2>1. /\ node' \in NodeType /\ node'.pc = (IF n.rx = NoRx THEN "prefix" ELSE "payload")
        /\ node'.at = n.at /\ node'.state = n.state /\ node'.stop = n.stop /\ node'.rx = n.rx
    BY <1>5, <1>11, HandleDataFacts
  <2>2. Socket /\ c.cmd # "FR" /\ node.at # "connecting"
    BY <1>2, <1>7, <1>11 DEF Readable
  <2>3. Redials(node') => Redials(n)
    BY <1>1, <1>5, <2>1 DEF Redials
  <2>4. Redials(node') => Redials(node)
    BY <1>9, <2>2, <2>3
  <2>5. CallHandled(c)
    BY <1>1, <1>2, <1>5, <1>8, <2>1, <2>2, <2>4 DEF CallHandled
  <2> QED
    BY <1>1, <1>3, <1>6, <2>1, <2>5 DEF c
<1> QED
  BY <1>1, <1>10, <1>11

\* A sequence without its first element.
LEMMA TailFacts ==
  ASSUME NEW S, NEW s \in Seq(S), s # <<>>, NEW t, t = Tail(s)
  PROVE  /\ t \in Seq(S) /\ Len(t) = Len(s) - 1 /\ Len(t) \in Nat /\ Len(s) \in Nat \ {0}
         /\ \A i \in 1 .. Len(t) : i + 1 \in 1 .. Len(s) /\ t[i] = s[i + 1]
         /\ Head(s) = s[1] /\ 1 \in 1 .. Len(s)
OBVIOUS

\* Handling a command keeps the invariant.
LEMMA CallStep ==
  ASSUME TransportInv, handle_platform_call
  PROVE  TransportInv'
<1> DEFINE c == Head(pipe)
<1>1. /\ Android /\ node' \in NodeType /\ pipe # <<>> /\ c \in Command /\ pipe' = Tail(pipe)
      /\ CallHandled(c) /\ asked' \in BOOLEAN
      /\ UNCHANGED <<host, wire, open, conn, sent, fds, faults>>
  BY CallEffects
<1>2. /\ pipe \in Seq(Command) /\ handled \in Seq(Message \cup {Garbled}) /\ host \in Hosts /\ open \in BOOLEAN
      /\ fds \in 0 .. MaxFds /\ conn \in 0 .. MaxFaults + 1 /\ faults \in 0 .. MaxFaults
      /\ Socket' = Socket /\ Android' = Android
  BY <1>1, InvFacts DEF Socket, Android
<1>3. /\ pipe' \in Seq(Command) /\ Len(pipe') \in Nat
      /\ \A i \in 1 .. Len(pipe') : i + 1 \in 1 .. Len(pipe) /\ pipe'[i] = pipe[i + 1]
      /\ c = pipe[1] /\ 1 \in 1 .. Len(pipe)
  BY <1>1, <1>2, TailFacts
<1> HIDE DEF c
<1>4. c.cmd \in {"FR", "RS", "RC", "CM"} /\ (c.cmd = "CM" => c.m \in Message)
  BY <1>1, CommandFields
<1>5. node'.rx = node.rx /\ (node'.pc = "payload" => node'.rx # NoRx)
  BY <1>1 DEF CallHandled, Resumed
<1>6. /\ node'.rx = NoRx \/ Len(node'.rx.bytes) < node'.rx.size
      /\ node'.pc = "payload" => Len(node'.rx.bytes) < node'.rx.size
  BY <1>5 DEF TransportInv, StreamsTyped
<1>7. TypeOK'
  <2>1. handled' \in Seq(Message \cup {Garbled})
    <3>1. CASE c.cmd = "CM"
      <4>1. handled' = Append(handled, c.m) /\ c.m \in Message \cup {Garbled}
        BY <1>1, <1>4, <3>1 DEF CallHandled
      <4> QED
        BY <1>2, <4>1, AppendProperties
    <3>2. CASE c.cmd # "CM"
      BY <1>1, <1>2, <3>2 DEF CallHandled
    <3> QED
      BY <3>1, <3>2
  <2> QED
    BY <1>1, <1>2, <1>6, <2>1 DEF TypeOK, NodeType, RxType, Pc, Where
<1>8. StreamsTyped'
  BY <1>1, <1>3, <1>6 DEF TransportInv, StreamsTyped
<1>9. ThreadSound'
  BY <1>1, <1>2 DEF CallHandled, Resumed, ThreadSound
<1>10. Budget'
  <2>1. Redials(node') => Redials(node)
    BY <1>1 DEF CallHandled
  <2>2. Redials(node)' = Redials(node')
    BY DEF Redials
  <2>3. UNCHANGED <<conn, faults, open>>
    BY <1>1
  <2> QED
    BY <1>2, <2>1, <2>2, <2>3 DEF TransportInv, Budget
<1>11. PipeSound'
  <2> SUFFICES ASSUME NEW i \in 1 .. Len(pipe'), pipe'[i].cmd \in {"FR", "CM"}
               PROVE  /\ ~Socket /\ conn > 0
                      /\ pipe'[i].cmd = "FR" =>
                           /\ \A j \in 1 .. Len(pipe') : pipe'[j].cmd = "FR" => j = i
                           /\ node'.stop \/ (/\ node'.pc = "wait" /\ node'.at = "connecting" /\ node'.state = "PENDING"
                                             /\ sent = <<>> /\ \A j \in 1 .. Len(pipe') : pipe'[j].cmd # "CM")
    BY <1>1, <1>2 DEF PipeSound
  <2>1. i + 1 \in 1 .. Len(pipe) /\ pipe[i + 1] = pipe'[i]
    BY <1>3
  <2>2. ~Socket /\ conn > 0
    BY <2>1 DEF TransportInv, PipeSound
  <2>3. ASSUME pipe'[i].cmd = "FR"
        PROVE  /\ \A j \in 1 .. Len(pipe') : pipe'[j].cmd = "FR" => j = i
               /\ node'.stop \/ (/\ node'.pc = "wait" /\ node'.at = "connecting" /\ node'.state = "PENDING"
                                 /\ sent = <<>> /\ \A j \in 1 .. Len(pipe') : pipe'[j].cmd # "CM")
    <3>1. /\ \A j \in 1 .. Len(pipe) : pipe[j].cmd = "FR" => j = i + 1
          /\ node.stop \/ (/\ node.pc = "wait" /\ node.at = "connecting" /\ node.state = "PENDING"
                           /\ sent = <<>> /\ \A j \in 1 .. Len(pipe) : pipe[j].cmd # "CM")
      BY <2>1, <2>3 DEF TransportInv, PipeSound
    <3>2. \A j \in 1 .. Len(pipe') : pipe'[j].cmd = "FR" => j = i
      BY <1>3, <3>1
    <3>3. CASE node.stop
      BY <1>1, <3>2, <3>3 DEF CallHandled
    <3>4. CASE /\ ~node.stop /\ node.at = "connecting" /\ node.state = "PENDING"
               /\ sent = <<>> /\ \A j \in 1 .. Len(pipe) : pipe[j].cmd # "CM"
      <4>1. c.cmd # "CM" /\ c.cmd # "FR"
        BY <1>3, <3>1, <3>4
      <4>2. CASE c.cmd = "RS"
        BY <1>1, <3>2, <4>2 DEF CallHandled
      <4>3. CASE c.cmd = "RC"
        <5>1. node'.pc = "wait" /\ node'.at = "connecting" /\ node'.state = "PENDING"
          BY <1>1, <3>4, <4>3 DEF CallHandled
        <5>2. \A j \in 1 .. Len(pipe') : pipe'[j].cmd # "CM"
          BY <1>3, <3>4
        <5> QED
          BY <3>2, <3>4, <5>1, <5>2
      <4> QED
        BY <1>4, <4>1, <4>2, <4>3
    <3> QED
      BY <3>1, <3>3, <3>4
  <2> QED
    BY <2>2, <2>3
<1> QED
  BY <1>7, <1>8, <1>9, <1>10, <1>11 DEF TransportInv

\* The frame of a message: byte i of it is Byte(m, i).
LEMMA FramedFacts ==
  ASSUME NEW m \in Message
  PROVE  /\ Framed(m) \in Seq(ByteType) /\ Len(Framed(m)) = FrameEnd(m) /\ FrameEnd(m) \in Nat
         /\ FrameEnd(m) > PrefixSize
         /\ \A i \in 1 .. FrameEnd(m) : Framed(m)[i] = Byte(m, i)
<1> DEFINE p == [i \in 1 .. PrefixSize |-> Byte(m, i)]
           q == [i \in 1 .. m.size |-> Byte(m, PrefixSize + i)]
<1>1. PrefixSize \in Nat \ {0} /\ m.size \in Nat \ {0}
  BY BiggestFacts, MessageFields
<1>2. \A i \in 1 .. PrefixSize + m.size : Byte(m, i) \in ByteType
  BY MessageFields
<1>3. p \in Seq(ByteType) /\ Len(p) = PrefixSize /\ \A i \in 1 .. PrefixSize : p[i] = Byte(m, i)
  <2>1. \A i \in 1 .. PrefixSize : Byte(m, i) \in ByteType
    BY <1>1, <1>2
  <2> QED
    BY <1>1, <2>1
<1>4. q \in Seq(ByteType) /\ Len(q) = m.size /\ \A i \in 1 .. m.size : q[i] = Byte(m, PrefixSize + i)
  <2>1. \A i \in 1 .. m.size : Byte(m, PrefixSize + i) \in ByteType
    BY <1>1, <1>2
  <2> QED
    BY <1>1, <2>1
<1>5. Framed(m) = p \o q
  BY DEF Framed, Payload
<1> HIDE DEF p, q
<1>6. /\ p \o q \in Seq(ByteType) /\ Len(p \o q) = PrefixSize + m.size
      /\ \A i \in 1 .. PrefixSize + m.size : (p \o q)[i] = IF i <= PrefixSize THEN p[i] ELSE q[i - PrefixSize]
  <2>1. p \in Seq(ByteType) /\ q \in Seq(ByteType)
    BY <1>3, <1>4
  <2>2. /\ p \o q \in Seq(ByteType) /\ Len(p \o q) = Len(p) + Len(q)
        /\ \A i \in 1 .. Len(p) + Len(q) : (p \o q)[i] = IF i <= Len(p) THEN p[i] ELSE q[i - Len(p)]
    BY <2>1, ConcatProperties
  <2>3. Len(p) = PrefixSize /\ Len(q) = m.size
    BY <1>3, <1>4
  <2> QED
    BY <2>2, <2>3
<1>7. ASSUME NEW i \in 1 .. PrefixSize + m.size
      PROVE  (p \o q)[i] = Byte(m, i)
  <2>1. CASE i <= PrefixSize
    BY <1>1, <1>3, <1>6, <2>1
  <2>2. CASE ~(i <= PrefixSize)
    <3>1. i - PrefixSize \in 1 .. m.size /\ PrefixSize + (i - PrefixSize) = i
      BY <1>1, <2>2
    <3> QED
      BY <1>4, <1>6, <2>2, <3>1
  <2> QED
    BY <2>1, <2>2
<1> QED
  BY <1>1, <1>5, <1>6, <1>7 DEF FrameEnd

\* The next message of the proxy.
Sends(m) ==
  /\ m \in Message /\ m.k = Len(sent) + 1 /\ sent' = Append(sent, m)
  /\ IF Socket THEN wire' = wire \o Framed(m) /\ UNCHANGED pipe
     ELSE pipe' = Append(pipe, runtimeCalvinPayload(m)) /\ UNCHANGED wire

\* What a message of the proxy adds to the wire or to the pipe.
LEMMA SendsEffects ==
  ASSUME TransportInv, ProxySends
  PROVE  /\ open /\ node.state \in {"PENDING", "ENABLED"} /\ (~Socket /\ sent = <<>> => node.at = "joining")
         /\ \E m \in Message : Sends(m)
         /\ UNCHANGED <<host, node, open, conn, handled, asked, fds, faults>>
<1>1. /\ open /\ Len(sent) < MaxMessages /\ node.state \in {"PENDING", "ENABLED"}
      /\ (~Socket /\ sent = <<>> => node.at = "joining")
      /\ UNCHANGED <<host, node, open, conn, handled, asked, fds, faults>>
  BY DEF ProxySends
<1>2. PICK size \in Sizes :
        LET m == [conn |-> conn, k |-> Len(sent) + 1, size |-> size]
        IN /\ sent' = Append(sent, m)
           /\ IF Socket THEN wire' = wire \o Framed(m) /\ UNCHANGED pipe
              ELSE pipe' = Append(pipe, runtimeCalvinPayload(m)) /\ UNCHANGED wire
  BY DEF ProxySends
<1> DEFINE m == [conn |-> conn, k |-> Len(sent) + 1, size |-> size]
<1>3. conn \in 1 .. MaxFaults + 1 /\ Len(sent) + 1 \in 1 .. MaxMessages
  BY <1>1, InvFacts, BiggestFacts DEF TransportInv, StreamsTyped
<1>4. m \in Message /\ m.k = Len(sent) + 1
  BY <1>3 DEF Message
<1>5. Sends(m)
  BY <1>2, <1>4 DEF Sends
<1> QED
  BY <1>1, <1>4, <1>5

\* A message of the proxy keeps the invariant.
LEMMA SendsStep ==
  ASSUME TransportInv, ProxySends
  PROVE  TransportInv'
<1>1. /\ open /\ node.state \in {"PENDING", "ENABLED"} /\ (~Socket /\ sent = <<>> => node.at = "joining")
      /\ UNCHANGED <<host, node, open, conn, handled, asked, fds, faults>>
  BY SendsEffects
<1>2. PICK m \in Message : Sends(m)
  BY SendsEffects
<1>3. sent' = Append(sent, m) /\ m.k = Len(sent) + 1
  BY <1>2 DEF Sends
<1>4. /\ sent \in Seq(Message) /\ wire \in Seq(ByteType) /\ pipe \in Seq(Command)
      /\ \A k \in 1 .. Len(sent) : sent[k].k = k
      /\ Socket' = Socket /\ Android' = Android
  BY <1>1, InvFacts DEF Socket, Android
<1>5. /\ sent' \in Seq(Message) /\ Len(sent') = Len(sent) + 1 /\ Len(sent) \in Nat
      /\ \A i \in 1 .. Len(sent) : sent'[i] = sent[i]
      /\ sent'[Len(sent) + 1] = m
      /\ \A i \in 1 .. Len(sent') : i \in 1 .. Len(sent) \/ i = Len(sent) + 1
  BY <1>3, <1>4, AppendFacts
<1>6. \A k \in 1 .. Len(sent') : sent'[k].k = k
  BY <1>3, <1>4, <1>5
<1> DEFINE c == runtimeCalvinPayload(m)
<1>7. c \in Command /\ c.cmd = "CM" /\ c.m = m
  BY DEF runtimeCalvinPayload, Command
<1> HIDE DEF c
<1>8. CASE Socket
  <2>1. wire' = wire \o Framed(m) /\ pipe' = pipe
    BY <1>2, <1>8 DEF Sends
  <2>2. wire' \in Seq(ByteType)
    BY <1>4, <2>1, FramedFacts, ConcatProperties
  <2>3. PipeSound'
    BY <1>4, <1>8, <2>1 DEF TransportInv, PipeSound
  <2>4. StreamsTyped'
    BY <1>1, <1>4, <1>5, <1>6, <2>1, <2>2 DEF TransportInv, StreamsTyped
  <2>5. TypeOK' /\ ThreadSound' /\ Budget'
    BY <1>1 DEF TransportInv, TypeOK, ThreadSound, Budget, Redials, Socket, Android
  <2> QED
    BY <2>3, <2>4, <2>5 DEF TransportInv
<1>9. CASE ~Socket
  <2>1. pipe' = Append(pipe, c) /\ wire' = wire
    BY <1>2, <1>9 DEF Sends, c
  <2>2. /\ pipe' \in Seq(Command) /\ Len(pipe') = Len(pipe) + 1 /\ Len(pipe) \in Nat
        /\ \A i \in 1 .. Len(pipe) : pipe'[i] = pipe[i]
        /\ pipe'[Len(pipe) + 1] = c
        /\ \A i \in 1 .. Len(pipe') : i \in 1 .. Len(pipe) \/ i = Len(pipe) + 1
    BY <1>4, <1>7, <2>1, AppendFacts
  <2>3. conn > 0
    BY <1>1 DEF TransportInv, StreamsTyped
  <2>4. \A i \in 1 .. Len(pipe) : pipe[i].cmd = "FR" =>
          node.stop /\ \A j \in 1 .. Len(pipe) : pipe[j].cmd = "FR" => j = i
    BY <1>1, <1>9 DEF TransportInv, PipeSound
  <2>5. PipeSound'
    <3> SUFFICES ASSUME NEW i \in 1 .. Len(pipe')
                 PROVE  pipe'[i].cmd = "FR" => node.stop /\ \A j \in 1 .. Len(pipe') : pipe'[j].cmd = "FR" => j = i
      BY <1>1, <1>4, <1>9, <2>3 DEF PipeSound
    <3> QED
      BY <1>7, <2>2, <2>4
  <2>6. StreamsTyped'
    BY <1>1, <1>4, <1>5, <1>6, <2>1, <2>2 DEF TransportInv, StreamsTyped
  <2>7. TypeOK' /\ ThreadSound' /\ Budget'
    BY <1>1 DEF TransportInv, TypeOK, ThreadSound, Budget, Redials, Socket, Android
  <2> QED
    BY <2>5, <2>6, <2>7 DEF TransportInv
<1> QED
  BY <1>8, <1>9

\* A command of the Java side keeps the invariant.
LEMMA JavaStep ==
  ASSUME TransportInv, JavaCommands
  PROVE  TransportInv'
<1>1. /\ faults' = faults + 1 /\ faults < MaxFaults
      /\ UNCHANGED <<host, node, wire, open, conn, sent, handled, asked, fds>>
  BY DEF JavaCommands, Fault
<1>2. PICK cmd \in {"RC", "RS"} : pipe' = Append(pipe, [cmd |-> cmd])
  BY DEF JavaCommands
<1> DEFINE c == [cmd |-> cmd]
<1>3. c \in Command /\ c.cmd \notin {"FR", "CM"}
  BY DEF Command
<1>4. /\ pipe \in Seq(Command) /\ faults \in 0 .. MaxFaults /\ conn \in Nat /\ MaxFaults \in Nat
      /\ Socket' = Socket /\ Android' = Android
  BY <1>1, InvFacts, BiggestFacts DEF Socket, Android
<1>5. /\ pipe' \in Seq(Command) /\ Len(pipe') = Len(pipe) + 1 /\ Len(pipe) \in Nat
      /\ \A i \in 1 .. Len(pipe) : pipe'[i] = pipe[i]
      /\ pipe'[Len(pipe) + 1] = c
      /\ \A i \in 1 .. Len(pipe') : i \in 1 .. Len(pipe) \/ i = Len(pipe) + 1
  <2>1. pipe' = Append(pipe, c)
    BY <1>2
  <2> HIDE DEF c
  <2> QED
    BY <1>3, <1>4, <2>1, AppendFacts
<1> HIDE DEF c
<1>6. faults' \in 0 .. MaxFaults /\ faults' >= faults /\ faults' \in Nat
  BY <1>1, <1>4
<1>7. TypeOK' /\ ThreadSound'
  BY <1>1, <1>4, <1>6 DEF TransportInv, TypeOK, ThreadSound
<1>8. StreamsTyped'
  BY <1>1, <1>5 DEF TransportInv, StreamsTyped
<1>9. Budget'
  <2>1. /\ conn <= faults + 1 /\ (~open \/ Redials(node) => conn <= faults)
        /\ ~Socket => conn <= 1 /\ (~open \/ Redials(node) => conn = 0)
    BY DEF TransportInv, Budget
  <2>2. Redials(node)' = Redials(node)
    BY <1>1 DEF Redials
  <2> QED
    BY <1>1, <1>4, <1>6, <2>1, <2>2 DEF Budget
<1>10. PipeSound'
  <2>1. \A i \in 1 .. Len(pipe') : pipe'[i].cmd \in {"FR", "CM"} => i \in 1 .. Len(pipe) /\ pipe'[i] = pipe[i]
    BY <1>3, <1>5
  <2> QED
    BY <1>1, <1>4, <2>1 DEF TransportInv, PipeSound
<1> QED
  BY <1>7, <1>8, <1>9, <1>10 DEF TransportInv

\* The invariant holds in the beginning, and every step preserves it.
LEMMA TransportInit == Init => TransportInv
<1> SUFFICES ASSUME Init PROVE TransportInv
  OBVIOUS
<1>1. node.pc = "loop" /\ node.at = "idle" /\ node.state = "NULL" /\ node.stop = FALSE /\ node.rx = NoRx
  BY DEF Init
<1>2. NoRx \in RxType /\ NoRx.bytes = <<>> /\ NoRx.size = 0
  BY DEF NoRx, RxType
<1>3. node \in NodeType
  BY <1>2 DEF Init, NodeType, Pc, Where, State
<1>4. TypeOK
  <2>1. open \in BOOLEAN /\ asked \in BOOLEAN /\ host \in Hosts
    BY DEF Init
  <2>3. handled \in Seq(Message \cup {Garbled})
    <3>1. handled = <<>>
      BY DEF Init
    <3> QED
      BY <3>1, EmptySeq
  <2>2. fds \in 0 .. MaxFds /\ conn \in 0 .. MaxFaults + 1 /\ faults \in 0 .. MaxFaults
    BY BiggestFacts DEF Init
  <2> QED
    BY <1>1, <1>3, <2>1, <2>2, <2>3 DEF TypeOK, NodeType, RxType, Pc, Where
<1>5. StreamsTyped
  BY <1>1 DEF Init, StreamsTyped
<1>6. ThreadSound
  BY <1>1 DEF ThreadSound
<1>7. Budget
  BY DEF Init, Budget
<1>8. PipeSound
  BY DEF Init, PipeSound
<1> QED
  BY <1>4, <1>5, <1>6, <1>7, <1>8 DEF TransportInv

\* Every step keeps the invariant.
LEMMA TransportNext == TransportInv /\ [Next]_vars => TransportInv'
<1> SUFFICES ASSUME TransportInv, [Next]_vars PROVE TransportInv'
  OBVIOUS
<1>1. CASE cc_node_run_loop
  BY <1>1, LoopStep
<1>2. CASE Connect
  BY <1>2, SocketConnectStep, FcmConnectStep DEF Connect
<1>3. CASE cc_platform_evt_wait
  BY <1>3, WaitStep
<1>4. CASE ReadPrefix
  BY <1>4, PrefixStep
<1>5. CASE ReadPayload
  BY <1>5, PayloadStep
<1>6. CASE handle_platform_call
  BY <1>6, CallStep
<1>7. CASE ProxySends
  BY <1>7, SendsStep
<1>8. CASE Cut
  BY <1>8, CutStep
<1>9. CASE JavaCommands
  BY <1>9, JavaStep
<1>10. CASE UNCHANGED vars
  BY <1>10 DEF vars, TransportInv, TypeOK, StreamsTyped, ThreadSound, Budget, PipeSound, Redials, Socket, Android
<1> QED
  BY <1>1, <1>2, <1>3, <1>4, <1>5, <1>6, <1>7, <1>8, <1>9, <1>10 DEF Next, NodeStep

\* The inductive invariant holds in every state.
LEMMA TransportAlways == Spec => []TransportInv
<1> QED
  BY TransportInit, TransportNext, PTL DEF Spec

\* Every variable keeps its type, for any platforms, sizes and bounds, and for
\* connections that end anywhere: in particular a connection is made only after
\* a fault, a message that is being received is shorter than its length says,
\* and no more descriptors are used than there are.
THEOREM TransportTypeCorrect == Spec => []TypeOK
<1>1. TransportInv => TypeOK
  BY DEF TransportInv
<1> QED
  BY <1>1, TransportAlways, PTL

(***************************************************************************)
(* The stream.                                                              *)
(***************************************************************************)
\* The fields of a byte under way.
LEMMA ByteFields ==
  ASSUME NEW w \in Seq(ByteType), NEW j \in 1 .. Len(w)
  PROVE  /\ w[j] \in ByteType /\ w[j].m \in Message /\ w[j].at \in Nat \ {0}
         /\ FrameEnd(w[j].m) \in Nat /\ FrameEnd(w[j].m) > PrefixSize
<1>1. w[j] \in ByteType
  BY ElementOfSeq
<1>2. w[j].m \in Message /\ w[j].at \in 1 .. PrefixSize + Biggest
  BY <1>1 DEF ByteType
<1>3. w[j].at \in Nat \ {0}
  BY <1>2, BiggestFacts
<1> QED
  BY <1>1, <1>2, <1>3, FramedFacts

\* What is left of a stretch after n bytes have been read is one.
LEMMA StretchDrop ==
  ASSUME NEW w \in Seq(ByteType), NEW snt \in Seq(Message), Stretch(w, snt),
         NEW n \in 0 .. Len(w), NEW v, v = SubSeq(w, n + 1, Len(w))
  PROVE  Stretch(v, snt)
<1>1. v \in Seq(ByteType) /\ Len(v) = Len(w) - n /\ (\A j \in 1 .. Len(v) : v[j] = w[n + j]) /\ Len(w) \in Nat
  BY ReadFacts, LenProperties
<1> SUFFICES ASSUME NEW j \in 1 .. Len(v) PROVE Continues(v, snt, j)
  BY DEF Stretch
<1> DEFINE m == v[j].m
           a == v[j].at
           e == FrameEnd(m)
<1>2. n + j \in 1 .. Len(w) /\ v[j] = w[n + j]
  BY <1>1
<1>3. a \in Nat \ {0} /\ e \in Nat
  BY <1>1, ByteFields
<1>4. /\ m.k \in 1 .. Len(snt) /\ m = snt[m.k] /\ a <= e
      /\ \A i \in a .. e : n + j + i - a <= Len(w) /\ w[n + j + i - a] = Byte(m, i)
      /\ a = e /\ n + j < Len(w) => m.k < Len(snt) /\ w[n + j + 1] = Byte(snt[m.k + 1], 1)
  BY <1>2 DEF Stretch, Continues
<1> HIDE DEF m, a, e
<1>5. ASSUME NEW i \in a .. e
      PROVE  j + i - a <= Len(v) /\ v[j + i - a] = Byte(m, i)
  <2>1. n + j + i - a <= Len(w) /\ w[n + j + i - a] = Byte(m, i)
    BY <1>4
  <2>2. j + i - a \in 1 .. Len(v) /\ n + (j + i - a) = n + j + i - a
    <3>1. \A c, d, f, g, h, k \in Int :
            f >= 1 /\ h <= k /\ h >= 1 /\ c + f + k - h <= d /\ g = d - c
              => f + k - h \in 1 .. g /\ c + (f + k - h) = c + f + k - h
      OBVIOUS
    <3>2. n \in Int /\ Len(w) \in Int /\ j \in Int /\ Len(v) \in Int /\ a \in Int /\ i \in Int
      BY <1>1, <1>3
    <3>3. j >= 1 /\ a <= i /\ a >= 1 /\ Len(v) = Len(w) - n
      BY <1>1, <1>3, <3>2
    <3> QED
      BY <2>1, <3>1, <3>2, <3>3
  <2> QED
    BY <1>1, <2>1, <2>2
<1>6. ASSUME a = e, j < Len(v)
      PROVE  m.k < Len(snt) /\ v[j + 1] = Byte(snt[m.k + 1], 1)
  <2>1. n + j < Len(w) /\ j + 1 \in 1 .. Len(v) /\ n + (j + 1) = n + j + 1
    BY <1>1, <1>6
  <2> QED
    BY <1>1, <1>4, <1>6, <2>1
<1> QED
  BY <1>4, <1>5, <1>6 DEF Continues, m, a, e

\* So is what is left when it is cut off before a message.
LEMMA StretchCut ==
  ASSUME NEW w \in Seq(ByteType), NEW snt \in Seq(Message), Stretch(w, snt),
         NEW n \in 0 .. Len(w), n < Len(w) => w[n + 1].at = 1, NEW v, v = SubSeq(w, 1, n)
  PROVE  Stretch(v, snt)
<1>1. v \in Seq(ByteType) /\ Len(v) = n /\ (\A j \in 1 .. n : v[j] = w[j]) /\ Len(w) \in Nat
  BY SubSeqProperties, LenProperties
<1> SUFFICES ASSUME NEW j \in 1 .. n PROVE Continues(v, snt, j)
  BY <1>1 DEF Stretch
<1> DEFINE m == v[j].m
           a == v[j].at
           e == FrameEnd(m)
<1>2. j \in 1 .. Len(w) /\ v[j] = w[j]
  BY <1>1
<1>3. a \in Nat \ {0} /\ e \in Nat
  BY <1>1, ByteFields
<1>4. /\ m.k \in 1 .. Len(snt) /\ m = snt[m.k] /\ a <= e
      /\ \A i \in a .. e : j + i - a <= Len(w) /\ w[j + i - a] = Byte(m, i)
      /\ a = e /\ j < Len(w) => m.k < Len(snt) /\ w[j + 1] = Byte(snt[m.k + 1], 1)
  BY <1>2 DEF Stretch, Continues
<1> HIDE DEF m, a, e
<1>5. ASSUME NEW i \in a .. e
      PROVE  j + i - a <= n /\ v[j + i - a] = Byte(m, i)
  <2>1. j + i - a <= Len(w) /\ w[j + i - a] = Byte(m, i)
    BY <1>4
  <2>2. j + i - a <= n
    <3> SUFFICES ASSUME n < j + i - a PROVE FALSE
      BY <1>3
    <3>1. n < Len(w)
      BY <1>1, <1>3, <2>1
    <3> DEFINE b == a + (n + 1 - j)
    <3>2. b \in a .. e /\ j + b - a = n + 1 /\ b # 1
      BY <1>1, <1>3
    <3> HIDE DEF b
    <3>3. w[n + 1] = Byte(m, b)
      BY <1>4, <3>2
    <3>4. w[n + 1].at = b
      BY <3>3 DEF Byte
    <3> QED
      BY <3>1, <3>2, <3>4
  <2>3. j + i - a \in 1 .. n
    BY <1>3, <2>2
  <2> QED
    BY <1>1, <2>1, <2>3
<1>6. ASSUME a = e, j < n
      PROVE  m.k < Len(snt) /\ v[j + 1] = Byte(snt[m.k + 1], 1)
  <2>1. j < Len(w) /\ j + 1 \in 1 .. n
    BY <1>1, <1>6
  <2> QED
    BY <1>1, <1>4, <1>6, <2>1
<1> QED
  BY <1>1, <1>4, <1>5, <1>6 DEF Continues, m, a, e

\* v is w with the frame of x behind it, and both go on to a stretch of snt2.
Extended(w, x, v, snt2) ==
  /\ Stretch(v, snt2) /\ v \in Seq(ByteType) /\ Len(v) = Len(w) + FrameEnd(x)
  /\ v # <<>> /\ v[Len(v)] = Byte(x, FrameEnd(x))
  /\ \A j \in 1 .. Len(w) : v[j] = w[j]
  /\ v[Len(w) + 1] = Byte(x, 1)

\* And what becomes of it when the next message is put behind the last.
LEMMA StretchAppend ==
  ASSUME NEW w \in Seq(ByteType), NEW snt \in Seq(Message), Stretch(w, snt),
         NEW x \in Message, x.k = Len(snt) + 1, w # <<>> => w[Len(w)].m.k = Len(snt),
         NEW v, v = w \o Framed(x), NEW snt2, snt2 = Append(snt, x)
  PROVE  Extended(w, x, v, snt2)
<1> DEFINE f == Framed(x)
           l == Len(w)
           z == FrameEnd(x)
<1>1. /\ f \in Seq(ByteType) /\ Len(f) = z /\ z \in Nat /\ z > PrefixSize /\ PrefixSize \in Nat
      /\ \A i \in 1 .. z : f[i] = Byte(x, i)
  BY FramedFacts, BiggestFacts
<1>2. l \in Nat
  BY LenProperties
<1>3. v = w \o f
  OBVIOUS
<1> HIDE DEF f, z
<1>4. /\ v \in Seq(ByteType) /\ Len(v) = l + z
      /\ \A i \in 1 .. l + z : v[i] = IF i <= l THEN w[i] ELSE f[i - l]
  <2>1. /\ w \o f \in Seq(ByteType) /\ Len(w \o f) = Len(w) + Len(f)
        /\ \A i \in 1 .. Len(w) + Len(f) : (w \o f)[i] = IF i <= Len(w) THEN w[i] ELSE f[i - Len(w)]
    BY <1>1, ConcatProperties, ZenonT(60)
  <2> QED
    BY <1>1, <1>3, <2>1
<1>5. /\ snt2 \in Seq(Message) /\ Len(snt2) = Len(snt) + 1 /\ Len(snt) \in Nat
      /\ \A i \in 1 .. Len(snt) : snt2[i] = snt[i]
      /\ snt2[Len(snt) + 1] = x
  BY AppendFacts
<1>6. /\ \A j \in 1 .. l : v[j] = w[j]
      /\ \A i \in 1 .. z : l + i \in 1 .. l + z /\ v[l + i] = Byte(x, i)
  <2>1. \A j \in 1 .. l : v[j] = w[j]
    BY <1>1, <1>2, <1>4
  <2>2. ASSUME NEW i \in 1 .. z PROVE l + i \in 1 .. l + z /\ v[l + i] = Byte(x, i)
    <3>1. l + i \in 1 .. l + z /\ ~(l + i <= l) /\ (l + i) - l = i
      BY <1>1, <1>2
    <3> QED
      BY <1>1, <1>4, <3>1
  <2> QED
    BY <2>1, <2>2
<1>12. w # <<>> => w[l].m.k = Len(snt)
  OBVIOUS
<1>13. Stretch(w, snt) /\ (l # 0 => w # <<>>) /\ l = Len(w)
  BY EmptySeq
<1>14. \A j \in 1 .. l : Continues(w, snt, j) /\ w[j].at \in Nat \ {0} /\ FrameEnd(w[j].m) \in Nat
  BY ByteFields DEF Stretch
<1> HIDE DEF l
<1>7. ASSUME NEW j \in 1 .. l
      PROVE  Continues(v, snt2, j)
  <2> DEFINE m == w[j].m
             a == w[j].at
             e == FrameEnd(m)
  <2>1. a \in Nat \ {0} /\ e \in Nat
    BY <1>14
  <2>2. /\ m.k \in 1 .. Len(snt) /\ m = snt[m.k] /\ a <= e
        /\ \A i \in a .. e : j + i - a <= l /\ w[j + i - a] = Byte(m, i)
        /\ a = e /\ j < l => m.k < Len(snt) /\ w[j + 1] = Byte(snt[m.k + 1], 1)
    BY <1>13, <1>14 DEF Continues
  <2>3. v[j] = w[j]
    BY <1>6
  <2> HIDE DEF a, e, m
  <2>4. m.k \in 1 .. Len(snt2) /\ m = snt2[m.k]
    BY <1>5, <2>2
  <2>5. ASSUME NEW i \in a .. e
        PROVE  j + i - a <= Len(v) /\ v[j + i - a] = Byte(m, i)
    <3>1. j + i - a <= l /\ w[j + i - a] = Byte(m, i)
      BY <2>2
    <3>2. j + i - a \in 1 .. l /\ j + i - a <= Len(v)
      BY <1>1, <1>2, <1>4, <2>1, <3>1
    <3> QED
      BY <1>6, <3>1, <3>2
  <2>6. ASSUME a = e, j < Len(v)
        PROVE  m.k < Len(snt2) /\ v[j + 1] = Byte(snt2[m.k + 1], 1)
    <3>0. j < l \/ j = l
      BY <1>2
    <3>1. CASE j < l
      <4>1. m.k < Len(snt) /\ w[j + 1] = Byte(snt[m.k + 1], 1)
        BY <2>2, <2>6, <3>1
      <4>2. j + 1 \in 1 .. l
        BY <1>2, <3>1
      <4>3. m.k + 1 \in 1 .. Len(snt) /\ m.k < Len(snt2)
        BY <1>5, <2>2, <4>1
      <4>4. v[j + 1] = w[j + 1]
        BY <1>6, <4>2
      <4>5. snt2[m.k + 1] = snt[m.k + 1]
        BY <1>5, <4>3
      <4> QED
        BY <4>1, <4>3, <4>4, <4>5
    <3>2. CASE j = l
      <4>1. l # 0
        BY <1>2, <3>2
      <4>5. w # <<>> /\ m.k = Len(snt)
        BY <1>12, <1>13, <3>2, <4>1 DEF m
      <4>2. 1 \in 1 .. z
        BY <1>1
      <4>3. v[l + 1] = Byte(x, 1)
        BY <1>6, <4>2
      <4>4. snt2[m.k + 1] = x /\ m.k < Len(snt2)
        BY <1>5, <4>5
      <4> QED
        BY <3>2, <4>3, <4>4
    <3> QED
      BY <3>0, <3>1, <3>2
  <2> QED
    BY <2>2, <2>3, <2>4, <2>5, <2>6 DEF Continues, m, a, e
<1>8. ASSUME NEW b \in 1 .. z
      PROVE  Continues(v, snt2, l + b)
  <2>1. v[l + b] = Byte(x, b) /\ l + b \in 1 .. Len(v)
    BY <1>4, <1>6
  <2>2. v[l + b].m = x /\ v[l + b].at = b
    BY <2>1 DEF Byte
  <2>3. x.k \in 1 .. Len(snt2) /\ x = snt2[x.k]
    BY <1>5
  <2>4. ASSUME NEW i \in b .. z
        PROVE  (l + b) + i - b <= Len(v) /\ v[(l + b) + i - b] = Byte(x, i)
    <3>1. i \in 1 .. z /\ (l + b) + i - b = l + i
      BY <1>1, <1>2
    <3> QED
      BY <1>2, <1>4, <1>6, <3>1, SMTT(30)
  <2>5. ~(b = z /\ l + b < Len(v))
    BY <1>1, <1>2, <1>4
  <2> DEFINE j == l + b
  <2>6. v[j].m = x /\ v[j].at = b /\ FrameEnd(x) = z /\ b <= z
    BY <2>2 DEF z
  <2>7. ~(b = z /\ j < Len(v)) /\ \A i \in b .. z : j + i - b <= Len(v) /\ v[j + i - b] = Byte(x, i)
    BY <2>4, <2>5
  <2> HIDE DEF j
  <2>8. Continues(v, snt2, j)
    BY <2>3, <2>6, <2>7 DEF Continues
  <2> QED
    BY <2>8 DEF j
<1>9. ASSUME NEW j \in 1 .. Len(v)
      PROVE  j \in 1 .. l \/ \E b \in 1 .. z : j = l + b
  <2>1. CASE j <= l
    BY <1>2, <2>1
  <2>2. CASE j > l
    <3>1. j - l \in 1 .. z /\ j = l + (j - l)
      BY <1>1, <1>2, <1>4, <2>2
    <3> QED
      BY <3>1
  <2> QED
    BY <1>2, <1>4, <2>1, <2>2
<1>10. Stretch(v, snt2)
  BY <1>7, <1>8, <1>9 DEF Stretch
<1>11. 1 \in 1 .. z /\ z \in 1 .. z /\ v # <<>>
  BY <1>1, <1>2, <1>4
<1> QED
  BY <1>4, <1>6, <1>10, <1>11 DEF z, l, Extended

(***************************************************************************)
(* Reading the stream.                                                      *)
(***************************************************************************)
\* The first byte under way is byte a of m, which is message h + 1.
Reading(w, snt, h, m, a) ==
  /\ w \in Seq(ByteType) /\ snt \in Seq(Message) /\ Stretch(w, snt) /\ w # <<>>
  /\ \A k \in 1 .. Len(snt) : snt[k].k = k
  /\ h \in Nat /\ h < Len(snt) /\ m = snt[h + 1] /\ a \in Nat \ {0} /\ w[1] = Byte(m, a)

\* The rest of m follows.
LEMMA ReadFront ==
  ASSUME NEW w, NEW snt, NEW h, NEW m, NEW a, Reading(w, snt, h, m, a)
  PROVE  /\ m \in Message /\ FrameEnd(m) \in Nat /\ a <= FrameEnd(m)
         /\ \A i \in a .. FrameEnd(m) : 1 + i - a \in 1 .. Len(w) /\ w[1 + i - a] = Byte(m, i)
<1> USE DEF Reading
<1> DEFINE e == FrameEnd(m)
           l == Len(w)
<1>1. l \in Nat /\ l >= 1 /\ Len(snt) \in Nat
  BY EmptySeq, LenProperties
<1>2. h + 1 \in 1 .. Len(snt) /\ m \in Message /\ m.k = h + 1
  BY <1>1
<1>3. e \in Nat
  BY <1>2, FramedFacts
<1>4. w[1].m = m /\ w[1].at = a /\ a \in Nat \ {0}
  BY DEF Byte
<1>5. Continues(w, snt, 1)
  BY <1>1 DEF Stretch
<1>6. /\ a <= e
      /\ \A i \in a .. e : 1 + i - a <= l /\ w[1 + i - a] = Byte(m, i)
  BY <1>4, <1>5 DEF Continues
<1> HIDE DEF e, l, Reading
<1>9. ASSUME NEW i \in a .. e
      PROVE  1 + i - a \in 1 .. l /\ w[1 + i - a] = Byte(m, i)
  BY <1>1, <1>3, <1>4, <1>6
<1> QED
  BY <1>2, <1>3, <1>6, <1>9 DEF e, l

\* n bytes of it are read, and v is left.
Taken(w, m, a, n, v) == n \in 1 .. FrameEnd(m) - a + 1 /\ v = SubSeq(w, n + 1, Len(w))

\* What is left goes on, with the same message or with the next one, and ends as
\* before.
GoesOn(w, snt, h, m, a, n, v) ==
  /\ n <= Len(w) /\ v \in Seq(ByteType) /\ Stretch(v, snt)
  /\ n <= FrameEnd(m) - a => v # <<>> /\ v[1] = Byte(m, a + n)
  /\ n = FrameEnd(m) - a + 1 /\ v # <<>> => h + 1 < Len(snt) /\ v[1] = Byte(snt[h + 2], 1)
  /\ n = FrameEnd(m) - a + 1 /\ v = <<>> => w[Len(w)].m.k = h + 1
  /\ v # <<>> => v[Len(v)] = w[Len(w)]

\* Taking the next n bytes of the message being read leaves the bytes under way
\* a continuation of what has been read.
LEMMA ReadOn ==
  ASSUME NEW w, NEW snt, NEW h, NEW m, NEW a, Reading(w, snt, h, m, a),
         NEW n, NEW v, Taken(w, m, a, n, v)
  PROVE  GoesOn(w, snt, h, m, a, n, v)
<1> DEFINE e == FrameEnd(m)
           l == Len(w)
<1>1. l \in Nat /\ l >= 1 /\ Len(snt) \in Nat
  BY EmptySeq, LenProperties DEF Reading
<1>2. m.k = h + 1 /\ h \in Nat /\ a \in Nat \ {0}
  BY <1>1 DEF Reading
<1>3. e \in Nat /\ a <= e
  BY ReadFront
<1>7. \A j \in 1 .. l : Continues(w, snt, j)
  BY DEF Stretch, Reading
<1>8. ASSUME NEW x \in 0 .. l, v = SubSeq(w, x + 1, Len(w))
      PROVE  /\ v \in Seq(ByteType) /\ Len(v) = l - x /\ \A j \in 1 .. Len(v) : v[j] = w[x + j]
             /\ Stretch(v, snt)
  <2>0. w \in Seq(ByteType) /\ snt \in Seq(Message) /\ Stretch(w, snt)
    BY DEF Reading
  <2>1. /\ v \in Seq(ByteType) /\ Len(v) = l - x /\ \A j \in 1 .. Len(v) : v[j] = w[x + j]
    BY <1>8, <2>0, ReadFacts
  <2>2. Stretch(v, snt)
    BY <1>8, <2>0, StretchDrop
  <2> QED
    BY <2>1, <2>2
<1>9. \A i \in a .. e : 1 + i - a \in 1 .. l /\ w[1 + i - a] = Byte(m, i)
  BY ReadFront
<1>10. n \in Nat /\ n >= 1 /\ n <= e - a + 1 /\ v = SubSeq(w, n + 1, Len(w))
  BY <1>2, <1>3 DEF Taken
<1>0. l = Len(w) /\ e = FrameEnd(m)
  OBVIOUS
<1> HIDE DEF e, l
<1>21. n \in 1 .. l /\ w[n] = Byte(m, a + n - 1)
  <2>1. a + n - 1 \in a .. e /\ 1 + (a + n - 1) - a = n
    BY <1>2, <1>3, <1>10
  <2> QED
    BY <1>9, <2>1
<1>22. /\ v \in Seq(ByteType) /\ Len(v) = l - n /\ (\A j \in 1 .. Len(v) : v[j] = w[n + j])
      /\ Stretch(v, snt)
  <2>1. n \in 0 .. l
    BY <1>21
  <2> QED
    BY <1>8, <1>10, <2>1
<1>23. ASSUME v # <<>>
      PROVE  Len(v) \in Nat /\ Len(v) >= 1 /\ n < l /\ v[1] = w[n + 1] /\ v[Len(v)] = w[l]
  <2>1. Len(v) \in Nat /\ Len(v) # 0
    BY <1>22, <1>23, EmptySeq, LenProperties
  <2>2. 1 \in 1 .. Len(v) /\ Len(v) \in 1 .. Len(v) /\ n < l /\ n + Len(v) = l
    BY <1>1, <1>21, <1>22, <2>1
  <2> QED
    BY <1>22, <2>1, <2>2
<1>24. ASSUME n <= e - a
      PROVE  v # <<>> /\ v[1] = Byte(m, a + n)
  <2>1. a + n \in a .. e /\ 1 + (a + n) - a = n + 1
    BY <1>2, <1>3, <1>10, <1>24
  <2>2. n + 1 \in 1 .. l /\ w[n + 1] = Byte(m, a + n)
    BY <1>9, <2>1
  <2>3. v # <<>>
    <3>1. Len(v) # 0
      BY <1>1, <1>21, <1>22, <2>2
    <3> QED
      BY <3>1
  <2> QED
    BY <1>23, <2>2, <2>3
<1>25. w[n].m = m /\ w[n].at = a + n - 1
  BY <1>21 DEF Byte
<1>26. ASSUME n = e - a + 1, v # <<>>
      PROVE  h + 1 < Len(snt) /\ v[1] = Byte(snt[h + 2], 1)
  <2>1. a + n - 1 = e /\ m.k + 1 = h + 2
    BY <1>2, <1>3, <1>26
  <2>2. Continues(w, snt, n)
    BY <1>7, <1>21
  <2>3. n < l /\ v[1] = w[n + 1]
    BY <1>23, <1>26
  <2>4. m.k < Len(snt) /\ w[n + 1] = Byte(snt[m.k + 1], 1)
    BY <1>0, <1>25, <2>1, <2>2, <2>3 DEF Continues
  <2> QED
    BY <1>2, <2>1, <2>3, <2>4
<1>27. ASSUME n = e - a + 1, v = <<>>
      PROVE  w[l].m.k = h + 1
  <2>1. n = l
    <3>1. Len(v) = 0
      BY <1>27
    <3> QED
      BY <1>1, <1>21, <1>22, <3>1
  <2> QED
    BY <1>2, <1>25, <2>1
<1> QED
  BY <1>0, <1>21, <1>22, <1>23, <1>24, <1>26, <1>27 DEF GoesOn

\* Nothing is under way.
LEMMA AlignedEmpty ==
  ASSUME NEW snt, NEW h, h <= Len(snt), NEW o, o => h = Len(snt)
  PROVE  Aligned(FALSE, NoRx, <<>>, o, snt, h)
<1>1. Stretch(<<>>, snt)
  BY DEF Stretch
<1> QED
  BY <1>1 DEF Aligned

\* The length that is read is the one of the next message, whose payload follows.
LEMMA AlignedPrefix ==
  ASSUME NEW w \in Seq(ByteType), NEW snt \in Seq(Message), \A k \in 1 .. Len(snt) : snt[k].k = k,
         NEW o, NEW h \in Nat, Aligned(FALSE, NoRx, w, o, snt, h), w # <<>>
  PROVE  /\ PrefixSize <= Len(w)
         /\ \A size \in cc_transport_get_message_len(SubSeq(w, 1, PrefixSize)) : \A rx :
              rx = [bytes |-> <<>>, size |-> size]
                => Aligned(TRUE, rx, SubSeq(w, PrefixSize + 1, Len(w)), o, snt, h)
<1> DEFINE m == snt[h + 1]
           p == SubSeq(w, 1, PrefixSize)
           v == SubSeq(w, PrefixSize + 1, Len(w))
<1>1. /\ h < Len(snt) /\ w[1] = Byte(m, 1) /\ (o => w[Len(w)].m.k = Len(snt)) /\ Stretch(w, snt)
      /\ h <= Len(snt)
  BY DEF Aligned
<1>2. m = snt[h + 1] /\ 1 \in Nat \ {0} /\ v = SubSeq(w, PrefixSize + 1, Len(w)) /\ Len(w) \in Nat
  BY LenProperties
<1> HIDE DEF m, v
<1>0. Reading(w, snt, h, m, 1)
  BY <1>1, <1>2 DEF Reading
<1>3. /\ m \in Message /\ FrameEnd(m) \in Nat /\ 1 <= FrameEnd(m)
      /\ \A i \in 1 .. FrameEnd(m) : 1 + i - 1 \in 1 .. Len(w) /\ w[1 + i - 1] = Byte(m, i)
  BY <1>0, ReadFront
<1>4. FrameEnd(m) > PrefixSize /\ PrefixSize \in Nat \ {0} /\ m.size \in Nat \ {0}
  BY <1>3, FramedFacts, BiggestFacts, MessageFields
<1>5. \A i \in 1 .. FrameEnd(m) : i \in 1 .. Len(w) /\ w[i] = Byte(m, i)
  <2> TAKE i \in 1 .. FrameEnd(m)
  <2>1. 1 + i - 1 = i
    BY <1>3
  <2> QED
    BY <1>3, <2>1
<1>6. PrefixSize \in 1 .. FrameEnd(m) - 1 + 1 /\ PrefixSize <= FrameEnd(m) - 1 /\ PrefixSize <= Len(w)
  BY <1>2, <1>3, <1>4, <1>5
<1>7. /\ Stretch(v, snt) /\ v \in Seq(ByteType) /\ v # <<>> /\ v[1] = Byte(m, 1 + PrefixSize) /\ v[Len(v)] = w[Len(w)]
  <2>1. Taken(w, m, 1, PrefixSize, v)
    BY <1>2, <1>6 DEF Taken
  <2>2. GoesOn(w, snt, h, m, 1, PrefixSize, v)
    BY <1>0, <2>1, ReadOn
  <2> QED
    BY <1>6, <2>2 DEF GoesOn
<1>8. p = SubSeq(Framed(m), 1, PrefixSize) /\ p[1] = Byte(m, 1)
  <2>1. /\ Framed(m) \in Seq(ByteType) /\ Len(Framed(m)) = FrameEnd(m)
        /\ \A i \in 1 .. FrameEnd(m) : Framed(m)[i] = Byte(m, i)
    BY <1>3, FramedFacts
  <2> DEFINE q == SubSeq(Framed(m), 1, PrefixSize)
  <2>2. q \in Seq(ByteType) /\ Len(q) = PrefixSize /\ \A i \in 1 .. PrefixSize : q[i] = Framed(m)[i]
    BY <1>3, <1>4, <2>1, SubSeqProperties
  <2>3. p \in Seq(ByteType) /\ Len(p) = PrefixSize /\ \A i \in 1 .. PrefixSize : p[i] = w[i]
    BY <1>2, <1>4, <1>6, SubSeqProperties
  <2> HIDE DEF p, q
  <2>4. \A i \in 1 .. PrefixSize : i \in 1 .. FrameEnd(m)
    BY <1>3, <1>4
  <2>5. \A i \in 1 .. PrefixSize : p[i] = Byte(m, i) /\ q[i] = Byte(m, i)
    BY <1>5, <2>1, <2>2, <2>3, <2>4
  <2>6. p = q
    BY <2>2, <2>3, <2>5, SeqEqual
  <2> QED
    BY <1>4, <2>5, <2>6 DEF q
<1>9. cc_transport_get_message_len(p) = {m.size}
  <2>1. \E x \in Message : p = SubSeq(Framed(x), 1, PrefixSize)
    BY <1>3, <1>8
  <2> HIDE DEF p
  <2>2. p[1].m.size = m.size
    <3>1. 1 \in 1 .. PrefixSize + m.size
      BY <1>4
    <3>2. Byte(m, 1).m = m
      BY <1>3, <3>1, MessageFields
    <3> QED
      BY <1>8, <3>2
  <2> QED
    BY <2>1, <2>2 DEF cc_transport_get_message_len
<1>10. ASSUME NEW size \in cc_transport_get_message_len(p), NEW rx, rx = [bytes |-> <<>>, size |-> size]
       PROVE  Aligned(TRUE, rx, v, o, snt, h)
  <2>1. rx.bytes = <<>> /\ rx.size = m.size
    BY <1>9, <1>10
  <2>2. Len(rx.bytes) = 0 /\ PrefixSize + Len(rx.bytes) + 1 = 1 + PrefixSize
    BY <1>4, <2>1
  <2> QED
    BY <1>1, <1>7, <2>1, <2>2 DEF Aligned, m
<1> QED
  BY <1>6, <1>10 DEF v

\* bytes is what has been read of a payload, with n more bytes; v is left.
Joined(rx, w, n, v, bytes) ==
  /\ v = SubSeq(w, n + 1, Len(w))
  /\ n \in 1 .. rx.size - Len(rx.bytes) /\ bytes \in Seq(ByteType) /\ Len(bytes) = Len(rx.bytes) + n
  /\ \A i \in 1 .. Len(bytes) : bytes[i] = IF i <= Len(rx.bytes) THEN rx.bytes[i] ELSE w[i - Len(rx.bytes)]

\* What is there then is the beginning of the message, or all of it.
Came(rx, v, bytes, o, snt, h) ==
  /\ h < Len(snt)
  /\ Len(bytes) < rx.size => Aligned(TRUE, [bytes |-> bytes, size |-> rx.size], v, o, snt, h)
  /\ Len(bytes) = rx.size => Whose(bytes) = snt[h + 1] /\ Aligned(FALSE, NoRx, v, o, snt, h + 1)

\* A part of the payload is read.
LEMMA AlignedPayload ==
  ASSUME NEW w \in Seq(ByteType), NEW snt \in Seq(Message), \A k \in 1 .. Len(snt) : snt[k].k = k,
         NEW o, NEW h \in Nat, NEW rx \in RxType, Aligned(TRUE, rx, w, o, snt, h),
         NEW n, NEW v, NEW bytes, Joined(rx, w, n, v, bytes)
  PROVE  Came(rx, v, bytes, o, snt, h)
<1> DEFINE m == snt[h + 1]
           b == Len(rx.bytes)
           a == PrefixSize + b + 1
<1>1. /\ w # <<>> /\ h < Len(snt) /\ h <= Len(snt) /\ Stretch(w, snt) /\ w[1] = Byte(m, a)
      /\ o => w[Len(w)].m.k = Len(snt)
      /\ rx.size = m.size /\ \A i \in 1 .. b : rx.bytes[i] = Byte(m, PrefixSize + i)
  BY DEF Aligned
<1>2. b \in Nat /\ PrefixSize \in Nat \ {0} /\ rx.size \in Nat /\ Len(w) \in Nat /\ Len(snt) \in Nat
  BY BiggestFacts, LenProperties DEF RxType
<1>3. a \in Nat \ {0} /\ a = PrefixSize + b + 1
  BY <1>2
<1>4. n \in 1 .. rx.size - b /\ Len(bytes) = b + n /\ bytes \in Seq(ByteType)
      /\ \A i \in 1 .. Len(bytes) : bytes[i] = IF i <= b THEN rx.bytes[i] ELSE w[i - b]
  BY DEF Joined
<1>5. m = snt[h + 1] /\ b = Len(rx.bytes)
  OBVIOUS
<1> HIDE DEF m, a, b
<1>0. Reading(w, snt, h, m, a)
  BY <1>1, <1>3, <1>5 DEF Reading
<1>6. /\ m \in Message /\ FrameEnd(m) \in Nat /\ a <= FrameEnd(m)
      /\ \A i \in a .. FrameEnd(m) : 1 + i - a \in 1 .. Len(w) /\ w[1 + i - a] = Byte(m, i)
  BY <1>0, ReadFront
<1>7. FrameEnd(m) = PrefixSize + rx.size
  BY <1>1 DEF FrameEnd
<1>8. FrameEnd(m) - a + 1 = rx.size - b /\ n \in 1 .. FrameEnd(m) - a + 1
  BY <1>2, <1>3, <1>4, <1>7
<1>9. /\ v \in Seq(ByteType) /\ Stretch(v, snt)
      /\ n <= FrameEnd(m) - a => v # <<>> /\ v[1] = Byte(m, a + n)
      /\ n = FrameEnd(m) - a + 1 /\ v # <<>> => h + 1 < Len(snt) /\ v[1] = Byte(snt[h + 2], 1)
      /\ n = FrameEnd(m) - a + 1 /\ v = <<>> => w[Len(w)].m.k = h + 1
      /\ v # <<>> => v[Len(v)] = w[Len(w)]
  <2>1. Taken(w, m, a, n, v)
    BY <1>8 DEF Taken, Joined
  <2>2. GoesOn(w, snt, h, m, a, n, v)
    BY <1>0, <2>1, ReadOn
  <2> QED
    BY <2>2 DEF GoesOn
<1>10. ASSUME NEW i \in 1 .. Len(bytes) PROVE bytes[i] = Byte(m, PrefixSize + i)
  <2>1. CASE i <= b
    <3>1. i \in 1 .. b
      BY <1>2, <1>4, <2>1
    <3>2. rx.bytes[i] = Byte(m, PrefixSize + i)
      BY <1>1, <3>1
    <3> QED
      BY <1>4, <2>1, <3>2
  <2>2. CASE i > b
    <3>1. PrefixSize + i \in a .. FrameEnd(m) /\ 1 + (PrefixSize + i) - a = i - b
      BY <1>2, <1>3, <1>4, <1>7, <2>2
    <3>2. w[i - b] = Byte(m, PrefixSize + i)
      BY <1>6, <3>1
    <3> QED
      BY <1>2, <1>4, <2>2, <3>2
  <2> QED
    BY <1>2, <1>4, <2>1, <2>2
<1>11. ASSUME Len(bytes) < rx.size
       PROVE  Aligned(TRUE, [bytes |-> bytes, size |-> rx.size], v, o, snt, h)
  <2> DEFINE r == [bytes |-> bytes, size |-> rx.size]
  <2>1. r.bytes = bytes /\ r.size = m.size
    BY <1>1
  <2>2. n <= FrameEnd(m) - a /\ PrefixSize + Len(bytes) + 1 = a + n
    <3>1. \A c, f, g, i, j, k \in Int : f - c + 1 = g - i /\ i + j < g /\ c = k + i + 1 => j <= f - c /\ k + (i + j) + 1 = c + j
      OBVIOUS
    <3>2. a \in Int /\ FrameEnd(m) \in Int /\ rx.size \in Int /\ b \in Int /\ n \in Int /\ PrefixSize \in Int
      BY <1>2, <1>3, <1>4, <1>6
    <3>3. b + n < rx.size /\ Len(bytes) = b + n
      BY <1>4, <1>11
    <3> QED
      BY <1>3, <1>8, <3>1, <3>2, <3>3
  <2>3. v # <<>> /\ v[1] = Byte(m, a + n) /\ v[Len(v)] = w[Len(w)] /\ Stretch(v, snt)
    BY <1>9, <2>2
  <2> HIDE DEF r
  <2>4. Aligned(TRUE, r, v, o, snt, h)
    BY <1>1, <1>5, <1>10, <2>1, <2>2, <2>3 DEF Aligned
  <2> QED
    BY <2>4 DEF r
<1>12. ASSUME Len(bytes) = rx.size
       PROVE  Whose(bytes) = m /\ Aligned(FALSE, NoRx, v, o, snt, h + 1)
  <2>1. m.size \in Nat \ {0} /\ Len(bytes) = m.size /\ n = FrameEnd(m) - a + 1
    <3>1. m.size \in Nat \ {0} /\ Len(bytes) = m.size
      BY <1>1, <1>6, <1>12, MessageFields
    <3>2. b + n = rx.size
      BY <1>4, <1>12
    <3>3. \A c, d, f \in Int : d + f = c => f = c - d
      OBVIOUS
    <3>4. n = rx.size - b
      BY <1>2, <1>4, <3>2, <3>3
    <3> QED
      BY <1>8, <3>1, <3>4
  <2>2. bytes = Payload(m)
    <3>1. bytes = [i \in 1 .. m.size |-> bytes[i]]
      BY <1>4, <2>1
    <3>2. \A i \in 1 .. m.size : bytes[i] = Byte(m, PrefixSize + i)
      BY <1>10, <2>1
    <3> QED
      BY <3>1, <3>2 DEF Payload
  <2>3. bytes[1] = Byte(m, PrefixSize + 1)
    BY <1>10, <2>1
  <2>4. bytes[1].m = m
    BY <2>3 DEF Byte
  <2>5. Whose(bytes) = m
    BY <1>6, <2>2, <2>4 DEF Whose
  <2>6. h + 1 <= Len(snt) /\ (h + 1) + 1 = h + 2
    BY <1>1, <1>2
  <2>7. v = <<>> => (o => h + 1 = Len(snt))
    BY <1>1, <1>9, <2>1
  <2>8. v # <<>> => h + 1 < Len(snt) /\ v[1] = Byte(snt[(h + 1) + 1], 1) /\ (o => v[Len(v)].m.k = Len(snt))
    BY <1>1, <1>9, <2>1, <2>6
  <2> QED
    BY <1>9, <2>5, <2>6, <2>7, <2>8 DEF Aligned
<1> QED
  BY <1>1, <1>11, <1>12 DEF m, Came

\* The proxy sends a message on a connection that is open.
LEMMA AlignedSend ==
  ASSUME NEW w \in Seq(ByteType), NEW snt \in Seq(Message), NEW inside \in BOOLEAN, NEW rx \in RxType,
         NEW h \in Nat, Aligned(inside, rx, w, TRUE, snt, h),
         NEW x \in Message, x.k = Len(snt) + 1,
         NEW v, v = w \o Framed(x), NEW snt2, snt2 = Append(snt, x)
  PROVE  Aligned(inside, rx, v, TRUE, snt2, h)
<1> DEFINE m == snt[h + 1]
           a == IF inside THEN PrefixSize + Len(rx.bytes) + 1 ELSE 1
<1>1. /\ h <= Len(snt) /\ Stretch(w, snt)
      /\ w # <<>> => h < Len(snt) /\ w[1] = Byte(m, a) /\ w[Len(w)].m.k = Len(snt)
      /\ w = <<>> => ~inside /\ h = Len(snt)
      /\ inside => /\ rx.size = m.size
                   /\ \A i \in 1 .. Len(rx.bytes) : rx.bytes[i] = Byte(m, PrefixSize + i)
      /\ ~inside => rx = NoRx
  BY DEF Aligned
<1>2. /\ Stretch(v, snt2) /\ v \in Seq(ByteType) /\ Len(v) = Len(w) + FrameEnd(x)
      /\ v # <<>> /\ v[Len(v)] = Byte(x, FrameEnd(x))
      /\ \A j \in 1 .. Len(w) : v[j] = w[j]
      /\ v[Len(w) + 1] = Byte(x, 1)
  <2>1. Stretch(w, snt) /\ (w # <<>> => w[Len(w)].m.k = Len(snt))
    BY <1>1
  <2>2. v = w \o Framed(x) /\ snt2 = Append(snt, x) /\ x.k = Len(snt) + 1
    OBVIOUS
  <2>3. Extended(w, x, v, snt2)
    BY <2>1, <2>2, StretchAppend
  <2> QED
    BY <2>3 DEF Extended
<1>3. /\ Len(snt2) = Len(snt) + 1 /\ Len(snt) \in Nat /\ Len(w) \in Nat
      /\ \A i \in 1 .. Len(snt) : snt2[i] = snt[i]
      /\ snt2[Len(snt) + 1] = x
  BY AppendFacts, LenProperties
<1>4. h < Len(snt2) /\ h <= Len(snt2)
  BY <1>1, <1>3
<1>5. v[Len(v)].m.k = Len(snt2)
  BY <1>2, <1>3 DEF Byte
<1> HIDE DEF m, a
<1>6. CASE w # <<>>
  <2>1. 1 \in 1 .. Len(w) /\ h + 1 \in 1 .. Len(snt)
    BY <1>1, <1>3, <1>6, EmptySeq
  <2>2. snt2[h + 1] = m /\ v[1] = Byte(m, a)
    BY <1>1, <1>2, <1>3, <1>6, <2>1 DEF m
  <2> QED
    BY <1>1, <1>2, <1>4, <1>5, <2>2 DEF Aligned, a
<1>7. CASE w = <<>>
  <2>1. ~inside /\ h = Len(snt) /\ Len(w) = 0 /\ rx = NoRx
    BY <1>1, <1>7
  <2>2. snt2[h + 1] = x /\ v[1] = Byte(x, 1)
    BY <1>2, <1>3, <2>1
  <2> QED
    BY <1>2, <1>4, <1>5, <2>1, <2>2 DEF Aligned
<1> QED
  BY <1>6, <1>7

\* The connection ends before a message.
LEMMA AlignedCut ==
  ASSUME NEW w \in Seq(ByteType), NEW snt \in Seq(Message), NEW inside \in BOOLEAN, NEW rx \in RxType,
         NEW o, NEW h \in Nat, Aligned(inside, rx, w, o, snt, h),
         NEW n \in 0 .. Len(w), n < Len(w) => w[n + 1].at = 1, NEW v, v = SubSeq(w, 1, n)
  PROVE  Aligned(inside, rx, v, FALSE, snt, h)
<1>1. Stretch(w, snt)
  BY DEF Aligned
<1>2. Stretch(v, snt)
  BY <1>1, StretchCut
<1>3. Len(v) = n /\ (\A j \in 1 .. n : v[j] = w[j]) /\ Len(w) \in Nat /\ (w # <<>> => Len(w) # 0)
  BY SubSeqProperties, LenProperties, EmptySeq
<1>4. CASE n = 0
  <2>1. v = <<>>
    BY <1>3, <1>4, SubSeqProperties, EmptySeq
  <2>2. ~inside
    <3> SUFFICES ASSUME inside PROVE FALSE
      OBVIOUS
    <3>1. w # <<>> /\ w[1] = Byte(snt[h + 1], PrefixSize + Len(rx.bytes) + 1)
      BY DEF Aligned
    <3>2. w[1].at = PrefixSize + Len(rx.bytes) + 1
      BY <3>1 DEF Byte
    <3>3. Len(rx.bytes) \in Nat /\ PrefixSize \in Nat \ {0}
      BY BiggestFacts, LenProperties DEF RxType
    <3>4. w[1].at = 1
      BY <1>3, <1>4, <3>1
    <3> QED
      BY <3>2, <3>3, <3>4
  <2> QED
    BY <1>2, <2>1, <2>2 DEF Aligned
<1>5. CASE n # 0
  <2>1. n \in Nat /\ Len(w) # 0 /\ 1 \in 1 .. n
    BY <1>3, <1>5
  <2>2. w # <<>> /\ v # <<>> /\ v[1] = w[1]
    BY <1>3, <1>5, <2>1
  <2> QED
    BY <1>2, <2>2 DEF Aligned
<1> QED
  BY <1>4, <1>5

(***************************************************************************)
(* The handler is called with what was sent.                                *)
(***************************************************************************)
\* Both invariants, where they are about what this section uses.
Link == TransportInv /\ ChannelInv

\* What the two invariants say of the message sequences.
LEMMA LinkFacts ==
  ASSUME Link
  PROVE  /\ TransportInv /\ Len(handled) \in Nat /\ Len(sent) \in Nat /\ Len(handled) <= Len(sent)
         /\ wire \in Seq(ByteType) /\ sent \in Seq(Message) /\ pipe \in Seq(Command)
         /\ \A k \in 1 .. Len(sent) : sent[k].k = k
         /\ node.rx \in RxType /\ open \in BOOLEAN
         /\ Socket /\ node.state # "DISCONNECTED" =>
              Aligned(node.pc = "payload", node.rx, wire, open, sent, Len(handled))
         /\ ~Socket => PipeInOrder
         /\ node.pc # "payload" => node.rx = NoRx
<1>1. TransportInv /\ ChannelInv
  BY DEF Link
<1>2. handled \in Seq(Message \cup {Garbled}) /\ sent \in Seq(Message) /\ node \in NodeType
  BY <1>1, InvFacts
<1>3. Len(handled) \in Nat /\ Len(sent) \in Nat /\ node.rx \in RxType
  BY <1>2, LenProperties, NodeFields
<1> QED
  BY <1>1, <1>3, InvFacts DEF ChannelInv

\* Steps outside a message that leave the streams alone.
LEMMA StillStep ==
  ASSUME Link, UNCHANGED <<host, wire, open, sent, handled>>,
         node.pc # "payload", node'.pc # "payload", node'.rx = NoRx,
         Socket /\ node'.state # "DISCONNECTED" => node.state # "DISCONNECTED",
         ~Socket => PipeInOrder'
  PROVE  ChannelInv'
<1>1. Socket' = Socket
  BY DEF Socket
<1>2. /\ Len(handled) <= Len(sent) /\ node.rx = NoRx
      /\ Socket /\ node.state # "DISCONNECTED" => Aligned(FALSE, NoRx, wire, open, sent, Len(handled))
  <2>1. (node.pc = "payload") = FALSE
    OBVIOUS
  <2> QED
    BY <2>1, LinkFacts
<1>3. (node'.pc = "payload") = FALSE
  OBVIOUS
<1> QED
  BY <1>1, <1>2, <1>3 DEF ChannelInv

\* A step of the channel, or none.
Maps == [C!Next]_<<sent, handled>>

\* The messages in the pipe do not change if it keeps its messages.
LEMMA PipeKept ==
  ASSUME PipeInOrder, UNCHANGED <<pipe, sent, handled>>
  PROVE  PipeInOrder'
BY DEF PipeInOrder

\* The head of the loop handles nothing and keeps the bytes aligned.
LEMMA LoopLink ==
  ASSUME Link, cc_node_run_loop
  PROVE  ChannelInv' /\ Maps
<1>1. /\ node'.rx \in {node.rx, NoRx} /\ node'.pc \in {"stopped", "wait", "dial"}
      /\ node'.state = node.state \/ (node.state = "NULL" /\ node'.state = "INTERFACE_UP")
      /\ UNCHANGED <<host, pipe, conn, wire, open, sent, handled, asked>>
  BY LinkFacts, LoopEffects
<1>2. node.pc = "loop"
  BY DEF cc_node_run_loop
<1>3. node.rx = NoRx /\ (~Socket => PipeInOrder')
  BY <1>1, <1>2, LinkFacts, PipeKept
<1> QED
  BY <1>1, <1>2, <1>3, StillStep DEF Maps

\* The end of a wait handles nothing and keeps the bytes aligned.
LEMMA WaitLink ==
  ASSUME Link, cc_platform_evt_wait
  PROVE  ChannelInv' /\ Maps
<1>1. node.pc = "wait"
  BY DEF cc_platform_evt_wait
<1>2. node.rx = NoRx
  BY <1>1, LinkFacts
<1>3. /\ node'.rx = node.rx /\ UNCHANGED <<host, pipe, conn, wire, open, sent, handled, asked, fds>>
      /\ node'.pc \in {"wait", "loop", "prefix"}
      /\ node'.state = node.state \/ ~Socket \/ node'.state = "DISCONNECTED"
  <2>1. TransportInv
    BY LinkFacts
  <2> QED
    BY <1>2, <2>1, WaitEffects
<1>4. ~Socket => PipeInOrder'
  BY <1>3, LinkFacts, PipeKept
<1> QED
  BY <1>1, <1>2, <1>3, <1>4, StillStep DEF Maps

\* A new connection starts with no bytes under way, at the start of a message.
LEMMA SocketConnectLink ==
  ASSUME Link, node.pc = "dial", cc_transport_socket_connect, UNCHANGED host
  PROVE  ChannelInv' /\ Maps
<1>1. /\ Socket /\ node'.pc = "wait" /\ node'.rx = node.rx
      /\ NewConnectionMade \/ NoConnectionMade
  <2>1. TransportInv
    BY LinkFacts
  <2> QED
    BY <2>1, SocketConnectEffects
<1>2. node.rx = NoRx /\ Socket' /\ (node'.pc = "payload") = FALSE /\ node'.rx = NoRx
      /\ Len(handled) <= Len(sent)
  BY <1>1, LinkFacts DEF Socket
<1>3. CASE NewConnectionMade
  <2>1. wire' = <<>> /\ sent' = <<>> /\ handled' = <<>>
    BY <1>3 DEF NewConnectionMade
  <2>2. Aligned(FALSE, NoRx, <<>>, open', sent', Len(handled')) /\ Len(handled') <= Len(sent')
    <3>1. Len(handled') <= Len(sent') /\ Len(handled') = Len(sent')
      BY <2>1
    <3> QED
      BY <3>1, AlignedEmpty
  <2>3. ChannelInv'
    BY <1>1, <1>2, <2>1, <2>2 DEF ChannelInv
  <2>4. C!Open
    BY <2>1 DEF C!Open
  <2> QED
    BY <2>3, <2>4 DEF Maps, C!Next
<1>4. CASE NoConnectionMade
  <2>1. wire' = <<>> /\ open' = FALSE /\ UNCHANGED <<sent, handled>>
    BY <1>4 DEF NoConnectionMade
  <2>2. Aligned(FALSE, NoRx, <<>>, FALSE, sent, Len(handled))
    BY <1>2, AlignedEmpty
  <2>3. ChannelInv'
    BY <1>1, <1>2, <2>1, <2>2 DEF ChannelInv
  <2> QED
    BY <2>1, <2>3 DEF Maps
<1> QED
  BY <1>1, <1>3, <1>4

\* A connection over FCM leaves the messages of the pipe in order.
LEMMA FcmConnectLink ==
  ASSUME Link, node.pc = "dial", transport_fcm_connect, UNCHANGED host
  PROVE  ChannelInv' /\ Maps
<1>0. TransportInv
  BY LinkFacts
<1>1. /\ ~Socket /\ node'.pc = "wait" /\ node'.rx = node.rx
      /\ FcmConnectionMade \/ FcmFails
  BY <1>0, FcmConnectEffects
<1>2. node.rx = NoRx /\ ~Socket' /\ node'.pc # "payload" /\ node'.rx = NoRx
  BY <1>1, LinkFacts DEF Socket
<1>3. CASE FcmConnectionMade
  <2>1. /\ sent' = <<>> /\ handled' = <<>> /\ Len(sent') = 0 /\ Len(handled') = 0
    BY <1>3 DEF FcmConnectionMade
  <2>2. \A i \in 1 .. Len(pipe) : pipe[i].cmd # "CM"
    <3>1. Redials(node)
      BY <1>0 DEF TransportInv, ThreadSound, Redials
    <3>2. conn = 0
      BY <1>0, <1>1, <3>1 DEF TransportInv, Budget
    <3> QED
      BY <1>0, <3>2 DEF TransportInv, PipeSound
  <2>3. \A i \in 1 .. Len(pipe') : pipe'[i].cmd # "CM"
    <3>1. fcmTransportConnected \in Command /\ fcmTransportConnected.cmd = "FR"
      BY DEF fcmTransportConnected, Command
    <3>2. pipe' = Append(pipe, fcmTransportConnected) /\ pipe \in Seq(Command)
      BY <1>3, LinkFacts DEF FcmConnectionMade
    <3>3. /\ \A i \in 1 .. Len(pipe) : pipe'[i] = pipe[i]
          /\ pipe'[Len(pipe) + 1] = fcmTransportConnected
          /\ \A i \in 1 .. Len(pipe') : i \in 1 .. Len(pipe) \/ i = Len(pipe) + 1
      BY <3>1, <3>2, AppendFacts
    <3> QED
      BY <2>2, <3>1, <3>3
  <2>4. PipeInOrder'
    BY <2>1, <2>3 DEF PipeInOrder
  <2>5. ChannelInv'
    BY <1>2, <2>1, <2>4 DEF ChannelInv
  <2>6. C!Open
    BY <2>1 DEF C!Open
  <2> QED
    BY <2>5, <2>6 DEF Maps, C!Next
<1>4. CASE FcmFails
  <2>1. UNCHANGED <<wire, open, sent, handled, pipe>>
    BY <1>4 DEF FcmFails
  <2>2. PipeInOrder'
    BY <1>1, <2>1, LinkFacts, PipeKept
  <2> QED
    BY <1>1, <1>2, <2>1, <2>2, StillStep DEF Maps
<1> QED
  BY <1>1, <1>3, <1>4

\* The length is read whole, or the connection is over.
LEMMA PrefixLink ==
  ASSUME Link, Whole, ReadPrefix
  PROVE  ChannelInv' /\ Maps
<1>0. node.pc = "prefix" /\ TransportInv
  BY LinkFacts DEF ReadPrefix
<1>1. /\ Socket /\ (PrefixFails \/ PrefixComes)
      /\ UNCHANGED <<host, open, conn, pipe, sent, handled, asked, fds>>
  BY <1>0, PrefixEffects
<1>2. /\ Len(handled) \in Nat /\ Len(handled) <= Len(sent) /\ wire \in Seq(ByteType) /\ sent \in Seq(Message)
      /\ \A k \in 1 .. Len(sent) : sent[k].k = k
      /\ node.rx = NoRx /\ Socket' /\ Len(wire) \in Nat /\ PrefixSize \in Nat \ {0}
  BY <1>0, <1>1, LinkFacts, ReadingFacts DEF Socket
<1>3. Aligned(FALSE, NoRx, wire, open, sent, Len(handled))
  <2>1. (node.pc = "payload") = FALSE /\ node.state # "DISCONNECTED"
    BY <1>0, ReadingFacts
  <2> QED
    BY <1>1, <1>2, <2>1, LinkFacts
<1>4. Maps
  BY <1>1 DEF Maps
<1>5. CASE PrefixFails
  <2>1. node'.rx = NoRx /\ (node'.pc = "payload") = FALSE
    BY <1>2, <1>5 DEF PrefixFails, Resumed
  <2>2. ASSUME wire = <<>>, wire' = <<>>
        PROVE  ChannelInv'
    BY <1>1, <1>2, <1>3, <2>1, <2>2 DEF ChannelInv
  <2>3. ASSUME host \in SplitHosts
        PROVE  ChannelInv'
    <3>1. node'.state = "DISCONNECTED"
      BY <1>5, <2>3 DEF PrefixFails, Whole
    <3> QED
      BY <1>1, <1>2, <2>1, <3>1 DEF ChannelInv
  <2>4. ASSUME NEW n \in 1 .. PrefixSize - 1, n = Len(wire)
        PROVE  FALSE
    <3>1. wire # <<>>
      BY <1>2, <2>4
    <3>2. PrefixSize <= Len(wire)
      BY <1>2, <1>3, <3>1, AlignedPrefix
    <3> QED
      BY <1>2, <2>4, <3>2
  <2> QED
    BY <1>4, <1>5, <2>2, <2>3, <2>4 DEF PrefixFails
<1>6. CASE PrefixComes
  <2>1. PICK size \in cc_transport_get_message_len(SubSeq(wire, 1, PrefixSize)) :
          node'.rx = [bytes |-> <<>>, size |-> size]
    BY <1>6 DEF PrefixComes
  <2>2. wire' = SubSeq(wire, PrefixSize + 1, Len(wire)) /\ (node'.pc = "payload") = TRUE /\ wire # <<>>
    BY <1>2, <1>6 DEF PrefixComes
  <2>3. \A s \in cc_transport_get_message_len(SubSeq(wire, 1, PrefixSize)) : \A rx :
          rx = [bytes |-> <<>>, size |-> s]
            => Aligned(TRUE, rx, SubSeq(wire, PrefixSize + 1, Len(wire)), open, sent, Len(handled))
    BY <1>2, <1>3, <2>2, AlignedPrefix
  <2>4. Aligned(TRUE, node'.rx, wire', open, sent, Len(handled))
    BY <2>1, <2>2, <2>3
  <2> QED
    BY <1>1, <1>2, <1>4, <2>2, <2>4 DEF ChannelInv
<1> QED
  BY <1>1, <1>5, <1>6

\* A payload that was begun is there, and complete it is the next message.
LEMMA PayloadLink ==
  ASSUME Link, ReadPayload
  PROVE  ChannelInv' /\ Maps
<1>0. node.pc = "payload" /\ TransportInv
  BY LinkFacts DEF ReadPayload
<1>1. /\ Socket /\ (PayloadFails \/ PayloadComes)
      /\ UNCHANGED <<host, open, conn, pipe, sent, asked, fds, faults>>
  BY <1>0, PayloadEffects
<1>2. /\ Len(handled) \in Nat /\ Len(handled) <= Len(sent) /\ wire \in Seq(ByteType) /\ sent \in Seq(Message)
      /\ \A k \in 1 .. Len(sent) : sent[k].k = k
      /\ node.rx \in RxType /\ Socket' /\ Len(sent) \in Nat
  BY <1>0, <1>1, LinkFacts DEF Socket
<1>3. Aligned(TRUE, node.rx, wire, open, sent, Len(handled))
  <2>1. (node.pc = "payload") = TRUE /\ node.state # "DISCONNECTED"
    BY <1>0, ReadingFacts
  <2> QED
    BY <1>1, <1>2, <2>1, LinkFacts
<1>4. wire # <<>>
  BY <1>3 DEF Aligned
<1>5. PayloadComes
  BY <1>1, <1>4 DEF PayloadFails
<1>6. PICK n \in 1 .. node.rx.size - Len(node.rx.bytes) :
        /\ n <= Len(wire) /\ wire' = SubSeq(wire, n + 1, Len(wire))
        /\ \/ /\ Len(Bytes(n)) = node.rx.size /\ handled' = Append(handled, Whose(Bytes(n)))
              /\ node'.rx = NoRx /\ Resumed(node')
           \/ /\ Len(Bytes(n)) < node.rx.size /\ handled' = handled
              /\ node'.pc = "payload" /\ node'.rx = [bytes |-> Bytes(n), size |-> node.rx.size]
  BY <1>5 DEF PayloadComes
<1> DEFINE bytes == Bytes(n)
<1>7. Joined(node.rx, wire, n, wire', bytes)
  <2>1. /\ Bytes(n) \in Seq(ByteType) /\ Len(Bytes(n)) = Len(node.rx.bytes) + n
        /\ \A i \in 1 .. Len(Bytes(n)) :
             Bytes(n)[i] = IF i <= Len(node.rx.bytes) THEN node.rx.bytes[i] ELSE wire[i - Len(node.rx.bytes)]
    BY <1>0, <1>6, BytesFacts
  <2> QED
    BY <1>6, <2>1 DEF Joined
<1>8. \/ /\ Len(bytes) = node.rx.size /\ handled' = Append(handled, Whose(bytes))
         /\ node'.rx = NoRx /\ Resumed(node')
      \/ /\ Len(bytes) < node.rx.size /\ handled' = handled
         /\ node'.pc = "payload" /\ node'.rx = [bytes |-> bytes, size |-> node.rx.size]
  BY <1>6
<1> HIDE DEF bytes
<1>9. /\ Len(handled) < Len(sent)
      /\ Len(bytes) < node.rx.size =>
           Aligned(TRUE, [bytes |-> bytes, size |-> node.rx.size], wire', open, sent, Len(handled))
      /\ Len(bytes) = node.rx.size =>
           Whose(bytes) = sent[Len(handled) + 1] /\ Aligned(FALSE, NoRx, wire', open, sent, Len(handled) + 1)
  <2>1. Came(node.rx, wire', bytes, open, sent, Len(handled))
    BY <1>2, <1>3, <1>7, AlignedPayload
  <2> QED
    BY <2>1 DEF Came
<1>10. CASE /\ Len(bytes) = node.rx.size /\ handled' = Append(handled, Whose(bytes))
            /\ node'.rx = NoRx /\ Resumed(node')
  <2>1. handled' = Append(handled, sent[Len(handled) + 1])
    BY <1>9, <1>10
  <2>2. Len(handled') = Len(handled) + 1 /\ Len(handled') <= Len(sent)
    <3>1. handled \in Seq(Message \cup {Garbled}) /\ Len(handled) + 1 \in 1 .. Len(sent)
      BY <1>0, <1>2, <1>9, InvFacts
    <3>2. sent[Len(handled) + 1] \in Message \cup {Garbled}
      BY <1>2, <3>1, ElementOfSeq
    <3> QED
      BY <1>2, <1>9, <2>1, <3>1, <3>2, AppendFacts
  <2>3. (node'.pc = "payload") = FALSE /\ node'.rx = NoRx
    BY <1>10 DEF Resumed
  <2>4. ChannelInv'
    BY <1>1, <1>2, <1>9, <1>10, <2>2, <2>3 DEF ChannelInv
  <2>5. C!Handle
    BY <1>1, <1>9, <2>1 DEF C!Handle
  <2> QED
    BY <2>4, <2>5 DEF Maps, C!Next
<1>11. CASE /\ Len(bytes) < node.rx.size /\ handled' = handled
            /\ node'.pc = "payload" /\ node'.rx = [bytes |-> bytes, size |-> node.rx.size]
  <2>1. Aligned(TRUE, node'.rx, wire', open', sent', Len(handled')) /\ (node'.pc = "payload") = TRUE
    BY <1>1, <1>9, <1>11
  <2>2. ChannelInv'
    BY <1>1, <1>2, <1>11, <2>1 DEF ChannelInv
  <2> QED
    BY <1>1, <1>11, <2>2 DEF Maps
<1> QED
  BY <1>8, <1>10, <1>11

\* The head of the pipe, if it is a message, is the next one; the others are
\* the ones behind it.
LEMMA HeadIsNext ==
  ASSUME Link, ~Socket, pipe # <<>>, Head(pipe).cmd = "CM",
         UNCHANGED <<host, sent>>, pipe' = Tail(pipe), handled' = Append(handled, Head(pipe).m)
  PROVE  /\ Len(handled) < Len(sent) /\ Head(pipe).m = sent[Len(handled) + 1]
         /\ Len(handled') = Len(handled) + 1 /\ PipeInOrder'
<1> DEFINE c == Head(pipe)
           h == Len(handled)
<1>1. /\ pipe \in Seq(Command) /\ PipeInOrder /\ h \in Nat /\ Len(sent) \in Nat /\ TransportInv
  BY LinkFacts
<1>2. /\ pipe' \in Seq(Command) /\ Len(pipe') = Len(pipe) - 1 /\ Len(pipe') \in Nat /\ Len(pipe) \in Nat \ {0}
      /\ \A i \in 1 .. Len(pipe') : i + 1 \in 1 .. Len(pipe) /\ pipe'[i] = pipe[i + 1]
      /\ c = pipe[1] /\ 1 \in 1 .. Len(pipe)
  BY <1>1, TailFacts
<1>3. c.m \in Message
  <2>1. c \in Command
    BY <1>1, <1>2, ElementOfSeq
  <2> QED
    BY <2>1, CommandFields
<1>4. Len(handled') = h + 1
  <2>1. handled \in Seq(Message \cup {Garbled}) /\ c.m \in Message \cup {Garbled} /\ handled' = Append(handled, c.m)
    BY <1>1, <1>3, InvFacts
  <2> QED
    BY <2>1, AppendFacts
<1> HIDE DEF c
<1>5. pipe[1].cmd = "CM"
  BY <1>2 DEF c
<1>6. /\ \A i \in 1 .. Len(pipe) : pipe[i].cmd = "CM" =>
           /\ pipe[i].m.k \in h + 1 .. Len(sent) /\ pipe[i].m = sent[pipe[i].m.k]
           /\ \A j \in 1 .. Len(pipe) : pipe[j].cmd = "CM" /\ i < j => pipe[i].m.k < pipe[j].m.k
      /\ \A k \in h + 1 .. Len(sent) : \E i \in 1 .. Len(pipe) : pipe[i].cmd = "CM" /\ pipe[i].m.k = k
  BY <1>1 DEF PipeInOrder
<1> HIDE DEF h
<1>7. h + 1 \in h + 1 .. Len(sent) /\ h < Len(sent) /\ pipe[1].m.k = h + 1
  <2>1. pipe[1].m.k \in h + 1 .. Len(sent)
    BY <1>2, <1>5, <1>6
  <2>2. h + 1 \in h + 1 .. Len(sent) /\ h < Len(sent)
    BY <1>1, <2>1
  <2>3. PICK i \in 1 .. Len(pipe) : pipe[i].cmd = "CM" /\ pipe[i].m.k = h + 1
    BY <1>6, <2>2
  <2>4. i = 1 \/ 1 < i
    BY <1>2
  <2>5. 1 < i => pipe[1].m.k < h + 1
    BY <1>2, <1>5, <1>6, <2>3
  <2> QED
    BY <1>1, <2>1, <2>2, <2>3, <2>4, <2>5
<1>8. c.m = sent[h + 1]
  BY <1>2, <1>5, <1>6, <1>7
<1>9. ASSUME NEW i \in 1 .. Len(pipe'), pipe'[i].cmd = "CM"
      PROVE  /\ pipe'[i].m.k \in (h + 1) + 1 .. Len(sent) /\ pipe'[i].m = sent[pipe'[i].m.k]
             /\ \A j \in 1 .. Len(pipe') : pipe'[j].cmd = "CM" /\ i < j => pipe'[i].m.k < pipe'[j].m.k
  <2>1. i + 1 \in 1 .. Len(pipe) /\ pipe'[i] = pipe[i + 1] /\ 1 < i + 1
    BY <1>2
  <2>2. pipe[1].m.k < pipe[i + 1].m.k /\ pipe[i + 1].m.k \in h + 1 .. Len(sent)
        /\ pipe[i + 1].m = sent[pipe[i + 1].m.k]
    BY <1>2, <1>5, <1>6, <1>9, <2>1
  <2>3. pipe[i + 1].m.k \in (h + 1) + 1 .. Len(sent)
    BY <1>1, <1>7, <2>2
  <2>4. ASSUME NEW j \in 1 .. Len(pipe'), pipe'[j].cmd = "CM", i < j
        PROVE  pipe'[i].m.k < pipe'[j].m.k
    <3>1. j + 1 \in 1 .. Len(pipe) /\ pipe'[j] = pipe[j + 1] /\ i + 1 < j + 1
      BY <1>2, <2>4
    <3> QED
      BY <1>6, <1>9, <2>1, <2>4, <3>1
  <2> QED
    BY <2>1, <2>2, <2>3, <2>4
<1>10. ASSUME NEW k \in (h + 1) + 1 .. Len(sent)
       PROVE  \E i \in 1 .. Len(pipe') : pipe'[i].cmd = "CM" /\ pipe'[i].m.k = k
  <2>1. k \in h + 1 .. Len(sent) /\ k # h + 1
    BY <1>1
  <2>2. PICK i \in 1 .. Len(pipe) : pipe[i].cmd = "CM" /\ pipe[i].m.k = k
    BY <1>6, <2>1
  <2>3. i # 1
    BY <1>7, <2>1, <2>2
  <2>4. i - 1 \in 1 .. Len(pipe') /\ (i - 1) + 1 = i
    BY <1>2, <2>3
  <2>5. pipe'[i - 1] = pipe[i]
    BY <1>2, <2>4
  <2> QED
    BY <2>2, <2>4, <2>5
<1>11. PipeInOrder'
  <2>1. /\ \A i \in 1 .. Len(pipe') : pipe'[i].cmd = "CM" =>
             /\ pipe'[i].m.k \in Len(handled') + 1 .. Len(sent') /\ pipe'[i].m = sent'[pipe'[i].m.k]
             /\ \A j \in 1 .. Len(pipe') : pipe'[j].cmd = "CM" /\ i < j => pipe'[i].m.k < pipe'[j].m.k
        /\ \A k \in Len(handled') + 1 .. Len(sent') :
             \E i \in 1 .. Len(pipe') : pipe'[i].cmd = "CM" /\ pipe'[i].m.k = k
    BY <1>4, <1>9, <1>10
  <2> QED
    BY <2>1 DEF PipeInOrder
<1> QED
  BY <1>4, <1>7, <1>8, <1>11 DEF c, h

\* Another command at the head of the pipe leaves the messages as they are.
LEMMA HeadIsOther ==
  ASSUME PipeInOrder, pipe \in Seq(Command), pipe # <<>>, Head(pipe).cmd # "CM",
         pipe' = Tail(pipe), UNCHANGED <<sent, handled>>
  PROVE  PipeInOrder'
<1> DEFINE lo == Len(handled) + 1 .. Len(sent)
<1>1. /\ Len(pipe') = Len(pipe) - 1 /\ Len(pipe') \in Nat /\ Len(pipe) \in Nat \ {0}
      /\ \A i \in 1 .. Len(pipe') : i + 1 \in 1 .. Len(pipe) /\ pipe'[i] = pipe[i + 1]
      /\ pipe[1].cmd # "CM"
  BY TailFacts
<1>2. /\ \A i \in 1 .. Len(pipe) : pipe[i].cmd = "CM" =>
           /\ pipe[i].m.k \in lo /\ pipe[i].m = sent[pipe[i].m.k]
           /\ \A j \in 1 .. Len(pipe) : pipe[j].cmd = "CM" /\ i < j => pipe[i].m.k < pipe[j].m.k
      /\ \A k \in lo : \E i \in 1 .. Len(pipe) : pipe[i].cmd = "CM" /\ pipe[i].m.k = k
  BY DEF PipeInOrder
<1>3. lo = (Len(handled) + 1 .. Len(sent))'
  OBVIOUS
<1> HIDE DEF lo
<1>4. ASSUME NEW i \in 1 .. Len(pipe'), pipe'[i].cmd = "CM"
      PROVE  /\ pipe'[i].m.k \in lo /\ pipe'[i].m = sent[pipe'[i].m.k]
             /\ \A j \in 1 .. Len(pipe') : pipe'[j].cmd = "CM" /\ i < j => pipe'[i].m.k < pipe'[j].m.k
  <2>1. i + 1 \in 1 .. Len(pipe) /\ pipe'[i] = pipe[i + 1]
    BY <1>1
  <2>2. ASSUME NEW j \in 1 .. Len(pipe'), pipe'[j].cmd = "CM", i < j
        PROVE  pipe'[i].m.k < pipe'[j].m.k
    <3>1. j + 1 \in 1 .. Len(pipe) /\ pipe'[j] = pipe[j + 1] /\ i + 1 < j + 1
      BY <1>1, <2>2
    <3> QED
      BY <1>2, <1>4, <2>1, <2>2, <3>1
  <2> QED
    BY <1>2, <1>4, <2>1, <2>2
<1>5. ASSUME NEW k \in lo
      PROVE  \E i \in 1 .. Len(pipe') : pipe'[i].cmd = "CM" /\ pipe'[i].m.k = k
  <2>1. PICK i \in 1 .. Len(pipe) : pipe[i].cmd = "CM" /\ pipe[i].m.k = k
    BY <1>2
  <2>2. i - 1 \in 1 .. Len(pipe') /\ (i - 1) + 1 = i
    BY <1>1, <2>1
  <2>3. pipe'[i - 1] = pipe[i]
    BY <1>1, <2>2
  <2> QED
    BY <2>1, <2>2, <2>3
<1> QED
  BY <1>3, <1>4, <1>5 DEF PipeInOrder

\* Commands of Java.
LEMMA CallLink ==
  ASSUME Link, handle_platform_call
  PROVE  ChannelInv' /\ Maps
<1> DEFINE c == Head(pipe)
<1>0. TransportInv /\ node.pc = "wait"
  BY LinkFacts DEF handle_platform_call
<1>1. /\ Polled /\ pipe # <<>> /\ c \in Command /\ pipe' = Tail(pipe) /\ CallHandled(c)
      /\ UNCHANGED <<host, wire, open, conn, sent, fds, faults>>
  BY <1>0, CallEffects
<1>2. node.rx = NoRx /\ Socket' = Socket /\ node.state # "DISCONNECTED" /\ pipe \in Seq(Command)
  BY <1>0, <1>1, LinkFacts DEF Socket, Polled
<1>3. /\ node'.rx = NoRx /\ node'.pc # "payload"
      /\ handled' = IF c.cmd = "CM" THEN Append(handled, c.m) ELSE handled
  BY <1>1, <1>2 DEF CallHandled, Resumed
<1>4. CASE c.cmd # "CM"
  <2>1. handled' = handled
    BY <1>3, <1>4
  <2>2. ~Socket => PipeInOrder'
    BY <1>1, <1>2, <1>4, <2>1, LinkFacts, HeadIsOther
  <2>3. UNCHANGED <<host, wire, open, sent, handled>>
    BY <1>1, <2>1
  <2>4. ChannelInv'
    BY <1>0, <1>2, <1>3, <2>2, <2>3, StillStep
  <2> QED
    BY <2>3, <2>4 DEF Maps
<1>5. CASE c.cmd = "CM"
  <2>1. ~Socket
    <3>1. 1 \in 1 .. Len(pipe) /\ c = pipe[1]
      BY <1>1, <1>2, TailFacts
    <3> QED
      BY <1>0, <1>5, <3>1 DEF TransportInv, PipeSound
  <2>2. handled' = Append(handled, c.m)
    BY <1>3, <1>5
  <2>3. /\ Len(handled) < Len(sent) /\ c.m = sent[Len(handled) + 1]
        /\ Len(handled') = Len(handled) + 1 /\ PipeInOrder'
    BY <1>1, <1>5, <2>1, <2>2, HeadIsNext
  <2>4. Len(handled') <= Len(sent')
    BY <1>1, <2>3, LinkFacts
  <2>5. ChannelInv'
    BY <1>2, <1>3, <2>1, <2>3, <2>4 DEF ChannelInv
  <2>6. C!Handle
    BY <1>1, <2>2, <2>3 DEF C!Handle
  <2> QED
    BY <2>5, <2>6 DEF Maps, C!Next
<1> QED
  BY <1>4, <1>5

\* A message put into the pipe is behind the others.
LEMMA PipeSend ==
  ASSUME Link, ~Socket, NEW x \in Message, x.k = Len(sent) + 1, sent' = Append(sent, x),
         pipe' = Append(pipe, runtimeCalvinPayload(x)), UNCHANGED handled
  PROVE  PipeInOrder'
<1> DEFINE c == runtimeCalvinPayload(x)
           h == Len(handled)
<1>1. /\ pipe \in Seq(Command) /\ PipeInOrder /\ h \in Nat /\ Len(sent) \in Nat /\ sent \in Seq(Message) /\ h <= Len(sent)
  BY LinkFacts
<1>2. c \in Command /\ c.cmd = "CM" /\ c.m = x
  BY DEF runtimeCalvinPayload, Command
<1>3. pipe' = Append(pipe, c)
  OBVIOUS
<1> HIDE DEF c
<1>4. /\ Len(pipe') = Len(pipe) + 1 /\ Len(pipe) \in Nat
      /\ \A i \in 1 .. Len(pipe) : pipe'[i] = pipe[i]
      /\ pipe'[Len(pipe) + 1] = c
      /\ \A i \in 1 .. Len(pipe') : i \in 1 .. Len(pipe) \/ i = Len(pipe) + 1
  BY <1>1, <1>2, <1>3, AppendFacts
<1>5. /\ Len(sent') = Len(sent) + 1
      /\ \A i \in 1 .. Len(sent) : sent'[i] = sent[i]
      /\ sent'[Len(sent) + 1] = x
  BY <1>1, AppendFacts
<1>6. /\ \A i \in 1 .. Len(pipe) : pipe[i].cmd = "CM" =>
           /\ pipe[i].m.k \in h + 1 .. Len(sent) /\ pipe[i].m = sent[pipe[i].m.k]
           /\ \A j \in 1 .. Len(pipe) : pipe[j].cmd = "CM" /\ i < j => pipe[i].m.k < pipe[j].m.k
      /\ \A k \in h + 1 .. Len(sent) : \E i \in 1 .. Len(pipe) : pipe[i].cmd = "CM" /\ pipe[i].m.k = k
  BY <1>1 DEF PipeInOrder
<1> HIDE DEF h
<1>7. ASSUME NEW i \in 1 .. Len(pipe), pipe[i].cmd = "CM"
      PROVE  /\ pipe[i].m.k \in h + 1 .. Len(sent') /\ pipe[i].m = sent'[pipe[i].m.k]
             /\ \A j \in 1 .. Len(pipe') : pipe'[j].cmd = "CM" /\ i < j => pipe[i].m.k < pipe'[j].m.k
  <2>1. pipe[i].m.k \in h + 1 .. Len(sent) /\ pipe[i].m = sent[pipe[i].m.k]
    BY <1>6, <1>7
  <2>2. pipe[i].m.k \in h + 1 .. Len(sent') /\ pipe[i].m.k \in 1 .. Len(sent) /\ pipe[i].m.k < x.k
    BY <1>1, <1>5, <2>1
  <2>3. ASSUME NEW j \in 1 .. Len(pipe'), pipe'[j].cmd = "CM", i < j
        PROVE  pipe[i].m.k < pipe'[j].m.k
    <3>1. CASE j \in 1 .. Len(pipe)
      BY <1>4, <1>6, <1>7, <2>3, <3>1
    <3>2. CASE j = Len(pipe) + 1
      BY <1>2, <1>4, <2>2, <3>2
    <3> QED
      BY <1>4, <3>1, <3>2
  <2> QED
    BY <1>5, <2>1, <2>2, <2>3
<1>8. ASSUME NEW i \in 1 .. Len(pipe'), pipe'[i].cmd = "CM"
      PROVE  /\ pipe'[i].m.k \in h + 1 .. Len(sent') /\ pipe'[i].m = sent'[pipe'[i].m.k]
             /\ \A j \in 1 .. Len(pipe') : pipe'[j].cmd = "CM" /\ i < j => pipe'[i].m.k < pipe'[j].m.k
  <2>1. CASE i \in 1 .. Len(pipe)
    BY <1>4, <1>7, <1>8, <2>1
  <2>2. CASE i = Len(pipe) + 1
    <3>1. pipe'[i].m = x /\ x.k \in h + 1 .. Len(sent') /\ x = sent'[x.k]
      BY <1>1, <1>2, <1>4, <1>5, <2>2
    <3>2. \A j \in 1 .. Len(pipe') : ~(i < j)
      BY <1>4, <2>2
    <3> QED
      BY <3>1, <3>2
  <2> QED
    BY <1>4, <2>1, <2>2
<1>9. ASSUME NEW k \in h + 1 .. Len(sent')
      PROVE  \E i \in 1 .. Len(pipe') : pipe'[i].cmd = "CM" /\ pipe'[i].m.k = k
  <2>1. CASE k \in h + 1 .. Len(sent)
    <3>1. PICK i \in 1 .. Len(pipe) : pipe[i].cmd = "CM" /\ pipe[i].m.k = k
      BY <1>6, <2>1
    <3>2. i \in 1 .. Len(pipe') /\ pipe'[i] = pipe[i]
      BY <1>4, <3>1
    <3> QED
      BY <3>1, <3>2
  <2>2. CASE k = Len(sent) + 1
    <3>1. Len(pipe) + 1 \in 1 .. Len(pipe')
      BY <1>4
    <3> QED
      BY <1>2, <1>4, <2>2, <3>1
  <2> QED
    BY <1>1, <1>5, <2>1, <2>2
<1>10. Len(handled') = h
  BY DEF h
<1> QED
  BY <1>8, <1>9, <1>10 DEF PipeInOrder

\* A message of the proxy goes behind everything under way.
LEMMA SendsLink ==
  ASSUME Link, ProxySends
  PROVE  ChannelInv' /\ Maps
<1>0. TransportInv
  BY LinkFacts
<1>1. /\ open /\ node.state \in {"PENDING", "ENABLED"}
      /\ UNCHANGED <<host, node, open, conn, handled, asked, fds, faults>>
  BY <1>0, SendsEffects
<1>2. PICK x \in Message : Sends(x)
  BY <1>0, SendsEffects
<1>3. /\ x.k = Len(sent) + 1 /\ sent' = Append(sent, x)
      /\ IF Socket THEN wire' = wire \o Framed(x) /\ UNCHANGED pipe
         ELSE pipe' = Append(pipe, runtimeCalvinPayload(x)) /\ UNCHANGED wire
  BY <1>2 DEF Sends
<1>4. /\ wire \in Seq(ByteType) /\ sent \in Seq(Message) /\ node.rx \in RxType /\ Len(handled) \in Nat
      /\ Socket' = Socket /\ Len(handled) <= Len(sent) /\ Len(sent) \in Nat
  BY <1>1, LinkFacts DEF Socket
<1>5. Len(sent') = Len(sent) + 1
  BY <1>3, <1>4, AppendFacts
<1>6. Len(handled') <= Len(sent')
  BY <1>1, <1>4, <1>5
<1>7. C!Next
  <2>1. C!Send(x)
    BY <1>1, <1>3 DEF C!Send
  <2> QED
    BY <2>1 DEF C!Next
<1>8. CASE Socket
  <2>1. wire' = wire \o Framed(x) /\ open = TRUE
    BY <1>0, <1>1, <1>3, <1>8, InvFacts
  <2> DEFINE inside == node.pc = "payload"
  <2>2. Aligned(inside, node.rx, wire, TRUE, sent, Len(handled)) /\ inside \in BOOLEAN
    BY <1>1, <1>8, <2>1, LinkFacts
  <2> HIDE DEF inside
  <2>3. Aligned(inside, node.rx, wire', TRUE, sent', Len(handled))
    BY <1>3, <1>4, <2>1, <2>2, AlignedSend
  <2>4. ChannelInv'
    BY <1>1, <1>4, <1>6, <1>8, <2>1, <2>3, LinkFacts DEF ChannelInv, inside
  <2> QED
    BY <1>7, <2>4 DEF Maps
<1>9. CASE ~Socket
  <2>1. PipeInOrder'
    BY <1>1, <1>3, <1>9, PipeSend
  <2>2. ChannelInv'
    BY <1>1, <1>4, <1>6, <1>9, <2>1, LinkFacts DEF ChannelInv
  <2> QED
    BY <1>7, <2>2 DEF Maps
<1> QED
  BY <1>8, <1>9

\* A connection that ends between two messages leaves a prefix of what was under way.
LEMMA CutLink ==
  ASSUME Link, Whole, Cut
  PROVE  ChannelInv' /\ Maps
<1>1. /\ Socket /\ open' = FALSE /\ UNCHANGED <<host, node, conn, pipe, sent, handled, asked, fds>>
  BY DEF Cut
<1>2. PICK n \in 0 .. Len(wire) : (n < Len(wire) => wire[n + 1].at = 1) /\ wire' = SubSeq(wire, 1, n)
  BY DEF Cut, Whole
<1>3. /\ wire \in Seq(ByteType) /\ sent \in Seq(Message) /\ node.rx \in RxType /\ Len(handled) \in Nat
      /\ Socket' = Socket /\ Len(handled) <= Len(sent)
  BY <1>1, LinkFacts DEF Socket
<1>4. ASSUME node.state # "DISCONNECTED"
      PROVE  Aligned(node.pc = "payload", node.rx, wire', FALSE, sent, Len(handled))
  <2> DEFINE inside == node.pc = "payload"
  <2>1. Aligned(inside, node.rx, wire, open, sent, Len(handled)) /\ inside \in BOOLEAN
    BY <1>1, <1>4, LinkFacts
  <2> HIDE DEF inside
  <2>2. Aligned(inside, node.rx, wire', FALSE, sent, Len(handled))
    BY <1>2, <1>3, <2>1, AlignedCut
  <2> QED
    BY <2>2 DEF inside
<1>5. ChannelInv'
  BY <1>1, <1>3, <1>4, LinkFacts DEF ChannelInv
<1> QED
  BY <1>1, <1>5 DEF Maps

\* A command of the Java side does not come between two messages out of order.
LEMMA JavaLink ==
  ASSUME Link, JavaCommands
  PROVE  ChannelInv' /\ Maps
<1>1. UNCHANGED <<host, node, wire, open, conn, sent, handled, asked, fds>>
  BY DEF JavaCommands
<1>2. PICK cmd \in {"RC", "RS"} : pipe' = Append(pipe, [cmd |-> cmd])
  BY DEF JavaCommands
<1> DEFINE c == [cmd |-> cmd]
<1>3. c \in Command /\ c.cmd # "CM"
  BY DEF Command
<1>4. pipe' = Append(pipe, c) /\ pipe \in Seq(Command) /\ Socket' = Socket
  BY <1>1, <1>2, LinkFacts DEF Socket
<1> HIDE DEF c
<1>5. /\ Len(pipe') = Len(pipe) + 1 /\ Len(pipe) \in Nat
      /\ \A i \in 1 .. Len(pipe) : pipe'[i] = pipe[i]
      /\ pipe'[Len(pipe) + 1] = c
      /\ \A i \in 1 .. Len(pipe') : i \in 1 .. Len(pipe) \/ i = Len(pipe) + 1
  BY <1>3, <1>4, AppendFacts
<1>6. /\ \A i \in 1 .. Len(pipe') : pipe'[i].cmd = "CM" => i \in 1 .. Len(pipe) /\ pipe'[i] = pipe[i]
      /\ \A i \in 1 .. Len(pipe) : i \in 1 .. Len(pipe') /\ pipe'[i] = pipe[i]
  BY <1>3, <1>5
<1>7. PipeInOrder => PipeInOrder'
  BY <1>1, <1>6, ZenonT(60) DEF PipeInOrder
<1>8. ChannelInv'
  BY <1>1, <1>4, <1>7, LinkFacts DEF ChannelInv
<1> QED
  BY <1>1, <1>8 DEF Maps

\* The invariant holds in the beginning; every step preserves it, and is one of
\* the channel.
LEMMA ChannelInit == Init => ChannelInv /\ C!Init
<1> SUFFICES ASSUME Init PROVE ChannelInv /\ C!Init
  OBVIOUS
<1>1. /\ wire = <<>> /\ sent = <<>> /\ handled = <<>> /\ pipe = <<>> /\ open = FALSE
      /\ node.pc = "loop" /\ node.rx = NoRx
  BY DEF Init
<1>2. (node.pc = "payload") = FALSE /\ Len(sent) = 0 /\ Len(handled) = 0 /\ Len(pipe) = 0
  BY <1>1
<1>3. Aligned(FALSE, NoRx, wire, open, sent, Len(handled)) /\ Len(handled) <= Len(sent)
  <2>1. Len(handled) <= Len(sent) /\ Len(handled) = Len(sent)
    BY <1>2
  <2>2. Aligned(FALSE, NoRx, <<>>, open, sent, Len(handled))
    BY <2>1, AlignedEmpty
  <2> QED
    BY <1>1, <2>1, <2>2
<1>4. PipeInOrder
  BY <1>2 DEF PipeInOrder
<1>5. C!Init
  BY <1>1 DEF C!Init
<1> QED
  BY <1>1, <1>2, <1>3, <1>4, <1>5 DEF ChannelInv

\* Every step keeps the second invariant and is a step, or a stutter, of the channel.
LEMMA ChannelNext == ASSUME Whole, TransportInv, ChannelInv, [Next]_vars PROVE ChannelInv' /\ Maps
<1>0. Link
  BY DEF Link
<1>1. CASE cc_node_run_loop
  BY <1>0, <1>1, LoopLink
<1>2. CASE Connect
  BY <1>0, <1>2, SocketConnectLink, FcmConnectLink DEF Connect
<1>3. CASE cc_platform_evt_wait
  BY <1>0, <1>3, WaitLink
<1>4. CASE ReadPrefix
  BY <1>0, <1>4, PrefixLink
<1>5. CASE ReadPayload
  BY <1>0, <1>5, PayloadLink
<1>6. CASE handle_platform_call
  BY <1>0, <1>6, CallLink
<1>7. CASE ProxySends
  BY <1>0, <1>7, SendsLink
<1>8. CASE Cut
  BY <1>0, <1>8, CutLink
<1>9. CASE JavaCommands
  BY <1>0, <1>9, JavaLink
<1>10. CASE UNCHANGED vars
  BY <1>10 DEF vars, ChannelInv, PipeInOrder, Socket, Maps
<1> QED
  BY <1>1, <1>2, <1>3, <1>4, <1>5, <1>6, <1>7, <1>8, <1>9, <1>10 DEF Next, NodeStep

\* Connections that end between messages, on platforms whose reads return a
\* whole length: the handler is called with the messages that were sent, in
\* order, each once, for any sizes and however the stream is cut into reads.
THEOREM HandledIsSent ==
  ASSUME Whole
  PROVE  Spec => ImplementsChannel
<1>1. Init => TransportInv /\ ChannelInv /\ C!Init
  BY TransportInit, ChannelInit
<1>2. TransportInv /\ ChannelInv /\ [Next]_vars => TransportInv' /\ ChannelInv' /\ [C!Next]_(C!vars)
  BY TransportNext, ChannelNext DEF Maps, C!vars
<1> QED
  BY <1>1, <1>2, PTL DEF Spec, ImplementsChannel, C!Spec

\* What is handled is a message.
HandlesMessages == handled \in Seq(Message)

\* No step handles anything but a message.
LEMMA HandlesNext ==
  ASSUME Whole, TransportInv, ChannelInv, HandlesMessages, [Next]_vars
  PROVE  HandlesMessages'
<1>1. Maps
  BY ChannelNext
<1>2. sent \in Seq(Message) /\ handled \in Seq(Message) /\ Len(handled) \in Nat /\ Len(sent) \in Nat
  BY InvFacts, LenProperties DEF HandlesMessages
<1>3. CASE C!Handle
  <2>1. Len(handled) + 1 \in 1 .. Len(sent) /\ handled' = Append(handled, sent[Len(handled) + 1])
    BY <1>2, <1>3 DEF C!Handle
  <2>2. sent[Len(handled) + 1] \in Message
    BY <1>2, <2>1, ElementOfSeq
  <2> QED
    BY <1>2, <2>1, <2>2, AppendFacts DEF HandlesMessages
<1>4. CASE C!Open
  BY <1>4, EmptySeq DEF C!Open, HandlesMessages
<1>5. CASE UNCHANGED handled
  BY <1>5 DEF HandlesMessages
<1>6. ASSUME NEW m \in Message, C!Send(m) PROVE UNCHANGED handled
  BY <1>6 DEF C!Send
<1> QED
  BY <1>1, <1>3, <1>4, <1>5, <1>6 DEF Maps, C!Next

\* On such connections the handler is never called with anything but a complete
\* message ("calls handler when a compelete message has been received").
THEOREM OnlyComplete ==
  ASSUME Whole
  PROVE  Spec => []CompleteMessages
<1> DEFINE Inv == TransportInv /\ ChannelInv /\ HandlesMessages
<1>1. Init => Inv
  <2>1. Init => HandlesMessages
    BY EmptySeq DEF Init, HandlesMessages
  <2> QED
    BY <2>1, TransportInit, ChannelInit
<1>2. Inv /\ [Next]_vars => Inv'
  BY TransportNext, ChannelNext, HandlesNext
<1>3. Inv => CompleteMessages
  <2>1. Garbled \notin Message
    BY DEF Garbled, Message
  <2>2. HandlesMessages => \A i \in 1 .. Len(handled) : handled[i] \in Message
    BY ElementOfSeq DEF HandlesMessages
  <2> QED
    BY <2>1, <2>2 DEF CompleteMessages
<1> QED
  BY <1>1, <1>2, <1>3, PTL DEF Spec
=============================================================================
