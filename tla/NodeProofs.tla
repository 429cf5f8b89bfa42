---------------------------- MODULE NodeProofs ----------------------------
(***************************************************************************)
(* Proofs about module Node, for any proxies, URIs and bounds.              *)
(***************************************************************************)
EXTENDS Node, DataInduction

(***************************************************************************)
(* Messages under way.                                                      *)
(***************************************************************************)
\* One more message.
LEMMA AppendFacts ==
  ASSUME NEW S, NEW s \in Seq(S), NEW m \in S, NEW r, r = Append(s, m)
  PROVE  /\ r \in Seq(S)
         /\ \A t : NoneAbout(r, t) <=> NoneAbout(s, t) /\ ~About(m, t)
         /\ \A t : OnceAbout(s, t) /\ (~About(m, t) \/ NoneAbout(s, t)) => OnceAbout(r, t)
         /\ \A T : Has(r, T) <=> Has(s, T) \/ m.type \in T
         /\ Accepted(r) <=> Accepted(s) \/ Accepts(m)
<1> DEFINE n == Len(s)
<1>1. n \in Nat /\ r \in Seq(S) /\ Len(r) = n + 1 /\ r[n + 1] = m /\ \A i \in 1 .. n : r[i] = s[i]
  OBVIOUS
<1>2. 1 .. n + 1 = (1 .. n) \cup {n + 1} /\ n + 1 \notin 1 .. n
  BY <1>1
<1> HIDE DEF n
<1>3. ASSUME NEW t
      PROVE  /\ NoneAbout(r, t) <=> NoneAbout(s, t) /\ ~About(m, t)
             /\ OnceAbout(s, t) /\ (~About(m, t) \/ NoneAbout(s, t)) => OnceAbout(r, t)
  <2>1. NoneAbout(r, t) <=> NoneAbout(s, t) /\ ~About(m, t)
    BY <1>1, <1>2 DEF NoneAbout, n
  <2>2. ASSUME OnceAbout(s, t), ~About(m, t) \/ NoneAbout(s, t)
        PROVE  OnceAbout(r, t)
    BY <1>1, <1>2, <2>2 DEF NoneAbout, OnceAbout, n
  <2> QED
    BY <2>1, <2>2
<1>4. ASSUME NEW T PROVE Has(r, T) <=> Has(s, T) \/ m.type \in T
  BY <1>1, <1>2 DEF Has, n
<1>5. Accepted(r) <=> Accepted(s) \/ Accepts(m)
  BY <1>1, <1>2 DEF Accepted, n
<1> QED
  BY <1>1, <1>3, <1>4, <1>5

\* One message less.
LEMMA TailFacts ==
  ASSUME NEW S, NEW s \in Seq(S), s # <<>>, NEW r, r = Tail(s), NEW m, m = Head(s)
  PROVE  /\ r \in Seq(S) /\ m \in S
         /\ \A t : NoneAbout(s, t) <=> NoneAbout(r, t) /\ ~About(m, t)
         /\ \A t : OnceAbout(s, t) => OnceAbout(r, t) /\ (About(m, t) => NoneAbout(r, t))
         /\ \A T : Has(s, T) <=> Has(r, T) \/ m.type \in T
         /\ Accepted(s) <=> Accepted(r) \/ Accepts(m)
<1> DEFINE n == Len(r)
<1>1. /\ n \in Nat /\ Len(s) = n + 1 /\ r \in Seq(S) /\ m \in S /\ s[1] = m
      /\ \A i \in 1 .. n : r[i] = s[i + 1]
  OBVIOUS
<1>2. /\ \A i \in 1 .. n + 1 : i = 1 \/ (i - 1 \in 1 .. n /\ s[i] = r[i - 1])
      /\ \A i \in 1 .. n : i + 1 \in 1 .. n + 1 /\ i + 1 # 1
      /\ 1 \in 1 .. n + 1
      /\ \A i, j \in 1 .. n : i + 1 = j + 1 => i = j
  BY <1>1
<1> HIDE DEF n
<1>6. /\ \A i \in 1 .. Len(s) : s[i] = m \/ \E j \in 1 .. Len(r) : s[i] = r[j]
      /\ \E i \in 1 .. Len(s) : s[i] = m
      /\ \A j \in 1 .. Len(r) : \E i \in 1 .. Len(s) : s[i] = r[j]
  BY <1>1, <1>2 DEF n
<1>3. ASSUME NEW t
      PROVE  /\ NoneAbout(s, t) <=> NoneAbout(r, t) /\ ~About(m, t)
             /\ OnceAbout(s, t) => OnceAbout(r, t) /\ (About(m, t) => NoneAbout(r, t))
  <2>1. NoneAbout(s, t) <=> NoneAbout(r, t) /\ ~About(m, t)
    BY <1>6, Zenon DEF NoneAbout
  <2>2. ASSUME OnceAbout(s, t)
        PROVE  OnceAbout(r, t) /\ (About(m, t) => NoneAbout(r, t))
    BY <1>1, <1>2, <2>2 DEF NoneAbout, OnceAbout, n
  <2> QED
    BY <2>1, <2>2
<1>4. ASSUME NEW T PROVE Has(s, T) <=> Has(r, T) \/ m.type \in T
  BY <1>6, Zenon DEF Has
<1>5. Accepted(s) <=> Accepted(r) \/ Accepts(m)
  BY <1>6, Zenon DEF Accepted
<1> QED
  BY <1>1, <1>3, <1>4, <1>5

(***************************************************************************)
(* Changing a node.                                                         *)
(***************************************************************************)
TunnelType == [state : TunnelState, ref_count : 0 .. RefModulus - 1, restored : BOOLEAN]

PutPc(n, x) == [n EXCEPT !.pc = x]
PutState(n, x) == [n EXCEPT !.state = x]
PutPort(n, x) == [n EXCEPT !.port = x]
PutTunnel(n, t, v) == [n EXCEPT !.tunnel[t] = v]

\* What most steps leave alone.
SameConn(n, m) ==
  m.transport = n.transport /\ m.peer = n.peer /\ m.link = n.link /\ m.new_proxy = n.new_proxy
SamePlace(n, m) == m.pc = n.pc /\ m.state = n.state
SamePort(n, m) == m.port = n.port /\ m.tunnel = n.tunnel

\* The types of the fields.
LEMMA NodeFields ==
  ASSUME NEW n \in NodeType
  PROVE  /\ n.pc \in Pc /\ n.state \in {"DO_START", "PENDING", "STARTED", "DO_SLEEP", "STOP"}
         /\ n.stop_method \in {"CLEAN", "MIGRATE"} /\ n.uri \in 1 .. Len(Uris) /\ n.client \in 0 .. Len(Uris)
         /\ n.transport \in {"NULL", "INTERFACE_UP", "DISCONNECTED", "CONNECTED", "PENDING", "ENABLED"}
         /\ n.peer \in Proxy \cup {None} /\ n.link \in Proxy \cup {None} /\ n.new_proxy \in BOOLEAN
         /\ n.port \in PortState /\ n.tunnel \in [Type -> TunnelType]
         /\ \A t \in Type : /\ n.tunnel[t] \in TunnelType /\ n.tunnel[t].state \in TunnelState
                            /\ n.tunnel[t].ref_count \in 0 .. RefModulus - 1
<1>1. /\ n.pc \in Pc /\ n.state \in {"DO_START", "PENDING", "STARTED", "DO_SLEEP", "STOP"}
      /\ n.stop_method \in {"CLEAN", "MIGRATE"} /\ n.uri \in 1 .. Len(Uris) /\ n.client \in 0 .. Len(Uris)
      /\ n.transport \in {"NULL", "INTERFACE_UP", "DISCONNECTED", "CONNECTED", "PENDING", "ENABLED"}
      /\ n.peer \in Proxy \cup {None} /\ n.link \in Proxy \cup {None} /\ n.new_proxy \in BOOLEAN
      /\ n.port \in PortState /\ n.tunnel \in [Type -> TunnelType]
  BY DEF NodeType, TunnelType
<1>2. \A t \in Type : n.tunnel[t] \in TunnelType
  BY <1>1
<1>3. \A v \in TunnelType : v.state \in TunnelState /\ v.ref_count \in 0 .. RefModulus - 1
  BY DEF TunnelType
<1> QED
  BY <1>1, <1>2, <1>3

\* Moving to another place.
LEMMA PutPcFacts ==
  ASSUME NEW n \in NodeType, NEW x \in Pc, NEW m, m = PutPc(n, x)
  PROVE  /\ m \in NodeType /\ m.pc = x /\ m.state = n.state /\ SameConn(n, m) /\ SamePort(n, m)
         /\ m.uri = n.uri
  BY DEF PutPc, NodeType, SameConn, SamePort

\* Another state.
LEMMA PutStateFacts ==
  ASSUME NEW n \in NodeType, NEW x \in {"DO_START", "PENDING", "STARTED", "DO_SLEEP", "STOP"},
         NEW m, m = PutState(n, x)
  PROVE  m \in NodeType /\ m.pc = n.pc /\ m.state = x /\ SameConn(n, m) /\ SamePort(n, m)
  BY DEF PutState, NodeType, SameConn, SamePort

\* Another state of the port.
LEMMA PutPortFacts ==
  ASSUME NEW n \in NodeType, NEW x \in PortState, NEW m, m = PutPort(n, x)
  PROVE  /\ m \in NodeType /\ SamePlace(n, m) /\ SameConn(n, m) /\ m.port = x /\ m.tunnel = n.tunnel
         /\ m.stop_method = n.stop_method
  BY DEF PutPort, NodeType, SameConn, SamePlace

\* Another value of one tunnel.
LEMMA PutTunnelFacts ==
  ASSUME NEW n \in NodeType, NEW t \in Type, NEW v \in TunnelType, NEW m, m = PutTunnel(n, t, v)
  PROVE  /\ m \in NodeType /\ SamePlace(n, m) /\ SameConn(n, m) /\ m.port = n.port /\ m.tunnel[t] = v
         /\ \A u \in Type : u # t => m.tunnel[u] = n.tunnel[u]
<1> DEFINE f == [n.tunnel EXCEPT ![t] = v]
<1>1. n.tunnel \in [Type -> TunnelType]
  BY NodeFields
<1>2. f \in [Type -> TunnelType] /\ f[t] = v /\ \A u \in Type : u # t => f[u] = n.tunnel[u]
  BY <1>1
<1>3. m = [n EXCEPT !.tunnel = f]
  BY DEF PutTunnel
<1> HIDE DEF f
<1>4. m \in NodeType /\ m.tunnel = f /\ SamePlace(n, m) /\ SameConn(n, m) /\ m.port = n.port
  BY <1>2, <1>3 DEF NodeType, SameConn, SamePlace, TunnelType
<1> QED
  BY <1>2, <1>4

(***************************************************************************)
(* Steps under construction.                                                *)
(***************************************************************************)
H == [n : NodeType, file : FileType, sent : Seq(Request)]

\* The requests under way after the step.
On(h) == Going \o h.sent

WithNode(h, m) == [h EXCEPT !.n = m]

\* The streams have their types.
Streams == toProxy \in Seq(Request) /\ toNode \in Seq(Reply) /\ conn \in {"none", "up", "broken"}

\* The parts of a step.
LEMMA StepFields ==
  ASSUME NEW h \in H
  PROVE  h.n \in NodeType /\ h.file \in FileType /\ h.sent \in Seq(Request)
  BY DEF H

\* What is under way.
LEMMA GoingFacts ==
  ASSUME Streams
  PROVE  Going \in Seq(Request)
  BY DEF Streams, Going

\* So are the requests after the step.
LEMMA OnFacts ==
  ASSUME Streams, NEW h \in H
  PROVE  On(h) \in Seq(Request)
  BY GoingFacts, StepFields DEF On

\* Another node, and nothing else.
LEMMA WithNodeFacts ==
  ASSUME NEW h \in H, NEW m \in NodeType, NEW g, g = WithNode(h, m)
  PROVE  g \in H /\ g.n = m /\ g.file = h.file /\ g.sent = h.sent /\ On(g) = On(h)
<1>1. g \in H /\ g.n = m /\ g.file = h.file /\ g.sent = h.sent
  BY DEF WithNode, H
<1> QED
  BY <1>1 DEF On

\* The forms in which the handlers change a node.
LEMMA Forms ==
  ASSUME NEW h \in H
  PROVE  /\ \A x : At(h, x) = WithNode(h, PutPc(h.n, x))
         /\ \A x : State(h, x) = WithNode(h, PutState(h.n, x))
         /\ \A x : [h EXCEPT !.n.port = x] = WithNode(h, PutPort(h.n, x))
         /\ \A t, v : [h EXCEPT !.n.tunnel[t] = v] = WithNode(h, PutTunnel(h.n, t, v))
  BY DEF H, At, State, WithNode, PutPc, PutState, PutPort, PutTunnel

\* Moving to another place.
LEMMA AtFacts ==
  ASSUME NEW h \in H, NEW x \in Pc, NEW g, g = At(h, x)
  PROVE  /\ g \in H /\ g.file = h.file /\ g.sent = h.sent /\ On(g) = On(h)
         /\ g.n.pc = x /\ g.n.state = h.n.state /\ SameConn(h.n, g.n) /\ SamePort(h.n, g.n)
         /\ g.n.uri = h.n.uri
<1> DEFINE m == PutPc(h.n, x)
<1>1. h.n \in NodeType /\ g = WithNode(h, m)
  BY StepFields, Forms
<1>2. m \in NodeType /\ m.pc = x /\ m.state = h.n.state /\ SameConn(h.n, m) /\ SamePort(h.n, m) /\ m.uri = h.n.uri
  BY <1>1, PutPcFacts
<1> HIDE DEF m
<1>3. g \in H /\ g.n = m /\ g.file = h.file /\ g.sent = h.sent /\ On(g) = On(h)
  BY <1>1, <1>2, WithNodeFacts
<1> QED
  BY <1>2, <1>3

\* Another state.
LEMMA StateFacts ==
  ASSUME NEW h \in H, NEW x \in {"DO_START", "PENDING", "STARTED", "DO_SLEEP", "STOP"}, NEW g, g = State(h, x)
  PROVE  /\ g \in H /\ g.file = h.file /\ g.sent = h.sent /\ On(g) = On(h)
         /\ g.n.pc = h.n.pc /\ g.n.state = x /\ SameConn(h.n, g.n) /\ SamePort(h.n, g.n)
<1> DEFINE m == PutState(h.n, x)
<1>1. h.n \in NodeType /\ g = WithNode(h, m)
  BY StepFields, Forms
<1>2. m \in NodeType /\ m.pc = h.n.pc /\ m.state = x /\ SameConn(h.n, m) /\ SamePort(h.n, m)
  BY <1>1, PutStateFacts
<1> HIDE DEF m
<1>3. g \in H /\ g.n = m /\ g.file = h.file /\ g.sent = h.sent /\ On(g) = On(h)
  BY <1>1, <1>2, WithNodeFacts
<1> QED
  BY <1>2, <1>3

\* Sending, which does nothing on a broken connection.
LEMMA SendFacts ==
  ASSUME Streams, NEW h \in H, NEW m \in Request, NEW g, g = Send(h, m)
  PROVE  /\ g \in H /\ g.n = h.n /\ g.file = h.file
         /\ CanSend => On(g) = Append(On(h), m) /\ g.sent = Append(h.sent, m)
         /\ ~CanSend => On(g) = On(h) /\ g.sent = h.sent
<1>1. h.sent \in Seq(Request) /\ Going \in Seq(Request)
  BY StepFields, GoingFacts
<1>2. CASE CanSend
  <2> DEFINE s == Append(h.sent, m)
  <2>1. g = [h EXCEPT !.sent = s] /\ s \in Seq(Request)
    BY <1>1, <1>2 DEF Send
  <2>2. g \in H /\ g.n = h.n /\ g.file = h.file /\ g.sent = s
    <3> HIDE DEF s
    <3> QED
      BY <2>1 DEF H
  <2>3. Going \o Append(h.sent, m) = Append(Going \o h.sent, m)
    BY <1>1
  <2> QED
    BY <1>2, <2>2, <2>3 DEF On
<1>3. CASE ~CanSend
  BY <1>3 DEF Send
<1> QED
  BY <1>2, <1>3

(***************************************************************************)
(* What keeps a node sound.                                                 *)
(***************************************************************************)
\* The node may wait for the answer to its report, or run.
Prepared(n) == n.transport = "ENABLED" /\ (Forced \/ Attached(n))
Ready(n) == Prepared(n) /\ (Excused \/ n.peer \in configured)

\* The runtime it has a link to knows the node, or there is a tunnel it refused.
Settled(n) ==
  n.link # None => \/ n.link \in configured \/ Excused
                   \/ \E t \in {"storage", "proxy"} : n.tunnel[t].state = "DISCONNECTED"

\* A node that runs is ready.
LEMMA EngagedReady ==
  ASSUME NEW n, NEW tp, NEW tn, NodeSound(n, tp, tn)
  PROVE  (Engaged(n) => Ready(n)) /\ (n.pc = "wait_setup" => Prepared(n))
  BY DEF NodeSound, ReportsSound, Ready, Prepared

\* Another place and another state.
LEMMA MoveSound ==
  ASSUME NEW n, NEW tp, NEW tn, NodeSound(n, tp, tn), NEW m,
         SameConn(n, m), m.tunnel = n.tunnel,
         Engaged(m) => Ready(n), m.pc = "wait_setup" => Prepared(n), m.pc = "dial" => Settled(n),
         m.pc = "wait_join" \/ n.pc # "wait_join" \/ n.transport = "ENABLED" \/ (conn # "up" /\ tn = <<>>)
  PROVE  NodeSound(m, tp, tn)
<1>1. TunnelsSound(m, tp, tn)
  BY DEF NodeSound, TunnelsSound
<1>2. Attached(n) => Attached(m)
  BY DEF Attached, SameConn
<1>3. /\ Engaged(m) \/ m.pc = "wait_setup" \/ Has(tp, Reports) \/ Has(tn, Reports)
           => n.transport = "ENABLED" /\ (Forced \/ Attached(n))
      /\ Engaged(m) \/ Has(tp, {"wake", "sleep"}) \/ Has(tn, {"wake", "sleep"}) \/ Accepted(tn)
           => Excused \/ n.peer \in configured
  BY DEF NodeSound, ReportsSound, Ready, Prepared
<1>4. ReportsSound(m, tp, tn)
  BY <1>2, <1>3 DEF ReportsSound, SameConn
<1>5. LinkSound(m)
  BY DEF NodeSound, LinkSound, SameConn, Settled
<1>6. ConnSound(m, tn)
  BY DEF NodeSound, ConnSound, SameConn
<1> QED
  BY <1>1, <1>4, <1>5, <1>6 DEF NodeSound

\* A request that is not for a tunnel.
LEMMA SentSound ==
  ASSUME NEW n, NEW tp \in Seq(Request), NEW tn, NodeSound(n, tp, tn), NEW m \in Request, m.type # "tunnel",
         m.type \in Reports => Prepared(n), m.type \in {"wake", "sleep"} => Ready(n),
         NEW r, r = Append(tp, m)
  PROVE  NodeSound(n, r, tn)
<1>1. /\ \A t : NoneAbout(r, t) <=> NoneAbout(tp, t) /\ ~About(m, t)
      /\ \A t : OnceAbout(tp, t) /\ (~About(m, t) \/ NoneAbout(tp, t)) => OnceAbout(r, t)
      /\ \A T : Has(r, T) <=> Has(tp, T) \/ m.type \in T
  BY AppendFacts
<1>2. \A t : ~About(m, t)
  BY DEF About
<1>3. TunnelsSound(n, r, tn)
  BY <1>1, <1>2 DEF NodeSound, TunnelsSound
<1>4. ReportsSound(n, r, tn)
  BY <1>1 DEF NodeSound, ReportsSound, Prepared, Ready
<1> QED
  BY <1>3, <1>4 DEF NodeSound

\* A request for a tunnel that is not there, and the tunnel that is made.
LEMMA CreatedSound ==
  ASSUME NEW n \in NodeType, NEW tp \in Seq(Request), NEW tn, NodeSound(n, tp, tn),
         NEW t \in Type, n.tunnel[t].state = "FREE",
         NEW v \in TunnelType, v.state = "PENDING", v.ref_count = 1, v.restored = FALSE,
         NEW m, m = PutTunnel(n, t, v), NEW q \in Request, q.type = "tunnel", q.of = t,
         NEW r, r = Append(tp, q)
  PROVE  NodeSound(m, tp, tn) /\ NodeSound(m, r, tn)
<1>1. /\ m \in NodeType /\ SamePlace(n, m) /\ SameConn(n, m) /\ m.tunnel[t] = v
      /\ \A u \in Type : u # t => m.tunnel[u] = n.tunnel[u]
  BY PutTunnelFacts
<1>2. \A u : About(q, u) <=> u = t
  BY DEF About
<1>3. /\ \A u : NoneAbout(r, u) <=> NoneAbout(tp, u) /\ ~About(q, u)
      /\ \A u : OnceAbout(tp, u) /\ (~About(q, u) \/ NoneAbout(tp, u)) => OnceAbout(r, u)
      /\ \A T : Has(r, T) <=> Has(tp, T) \/ q.type \in T
  BY AppendFacts
<1>4. NoneAbout(tp, t) /\ NoneAbout(tn, t)
  BY DEF NodeSound, TunnelsSound
<1>5. TunnelsSound(m, tp, tn) /\ TunnelsSound(m, r, tn)
  BY <1>1, <1>2, <1>3, <1>4 DEF NodeSound, TunnelsSound
<1>6. "storage" \in Type /\ "proxy" \in Type
  BY DEF Type
<1>7. Attached(n) => Attached(m)
  BY <1>1, <1>6 DEF Attached, SameConn
<1>8. Engaged(m) <=> Engaged(n)
  BY <1>1 DEF Engaged, SamePlace
<1>9. \A T : "tunnel" \notin T => (Has(r, T) <=> Has(tp, T))
  BY <1>3
<1>10. (Has(r, Reports) <=> Has(tp, Reports)) /\ (Has(r, {"wake", "sleep"}) <=> Has(tp, {"wake", "sleep"}))
  BY <1>9 DEF Reports
<1>11. ReportsSound(m, tp, tn) /\ ReportsSound(m, r, tn)
  BY <1>1, <1>7, <1>8, <1>10 DEF NodeSound, ReportsSound, SameConn, SamePlace
<1>12. LinkSound(m) /\ ConnSound(m, tn)
  BY <1>1, <1>6 DEF NodeSound, LinkSound, ConnSound, SameConn, SamePlace
<1> QED
  BY <1>5, <1>11, <1>12 DEF NodeSound

\* The answer to a request for a tunnel.
LEMMA AnsweredSound ==
  ASSUME NEW n \in NodeType, NEW tp, NEW tn, NodeSound(n, tp, tn),
         NEW t \in Type, n.tunnel[t].state = "PENDING", NoneAbout(tp, t), NoneAbout(tn, t),
         NEW v \in TunnelType, v.state \in {"ENABLED", "DISCONNECTED"},
         v.ref_count = n.tunnel[t].ref_count, v.restored = n.tunnel[t].restored,
         NEW m, m = PutTunnel(n, t, v)
  PROVE  NodeSound(m, tp, tn)
<1>1. /\ m \in NodeType /\ SamePlace(n, m) /\ SameConn(n, m) /\ m.tunnel[t] = v
      /\ \A u \in Type : u # t => m.tunnel[u] = n.tunnel[u]
  BY PutTunnelFacts
<1>2. TunnelsSound(m, tp, tn)
  BY <1>1 DEF NodeSound, TunnelsSound
<1>3. "storage" \in Type /\ "proxy" \in Type
  BY DEF Type
<1>4. Attached(n) => Attached(m)
  BY <1>1, <1>3 DEF Attached, SameConn
<1>5. Engaged(m) <=> Engaged(n)
  BY <1>1 DEF Engaged, SamePlace
<1>6. ReportsSound(m, tp, tn)
  BY <1>1, <1>4, <1>5 DEF NodeSound, ReportsSound, SameConn, SamePlace
<1>7. LinkSound(m) /\ ConnSound(m, tn)
  BY <1>1, <1>3 DEF NodeSound, LinkSound, ConnSound, SameConn, SamePlace
<1> QED
  BY <1>2, <1>6, <1>7 DEF NodeSound

\* What is known of the first answer.
HeadSound(n, tp, tn, m) ==
  /\ \A t \in Type : About(m, t) => n.tunnel[t].state = "PENDING" /\ NoneAbout(tp, t) /\ NoneAbout(tn, t)
  /\ m.type \in Reports => Prepared(n)
  /\ m.type \in {"wake", "sleep"} \/ Accepts(m) => Excused \/ n.peer \in configured
  /\ n.pc = "wait_join" => m.type \notin Reports \cup {"tunnel"}
  /\ n.pc = "wait_tunnels" => m.type \notin Reports
  /\ n.pc = "wait_setup" => m.type # "sleep"

\* Taking it.
LEMMA TakeSound ==
  ASSUME NEW n, NEW tp, NEW tn \in Seq(Reply), NodeSound(n, tp, tn), WaitSound(n, tp, tn), tn # <<>>,
         NEW r, r = Tail(tn), NEW m, m = Head(tn)
  PROVE  /\ r \in Seq(Reply) /\ m \in Reply
         /\ NodeSound(n, tp, r) /\ WaitSound(n, tp, r) /\ HeadSound(n, tp, r, m)
<1>1. /\ r \in Seq(Reply) /\ m \in Reply
      /\ \A t : NoneAbout(tn, t) <=> NoneAbout(r, t) /\ ~About(m, t)
      /\ \A t : OnceAbout(tn, t) => OnceAbout(r, t) /\ (About(m, t) => NoneAbout(r, t))
      /\ \A T : Has(tn, T) <=> Has(r, T) \/ m.type \in T
      /\ Accepted(tn) <=> Accepted(r) \/ Accepts(m)
  BY TailFacts
<1>2. TunnelsSound(n, tp, r)
  BY <1>1 DEF NodeSound, TunnelsSound
<1>3. ReportsSound(n, tp, r)
  BY <1>1 DEF NodeSound, ReportsSound
<1>4. ConnSound(n, r)
  BY DEF NodeSound, ConnSound
<1>5. WaitSound(n, tp, r)
  BY <1>1 DEF WaitSound
<1>6. HeadSound(n, tp, r, m)
  <2>1. \A t \in Type : About(m, t) => n.tunnel[t].state = "PENDING" /\ NoneAbout(tp, t) /\ NoneAbout(r, t)
    BY <1>1 DEF NodeSound, TunnelsSound
  <2>2. /\ m.type \in Reports => Prepared(n)
        /\ m.type \in {"wake", "sleep"} \/ Accepts(m) => Excused \/ n.peer \in configured
    BY <1>1 DEF NodeSound, ReportsSound, Prepared
  <2>3. \A T : m.type \in T => Has(tn, T)
    BY <1>1
  <2>4. m.type \in Reports => Has(tn, Reports)
    BY <2>3
  <2>5. (m.type = "tunnel" => Has(tn, {"tunnel"})) /\ (m.type = "sleep" => Has(tn, {"sleep"}))
    BY <2>3
  <2> QED
    BY <2>1, <2>2, <2>4, <2>5 DEF HeadSound, WaitSound
<1> QED
  BY <1>1, <1>2, <1>3, <1>4, <1>5, <1>6 DEF NodeSound

(***************************************************************************)
(* Handlers.                                                                *)
(***************************************************************************)
\* A step so far: what it has done is sound, with the answers tn still to come.
StepSound(h, tn) ==
  h \in H /\ (CanSend \/ h.sent = <<>>) /\ NodeSound(h.n, On(h), tn)
HSound(h, tn) == StepSound(h, tn) /\ PortSound(h.n.port, h.n.tunnel["token"].state)

\* Only requests that are neither reports nor given-back tunnels are added.
Discreet(h, g) ==
  /\ \A T \in SUBSET Reports : Has(On(g), T) => Has(On(h), T)
  /\ Has(g.sent, {"destroy"}) => Has(h.sent, {"destroy"})

\* A handler within a wait, from h to g.
Keeps(h, g, tn) ==
  /\ HSound(g, tn) /\ g.file = h.file /\ g.n.pc = h.n.pc /\ SameConn(h.n, g.n)
  /\ Discreet(h, g)
  /\ \A t \in {"storage", "proxy"} : h.n.tunnel[t].state # "FREE" => g.n.tunnel[t].state # "FREE"

\* It keeps what has been asked for.
LEMMA WaitKept ==
  ASSUME NEW h, NEW g, NEW tn, WaitSound(h.n, On(h), tn), h.n.pc # "wait_join",
         g.n.pc = h.n.pc, SameConn(h.n, g.n), Discreet(h, g),
         \A t \in {"storage", "proxy"} : h.n.tunnel[t].state # "FREE" => g.n.tunnel[t].state # "FREE"
  PROVE  WaitSound(g.n, On(g), tn)
<1>1. {"sleep"} \in SUBSET Reports /\ Reports \in SUBSET Reports
  BY DEF Reports
<1>2. /\ Has(On(g), Reports) => Has(On(h), Reports)
      /\ Has(On(g), {"sleep"}) => Has(On(h), {"sleep"})
  BY <1>1 DEF Discreet
<1> QED
  BY <1>2 DEF WaitSound, SameConn

\* Doing nothing is a handler.
LEMMA DoNothing ==
  ASSUME NEW h, NEW tn, HSound(h, tn)
  PROVE  Keeps(h, h, tn)
  BY DEF Keeps, Discreet, SameConn

\* Handlers one after the other.
LEMMA OneAfterOther ==
  ASSUME NEW h, NEW k, NEW g, NEW tn, Keeps(h, k, tn), Keeps(k, g, tn)
  PROVE  Keeps(h, g, tn)
  BY DEF Keeps, Discreet, SameConn

\* Sending something that nobody waits for.
LEMMA SendStep ==
  ASSUME Streams, NEW h, NEW tn, StepSound(h, tn),
         NEW m \in Request, m.type \notin Reports \cup {"tunnel"}, NEW g, g = Send(h, m)
  PROVE  /\ StepSound(g, tn) /\ g.n = h.n /\ g.file = h.file
         /\ m.type # "destroy" => Discreet(h, g)
<1>1. h \in H /\ (CanSend \/ h.sent = <<>>) /\ NodeSound(h.n, On(h), tn)
  BY DEF StepSound
<1>2. /\ g \in H /\ g.n = h.n /\ g.file = h.file
      /\ CanSend => On(g) = Append(On(h), m) /\ g.sent = Append(h.sent, m)
      /\ ~CanSend => On(g) = On(h) /\ g.sent = h.sent
  BY <1>1, SendFacts
<1>3. On(h) \in Seq(Request) /\ h.sent \in Seq(Request)
  BY <1>1, OnFacts, StepFields
<1>4. CASE CanSend
  <2>1. NodeSound(h.n, On(g), tn)
    BY <1>1, <1>2, <1>3, <1>4, SentSound DEF Reports
  <2>2. /\ \A T : Has(On(g), T) <=> Has(On(h), T) \/ m.type \in T
        /\ \A T : Has(g.sent, T) <=> Has(h.sent, T) \/ m.type \in T
    BY <1>2, <1>3, <1>4, AppendFacts
  <2>3. m.type # "destroy" => Discreet(h, g)
    BY <2>2 DEF Discreet
  <2> QED
    BY <1>2, <1>4, <2>1, <2>3 DEF StepSound
<1>5. CASE ~CanSend
  BY <1>1, <1>2, <1>5 DEF StepSound, Discreet
<1> QED
  BY <1>4, <1>5

\* Another node that is sound with the same requests.
LEMMA NodeStepSound ==
  ASSUME NEW h, NEW tn, StepSound(h, tn), NEW m \in NodeType, NodeSound(m, On(h), tn),
         NEW g, g = WithNode(h, m)
  PROVE  StepSound(g, tn) /\ g.n = m /\ g.file = h.file /\ g.sent = h.sent /\ On(g) = On(h) /\ Discreet(h, g)
<1>1. g \in H /\ g.n = m /\ g.file = h.file /\ g.sent = h.sent /\ On(g) = On(h)
  BY WithNodeFacts DEF StepSound
<1> QED
  BY <1>1 DEF StepSound, Discreet

\* The value a tunnel is made with.
LEMMA NewTunnel ==
  ASSUME NEW v, v = [state |-> "PENDING", ref_count |-> 1, restored |-> FALSE]
  PROVE  v \in TunnelType /\ v.state = "PENDING" /\ v.ref_count = 1 /\ v.restored = FALSE
<1>1. 1 \in 0 .. RefModulus - 1
  BY NodeAssumption
<1> QED
  BY <1>1 DEF TunnelType, TunnelState

\* cc_tunnel_create, for a tunnel that is not there.
LEMMA TunnelCreateSound ==
  ASSUME Streams, NEW h, NEW tn, StepSound(h, tn), NEW t \in Type, h.n.tunnel[t].state = "FREE",
         NEW g, g = cc_tunnel_create(h, t)
  PROVE  /\ StepSound(g, tn) /\ g.file = h.file /\ SamePlace(h.n, g.n) /\ SameConn(h.n, g.n)
         /\ g.n.port = h.n.port /\ g.n.tunnel[t].state = "PENDING"
         /\ \A u \in Type : u # t => g.n.tunnel[u] = h.n.tunnel[u]
         /\ Discreet(h, g)
<1>1. h \in H /\ (CanSend \/ h.sent = <<>>) /\ NodeSound(h.n, On(h), tn) /\ h.n \in NodeType
  BY StepFields DEF StepSound
<1>2. PICK v : v = [state |-> "PENDING", ref_count |-> 1, restored |-> FALSE]
  OBVIOUS
<1>3. PICK q : q = [type |-> "tunnel", of |-> t]
  OBVIOUS
<1>4. v \in TunnelType /\ v.state = "PENDING" /\ v.ref_count = 1 /\ v.restored = FALSE
  BY <1>2, NewTunnel
<1>5. q \in Request /\ q.type = "tunnel" /\ q.of = t
  BY <1>3 DEF Request
<1>6. PICK m : m = PutTunnel(h.n, t, v)
  OBVIOUS
<1>7. PICK k : k = WithNode(h, m)
  OBVIOUS
<1>8. g = Send(k, q)
  <2>1. [h EXCEPT !.n.tunnel[t] = v] = k
    BY <1>1, <1>6, <1>7, Forms
  <2> QED
    BY <1>2, <1>3, <2>1, Zenon DEF cc_tunnel_create
<1>9. /\ m \in NodeType /\ SamePlace(h.n, m) /\ SameConn(h.n, m) /\ m.port = h.n.port /\ m.tunnel[t] = v
      /\ \A u \in Type : u # t => m.tunnel[u] = h.n.tunnel[u]
  BY <1>1, <1>4, <1>6, PutTunnelFacts
<1>10. On(h) \in Seq(Request) /\ h.sent \in Seq(Request)
  BY <1>1, OnFacts, StepFields
<1>11. \A r : r = Append(On(h), q) => NodeSound(m, On(h), tn) /\ NodeSound(m, r, tn)
  BY <1>1, <1>4, <1>5, <1>6, <1>10, CreatedSound
<1>12. k \in H /\ k.n = m /\ k.file = h.file /\ k.sent = h.sent /\ On(k) = On(h)
  BY <1>1, <1>7, <1>9, WithNodeFacts
<1>13. /\ g \in H /\ g.n = k.n /\ g.file = k.file
       /\ CanSend => On(g) = Append(On(k), q) /\ g.sent = Append(k.sent, q)
       /\ ~CanSend => On(g) = On(k) /\ g.sent = k.sent
  BY <1>5, <1>8, <1>12, SendFacts
<1>14. /\ g \in H /\ g.n = m /\ g.file = h.file
       /\ CanSend => On(g) = Append(On(h), q) /\ g.sent = Append(h.sent, q)
       /\ ~CanSend => On(g) = On(h) /\ g.sent = h.sent
  BY <1>12, <1>13
<1>15. StepSound(g, tn)
  BY <1>1, <1>11, <1>14 DEF StepSound
<1>16. Discreet(h, g)
  <2>1. CASE CanSend
    <3>1. \A T : Has(On(g), T) <=> Has(On(h), T) \/ q.type \in T
      <4>1. On(g) = Append(On(h), q)
        BY <1>14, <2>1
      <4> QED
        BY <1>5, <1>10, <4>1, AppendFacts
    <3>2. \A T : Has(g.sent, T) <=> Has(h.sent, T) \/ q.type \in T
      <4>1. g.sent = Append(h.sent, q)
        BY <1>14, <2>1
      <4> QED
        BY <1>5, <1>10, <4>1, AppendFacts
    <3> QED
      BY <1>5, <3>1, <3>2 DEF Discreet, Reports
  <2>2. CASE ~CanSend
    BY <1>14, <2>2 DEF Discreet
  <2> QED
    BY <2>1, <2>2
<1> QED
  BY <1>4, <1>9, <1>14, <1>15, <1>16

\* Nothing that matters for the requests changes.
LEMMA SamePlaceSound ==
  ASSUME NEW n, NEW tp, NEW tn, NodeSound(n, tp, tn), NEW m, SamePlace(n, m), SameConn(n, m), m.tunnel = n.tunnel
  PROVE  NodeSound(m, tp, tn)
<1>1. (Engaged(m) => Ready(n)) /\ (m.pc = "wait_setup" => Prepared(n))
  BY EngagedReady DEF SamePlace, Engaged
<1>2. m.pc = "dial" => Settled(n)
  BY DEF NodeSound, LinkSound, SamePlace, Settled
<1>3. m.pc = "wait_join" \/ n.pc # "wait_join" \/ n.transport = "ENABLED" \/ (conn # "up" /\ tn = <<>>)
  BY DEF SamePlace
<1> QED
  BY <1>1, <1>2, <1>3, MoveSound

\* Another state of the port, as a step.
Ported(h, x) == WithNode(h, PutPort(h.n, x))

\* Such a step is sound.
LEMMA PortStepSound ==
  ASSUME NEW h, NEW tn, StepSound(h, tn), NEW x \in PortState, NEW g, g = Ported(h, x)
  PROVE  /\ StepSound(g, tn) /\ g.file = h.file /\ SamePlace(h.n, g.n) /\ SameConn(h.n, g.n)
         /\ g.n.port = x /\ g.n.tunnel = h.n.tunnel /\ g.n.stop_method = h.n.stop_method /\ Discreet(h, g)
         /\ g.sent = h.sent
<1>1. h \in H /\ NodeSound(h.n, On(h), tn) /\ h.n \in NodeType
  BY StepFields DEF StepSound
<1>2. PICK m : m = PutPort(h.n, x)
  OBVIOUS
<1>3. g = WithNode(h, m)
  BY <1>2 DEF Ported
<1>4. /\ m \in NodeType /\ SamePlace(h.n, m) /\ SameConn(h.n, m) /\ m.port = x /\ m.tunnel = h.n.tunnel
      /\ m.stop_method = h.n.stop_method
  BY <1>1, <1>2, PutPortFacts
<1>5. NodeSound(m, On(h), tn)
  BY <1>1, <1>4, SamePlaceSound
<1>6. StepSound(g, tn) /\ g.n = m /\ g.file = h.file /\ g.sent = h.sent /\ Discreet(h, g)
  BY <1>3, <1>4, <1>5, NodeStepSound
<1> QED
  BY <1>4, <1>6

\* A request without a tunnel.
LEMMA PlainRequest ==
  ASSUME NEW x \in {"join", "setup", "wake", "connect", "sleep", "destroyed", "actor_new"},
         NEW m, m = [type |-> x]
  PROVE  m \in Request /\ m.type = x
  BY DEF Request

\* The count after a user has gone is a number of its width; the last of one
\* user leaves none.
LEMMA LeftFacts ==
  ASSUME NEW r \in 0 .. RefModulus - 1
  PROVE  /\ (r + RefModulus - 1) % RefModulus \in 0 .. RefModulus - 1
         /\ r = 1 => (r + RefModulus - 1) % RefModulus = 0
<1>1. RefModulus \in Nat /\ RefModulus > 0
  BY NodeAssumption
<1>2. \A x \in Int : x % RefModulus \in 0 .. RefModulus - 1
  BY <1>1
<1>3. RefModulus % RefModulus = 0
  BY <1>1
<1>4. r \in Int /\ r + RefModulus - 1 \in Int /\ (r = 1 => r + RefModulus - 1 = RefModulus)
  BY <1>1
<1> QED
  BY <1>2, <1>3, <1>4

\* A tunnel that is not there.
LEMMA NoTunnelFacts == NoTunnel \in TunnelType /\ NoTunnel.state = "FREE"
  BY NodeAssumption DEF NoTunnel, TunnelType, TunnelState

\* A token tunnel that nobody asks for any more is freed.
LEMMA FreedSound ==
  ASSUME NEW n \in NodeType, NEW tp, NEW tn, NodeSound(n, tp, tn), n.tunnel["token"].state # "PENDING",
         NEW m, m = PutTunnel(n, "token", NoTunnel)
  PROVE  NodeSound(m, tp, tn)
<1>1. "token" \in Type /\ "storage" \in Type /\ "proxy" \in Type
  BY DEF Type
<1>2. /\ m \in NodeType /\ SamePlace(n, m) /\ SameConn(n, m) /\ m.tunnel["token"] = NoTunnel
      /\ \A u \in Type : u # "token" => m.tunnel[u] = n.tunnel[u]
  BY <1>1, NoTunnelFacts, PutTunnelFacts
<1>3. m.tunnel["token"].state = "FREE"
  BY <1>2, NoTunnelFacts
<1>4. TunnelsSound(m, tp, tn)
  BY <1>1, <1>2, <1>3 DEF NodeSound, TunnelsSound
<1>5. Attached(n) => Attached(m)
  BY <1>1, <1>2 DEF Attached, SameConn
<1>6. Engaged(m) <=> Engaged(n)
  BY <1>2 DEF Engaged, SamePlace
<1>7. ReportsSound(m, tp, tn)
  BY <1>2, <1>5, <1>6 DEF NodeSound, ReportsSound, SameConn, SamePlace
<1>8. LinkSound(m) /\ ConnSound(m, tn)
  BY <1>1, <1>2 DEF NodeSound, LinkSound, ConnSound, SameConn, SamePlace
<1> QED
  BY <1>4, <1>7, <1>8 DEF NodeSound

\* What putting a tunnel in its place gives.
LEMMA TunnelForm ==
  ASSUME NEW h \in H, NEW t, NEW v
  PROVE  [h EXCEPT !.n.tunnel[t] = v] = WithNode(h, PutTunnel(h.n, t, v))
  BY Forms

\* From h to g the port has given its tunnel back.
GivenBack(h, g, tn) ==
  /\ StepSound(g, tn) /\ g.file = h.file /\ SamePlace(h.n, g.n) /\ SameConn(h.n, g.n)
  /\ g.n.port = "DISCONNECTED" /\ g.n.tunnel["token"].state = "FREE"
  /\ \A u \in Type : u # "token" => g.n.tunnel[u] = h.n.tunnel[u]
  /\ ~CanSend => Discreet(h, g)

\* A port that cannot be connected over its tunnel gives it back.
LEMMA GiveBackSound ==
  ASSUME Streams, NEW h, NEW tn, HSound(h, tn), h.n.tunnel["token"].state \in {"ENABLED", "DISCONNECTED"},
         NEW g, g = cc_tunnel_remove_ref([h EXCEPT !.n.port = "DISCONNECTED"], "token")
  PROVE  GivenBack(h, g, tn)
<1>1. StepSound(h, tn) /\ "token" \in Type /\ "DISCONNECTED" \in PortState
  BY DEF HSound, Type, PortState
<1>2. PICK k : k = Ported(h, "DISCONNECTED")
  OBVIOUS
<1>3. /\ StepSound(k, tn) /\ k.file = h.file /\ SamePlace(h.n, k.n) /\ SameConn(h.n, k.n)
      /\ k.n.port = "DISCONNECTED" /\ k.n.tunnel = h.n.tunnel /\ Discreet(h, k) /\ k.sent = h.sent
  BY <1>1, <1>2, PortStepSound
<1>4. g = cc_tunnel_remove_ref(k, "token")
  BY <1>1, <1>2, Forms DEF StepSound, Ported
<1>5. k \in H /\ k.n \in NodeType /\ NodeSound(k.n, On(k), tn)
  BY <1>3, StepFields DEF StepSound
<1>6. k.n.tunnel["token"].ref_count = 1
  BY <1>1, <1>3, <1>5 DEF NodeSound, TunnelsSound
<1>7. (k.n.tunnel["token"].ref_count + RefModulus - 1) % RefModulus = 0
  <2>1. 1 \in 0 .. RefModulus - 1
    BY NodeAssumption
  <2> QED
    BY <1>6, <2>1, LeftFacts
<1>8. PICK n : n = PutTunnel(k.n, "token", NoTunnel)
  OBVIOUS
<1>9. /\ n \in NodeType /\ SamePlace(k.n, n) /\ SameConn(k.n, n) /\ n.port = k.n.port
      /\ n.tunnel["token"] = NoTunnel /\ \A u \in Type : u # "token" => n.tunnel[u] = k.n.tunnel[u]
  BY <1>1, <1>5, <1>8, NoTunnelFacts, PutTunnelFacts
<1>10. NodeSound(n, On(k), tn)
  BY <1>3, <1>5, <1>8, FreedSound
<1>11. PICK f : f = WithNode(k, n)
  OBVIOUS
<1>12. StepSound(f, tn) /\ f.n = n /\ f.file = k.file /\ f.sent = k.sent /\ Discreet(k, f)
  BY <1>3, <1>9, <1>10, <1>11, NodeStepSound
<1>13. [k EXCEPT !.n.tunnel["token"] = NoTunnel] = f
  <2>1. PICK t : t = "token"
    OBVIOUS
  <2>2. PICK v : v = NoTunnel
    OBVIOUS
  <2>3. f = WithNode(k, PutTunnel(k.n, t, v))
    BY <1>8, <1>11, <2>1, <2>2
  <2>4. [k EXCEPT !.n.tunnel[t] = v] = f
    BY <1>5, <2>3, TunnelForm
  <2> QED
    BY <2>1, <2>2, <2>4
<1>14. PICK q : q = [type |-> "destroy", of |-> "token"]
  OBVIOUS
<1>15. q \in Request /\ q.type = "destroy" /\ q.type \notin Reports \cup {"tunnel"}
  BY <1>1, <1>14 DEF Request, Reports
<1>16. g = IF k.n.state # "DO_SLEEP" THEN Send(f, q) ELSE f
  BY <1>4, <1>7, <1>13, <1>14, Zenon DEF cc_tunnel_remove_ref
<1>17. StepSound(g, tn) /\ g.n = n /\ g.file = k.file
  <2>1. CASE g = f
    BY <1>12, <2>1
  <2>2. CASE g = Send(f, q)
    BY <1>12, <1>15, <2>2, SendStep
  <2> QED
    BY <1>16, <2>1, <2>2
<1>18. ASSUME ~CanSend PROVE Discreet(h, g)
  <2>1. g = f
    BY <1>16, <1>18 DEF Send
  <2> QED
    BY <1>3, <1>12, <2>1 DEF Discreet
<1>19. n.tunnel["token"].state = "FREE"
  BY <1>9, NoTunnelFacts
<1> QED
  BY <1>3, <1>9, <1>17, <1>18, <1>19 DEF GivenBack, SamePlace, SameConn

\* What it asks for a token tunnel with.
LEMMA AskForm ==
  ASSUME Streams, NEW h, NEW tn, StepSound(h, tn), h.n.tunnel["token"].state = "FREE",
         NEW k, k = cc_tunnel_create(h, "token")
  PROVE  [k EXCEPT !.n.port = "PENDING"] = Ported(k, "PENDING")
<1>1. "token" \in Type
  BY DEF Type
<1>2. StepSound(k, tn)
  BY <1>1, TunnelCreateSound
<1>3. k \in H
  BY <1>2 DEF StepSound
<1> QED
  BY <1>3, Forms DEF Ported

\* It asks for a token tunnel.
LEMMA AskTunnelSound ==
  ASSUME Streams, NEW h, NEW tn, StepSound(h, tn), h.n.tunnel["token"].state = "FREE",
         NEW k, k = cc_tunnel_create(h, "token"), NEW g, g = Ported(k, "PENDING")
  PROVE  /\ StepSound(g, tn) /\ g.file = h.file /\ SamePlace(h.n, g.n) /\ SameConn(h.n, g.n)
         /\ \A u \in Type : u # "token" => g.n.tunnel[u] = h.n.tunnel[u]
         /\ PortSound(g.n.port, g.n.tunnel["token"].state) /\ Discreet(h, g)
<1>1. "token" \in Type /\ "PENDING" \in PortState
  BY DEF Type, PortState
<1>3. /\ StepSound(k, tn) /\ k.file = h.file /\ SamePlace(h.n, k.n) /\ SameConn(h.n, k.n)
      /\ k.n.port = h.n.port /\ k.n.tunnel["token"].state = "PENDING"
      /\ \A u \in Type : u # "token" => k.n.tunnel[u] = h.n.tunnel[u]
      /\ Discreet(h, k)
  BY <1>1, TunnelCreateSound
<1>5. /\ StepSound(g, tn) /\ g.file = k.file /\ SamePlace(k.n, g.n) /\ SameConn(k.n, g.n)
      /\ g.n.port = "PENDING" /\ g.n.tunnel = k.n.tunnel /\ Discreet(k, g)
  BY <1>1, <1>3, PortStepSound
<1>6. Discreet(h, g)
  BY <1>3, <1>5 DEF Discreet
<1>7. PortSound(g.n.port, g.n.tunnel["token"].state)
  BY <1>3, <1>5 DEF PortSound
<1> QED
  BY <1>3, <1>5, <1>6, <1>7 DEF SamePlace, SameConn

\* cc_port_connect; only a tunnel that was refused is destroyed at the proxy.
LEMMA PortConnectSound ==
  ASSUME Streams, NEW h, NEW tn, HSound(h, tn), NEW g, g = cc_port_connect(h)
  PROVE  /\ HSound(g, tn) /\ g.file = h.file /\ g.n.pc = h.n.pc /\ g.n.state = h.n.state
         /\ h.n.tunnel["token"].state # "DISCONNECTED" => Keeps(h, g, tn)
<1>1. StepSound(h, tn) /\ PortSound(h.n.port, h.n.tunnel["token"].state)
  BY DEF HSound
<1>2. CASE g = h
  BY <1>2, DoNothing
<1>3. "token" \in Type /\ "storage" \in Type /\ "proxy" \in Type /\ "PENDING" \in PortState
  BY DEF Type, PortState
<1>4. CASE h.n.tunnel["token"].state = "ENABLED" /\ g = Send([h EXCEPT !.n.port = "PENDING"], [type |-> "connect"])
  <2>1. PICK k : k = Ported(h, "PENDING")
    OBVIOUS
  <2>2. PICK m : m = [type |-> "connect"]
    OBVIOUS
  <2>3. m \in Request /\ m.type = "connect"
    BY <2>2, PlainRequest
  <2>4. g = Send(k, m)
    BY <1>1, <1>4, <2>1, <2>2, Forms DEF StepSound, Ported
  <2>5. /\ StepSound(k, tn) /\ k.file = h.file /\ SamePlace(h.n, k.n) /\ SameConn(h.n, k.n)
        /\ k.n.port = "PENDING" /\ k.n.tunnel = h.n.tunnel /\ Discreet(h, k)
    BY <1>1, <1>3, <2>1, PortStepSound
  <2>6. m.type \notin Reports \cup {"tunnel"}
    BY <2>3 DEF Reports
  <2>7. /\ StepSound(g, tn) /\ g.n = k.n /\ g.file = k.file
        /\ m.type # "destroy" => Discreet(k, g)
    BY <2>3, <2>4, <2>5, <2>6, SendStep
  <2>8. Discreet(h, g)
    BY <2>3, <2>5, <2>7 DEF Discreet
  <2>9. PortSound(g.n.port, g.n.tunnel["token"].state)
    BY <1>4, <2>5, <2>7 DEF PortSound
  <2> QED
    BY <2>5, <2>7, <2>8, <2>9 DEF Keeps, HSound, SamePlace
<1>5. CASE h.n.tunnel["token"].state = "FREE" /\ g = [cc_tunnel_create(h, "token") EXCEPT !.n.port = "PENDING"]
  <2>1. /\ StepSound(g, tn) /\ g.file = h.file /\ SamePlace(h.n, g.n) /\ SameConn(h.n, g.n)
        /\ \A u \in Type : u # "token" => g.n.tunnel[u] = h.n.tunnel[u]
        /\ PortSound(g.n.port, g.n.tunnel["token"].state) /\ Discreet(h, g)
    <3>1. PICK k : k = cc_tunnel_create(h, "token")
      OBVIOUS
    <3>2. [k EXCEPT !.n.port = "PENDING"] = Ported(k, "PENDING")
      BY <1>1, <1>5, <3>1, AskForm
    <3>3. g = Ported(k, "PENDING")
      BY <1>5, <3>1, <3>2
    <3>4. h.n.tunnel["token"].state = "FREE"
      BY <1>5
    <3> QED
      BY <1>1, <3>1, <3>3, <3>4, AskTunnelSound
  <2>2. g.n.tunnel["storage"] = h.n.tunnel["storage"] /\ g.n.tunnel["proxy"] = h.n.tunnel["proxy"]
    BY <1>3, <2>1
  <2> QED
    BY <2>1, <2>2 DEF Keeps, HSound, SamePlace
<1>6. PICK v : v = cc_tunnel_remove_ref([h EXCEPT !.n.port = "DISCONNECTED"], "token")
  OBVIOUS
<1>7. h.n.tunnel["token"].state \in {"ENABLED", "DISCONNECTED"} => GivenBack(h, v, tn)
  BY <1>6, GiveBackSound
<1>8. CASE h.n.tunnel["token"].state \in {"ENABLED", "DISCONNECTED"} /\ ~CanSend /\ g = v
  <2>1. GivenBack(h, g, tn)
    BY <1>7, <1>8
  <2>2. PortSound(g.n.port, g.n.tunnel["token"].state)
    BY <2>1 DEF GivenBack, PortSound
  <2>3. g.n.tunnel["storage"] = h.n.tunnel["storage"] /\ g.n.tunnel["proxy"] = h.n.tunnel["proxy"]
    BY <1>3, <2>1 DEF GivenBack
  <2> QED
    BY <1>8, <2>1, <2>2, <2>3 DEF GivenBack, Keeps, HSound, SamePlace
<1>9. CASE /\ h.n.tunnel["token"].state = "DISCONNECTED"
           /\ g = [cc_tunnel_create(v, "token") EXCEPT !.n.port = "PENDING"]
  <2>1. GivenBack(h, v, tn)
    BY <1>7, <1>9
  <2>2. StepSound(v, tn) /\ v.n.tunnel["token"].state = "FREE" /\ v.file = h.file /\ SamePlace(h.n, v.n)
    BY <2>1 DEF GivenBack
  <2>3. /\ StepSound(g, tn) /\ g.file = v.file /\ SamePlace(v.n, g.n)
        /\ PortSound(g.n.port, g.n.tunnel["token"].state)
    <3>1. PICK k : k = cc_tunnel_create(v, "token")
      OBVIOUS
    <3>2. [k EXCEPT !.n.port = "PENDING"] = Ported(k, "PENDING")
      BY <2>2, <3>1, AskForm
    <3>3. g = Ported(k, "PENDING")
      BY <1>9, <3>1, <3>2
    <3> QED
      BY <2>2, <3>1, <3>3, AskTunnelSound
  <2> QED
    BY <1>9, <2>2, <2>3 DEF HSound, SamePlace
<1>10. PICK s : s = h.n.tunnel["token"].state
  OBVIOUS
<1>11. s \in TunnelState
  BY <1>1, <1>3, <1>10, StepFields, NodeFields DEF StepSound, TunnelType
<1>12. PICK w : w = IF s = "FREE" THEN h ELSE v
  OBVIOUS
<1>13. g = IF h.n.port \in {"none", "ENABLED"} \/ s = "PENDING" THEN h
           ELSE IF ~CanSend THEN w
           ELSE IF s = "ENABLED" THEN Send([h EXCEPT !.n.port = "PENDING"], [type |-> "connect"])
           ELSE [cc_tunnel_create(w, "token") EXCEPT !.n.port = "PENDING"]
  BY <1>6, <1>10, <1>12, Zenon DEF cc_port_connect
<1>14. CASE s = "FREE"
  <2>1. w = h
    BY <1>12, <1>14
  <2> QED
    BY <1>2, <1>5, <1>10, <1>13, <1>14, <2>1
<1>15. CASE s = "PENDING"
  BY <1>2, <1>13, <1>15
<1>16. CASE s \in {"ENABLED", "DISCONNECTED"}
  <2>1. w = v
    BY <1>12, <1>16
  <2> QED
    BY <1>2, <1>4, <1>8, <1>9, <1>10, <1>13, <1>16, <2>1
<1> QED
  BY <1>11, <1>14, <1>15, <1>16 DEF TunnelState

\* What an answer carries.
LEMMA ReplyFields ==
  ASSUME NEW m \in Reply
  PROVE  /\ m.type \in {"join", "setup", "wake", "connect", "sleep", "tunnel", "actor_new", "stop"}
         /\ m.type = "tunnel" => m.of \in Type
         /\ m.type = "stop" => m.migrate \in BOOLEAN
         /\ m.type \in {"tunnel", "setup", "wake", "sleep", "join"} => m.ok \in BOOLEAN
  BY DEF Reply

\* tunnel_request_handler, for the answer that is waited for.
LEMMA RequestHandled ==
  ASSUME NEW h, NEW tn, HSound(h, tn), NEW m \in Reply, m.type = "tunnel", HeadSound(h.n, On(h), tn, m),
         NEW g, g = tunnel_request_handler(h, m)
  PROVE  Keeps(h, g, tn) /\ g.n.state = h.n.state
<1>1. StepSound(h, tn) /\ PortSound(h.n.port, h.n.tunnel["token"].state)
  BY DEF HSound
<1>2. h \in H /\ NodeSound(h.n, On(h), tn) /\ h.n \in NodeType
  BY <1>1, StepFields DEF StepSound
<1>3. PICK t \in Type : t = m.of
  BY ReplyFields
<1>4. h.n.tunnel[t].state = "PENDING" /\ NoneAbout(On(h), t) /\ NoneAbout(tn, t)
  BY <1>3 DEF HeadSound, About
<1>5. h.n.tunnel \in [Type -> TunnelType] /\ h.n.tunnel[t] \in TunnelType
  BY <1>2, NodeFields
<1>6. PICK x \in {"ENABLED", "DISCONNECTED"} : x = IF m.ok THEN "ENABLED" ELSE "DISCONNECTED"
  OBVIOUS
<1>7. PICK v : v = [h.n.tunnel[t] EXCEPT !.state = x]
  OBVIOUS
<1>8. /\ v \in TunnelType /\ v.state \in {"ENABLED", "DISCONNECTED"}
      /\ v.ref_count = h.n.tunnel[t].ref_count /\ v.restored = h.n.tunnel[t].restored
  BY <1>5, <1>6, <1>7 DEF TunnelType, TunnelState
<1>9. PICK n : n = PutTunnel(h.n, t, v)
  OBVIOUS
<1>10. g = WithNode(h, n)
  <2>1. g = [h EXCEPT !.n.tunnel[t].state = x]
    BY <1>3, <1>4, <1>6 DEF tunnel_request_handler
  <2>2. g = [h EXCEPT !.n.tunnel[t] = v]
    BY <1>2, <1>5, <1>7, <2>1 DEF H
  <2>3. [h EXCEPT !.n.tunnel[t] = v] = WithNode(h, PutTunnel(h.n, t, v))
    BY <1>2, Forms
  <2> QED
    BY <1>9, <2>2, <2>3
<1>11. /\ n \in NodeType /\ SamePlace(h.n, n) /\ SameConn(h.n, n) /\ n.port = h.n.port /\ n.tunnel[t] = v
       /\ \A u \in Type : u # t => n.tunnel[u] = h.n.tunnel[u]
  BY <1>2, <1>8, <1>9, PutTunnelFacts
<1>12. NodeSound(n, On(h), tn)
  BY <1>2, <1>4, <1>8, <1>9, AnsweredSound
<1>13. StepSound(g, tn) /\ g.n = n /\ g.file = h.file /\ Discreet(h, g)
  BY <1>1, <1>10, <1>11, <1>12, NodeStepSound
<1>14. "token" \in Type /\ "storage" \in Type /\ "proxy" \in Type
  BY DEF Type
<1>15. \A u \in Type : n.tunnel[u].state = "FREE" <=> h.n.tunnel[u].state = "FREE"
  BY <1>4, <1>8, <1>11
<1>16. PortSound(n.port, n.tunnel["token"].state)
  BY <1>1, <1>11, <1>14, <1>15 DEF PortSound
<1> QED
  BY <1>11, <1>13, <1>14, <1>15, <1>16 DEF Keeps, HSound, SamePlace

\* The answer to a request for a tunnel, and the port that waited for it.
LEMMA OpenedSound ==
  ASSUME Streams, NEW h, NEW tn, HSound(h, tn), NEW m \in Reply, m.type = "tunnel", HeadSound(h.n, On(h), tn, m),
         NEW g, g = Opened(h, m)
  PROVE  Keeps(h, g, tn) /\ g.n.state = h.n.state
<1>1. PICK k : k = tunnel_request_handler(h, m)
  OBVIOUS
<1>2. Keeps(h, k, tn) /\ k.n.state = h.n.state
  BY <1>1, RequestHandled
<1>3. CASE g = k
  BY <1>2, <1>3
<1>4. CASE m.of = "token" /\ m.ok /\ g = cc_port_connect(k)
  <2>1. HSound(k, tn)
    BY <1>2 DEF Keeps
  <2>2. k.n.tunnel["token"].state # "DISCONNECTED"
    <3>1. h \in H /\ h.n \in NodeType /\ "token" \in Type
      BY StepFields DEF HSound, StepSound, Type
    <3>2. h.n.tunnel \in [Type -> TunnelType]
      BY <3>1, NodeFields
    <3>3. CASE h.n.tunnel["token"].state = "FREE"
      BY <1>1, <1>4, <3>3 DEF tunnel_request_handler
    <3>4. CASE h.n.tunnel["token"].state # "FREE"
      BY <1>1, <1>4, <3>1, <3>2, <3>4 DEF tunnel_request_handler, H, NodeType, TunnelType
    <3> QED
      BY <3>3, <3>4
  <2>3. Keeps(k, g, tn) /\ g.n.state = k.n.state
    BY <1>4, <2>1, <2>2, PortConnectSound
  <2> QED
    BY <1>2, <2>3, OneAfterOther
<1> QED
  BY <1>1, <1>3, <1>4 DEF Opened

\* cc_proto_parse_actor_new.
LEMMA ActorNewSound ==
  ASSUME Streams, NEW h, NEW tn, HSound(h, tn), NEW g, g = cc_proto_parse_actor_new(h)
  PROVE  Keeps(h, g, tn) /\ g.n.state = h.n.state
<1>1. CASE g = h
  BY <1>1, DoNothing
<1>2. CASE h.n.port = "none" /\ g = cc_port_connect([h EXCEPT !.n.port = "DISCONNECTED"])
  <2>1. PICK k : k = Ported(h, "DISCONNECTED")
    OBVIOUS
  <2>2. "DISCONNECTED" \in PortState /\ StepSound(h, tn) /\ PortSound(h.n.port, h.n.tunnel["token"].state)
    BY DEF PortState, HSound
  <2>3. g = cc_port_connect(k)
    BY <1>2, <2>1, <2>2, Forms DEF StepSound, Ported
  <2>4. /\ StepSound(k, tn) /\ k.file = h.file /\ SamePlace(h.n, k.n) /\ SameConn(h.n, k.n)
        /\ k.n.port = "DISCONNECTED" /\ k.n.tunnel = h.n.tunnel /\ Discreet(h, k)
    BY <2>1, <2>2, PortStepSound
  <2>5. PortSound(k.n.port, k.n.tunnel["token"].state)
    BY <1>2, <2>2, <2>4 DEF PortSound
  <2>6. Keeps(h, k, tn) /\ k.n.state = h.n.state
    BY <2>4, <2>5 DEF Keeps, HSound, SamePlace
  <2>7. Keeps(k, g, tn) /\ g.n.state = k.n.state
    <3>1. HSound(k, tn) /\ k.n.tunnel["token"].state # "DISCONNECTED"
      BY <2>4, <2>5 DEF HSound, PortSound
    <3> QED
      BY <2>3, <3>1, PortConnectSound
  <2> QED
    BY <2>6, <2>7, OneAfterOther
<1> QED
  BY <1>1, <1>2 DEF cc_proto_parse_actor_new

\* cc_port_connect_reply_handler.
LEMMA ConnectReplySound ==
  ASSUME NEW h, NEW tn, HSound(h, tn), NEW g, g = cc_port_connect_reply_handler(h)
  PROVE  Keeps(h, g, tn) /\ g.n.state = h.n.state
<1>1. CASE g = h
  BY <1>1, DoNothing
<1>2. CASE h.n.port = "PENDING" /\ g = [h EXCEPT !.n.port = "ENABLED"]
  <2>2. "ENABLED" \in PortState /\ StepSound(h, tn) /\ PortSound(h.n.port, h.n.tunnel["token"].state)
    BY DEF PortState, HSound
  <2>3. g = Ported(h, "ENABLED")
    BY <1>2, <2>2, Forms DEF StepSound, Ported
  <2>4. /\ StepSound(g, tn) /\ g.file = h.file /\ SamePlace(h.n, g.n) /\ SameConn(h.n, g.n)
        /\ g.n.port = "ENABLED" /\ g.n.tunnel = h.n.tunnel /\ Discreet(h, g)
    BY <2>2, <2>3, PortStepSound
  <2>5. PortSound(g.n.port, g.n.tunnel["token"].state)
    BY <1>2, <2>2, <2>4 DEF PortSound
  <2> QED
    BY <2>4, <2>5 DEF Keeps, HSound, SamePlace
<1> QED
  BY <1>1, <1>2 DEF cc_port_connect_reply_handler

\* Another state of a node that may be in it.
LEMMA StateStepSound ==
  ASSUME NEW h, NEW tn, HSound(h, tn), NEW x \in {"DO_START", "PENDING", "STARTED", "DO_SLEEP", "STOP"},
         x \in {"STARTED", "PENDING", "DO_SLEEP"} => Ready(h.n), NEW g, g = State(h, x)
  PROVE  Keeps(h, g, tn) /\ g.n.state = x /\ g.sent = h.sent /\ SamePort(h.n, g.n)
<1>1. h \in H /\ (CanSend \/ h.sent = <<>>) /\ NodeSound(h.n, On(h), tn) /\ PortSound(h.n.port, h.n.tunnel["token"].state)
  BY DEF StepSound, HSound
<1>2. /\ g \in H /\ g.file = h.file /\ g.sent = h.sent /\ On(g) = On(h)
      /\ g.n.pc = h.n.pc /\ g.n.state = x /\ SameConn(h.n, g.n) /\ SamePort(h.n, g.n)
  BY <1>1, StateFacts
<1>3. (Engaged(h.n) => Ready(h.n)) /\ (h.n.pc = "wait_setup" => Prepared(h.n))
  BY <1>1, EngagedReady
<1>4. h.n.pc = "dial" => Settled(h.n)
  BY <1>1 DEF NodeSound, LinkSound, Settled
<1>5. (Engaged(g.n) => Ready(h.n)) /\ g.n.tunnel = h.n.tunnel /\ g.n.port = h.n.port
  BY <1>2, <1>3 DEF Engaged, SamePort
<1>6. NodeSound(g.n, On(h), tn)
  BY <1>1, <1>2, <1>3, <1>4, <1>5, MoveSound
<1> QED
  BY <1>1, <1>2, <1>5, <1>6 DEF Keeps, HSound, StepSound, Discreet

\* proto_parse_destroy.
LEMMA DestroySound ==
  ASSUME Streams, NEW h, NEW tn, HSound(h, tn), NEW m \in Reply, m.type = "stop", NEW g, g = proto_parse_destroy(h, m)
  PROVE  Keeps(h, g, tn) /\ g.n.state = "STOP"
<1>1. PICK k : k = State(h, "STOP")
  OBVIOUS
<1>2. Keeps(h, k, tn) /\ k.n.state = "STOP"
  BY <1>1, StateStepSound
<1>3. HSound(k, tn) /\ StepSound(k, tn) /\ k \in H /\ NodeSound(k.n, On(k), tn)
      /\ PortSound(k.n.port, k.n.tunnel["token"].state)
  BY <1>2 DEF Keeps, HSound, StepSound
<1>4. PICK x \in {"CLEAN", "MIGRATE"} : x = IF m.migrate THEN "MIGRATE" ELSE "CLEAN"
  OBVIOUS
<1>5. PICK n : n = [k.n EXCEPT !.stop_method = x]
  OBVIOUS
<1>6. k.n \in NodeType
  BY <1>3, StepFields
<1>7. n \in NodeType /\ SamePlace(k.n, n) /\ SameConn(k.n, n) /\ n.tunnel = k.n.tunnel /\ n.port = k.n.port
  BY <1>4, <1>5, <1>6 DEF NodeType, SamePlace, SameConn
<1>8. NodeSound(n, On(k), tn)
  BY <1>3, <1>7, SamePlaceSound
<1>9. PICK j : j = WithNode(k, n)
  OBVIOUS
<1>10. PICK q : q = [type |-> "destroyed"]
  OBVIOUS
<1>11. q \in Request /\ q.type = "destroyed"
  BY <1>10, PlainRequest
<1>12. g = Send(j, q)
  <2>1. [k EXCEPT !.n.stop_method = x] = j
    BY <1>3, <1>5, <1>9 DEF WithNode, H
  <2> QED
    BY <1>1, <1>4, <1>10, <2>1 DEF proto_parse_destroy
<1>13. StepSound(j, tn) /\ j.n = n /\ j.file = k.file /\ Discreet(k, j)
  BY <1>3, <1>7, <1>8, <1>9, NodeStepSound
<1>14. q.type \notin Reports \cup {"tunnel"} /\ q.type # "destroy"
  BY <1>11 DEF Reports
<1>15. StepSound(g, tn) /\ g.n = j.n /\ g.file = j.file /\ Discreet(j, g)
  BY <1>11, <1>12, <1>13, <1>14, SendStep
<1>16. Discreet(k, g)
  BY <1>13, <1>15 DEF Discreet
<1>17. Keeps(k, g, tn)
  BY <1>3, <1>7, <1>13, <1>15, <1>16 DEF Keeps, HSound, SamePlace
<1> QED
  BY <1>2, <1>7, <1>13, <1>15, <1>17, OneAfterOther DEF SamePlace

\* Which states an answer takes the node to.
NextState(h, g) ==
  /\ h.n.pc = "wait_tunnels" => g.n.state \in {h.n.state, "STOP"}
  /\ h.n.pc = "wait_setup" => g.n.state \in {h.n.state, "STARTED", "STOP"}

\* cc_proto_parse_message, once the node has joined.
LEMMA ParseSound ==
  ASSUME Streams, NEW h, NEW tn, HSound(h, tn), h.n.transport = "ENABLED",
         NEW m \in Reply, HeadSound(h.n, On(h), tn, m), NEW g, g = cc_proto_parse_message(h, m)
  PROVE  Keeps(h, g, tn) /\ NextState(h, g)
<1>1. CASE g = h
  BY <1>1, DoNothing DEF NextState
<1>2. CASE m.type = "tunnel" /\ g = Opened(h, m)
  BY <1>2, OpenedSound DEF NextState
<1>3. CASE g = cc_port_connect_reply_handler(h)
  BY <1>3, ConnectReplySound DEF NextState
<1>4. CASE m.type \in {"setup", "wake"} /\ g = State(h, "STARTED") /\ m.ok
  <2>1. Ready(h.n) /\ h.n.pc # "wait_tunnels"
    BY <1>4 DEF HeadSound, Ready, Reports, Accepts
  <2> QED
    BY <1>4, <2>1, StateStepSound DEF NextState
<1>5. CASE m.type = "sleep" /\ g = State(h, IF m.ok THEN "DO_SLEEP" ELSE "STARTED")
  <2>1. Ready(h.n) /\ h.n.pc # "wait_tunnels" /\ h.n.pc # "wait_setup"
    BY <1>5 DEF HeadSound, Ready, Reports
  <2>2. PICK x \in {"DO_SLEEP", "STARTED"} : x = IF m.ok THEN "DO_SLEEP" ELSE "STARTED"
    OBVIOUS
  <2>3. g = State(h, x) /\ x \in {"DO_START", "PENDING", "STARTED", "DO_SLEEP", "STOP"}
    BY <1>5, <2>2
  <2> QED
    BY <2>1, <2>3, StateStepSound DEF NextState
<1>6. CASE m.type = "stop" /\ g = proto_parse_destroy(h, m)
  BY <1>6, DestroySound DEF NextState
<1>7. CASE g = cc_proto_parse_actor_new(h)
  BY <1>7, ActorNewSound DEF NextState
<1>8. m.type \in {"join", "setup", "wake", "connect", "sleep", "tunnel", "actor_new", "stop"}
  BY ReplyFields
<1> QED
  BY <1>1, <1>2, <1>3, <1>4, <1>5, <1>6, <1>7, <1>8
  DEF cc_proto_parse_message, cc_node_setup_reply_handler, cc_node_enter_sleep_reply_handler

(***************************************************************************)
(* The state file.                                                          *)
(***************************************************************************)
\* Saving writes a file and changes nothing else.
LEMMA SetStateFacts ==
  ASSUME NEW h \in H, NEW b \in BOOLEAN, NEW g, g = cc_node_set_state(h, b)
  PROVE  /\ g \in H /\ g.n = h.n /\ g.sent = h.sent /\ On(g) = On(h)
         /\ b => /\ g.file.kind = "state" /\ g.file.link = h.n.link /\ g.file.port = h.n.port
                 /\ g.file.tunnel["token"] = h.n.tunnel["token"].state
         /\ ~b => g.file = Config
<1>1. h.n \in NodeType /\ h.n.link \in Proxy \cup {None} /\ h.n.port \in PortState
      /\ \A t \in Type : h.n.tunnel[t].state \in TunnelState
  BY StepFields, NodeFields
<1>2. CASE b
  <2>1. PICK w : w = [t \in Type |-> h.n.tunnel[t].state]
    OBVIOUS
  <2>2. w \in [Type -> TunnelState] /\ w["token"] = h.n.tunnel["token"].state
    BY <1>1, <2>1 DEF Type
  <2>3. PICK f : f = [kind |-> "state", link |-> h.n.link, port |-> h.n.port, tunnel |-> w]
    OBVIOUS
  <2>4. f \in FileType /\ f.kind = "state" /\ f.link = h.n.link /\ f.port = h.n.port /\ f.tunnel = w
    BY <1>1, <2>2, <2>3 DEF FileType
  <2>5. g = [h EXCEPT !.file = f]
    BY <1>2, <2>1, <2>3 DEF cc_node_set_state, cc_tunnel_serialize
  <2>6. g \in H /\ g.n = h.n /\ g.sent = h.sent /\ g.file = f
    BY <2>4, <2>5 DEF H
  <2> QED
    BY <1>2, <2>2, <2>4, <2>6 DEF On
<1>3. CASE ~b
  <2>1. PICK f : f = Config
    OBVIOUS
  <2>2. g = [h EXCEPT !.file = f] /\ f \in FileType
    BY <1>3, <2>1 DEF cc_node_set_state, FileType
  <2>3. g \in H /\ g.n = h.n /\ g.sent = h.sent /\ g.file = f
    BY <2>2 DEF H
  <2> QED
    BY <1>3, <2>1, <2>3 DEF On
<1> QED
  BY <1>2, <1>3

\* A node that runs saves a sound state.
LEMMA SavedSound ==
  ASSUME NEW h, NEW tn, HSound(h, tn), Engaged(h.n), NEW g, g = cc_node_set_state(h, TRUE)
  PROVE  HSound(g, tn) /\ FileSound(g.file) /\ g.n = h.n /\ On(g) = On(h) /\ g.sent = h.sent
<1>1. h \in H /\ (CanSend \/ h.sent = <<>>) /\ NodeSound(h.n, On(h), tn) /\ PortSound(h.n.port, h.n.tunnel["token"].state)
  BY DEF StepSound, HSound
<1>2. /\ g \in H /\ g.n = h.n /\ g.sent = h.sent /\ On(g) = On(h)
      /\ g.file.kind = "state" /\ g.file.link = h.n.link /\ g.file.port = h.n.port
      /\ g.file.tunnel["token"] = h.n.tunnel["token"].state
  BY <1>1, SetStateFacts
<1>3. Ready(h.n)
  BY <1>1, EngagedReady
<1>4. h.n.link \in configured \/ Excused
  BY <1>3 DEF Ready, Prepared, Attached, Forced, Excused
<1> QED
  BY <1>1, <1>2, <1>4 DEF FileSound, HSound, StepSound

(***************************************************************************)
(* Where the node waits next.                                               *)
(***************************************************************************)
\* A step that has come to an end, with the node running.
Done(h, tn) ==
  /\ HSound(h, tn) /\ PlaceSound(h.n) /\ WaitSound(h.n, On(h), tn) /\ h.n.pc \in Running \ {"save"}

\* Moving on, with the requests and the answers as they are.
LEMMA MoveStepSound ==
  ASSUME NEW h, NEW tn, HSound(h, tn), NEW x \in Pc, NEW g, g = At(h, x),
         x = "wait_setup" => Prepared(h.n), x = "dial" => Settled(h.n), x # "wait_sleep",
         h.n.pc # "wait_join" \/ h.n.transport = "ENABLED" \/ (conn # "up" /\ tn = <<>>)
  PROVE  /\ HSound(g, tn) /\ g.file = h.file /\ g.sent = h.sent /\ On(g) = On(h) /\ g.n.pc = x
         /\ g.n.state = h.n.state /\ SameConn(h.n, g.n) /\ SamePort(h.n, g.n) /\ g.n.uri = h.n.uri
<1>1. h \in H /\ (CanSend \/ h.sent = <<>>) /\ NodeSound(h.n, On(h), tn) /\ PortSound(h.n.port, h.n.tunnel["token"].state)
  BY DEF StepSound, HSound
<1>2. /\ g \in H /\ g.file = h.file /\ g.sent = h.sent /\ On(g) = On(h) /\ g.n.uri = h.n.uri
      /\ g.n.pc = x /\ g.n.state = h.n.state /\ SameConn(h.n, g.n) /\ SamePort(h.n, g.n)
  BY <1>1, AtFacts
<1>3. g.n.tunnel = h.n.tunnel /\ g.n.port = h.n.port
  BY <1>2 DEF SamePort
<1>4. Engaged(g.n) => Ready(h.n)
  BY <1>1, <1>2, EngagedReady DEF Engaged
<1>5. NodeSound(g.n, On(h), tn)
  BY <1>1, <1>2, <1>3, <1>4, MoveSound
<1> QED
  BY <1>1, <1>2, <1>3, <1>5 DEF HSound, StepSound

\* The node has been told to stop.
LEMMA ToStop ==
  ASSUME NEW h, NEW tn, HSound(h, tn), h.n.state = "STOP",
         h.n.pc # "wait_join" \/ h.n.transport = "ENABLED" \/ (conn # "up" /\ tn = <<>>),
         NEW g, g = At(h, "stop")
  PROVE  Done(g, tn) /\ g.file = h.file /\ g.sent = h.sent
<1>1. "stop" \in Pc /\ "stop" \in Running \ {"save"}
  BY DEF Pc, Running
<1>2. HSound(g, tn) /\ g.n.pc = "stop" /\ g.n.state = h.n.state /\ g.file = h.file /\ g.sent = h.sent
  BY <1>1, MoveStepSound
<1> QED
  BY <1>1, <1>2 DEF Done, PlaceSound, WaitSound

\* The main loop.
LEMMA ToMain ==
  ASSUME NEW h, NEW tn, HSound(h, tn),
         h.n.pc # "wait_join" \/ h.n.transport = "ENABLED" \/ (conn # "up" /\ tn = <<>>),
         NEW g, g = At(h, "main")
  PROVE  Done(g, tn) /\ g.file = h.file /\ g.sent = h.sent /\ g.n.pc = "main"
<1>1. "main" \in Pc /\ "main" \in Running \ {"save"}
  BY DEF Pc, Running, Waits
<1>2. HSound(g, tn) /\ g.n.pc = "main" /\ g.n.state = h.n.state /\ g.file = h.file /\ g.sent = h.sent
  BY <1>1, MoveStepSound
<1> QED
  BY <1>1, <1>2 DEF Done, PlaceSound, WaitSound

\* Another attempt, with another URI.
LEMMA ToDial ==
  ASSUME NEW h, NEW tn, HSound(h, tn), Settled(h.n),
         h.n.pc # "wait_join" \/ h.n.transport = "ENABLED" \/ (conn # "up" /\ tn = <<>>),
         NEW u \in 1 .. Len(Uris), NEW g, g = At(State([h EXCEPT !.n.uri = u], "DO_START"), "dial")
  PROVE  Done(g, tn) /\ g.file = h.file /\ g.sent = h.sent /\ g.n.pc = "dial"
<1>1. StepSound(h, tn) /\ h \in H /\ NodeSound(h.n, On(h), tn) /\ PortSound(h.n.port, h.n.tunnel["token"].state)
      /\ h.n \in NodeType
  BY StepFields DEF StepSound, HSound
<1>2. PICK n : n = [h.n EXCEPT !.uri = u]
  OBVIOUS
<1>3. n \in NodeType /\ SamePlace(h.n, n) /\ SameConn(h.n, n) /\ n.tunnel = h.n.tunnel /\ n.port = h.n.port
  BY <1>1, <1>2 DEF NodeType, SamePlace, SameConn
<1>4. PICK k : k = WithNode(h, n)
  OBVIOUS
<1>5. g = At(State(k, "DO_START"), "dial")
  BY <1>1, <1>2, <1>4 DEF H, WithNode
<1>6. NodeSound(n, On(h), tn)
  BY <1>1, <1>3, SamePlaceSound
<1>7. StepSound(k, tn) /\ k.n = n /\ k.file = h.file /\ k.sent = h.sent
  BY <1>1, <1>3, <1>4, <1>6, NodeStepSound
<1>8. HSound(k, tn)
  BY <1>1, <1>3, <1>7 DEF HSound
<1>9. PICK j : j = State(k, "DO_START")
  OBVIOUS
<1>10. Keeps(k, j, tn) /\ j.n.state = "DO_START" /\ j.sent = k.sent /\ SamePort(k.n, j.n)
  BY <1>8, <1>9, StateStepSound
<1>11. HSound(j, tn) /\ j.file = k.file /\ j.n.pc = k.n.pc /\ SameConn(k.n, j.n)
  BY <1>10 DEF Keeps
<1>12. Settled(j.n) /\ (j.n.pc # "wait_join" \/ j.n.transport = "ENABLED" \/ (conn # "up" /\ tn = <<>>))
  BY <1>3, <1>7, <1>10, <1>11 DEF Settled, SameConn, SamePort, SamePlace
<1>13. "dial" \in Pc /\ "dial" \in Running \ {"save"}
  BY DEF Pc, Running
<1>14. g = At(j, "dial")
  BY <1>5, <1>9
<1>15. HSound(g, tn) /\ g.n.pc = "dial" /\ g.n.state = j.n.state /\ g.file = j.file /\ g.sent = j.sent
  BY <1>11, <1>12, <1>13, <1>14, MoveStepSound
<1> QED
  BY <1>7, <1>10, <1>11, <1>13, <1>15 DEF Done, PlaceSound, WaitSound

\* The top of the loop in cc_node_run.
LEMMA TopSound ==
  ASSUME NEW h, NEW tn, HSound(h, tn), h.n.pc # "wait_join", NEW g, g = Top(h)
  PROVE  Done(g, tn) /\ g.file = h.file
<1>1. CASE h.n.state = "STOP" /\ g = At(h, "stop")
  BY <1>1, ToStop
<1>2. CASE g = At(h, "main")
  BY <1>2, ToMain
<1>3. CASE h.n.transport # "ENABLED" /\ g = At(State([h EXCEPT !.n.uri = 1], "DO_START"), "dial")
  <2>1. Settled(h.n)
    BY <1>3 DEF HSound, StepSound, NodeSound, LinkSound, Settled
  <2>2. 1 \in 1 .. Len(Uris)
    BY NodeAssumption
  <2> QED
    BY <1>3, <2>1, <2>2, ToDial
<1> QED
  BY <1>1, <1>2, <1>3 DEF Top

\* An attempt fails.
LEMMA NextUriSound ==
  ASSUME NEW h, NEW tn, HSound(h, tn), h.n.state # "STOP" => Settled(h.n),
         h.n.pc # "wait_join" \/ h.n.transport = "ENABLED" \/ (conn # "up" /\ tn = <<>>),
         NEW g, g = NextUri(h)
  PROVE  Done(g, tn) /\ g.file = h.file /\ g.n.pc \in {"dial", "main"}
<1>1. CASE h.n.state # "STOP" /\ h.n.uri < Len(Uris) /\ g = At(State([h EXCEPT !.n.uri = @ + 1], "DO_START"), "dial")
  <2>1. h.n.uri \in 1 .. Len(Uris) /\ Len(Uris) \in Nat
    <3>1. h.n \in NodeType
      BY StepFields DEF HSound, StepSound
    <3> QED
      BY <3>1, NodeFields, NodeAssumption
  <2>2. PICK u \in 1 .. Len(Uris) : u = h.n.uri + 1
    BY <1>1, <2>1
  <2>3. g = At(State([h EXCEPT !.n.uri = u], "DO_START"), "dial")
    BY <1>1, <2>2
  <2> QED
    BY <1>1, <2>3, ToDial
<1>2. CASE g = At(h, "main")
  BY <1>2, ToMain
<1> QED
  BY <1>1, <1>2 DEF NextUri

\* The wait for the answer to the report.
LEMMA ReportedSound ==
  ASSUME Streams, NEW h, NEW tn, HSound(h, tn), WaitSound(h.n, On(h), tn), h.n.pc = "wait_setup",
         h.n.state \in {"DO_START", "STARTED", "STOP"}, NEW g, g = Reported(h)
  PROVE  Done(g, tn) /\ g.file = h.file
<1>1. CASE g = At(cc_port_connect(h), "main")
  <2>1. PICK k : k = cc_port_connect(h)
    OBVIOUS
  <2>3. HSound(k, tn) /\ k.file = h.file /\ k.n.pc = "wait_setup"
    BY <2>1, PortConnectSound
  <2>4. g = At(k, "main")
    BY <1>1, <2>1
  <2> QED
    BY <2>3, <2>4, ToMain
<1>2. CASE h.n.state = "STOP" /\ g = NextUri(h)
  BY <1>2, NextUriSound
<1>3. CASE h.n.state \notin {"STARTED", "STOP"} /\ g = h
  <2>1. h.n.pc \in Running \ {"save"}
    BY DEF Running, Waits
  <2> QED
    BY <1>3, <2>1 DEF Done, PlaceSound
<1> QED
  BY <1>1, <1>2, <1>3 DEF Reported

\* What the connect loop knows once it has a link.
HasLink(h, tn) ==
  /\ HSound(h, tn) /\ h.n.pc \in {"wait_join", "wait_tunnels"} /\ h.n.transport = "ENABLED"
  /\ h.n.link = h.n.peer /\ h.n.state \in {"DO_START", "STOP"}
  /\ \A t \in {"storage", "proxy"} : h.n.tunnel[t].state # "FREE"
  /\ ~Has(On(h), Reports) /\ ~Has(tn, Reports)

\* The node reports itself.
LEMMA ReportSound ==
  ASSUME Streams, server \in Proxy, NEW h, NEW tn, HasLink(h, tn),
         h.n.state = "STOP" \/ \A t \in {"storage", "proxy"} : h.n.tunnel[t].state # "PENDING",
         NEW g, g = Report(h)
  PROVE  Done(g, tn) /\ g.file = h.file
<1>1. /\ HSound(h, tn) /\ h.n.transport = "ENABLED" /\ h.n.link = h.n.peer
      /\ h.n.state \in {"DO_START", "STOP"} /\ h \in H /\ StepSound(h, tn)
      /\ NodeSound(h.n, On(h), tn) /\ h.n \in NodeType /\ PortSound(h.n.port, h.n.tunnel["token"].state)
  BY StepFields DEF HasLink, HSound, StepSound
<1>2. LinkSound(h.n) /\ h.n.peer = server /\ h.n.link # None
  BY <1>1, NodeAssumption DEF NodeSound, ConnSound
<1>3. CASE (\E t \in {"storage", "proxy"} : h.n.tunnel[t].state # "ENABLED") /\ g = NextUri(h)
  <2>1. ASSUME h.n.state # "STOP" PROVE Settled(h.n)
    <3>1. PICK t \in {"storage", "proxy"} : h.n.tunnel[t].state # "ENABLED"
      BY <1>3
    <3>2. h.n.tunnel[t].state \in TunnelState
      BY <1>1, NodeFields DEF Type
    <3>3. h.n.tunnel[t].state = "DISCONNECTED"
      BY <2>1, <3>1, <3>2 DEF HasLink, TunnelState
    <3> QED
      BY <3>3 DEF Settled
  <2> QED
    BY <1>1, <1>3, <2>1, NextUriSound
<1>4. CASE ~CanSend /\ g = NextUri(h)
  <2>1. Settled(h.n)
    BY <1>2, <1>4 DEF LinkSound, Settled, CanSend
  <2> QED
    BY <1>1, <1>4, <2>1, NextUriSound
<1>5. CASE /\ ~\E t \in {"storage", "proxy"} : h.n.tunnel[t].state # "ENABLED"
           /\ CanSend
           /\ g = Reported(At(Send(h, [type |-> IF h.n.new_proxy THEN "setup" ELSE "wake"]), "wait_setup"))
  <2>1. PICK x \in {"setup", "wake"} : x = IF h.n.new_proxy THEN "setup" ELSE "wake"
    OBVIOUS
  <2>2. PICK m : m = [type |-> x]
    OBVIOUS
  <2>3. m \in Request /\ m.type = x
    BY <2>2, PlainRequest
  <2>4. PICK k : k = Send(h, m)
    OBVIOUS
  <2>5. PICK j : j = At(k, "wait_setup")
    OBVIOUS
  <2>6. g = Reported(j)
    BY <1>5, <2>1, <2>2, <2>4, <2>5
  <2>7. Prepared(h.n)
    BY <1>1, <1>5 DEF Prepared, Attached
  <2>8. m.type \in {"wake", "sleep"} => Ready(h.n)
    BY <1>1, <1>2, <1>5, <2>1, <2>3, <2>7 DEF Ready, LinkSound
  <2>9. k \in H /\ k.n = h.n /\ k.file = h.file /\ On(k) = Append(On(h), m)
    BY <1>1, <1>5, <2>3, <2>4, SendFacts
  <2>10. On(h) \in Seq(Request)
    BY <1>1, OnFacts
  <2>11. NodeSound(h.n, On(k), tn)
    BY <1>1, <2>3, <2>7, <2>8, <2>9, <2>10, SentSound
  <2>12. HSound(k, tn)
    BY <1>1, <1>5, <2>9, <2>11 DEF HSound, StepSound
  <2>13. "wait_setup" \in Pc
    BY DEF Pc, Running, Waits
  <2>14. HSound(j, tn) /\ j.file = k.file /\ On(j) = On(k) /\ j.n.pc = "wait_setup" /\ j.n.state = k.n.state
    BY <1>1, <2>5, <2>7, <2>9, <2>12, <2>13, MoveStepSound
  <2>15. \A T : Has(On(k), T) <=> Has(On(h), T) \/ m.type \in T
    BY <2>3, <2>9, <2>10, AppendFacts
  <2>16. ~Has(On(j), {"sleep"}) /\ ~Has(tn, {"sleep"})
    <3>1. \A s : Has(s, {"sleep"}) => Has(s, Reports)
      BY DEF Has, Reports
    <3> QED
      BY <2>3, <2>14, <2>15, <3>1 DEF HasLink
  <2>17. WaitSound(j.n, On(j), tn)
    BY <2>14, <2>16 DEF WaitSound
  <2>18. Done(g, tn) /\ g.file = j.file
    BY <1>1, <2>6, <2>9, <2>14, <2>17, ReportedSound
  <2> QED
    BY <2>9, <2>14, <2>18
<1> QED
  BY <1>3, <1>4, <1>5 DEF Report

\* The wait for the tunnels.
LEMMA AwaitSound ==
  ASSUME Streams, server \in Proxy, NEW h, NEW tn, HasLink(h, tn), NEW g, g = AwaitTunnels(h)
  PROVE  Done(g, tn) /\ g.file = h.file
<1>1. CASE h.n.state # "STOP" /\ g = At(h, "wait_tunnels")
  <2>1. "wait_tunnels" \in Pc /\ "wait_tunnels" \in Running \ {"save"}
    BY DEF Pc, Running, Waits
  <2>2. /\ HSound(g, tn) /\ g.file = h.file /\ On(g) = On(h) /\ g.n.pc = "wait_tunnels"
        /\ g.n.state = h.n.state /\ SameConn(h.n, g.n) /\ SamePort(h.n, g.n)
    BY <1>1, <2>1, MoveStepSound DEF HasLink
  <2>3. g.n.state = "DO_START" /\ g.n.transport = "ENABLED" /\ g.n.link = g.n.peer
    BY <1>1, <2>2 DEF HasLink, SameConn
  <2>4. \A t \in {"storage", "proxy"} : g.n.tunnel[t].state # "FREE"
    BY <2>2 DEF HasLink, SamePort
  <2>5. ~Has(On(g), Reports) /\ ~Has(tn, Reports)
    BY <2>2 DEF HasLink
  <2> QED
    BY <2>1, <2>2, <2>3, <2>4, <2>5 DEF Done, PlaceSound, WaitSound
<1>2. CASE /\ h.n.state = "STOP" \/ \A t \in {"storage", "proxy"} : h.n.tunnel[t].state # "PENDING"
           /\ g = Report(h)
  BY <1>2, ReportSound
<1> QED
  BY <1>1, <1>2 DEF AwaitTunnels

\* What the node knows of its proxy when the join is answered.
Known(h, k) ==
  /\ k \in H /\ k.file = h.file /\ k.sent = h.sent
  /\ SamePlace(h.n, k.n) /\ k.n.transport = "ENABLED" /\ k.n.peer = server /\ k.n.link = server
  /\ \/ h.n.link = server /\ SamePort(h.n, k.n)
     \/ k.n.new_proxy /\ SamePort(h.n, k.n)
     \/ /\ k.n.new_proxy /\ \A t \in Type : k.n.tunnel[t].state = "FREE"
        /\ k.n.port \in {"none", "DISCONNECTED"}

JoinAnswered(h) == [h EXCEPT !.n.peer = server, !.n.transport = "ENABLED"]

\* How it comes to know it.
LEMMA KnownFacts ==
  ASSUME server \in Proxy, NEW h \in H,
         NEW j, j = JoinAnswered(h), NEW k, k = Linked(j)
  PROVE  Known(h, k)
<1>1. h.n \in NodeType /\ h = [n |-> h.n, file |-> h.file, sent |-> h.sent] /\ h.n.port \in PortState
  BY StepFields, NodeFields DEF H
<1>2. PICK p : p = [h.n EXCEPT !.peer = server, !.transport = "ENABLED"]
  OBVIOUS
<1>3. /\ p \in NodeType /\ SamePlace(h.n, p) /\ p.transport = "ENABLED" /\ p.peer = server /\ p.link = h.n.link
      /\ SamePort(h.n, p)
  BY <1>1, <1>2 DEF NodeType, SamePlace, SamePort
<1>4. j \in H /\ j.n = p /\ j.file = h.file /\ j.sent = h.sent
  BY <1>1, <1>2, <1>3 DEF H, JoinAnswered
<1>5. PICK b \in BOOLEAN : b = (j.n.link # j.n.peer)
  OBVIOUS
<1>6. CASE h.n.link \in {None, server}
  <2>1. PICK q : q = [p EXCEPT !.link = server, !.new_proxy = b]
    OBVIOUS
  <2>2. /\ q \in NodeType /\ SamePlace(h.n, q) /\ q.transport = "ENABLED" /\ q.peer = server /\ q.link = server
        /\ SamePort(h.n, q) /\ q.new_proxy = b
    BY <1>3, <2>1 DEF NodeType, SamePlace, SamePort
  <2>3. k = [j EXCEPT !.n.link = server, !.n.new_proxy = b]
    BY <1>3, <1>4, <1>5, <1>6 DEF Linked
  <2>4. k \in H /\ k.n = q /\ k.file = h.file /\ k.sent = h.sent
    BY <1>4, <2>1, <2>2, <2>3 DEF H
  <2>5. h.n.link = server \/ b
    BY <1>3, <1>4, <1>5
  <2> QED
    BY <2>2, <2>4, <2>5 DEF Known
<1>7. CASE h.n.link \notin {None, server}
  <2>1. PICK w : w = [t \in Type |-> NoTunnel]
    OBVIOUS
  <2>2. w \in [Type -> TunnelType] /\ \A t \in Type : w[t].state = "FREE"
    BY <2>1, NoTunnelFacts
  <2>3. PICK x \in {"none", "DISCONNECTED"} : x = IF p.port = "none" THEN "none" ELSE "DISCONNECTED"
    OBVIOUS
  <2>4. PICK r : r = [p EXCEPT !.tunnel = w, !.link = None, !.port = x]
    OBVIOUS
  <2>5. x \in PortState
    BY <2>3 DEF PortState
  <2>6. /\ r \in NodeType /\ SamePlace(h.n, r) /\ r.transport = "ENABLED" /\ r.peer = server
        /\ r.tunnel = w /\ r.port = x
    BY <1>3, <2>2, <2>4, <2>5 DEF NodeType, SamePlace, TunnelType
  <2>7. PICK i : i = NewProxy(j)
    OBVIOUS
  <2>8. i \in H /\ i.n = r /\ i.file = h.file /\ i.sent = h.sent
    <3>1. i = [j EXCEPT !.n.tunnel = w, !.n.link = None, !.n.port = x]
      BY <1>4, <2>1, <2>3, <2>7 DEF NewProxy
    <3> QED
      BY <1>4, <2>4, <2>6, <3>1 DEF H
  <2>11. PICK q : q = [r EXCEPT !.link = server, !.new_proxy = b]
    OBVIOUS
  <2>12. /\ q \in NodeType /\ SamePlace(h.n, q) /\ q.transport = "ENABLED" /\ q.peer = server /\ q.link = server
         /\ q.tunnel = w /\ q.port = x /\ q.new_proxy = b
    BY <2>6, <2>11 DEF NodeType, SamePlace
  <2>13. k = [i EXCEPT !.n.link = server, !.n.new_proxy = b]
    BY <1>3, <1>4, <1>5, <1>7, <2>7 DEF Linked
  <2>9. k \in H /\ k.n = q /\ k.file = h.file /\ k.sent = h.sent
    BY <2>8, <2>11, <2>12, <2>13 DEF H
  <2>10. b
    BY <1>3, <1>4, <1>5, <1>7
  <2> QED
    BY <2>2, <2>3, <2>12, <2>9, <2>10 DEF Known
<1> QED
  BY <1>6, <1>7

\* It is sound, nothing but the join being under way.
LEMMA KnownSound ==
  ASSUME NEW h, NEW tn, HSound(h, tn), PlaceSound(h.n), WaitSound(h.n, On(h), tn), h.n.pc = "wait_join",
         NEW k, Known(h, k)
  PROVE  HSound(k, tn) /\ ~Has(On(k), Reports) /\ ~Has(tn, Reports)
<1>1. /\ h \in H /\ (CanSend \/ h.sent = <<>>) /\ NodeSound(h.n, On(h), tn)
      /\ PortSound(h.n.port, h.n.tunnel["token"].state)
  BY DEF StepSound, HSound
<1>2. /\ k \in H /\ k.file = h.file /\ k.sent = h.sent /\ On(k) = On(h)
      /\ k.n.transport = "ENABLED" /\ k.n.peer = server /\ k.n.link = server
      /\ k.n.pc = "wait_join" /\ k.n.state = "DO_START" /\ h.n.transport = "PENDING"
  BY DEF Known, On, SamePlace, PlaceSound
<1>3. /\ ~Has(On(h), {"tunnel"}) /\ ~Has(tn, {"tunnel"}) /\ ~Has(On(h), Reports) /\ ~Has(tn, Reports)
      /\ conn = "up" \/ server \in configured \/ Excused
  BY DEF WaitSound
<1>4. \A s : ~Has(s, {"tunnel"}) => \A t : NoneAbout(s, t) /\ OnceAbout(s, t)
  BY DEF Has, NoneAbout, OnceAbout, About
<1>5. \A t : NoneAbout(On(h), t) /\ OnceAbout(On(h), t) /\ NoneAbout(tn, t) /\ OnceAbout(tn, t)
  BY <1>3, <1>4
<1>6. TunnelsSound(k.n, On(h), tn)
  <2>1. CASE SamePort(h.n, k.n)
    <3>1. k.n.tunnel = h.n.tunnel
      BY <2>1 DEF SamePort
    <3> QED
      BY <1>1, <3>1 DEF NodeSound, TunnelsSound
  <2>2. CASE \A t \in Type : k.n.tunnel[t].state = "FREE"
    BY <1>5, <2>2 DEF TunnelsSound
  <2> QED
    BY <2>1, <2>2 DEF Known
<1>7. \A s : ~Has(s, Reports) => ~Has(s, {"wake", "sleep"}) /\ ~Accepted(s)
  BY DEF Has, Reports, Accepted, Accepts
<1>8. ReportsSound(k.n, On(h), tn)
  BY <1>2, <1>3, <1>7 DEF ReportsSound, Engaged
<1>9. LinkSound(k.n)
  <2>1. CASE h.n.link = server /\ SamePort(h.n, k.n)
    BY <1>1, <1>2, <2>1 DEF NodeSound, LinkSound, SamePort
  <2>2. CASE k.n.new_proxy
    BY <1>2, <1>3, <2>2 DEF LinkSound
  <2> QED
    BY <2>1, <2>2 DEF Known
<1>10. ConnSound(k.n, tn)
  BY <1>2 DEF ConnSound
<1>11. PortSound(k.n.port, k.n.tunnel["token"].state)
  BY <1>1 DEF Known, PortSound, SamePort, Type
<1> QED
  BY <1>1, <1>2, <1>3, <1>6, <1>8, <1>9, <1>10, <1>11 DEF HSound, StepSound, NodeSound

\* A tunnel of the node itself is made if it is not there.
LEMMA MakeSound ==
  ASSUME Streams, NEW h, NEW tn, HSound(h, tn), NEW t \in {"storage", "proxy"}, NEW g,
         \/ h.n.tunnel[t].state = "FREE" /\ g = cc_tunnel_create(h, t)
         \/ h.n.tunnel[t].state # "FREE" /\ g = h
  PROVE  /\ Keeps(h, g, tn) /\ g.n.state = h.n.state /\ g.n.tunnel[t].state # "FREE"
         /\ \A u \in {"storage", "proxy"} \ {t} : g.n.tunnel[u] = h.n.tunnel[u]
<1>1. CASE g = h /\ h.n.tunnel[t].state # "FREE"
  BY <1>1, DoNothing
<1>2. CASE h.n.tunnel[t].state = "FREE" /\ g = cc_tunnel_create(h, t)
  <2>1. t \in Type /\ "token" \in Type /\ t # "token" /\ "storage" \in Type /\ "proxy" \in Type
    BY DEF Type
  <2>2. StepSound(h, tn) /\ PortSound(h.n.port, h.n.tunnel["token"].state)
    BY DEF HSound
  <2>3. /\ StepSound(g, tn) /\ g.file = h.file /\ SamePlace(h.n, g.n) /\ SameConn(h.n, g.n)
        /\ g.n.port = h.n.port /\ g.n.tunnel[t].state = "PENDING"
        /\ \A u \in Type : u # t => g.n.tunnel[u] = h.n.tunnel[u]
        /\ Discreet(h, g)
    BY <1>2, <2>1, <2>2, TunnelCreateSound
  <2>4. PortSound(g.n.port, g.n.tunnel["token"].state)
    BY <2>1, <2>2, <2>3
  <2> QED
    BY <2>1, <2>3, <2>4 DEF Keeps, HSound, SamePlace
<1> QED
  BY <1>1, <1>2

\* The join is answered.
LEMMA JoinedSound ==
  ASSUME Streams, server \in Proxy, NEW h, NEW tn, HSound(h, tn), PlaceSound(h.n), WaitSound(h.n, On(h), tn),
         h.n.pc = "wait_join",
         NEW j, j = JoinAnswered(h), NEW g, g = Joined(j)
  PROVE  Done(g, tn) /\ g.file = h.file
<1>1. PICK k : k = Linked(j)
  OBVIOUS
<1>2. PICK a : a = IF "storage" \in Missing(k) THEN cc_tunnel_create(k, "storage") ELSE k
  OBVIOUS
<1>3. PICK b : b = IF "proxy" \in Missing(a) THEN cc_tunnel_create(a, "proxy") ELSE a
  OBVIOUS
<1>4. g = IF Missing(k) # {} /\ ~CanSend THEN NextUri(k) ELSE AwaitTunnels(b)
  BY <1>1, <1>2, <1>3 DEF Joined
<1>5. Known(h, k)
  <2>1. h \in H
    BY DEF HSound, StepSound
  <2> QED
    BY <1>1, <2>1, KnownFacts
<1>6. /\ HSound(k, tn) /\ ~Has(On(k), Reports) /\ ~Has(tn, Reports)
      /\ k.file = h.file /\ k.n.pc = "wait_join" /\ k.n.state = "DO_START" /\ k.n.transport = "ENABLED"
      /\ k.n.link = k.n.peer
  BY <1>5, KnownSound DEF Known, SamePlace, PlaceSound
<1>7. CASE ~CanSend /\ g = NextUri(k)
  <2>1. Settled(k.n)
    BY <1>6, <1>7 DEF HSound, StepSound, NodeSound, LinkSound, Settled, CanSend
  <2> QED
    BY <1>6, <1>7, <2>1, NextUriSound
<1>8. CASE g = AwaitTunnels(b)
  <2>1. \/ k.n.tunnel["storage"].state = "FREE" /\ a = cc_tunnel_create(k, "storage")
        \/ k.n.tunnel["storage"].state # "FREE" /\ a = k
    BY <1>2 DEF Missing
  <2>2. /\ Keeps(k, a, tn) /\ a.n.state = k.n.state /\ a.n.tunnel["storage"].state # "FREE"
    BY <1>6, <2>1, MakeSound
  <2>3. \/ a.n.tunnel["proxy"].state = "FREE" /\ b = cc_tunnel_create(a, "proxy")
        \/ a.n.tunnel["proxy"].state # "FREE" /\ b = a
    BY <1>3 DEF Missing
  <2>4. HSound(a, tn)
    BY <2>2 DEF Keeps
  <2>5. /\ Keeps(a, b, tn) /\ b.n.state = a.n.state /\ b.n.tunnel["proxy"].state # "FREE"
        /\ b.n.tunnel["storage"] = a.n.tunnel["storage"]
    BY <2>3, <2>4, MakeSound
  <2>6. Keeps(k, b, tn)
    BY <2>2, <2>5, OneAfterOther
  <2>7. HSound(b, tn) /\ b.file = k.file /\ b.n.pc = k.n.pc /\ SameConn(k.n, b.n) /\ Discreet(k, b)
    BY <2>6 DEF Keeps
  <2>8. ~Has(On(b), Reports)
    BY <1>6, <2>7 DEF Discreet
  <2>9. HasLink(b, tn)
    BY <1>6, <2>2, <2>5, <2>7, <2>8 DEF HasLink, SameConn
  <2>10. Done(g, tn) /\ g.file = b.file
    BY <1>8, <2>9, AwaitSound
  <2> QED
    BY <1>6, <2>7, <2>10
<1> QED
  BY <1>4, <1>7, <1>8

(***************************************************************************)
(* Giving tunnels back.                                                     *)
(***************************************************************************)
In(m, s) == \E i \in 1 .. Len(s) : s[i] = m
Destroy(t) == [type |-> "destroy", of |-> t]

\* One message more.
LEMMA InAppend ==
  ASSUME NEW S, NEW s \in Seq(S), NEW m \in S, NEW r, r = Append(s, m)
  PROVE  \A x : In(x, r) <=> In(x, s) \/ x = m
<1> DEFINE n == Len(s)
<1>1. n \in Nat /\ Len(r) = n + 1 /\ r[n + 1] = m /\ \A i \in 1 .. n : r[i] = s[i]
  OBVIOUS
<1>2. 1 .. n + 1 = (1 .. n) \cup {n + 1} /\ n + 1 \notin 1 .. n
  BY <1>1
<1> QED
  BY <1>1, <1>2 DEF In

\* The messages of two sequences, one after the other.
LEMMA InConcat ==
  ASSUME NEW S, NEW s \in Seq(S), NEW r \in Seq(S)
  PROVE  \A x : x \in Range(s \o r) <=> x \in Range(s) \/ In(x, r)
<1> DEFINE n == Len(s)
           k == Len(r)
           u == s \o r
<1>1. /\ n \in Nat /\ k \in Nat /\ Len(u) = n + k
      /\ \A i \in 1 .. n : u[i] = s[i]
      /\ \A i \in 1 .. k : u[n + i] = r[i]
      /\ DOMAIN u = 1 .. n + k /\ DOMAIN s = 1 .. n
  OBVIOUS
<1>2. /\ \A i \in 1 .. n + k : i \in 1 .. n \/ (i - n \in 1 .. k /\ u[i] = r[i - n])
      /\ \A i \in 1 .. k : n + i \in 1 .. n + k
      /\ \A i \in 1 .. n : i \in 1 .. n + k
  <2> HIDE DEF u, n, k
  <2>1. \A i \in 1 .. n + k : i \in 1 .. n \/ (i - n \in 1 .. k /\ n + (i - n) = i)
    BY <1>1
  <2> QED
    BY <1>1, <2>1
<1> HIDE DEF u, n, k
<1>3. ASSUME NEW x, x \in Range(u) PROVE x \in Range(s) \/ In(x, r)
  <2>1. PICK i \in 1 .. n + k : x = u[i]
    BY <1>1, <1>3 DEF Range
  <2>2. CASE i \in 1 .. n
    BY <1>1, <2>1, <2>2 DEF Range
  <2>3. CASE i - n \in 1 .. k /\ u[i] = r[i - n]
    BY <2>1, <2>3 DEF In, k
  <2> QED
    BY <1>2, <2>2, <2>3
<1>4. ASSUME NEW x, x \in Range(s) PROVE x \in Range(u)
  BY <1>1, <1>2, <1>4 DEF Range
<1>5. ASSUME NEW x, In(x, r) PROVE x \in Range(u)
  <2>1. PICK i \in 1 .. k : r[i] = x
    BY <1>5 DEF In, k
  <2>2. u[n + i] = x /\ n + i \in DOMAIN u
    BY <1>1, <1>2, <2>1
  <2> QED
    BY <2>2 DEF Range
<1> QED
  BY <1>3, <1>4, <1>5 DEF u

\* What freeing changes: a tunnel, and the requests to destroy tunnels.
Frees(h, g) ==
  /\ g \in H /\ g.file = h.file /\ SamePlace(h.n, g.n) /\ SameConn(h.n, g.n) /\ g.n.stop_method = h.n.stop_method
  /\ \A x : In(x, h.sent) => In(x, g.sent)
  /\ h.n.state = "DO_SLEEP" \/ ~CanSend => g.sent = h.sent

\* cc_tunnel_remove_ref.
LEMMA RemoveRefFacts ==
  ASSUME Streams, NEW h \in H, NEW t \in Type, NEW g, g = cc_tunnel_remove_ref(h, t)
  PROVE  /\ Frees(h, g) /\ g.n.port = h.n.port
         /\ \A u \in Type : u # t => g.n.tunnel[u] = h.n.tunnel[u]
         /\ h.n.tunnel[t].ref_count = 1 /\ h.n.state # "DO_SLEEP" /\ CanSend => In(Destroy(t), g.sent)
<1>1. /\ h.n \in NodeType /\ h.sent \in Seq(Request) /\ h.n.tunnel[t] \in TunnelType
      /\ h.n.tunnel[t].ref_count \in 0 .. RefModulus - 1
  BY StepFields, NodeFields
<1>2. PICK x \in 0 .. RefModulus - 1 : x = (h.n.tunnel[t].ref_count + RefModulus - 1) % RefModulus
  BY <1>1, LeftFacts
<1>3. PICK v \in TunnelType : v = IF x # 0 THEN [h.n.tunnel[t] EXCEPT !.ref_count = x] ELSE NoTunnel
  <2>1. [h.n.tunnel[t] EXCEPT !.ref_count = x] \in TunnelType
    BY <1>1 DEF TunnelType
  <2> QED
    BY <2>1, NoTunnelFacts
<1>4. PICK n : n = PutTunnel(h.n, t, v)
  OBVIOUS
<1>5. /\ n \in NodeType /\ SamePlace(h.n, n) /\ SameConn(h.n, n) /\ n.port = h.n.port
      /\ \A u \in Type : u # t => n.tunnel[u] = h.n.tunnel[u]
  BY <1>1, <1>4, PutTunnelFacts
<1>6. n.stop_method = h.n.stop_method
  BY <1>1, <1>4 DEF PutTunnel, NodeType
<1>7. PICK k : k = WithNode(h, n)
  OBVIOUS
<1>8. k \in H /\ k.n = n /\ k.file = h.file /\ k.sent = h.sent
  BY <1>5, <1>7, WithNodeFacts
<1>9. [h EXCEPT !.n.tunnel[t] = v] = k
  BY <1>4, <1>7, Forms
<1>10. PICK q : q = Destroy(t)
  OBVIOUS
<1>11. q \in Request
  BY <1>10 DEF Destroy, Request
<1>12. CASE x # 0 /\ g = k
  <2>1. ~(h.n.tunnel[t].ref_count = 1)
    BY <1>1, <1>2, <1>12, LeftFacts
  <2> QED
    BY <1>5, <1>6, <1>8, <1>12, <2>1 DEF Frees
<1>13. CASE h.n.state # "DO_SLEEP" /\ g = Send(k, q)
  <2>1. /\ g \in H /\ g.n = k.n /\ g.file = k.file
        /\ CanSend => g.sent = Append(k.sent, q)
        /\ ~CanSend => g.sent = k.sent
    BY <1>8, <1>11, <1>13, SendFacts
  <2>2. CanSend => \A y : In(y, g.sent) <=> In(y, h.sent) \/ y = q
    BY <1>1, <1>8, <1>11, <2>1, InAppend
  <2> QED
    BY <1>5, <1>6, <1>8, <1>10, <1>13, <2>1, <2>2 DEF Frees
<1>14. CASE h.n.state = "DO_SLEEP" /\ g = k
  BY <1>5, <1>6, <1>8, <1>14 DEF Frees
<1>15. CASE x # 0
  <2>1. g = [h EXCEPT !.n.tunnel[t].ref_count = x]
    BY <1>2, <1>15 DEF cc_tunnel_remove_ref
  <2>2. h.n.tunnel \in [Type -> TunnelType]
    BY <1>1, NodeFields
  <2>3. g = [h EXCEPT !.n.tunnel[t] = v]
    BY <1>1, <1>3, <1>15, <2>1, <2>2 DEF H
  <2> QED
    BY <1>9, <1>12, <1>15, <2>3
<1>16. CASE x = 0
  <2>1. v = NoTunnel
    BY <1>3, <1>16
  <2>2. [h EXCEPT !.n.tunnel[t] = NoTunnel] = k
    BY <1>9, <2>1
  <2>3. g = IF h.n.state # "DO_SLEEP" THEN Send(k, q) ELSE k
    BY <1>2, <1>10, <1>16, <2>2, Zenon DEF cc_tunnel_remove_ref, Destroy
  <2> QED
    BY <1>13, <1>14, <2>3
<1> QED
  BY <1>15, <1>16

\* cc_actor_free.
LEMMA ActorFreeFacts ==
  ASSUME Streams, NEW h \in H, NEW g, g = cc_actor_free(h)
  PROVE  /\ Frees(h, g)
         /\ \A u \in Type : u # "token" => g.n.tunnel[u] = h.n.tunnel[u]
         /\ h.n.port \in {"PENDING", "ENABLED"} /\ h.n.tunnel["token"].ref_count = 1 /\ h.n.state # "DO_SLEEP" /\ CanSend
              => In(Destroy("token"), g.sent)
<1>1. PICK k : k = Ported(h, "none")
  OBVIOUS
<1>2. [h EXCEPT !.n.port = "none"] = k
  BY <1>1, Forms DEF Ported
<1>3. PICK n : n = PutPort(h.n, "none")
  OBVIOUS
<1>4. h.n \in NodeType /\ "none" \in PortState /\ "token" \in Type
  BY StepFields DEF PortState, Type
<1>5. /\ n \in NodeType /\ SamePlace(h.n, n) /\ SameConn(h.n, n) /\ n.tunnel = h.n.tunnel
      /\ n.stop_method = h.n.stop_method
  BY <1>3, <1>4, PutPortFacts
<1>6. k \in H /\ k.n = n /\ k.file = h.file /\ k.sent = h.sent
  BY <1>1, <1>3, <1>5, WithNodeFacts DEF Ported
<1>7. CASE h.n.port \notin {"PENDING", "ENABLED"}
  <2>1. g = k
    BY <1>2, <1>7 DEF cc_actor_free
  <2> QED
    BY <1>5, <1>6, <1>7, <2>1 DEF Frees
<1>8. CASE h.n.port \in {"PENDING", "ENABLED"}
  <2>1. g = cc_tunnel_remove_ref(k, "token")
    BY <1>2, <1>8 DEF cc_actor_free
  <2>2. /\ Frees(k, g)
        /\ \A u \in Type : u # "token" => g.n.tunnel[u] = k.n.tunnel[u]
        /\ k.n.tunnel["token"].ref_count = 1 /\ k.n.state # "DO_SLEEP" /\ CanSend => In(Destroy("token"), g.sent)
    BY <1>4, <1>6, <2>1, RemoveRefFacts
  <2>3. k.n.state = h.n.state /\ k.n.tunnel = h.n.tunnel
    BY <1>5, <1>6 DEF SamePlace
  <2>4. Frees(h, g)
    BY <1>5, <1>6, <2>2, <2>3 DEF Frees, SamePlace, SameConn
  <2> QED
    BY <2>2, <2>3, <2>4
<1> QED
  BY <1>7, <1>8

\* The node powers down with f saved and nothing given back.
Sleeps(h, g) ==
  /\ g \in H /\ g.n.pc = "off" /\ g.sent = h.sent
  /\ g.file.kind = "state" /\ g.file.link = h.n.link /\ g.file.port = h.n.port
  /\ g.file.tunnel["token"] = h.n.tunnel["token"].state

\* Power down.
LEMMA DeepSleepFacts ==
  ASSUME Streams, NEW h \in H, h.n.state = "DO_SLEEP" \/ ~CanSend, NEW g, g = DeepSleep(h)
  PROVE  Sleeps(h, g)
<1>1. PICK k : k = cc_node_set_state(h, TRUE)
  OBVIOUS
<1>2. /\ k \in H /\ k.n = h.n /\ k.sent = h.sent
      /\ k.file.kind = "state" /\ k.file.link = h.n.link /\ k.file.port = h.n.port
      /\ k.file.tunnel["token"] = h.n.tunnel["token"].state
  BY <1>1, SetStateFacts
<1>3. PICK j : j = cc_actor_free(k)
  OBVIOUS
<1>4. Frees(k, j)
  BY <1>2, <1>3, ActorFreeFacts
<1>5. j \in H /\ j.file = k.file /\ j.sent = k.sent
  BY <1>2, <1>4 DEF Frees
<1>6. PICK i : i = At(j, "off")
  OBVIOUS
<1>7. i \in H /\ i.file = j.file /\ i.sent = j.sent /\ i.n.pc = "off"
  BY <1>5, <1>6, AtFacts DEF Pc
<1>8. g = [i EXCEPT !.n.transport = "NULL"]
  BY <1>1, <1>3, <1>6 DEF DeepSleep
<1>9. PICK n : n = [i.n EXCEPT !.transport = "NULL"]
  OBVIOUS
<1>10. i.n \in NodeType
  BY <1>7, StepFields
<1>11. n \in NodeType /\ n.pc = i.n.pc
  BY <1>9, <1>10 DEF NodeType
<1>12. g \in H /\ g.n = n /\ g.file = i.file /\ g.sent = i.sent
  BY <1>7, <1>8, <1>9, <1>11 DEF H
<1> QED
  BY <1>2, <1>5, <1>7, <1>11, <1>12 DEF Sleeps

\* After the wait for the answer to a request to sleep.
LEMMA AwakeSound ==
  ASSUME Streams, NEW h, NEW tn, HSound(h, tn), h.n.pc = "wait_sleep", NEW g, g = Awake(h)
  PROVE  \/ Done(g, tn) /\ g.file = h.file
         \/ h.n.state = "DO_SLEEP" /\ Sleeps(h, g) /\ FileSound(g.file)
<1>1. h \in H /\ PortSound(h.n.port, h.n.tunnel["token"].state) /\ Ready(h.n)
  BY EngagedReady DEF HSound, StepSound, Engaged
<1>2. CASE h.n.state = "DO_SLEEP" /\ g = DeepSleep(h)
  <2>1. Sleeps(h, g)
    BY <1>1, <1>2, DeepSleepFacts
  <2>2. h.n.link \in configured \/ Excused
    BY <1>1 DEF Ready, Prepared, Attached, Forced, Excused
  <2> QED
    BY <1>1, <1>2, <2>1, <2>2 DEF Sleeps, FileSound
<1>3. CASE g = Top(State(h, "STARTED"))
  <2>1. PICK k : k = State(h, "STARTED")
    OBVIOUS
  <2>2. Keeps(h, k, tn)
    BY <1>1, <2>1, StateStepSound
  <2>3. HSound(k, tn) /\ k.file = h.file /\ k.n.pc # "wait_join" /\ g = Top(k)
    BY <1>3, <2>1, <2>2 DEF Keeps
  <2> QED
    BY <2>3, TopSound
<1> QED
  BY <1>2, <1>3 DEF Awake

(***************************************************************************)
(* Taking the step.                                                         *)
(***************************************************************************)
Bounded ==
  /\ conn \in {"none", "up", "broken"} /\ server \in Proxy
  /\ configured \subseteq Proxy /\ past \subseteq {"interrupted", "forced", "refused", "told"}
  /\ losses \in 0 .. MaxLosses /\ boots \in 0 .. MaxBoots
  /\ messages \in 0 .. MaxMessages /\ sleeps \in 0 .. MaxSleeps

\* What a step never takes back.
Grows == configured \subseteq configured' /\ past \subseteq past'
Stays == conn' = conn /\ server' = server

\* What is sound stays sound.
LEMMA Lifted ==
  ASSUME NEW n, NEW tp, NEW tn, NodeSound(n, tp, tn), Grows, Stays, node' = n, Going' = tp, toNode' = tn
  PROVE  NodeSound(node, Going, toNode)'
<1>1. (Forced => Forced') /\ (Excused => Excused')
  BY DEF Forced, Excused, Grows
<1>2. TunnelsSound(node, Going, toNode)'
  BY DEF NodeSound, TunnelsSound
<1>3. ReportsSound(node, Going, toNode)'
  <2>1. (Engaged(n) <=> Engaged(node)') /\ (Attached(n) <=> Attached(node)')
    BY DEF Engaged, Attached
  <2> QED
    BY <1>1, <2>1 DEF NodeSound, ReportsSound, Grows
<1>4. LinkSound(node)'
  BY <1>1 DEF NodeSound, LinkSound, Grows, Stays
<1>5. ConnSound(node, toNode)'
  BY DEF NodeSound, ConnSound, Stays
<1> QED
  BY <1>2, <1>3, <1>4, <1>5 DEF NodeSound

\* So do the places.
LEMMA LiftedWait ==
  ASSUME NEW n, NEW tp, NEW tn, PlaceSound(n), WaitSound(n, tp, tn), Grows, Stays,
         node' = n, Going' = tp, toNode' = tn
  PROVE  PlaceSound(node)' /\ WaitSound(node, Going, toNode)'
<1>1. Excused => Excused'
  BY DEF Excused, Grows
<1> QED
  BY <1>1 DEF PlaceSound, WaitSound, Grows, Stays

\* And the file.
LEMMA LiftedFile ==
  ASSUME NEW f, FileSound(f), Grows, file' = f
  PROVE  FileSound(file)'
<1>1. Excused => Excused'
  BY DEF Excused, Grows
<1> QED
  BY <1>1 DEF FileSound, Grows

\* What is under way after the step.
LEMMA StepStreams ==
  ASSUME Streams, NEW h \in H, Becomes(h)
  PROVE  /\ toProxy' \in Seq(Request) /\ node' = h.n /\ file' = h.file
         /\ conn' = conn /\ (CanSend \/ h.sent = <<>>) => Going' = On(h)
<1>1. h.sent \in Seq(Request) /\ toProxy \in Seq(Request) /\ node' = h.n /\ file' = h.file
      /\ toProxy' = IF conn = "up" THEN toProxy \o h.sent ELSE toProxy
  BY StepFields DEF Streams, Becomes
<1>2. toProxy' \in Seq(Request)
  BY <1>1
<1>3. ASSUME conn' = conn, CanSend \/ h.sent = <<>> PROVE Going' = On(h)
  <2>1. CASE conn = "up"
    BY <1>1, <1>3, <2>1 DEF Going, On
  <2>2. CASE conn # "up"
    <3>1. Going' = <<>> /\ On(h) = <<>> \o <<>>
      BY <1>3, <2>2 DEF Going, On, CanSend
    <3> QED
      BY <3>1
  <2> QED
    BY <2>1, <2>2
<1> QED
  BY <1>1, <1>2, <1>3

\* A step that leaves the node running.
LEMMA Reached ==
  ASSUME Streams, NEW h, NEW tn \in Seq(Reply), Done(h, tn), FileSound(h.file), Becomes(h), toNode' = tn,
         Grows, Stays, Bounded'
  PROVE  NodeInv' /\ node'.pc # "off"
<1>1. /\ h \in H /\ (CanSend \/ h.sent = <<>>) /\ NodeSound(h.n, On(h), tn)
      /\ PortSound(h.n.port, h.n.tunnel["token"].state)
      /\ PlaceSound(h.n) /\ WaitSound(h.n, On(h), tn) /\ h.n.pc \in Running \ {"save"}
  BY DEF Done, HSound, StepSound
<1>2. toProxy' \in Seq(Request) /\ node' = h.n /\ file' = h.file /\ Going' = On(h)
  BY <1>1, StepStreams DEF Stays
<1>3. NodeSound(node, Going, toNode)' /\ PlaceSound(node)' /\ WaitSound(node, Going, toNode)'
  BY <1>1, <1>2, Lifted, LiftedWait
<1>4. FileSound(file)'
  BY <1>2, LiftedFile
<1>5. TypeOK'
  BY <1>1, <1>2, StepFields DEF TypeOK, Bounded
<1>6. PortSound(node.port, node.tunnel["token"].state)'
  BY <1>1, <1>2 DEF PortSound
<1>7. node'.pc \in Running \ {"save"} /\ node'.pc \notin {"off", "fault"}
  BY <1>1, <1>2 DEF Running, Waits
<1> QED
  BY <1>2, <1>3, <1>4, <1>5, <1>6, <1>7 DEF NodeInv

\* A step that turns it off.
LEMMA TurnedOff ==
  ASSUME Streams, NEW h \in H, h.n.pc = "off", Becomes(h), toNode' = <<>>, conn' = "none", FileSound(file)',
         Bounded'
  PROVE  NodeInv'
<1>1. toProxy' \in Seq(Request) /\ node' = h.n /\ file' = h.file /\ toNode' \in Seq(Reply)
  BY StepStreams
<1>2. TypeOK'
  BY <1>1, StepFields DEF TypeOK, Bounded
<1>3. node'.pc = "off" /\ "off" \notin Running
  BY <1>1 DEF Running, Waits
<1> QED
  BY <1>1, <1>2, <1>3 DEF NodeInv

\* A step begins with what is known of the node.
LEMMA HereFacts ==
  ASSUME NodeInv, node.pc \in Running \ {"save"}, NEW h, h = Here
  PROVE  /\ Streams /\ Bounded /\ FileSound(h.file) /\ HSound(h, toNode) /\ h.n = node /\ h.sent = <<>>
         /\ On(h) = Going /\ h.file = file /\ PlaceSound(h.n) /\ WaitSound(h.n, On(h), toNode) /\ h \in H
<1>1. Streams /\ Bounded /\ FileSound(file) /\ node \in NodeType /\ file \in FileType
  BY DEF NodeInv, Streams, Bounded, TypeOK
<1>2. /\ NodeSound(node, Going, toNode) /\ PlaceSound(node) /\ WaitSound(node, Going, toNode)
      /\ PortSound(node.port, node.tunnel["token"].state)
  BY DEF NodeInv
<1>3. h \in H /\ h.n = node /\ h.file = file /\ h.sent = <<>>
  <2>1. <<>> \in Seq(Request)
    OBVIOUS
  <2> QED
    BY <1>1, <2>1 DEF H, Here
<1>4. On(h) = Going
  BY <1>1, <1>3, GoingFacts DEF On
<1> QED
  BY <1>1, <1>2, <1>3, <1>4 DEF HSound, StepSound

\* A step that ends with the node off, nothing having been given back.
Down(g) == g \in H /\ g.n.pc = "off" /\ ~Has(g.sent, {"destroy"})

\* The node handles a message and goes on.
LEMMA MessageHandled ==
  ASSUME NodeInv, node.pc \in Waits, toNode # <<>>, NEW tn, tn = Tail(toNode),
         NEW g, g = After(cc_node_handle_message(Here, Head(toNode)))
  PROVE  FileSound(g.file) /\ (Done(g, tn) \/ Down(g))
<1>1. PICK h : h = Here
  OBVIOUS
<1>2. PICK m : m = Head(toNode)
  OBVIOUS
<1>3. node.pc \in Running \ {"save"} /\ node.pc \in Waits
  BY DEF Running, Waits
<1>4. /\ Streams /\ Bounded /\ FileSound(h.file) /\ HSound(h, toNode) /\ h.n = node /\ h.sent = <<>>
      /\ On(h) = Going /\ PlaceSound(h.n) /\ WaitSound(h.n, On(h), toNode) /\ h \in H
  BY <1>1, <1>3, HereFacts
<1>5. toNode \in Seq(Reply) /\ server \in Proxy
  BY <1>4 DEF Streams, Bounded
<1>6. NodeSound(h.n, On(h), toNode) /\ PortSound(h.n.port, h.n.tunnel["token"].state)
  BY <1>4 DEF HSound, StepSound
<1>7. /\ tn \in Seq(Reply) /\ m \in Reply
      /\ NodeSound(h.n, On(h), tn) /\ WaitSound(h.n, On(h), tn) /\ HeadSound(h.n, On(h), tn, m)
  BY <1>2, <1>4, <1>5, <1>6, TakeSound
<1>8. HSound(h, tn)
  BY <1>4, <1>7 DEF HSound, StepSound
<1>9. PICK k : k = cc_proto_parse_message(h, m)
  OBVIOUS
<1>10. PICK j : j = IF Checkpointing /\ Handled(m) /\ k.n.state = "STARTED" THEN cc_node_set_state(k, TRUE) ELSE k
  OBVIOUS
<1>11. g = After(j)
  BY <1>1, <1>2, <1>9, <1>10 DEF cc_node_handle_message
<1>12. CASE node.pc = "wait_join"
  <2>1. h.n.transport = "PENDING" /\ h.n.state = "DO_START" /\ h.n.pc = "wait_join"
    BY <1>4, <1>12 DEF PlaceSound
  <2>2. k = h \/ k = JoinAnswered(h)
    BY <1>9, <2>1 DEF cc_proto_parse_message, proto_handle_join_reply, JoinAnswered
  <2>3. CASE k = h
    <3>1. j = h
      BY <1>10, <2>1, <2>3
    <3>2. g = h
      BY <1>11, <2>1, <3>1 DEF After
    <3> QED
      BY <1>3, <1>4, <1>7, <1>8, <3>2 DEF Done
  <2>4. CASE k = JoinAnswered(h)
    <3>1. k.n.transport = "ENABLED" /\ k.n.pc = "wait_join" /\ k.n.state = "DO_START"
      <4>1. h.n \in NodeType
        BY <1>4, StepFields
      <4> QED
        BY <1>4, <2>1, <2>4, <4>1 DEF JoinAnswered, H, NodeType
    <3>2. j = k
      BY <1>10, <3>1
    <3>3. g = Joined(k)
      BY <1>11, <3>1, <3>2 DEF After
    <3>4. Done(g, tn) /\ g.file = h.file
      BY <1>4, <1>5, <1>7, <1>8, <2>1, <2>4, <3>3, JoinedSound
    <3> QED
      BY <1>4, <3>4
  <2> QED
    BY <2>2, <2>3, <2>4
<1>13. CASE node.pc # "wait_join"
  <2>1. h.n.transport = "ENABLED" /\ h.n.pc # "wait_join"
    BY <1>4, <1>6, <1>13 DEF NodeSound, ConnSound
  <2>2. Keeps(h, k, tn) /\ NextState(h, k)
    BY <1>4, <1>7, <1>8, <1>9, <2>1, ParseSound
  <2>3. /\ HSound(k, tn) /\ k.file = h.file /\ k.n.pc = h.n.pc /\ SameConn(h.n, k.n) /\ Discreet(h, k)
        /\ \A t \in {"storage", "proxy"} : h.n.tunnel[t].state # "FREE" => k.n.tunnel[t].state # "FREE"
    BY <2>2 DEF Keeps
  <2>4. WaitSound(k.n, On(k), tn)
    BY <1>7, <2>1, <2>3, WaitKept
  <2>5. HSound(j, tn) /\ FileSound(j.file) /\ j.n = k.n /\ On(j) = On(k) /\ j.sent = k.sent
    <3>1. CASE j = k
      BY <1>4, <2>3, <3>1
    <3>2. CASE k.n.state = "STARTED" /\ j = cc_node_set_state(k, TRUE)
      BY <2>3, <3>2, SavedSound DEF Engaged
    <3> QED
      BY <1>10, <3>1, <3>2
  <2>6. ~Has(j.sent, {"destroy"})
    BY <1>4, <2>3, <2>5 DEF Discreet, Has
  <2>7. j.n.pc = node.pc /\ WaitSound(j.n, On(j), tn)
    BY <1>4, <2>3, <2>4, <2>5
  <2>8. CASE node.pc = "wait_tunnels"
    <3>1. j.n.state \in {"DO_START", "STOP"}
      BY <1>4, <2>2, <2>5, <2>8 DEF NextState, PlaceSound
    <3>2. HasLink(j, tn)
      BY <2>5, <2>7, <2>8, <3>1 DEF HasLink, WaitSound
    <3>3. g = AwaitTunnels(j)
      BY <1>11, <2>7, <2>8 DEF After
    <3>4. Done(g, tn) /\ g.file = j.file
      BY <1>4, <1>5, <3>2, <3>3, AwaitSound
    <3> QED
      BY <2>5, <3>4
  <2>9. CASE node.pc = "wait_setup"
    <3>1. j.n.state \in {"DO_START", "STARTED", "STOP"}
      BY <1>4, <2>2, <2>5, <2>9 DEF NextState, PlaceSound
    <3>2. g = Reported(j)
      BY <1>11, <2>7, <2>9 DEF After
    <3>3. Done(g, tn) /\ g.file = j.file
      BY <1>4, <2>5, <2>7, <2>9, <3>1, <3>2, ReportedSound
    <3> QED
      BY <2>5, <3>3
  <2>10. CASE node.pc = "wait_sleep"
    <3>1. g = Awake(j)
      BY <1>11, <2>7, <2>10 DEF After
    <3>2. \/ Done(g, tn) /\ g.file = j.file
          \/ Sleeps(j, g) /\ FileSound(g.file)
      BY <1>4, <2>5, <2>7, <2>10, <3>1, AwakeSound
    <3> QED
      BY <2>5, <2>6, <3>2 DEF Sleeps, Down
  <2>11. CASE node.pc = "main"
    <3>1. g = Top(j)
      BY <1>11, <2>7, <2>11 DEF After
    <3>2. Done(g, tn) /\ g.file = j.file
      BY <2>5, <2>7, <2>11, <3>1, TopSound
    <3> QED
      BY <2>5, <3>2
  <2> QED
    BY <1>3, <1>13, <2>8, <2>9, <2>10, <2>11 DEF Waits
<1> QED
  BY <1>12, <1>13

\* Receive keeps the invariant.
LEMMA ReceiveKeeps ==
  ASSUME NodeInv, Receive
  PROVE  NodeInv'
<1>1. PICK g : g = After(cc_node_handle_message(Here, Head(toNode)))
  OBVIOUS
<1>2. /\ node.pc \in Waits /\ toNode # <<>> /\ Becomes(g)
      /\ conn' = IF g.n.pc = "off" THEN "none" ELSE conn
      /\ toNode' = IF g.n.pc = "off" THEN <<>> ELSE Tail(toNode)
      /\ past' \in {past, past \cup {"told"}} /\ UNCHANGED <<server, configured, env>>
  BY <1>1 DEF Receive
<1>3. PICK tn : tn = Tail(toNode)
  OBVIOUS
<1>4. FileSound(g.file) /\ (Done(g, tn) \/ Down(g))
  BY <1>1, <1>2, <1>3, MessageHandled
<1>5. Streams /\ Bounded
  BY DEF NodeInv, TypeOK, Streams, Bounded
<1>6. Bounded' /\ Grows
  BY <1>2, <1>5 DEF Bounded, Grows, env
<1>7. CASE Done(g, tn)
  <2>1. g.n.pc # "off"
    BY <1>7 DEF Done, Running, Waits
  <2>2. Stays /\ toNode' = tn /\ tn \in Seq(Reply)
    BY <1>2, <1>3, <1>5, <2>1 DEF Stays, Streams
  <2> QED
    BY <1>2, <1>4, <1>5, <1>6, <1>7, <2>2, Reached
<1>8. CASE Down(g)
  <2>1. g \in H /\ g.n.pc = "off" /\ conn' = "none" /\ toNode' = <<>> /\ file' = g.file
    BY <1>2, <1>8 DEF Down, Becomes
  <2>2. FileSound(file)'
    BY <1>4, <1>6, <2>1, LiftedFile
  <2> QED
    BY <1>2, <1>5, <1>6, <2>1, <2>2, TurnedOff
<1> QED
  BY <1>4, <1>7, <1>8

\* A node without a connection that does not wait for it.
LEMMA Parted ==
  ASSUME NodeInv, node.pc \in Running \ {"save"}, Settled(node),
         NEW n \in NodeType, node' = n, SamePort(node, n), n.link = node.link,
         n.transport = "ENABLED" => n.peer = server,
         n.pc \in {"dial", "main", "stop"}, n.state \in {"DO_START", "STOP"},
         n.pc = "dial" => n.state = "DO_START", n.pc = "stop" => n.state = "STOP",
         file' = file, toProxy' \in Seq(Request), toNode' = <<>>, conn' = "broken", server' = server, Grows, Bounded'
  PROVE  NodeInv' /\ node'.pc # "off"
<1>1. /\ NodeSound(node, Going, toNode) /\ PortSound(node.port, node.tunnel["token"].state)
      /\ FileSound(file) /\ TypeOK
  BY DEF NodeInv
<1>2. Going' = <<>> /\ toNode' = <<>> /\ toNode' \in Seq(Reply)
  BY DEF Going
<1>3. \A t, T : NoneAbout(<<>>, t) /\ OnceAbout(<<>>, t) /\ ~Has(<<>>, T)
  BY DEF NoneAbout, OnceAbout, Has
<1>4. n.tunnel = node.tunnel /\ n.port = node.port
  BY DEF SamePort
<1>5. TunnelsSound(node, Going, toNode)'
  BY <1>1, <1>2, <1>3, <1>4 DEF NodeSound, TunnelsSound
<1>6. ReportsSound(node, Going, toNode)'
  <2>1. ~Engaged(n) /\ n.pc # "wait_setup" /\ ~Accepted(<<>>)
    BY DEF Engaged, Accepted
  <2>2. ~Engaged(node)' /\ ~Accepted(toNode)'
    BY <1>2, <2>1 DEF Engaged
  <2> QED
    BY <1>2, <1>3, <2>1, <2>2 DEF ReportsSound
<1>7. LinkSound(node)'
  BY <1>4 DEF LinkSound, Settled, Grows, Excused
<1>8. ConnSound(node, toNode)'
  BY <1>2 DEF ConnSound
<1>9. PlaceSound(node)' /\ WaitSound(node, Going, toNode)'
  BY DEF PlaceSound, WaitSound
<1>10. FileSound(file)'
  BY <1>1, LiftedFile
<1>11. TypeOK'
  BY <1>1 DEF TypeOK, Bounded
<1>12. PortSound(node.port, node.tunnel["token"].state)'
  BY <1>1, <1>4 DEF PortSound
<1>13. node'.pc \notin {"off", "fault"}
  OBVIOUS
<1> QED
  BY <1>2, <1>5, <1>6, <1>7, <1>8, <1>9, <1>10, <1>11, <1>12, <1>13 DEF NodeInv, NodeSound

\* A client for the URI.
LEMMA ClientFacts ==
  ASSUME NEW n \in NodeType
  PROVE  Client(n) \in 0 .. Len(Uris)
<1>1. n.uri \in 1 .. Len(Uris) /\ n.client \in 0 .. Len(Uris) /\ Len(Uris) \in Nat
  BY NodeFields, NodeAssumption
<1> QED
  BY <1>1 DEF Client

\* A node that dials has no link that is not settled.
LEMMA DialSettled ==
  ASSUME NodeInv, node.pc \in Running \ {"save"}, node.pc = "dial" \/ conn # "up"
  PROVE  Settled(node)
  BY DEF NodeInv, NodeSound, LinkSound, Settled

\* DialFails keeps the invariant.
LEMMA DialFailsKeeps ==
  ASSUME NodeInv, DialFails
  PROVE  NodeInv'
<1>1. node.pc = "dial" /\ UNCHANGED <<server, configured, past, boots, messages, sleeps>>
  BY DEF DialFails
<1>2. node.pc \in Running \ {"save"} /\ "dial" \in Pc /\ "main" \in Pc
  BY <1>1 DEF Running, Pc, Waits
<1>3. PICK h : h = Here
  OBVIOUS
<1>4. /\ Streams /\ Bounded /\ FileSound(h.file) /\ HSound(h, toNode) /\ h.n = node /\ h.sent = <<>>
      /\ h.file = file /\ PlaceSound(h.n) /\ h \in H
  BY <1>2, <1>3, HereFacts
<1>5. Settled(node) /\ node.state = "DO_START"
  BY <1>1, <1>2, <1>4, DialSettled DEF PlaceSound
<1>6. Grows
  BY <1>1 DEF Grows
<1>7. CASE Becomes(NextUri(Here)) /\ UNCHANGED <<losses, conn, toNode>>
  <2>1. PICK g : g = NextUri(h)
    OBVIOUS
  <2>2. Done(g, toNode) /\ g.file = h.file
    BY <1>1, <1>4, <1>5, <2>1, NextUriSound
  <2>3. Becomes(g) /\ Stays /\ Bounded' /\ toNode' = toNode /\ toNode \in Seq(Reply)
    BY <1>1, <1>3, <1>4, <1>7, <2>1 DEF Stays, Bounded, Streams
  <2> QED
    BY <1>4, <1>6, <2>2, <2>3, Reached
<1>8. CASE /\ losses < MaxLosses
           /\ \E t \in {node.transport, "CONNECTED"} :
                Becomes(NextUri([Here EXCEPT !.n.client = Client(node),
                                 !.n.transport = IF t = "NULL" THEN "INTERFACE_UP" ELSE t]))
           /\ losses' = losses + 1 /\ conn' = "broken" /\ toNode' = <<>>
  <2>1. PICK t \in {node.transport, "CONNECTED"} :
          Becomes(NextUri([Here EXCEPT !.n.client = Client(node),
                           !.n.transport = IF t = "NULL" THEN "INTERFACE_UP" ELSE t]))
    BY <1>8
  <2>2. PICK x : x = IF t = "NULL" THEN "INTERFACE_UP" ELSE t
    OBVIOUS
  <2>3. node \in NodeType
    BY <1>4, StepFields
  <2>4. /\ x \in {"NULL", "INTERFACE_UP", "DISCONNECTED", "CONNECTED", "PENDING", "ENABLED"}
        /\ x = "ENABLED" => node.transport = "ENABLED"
    BY <2>2, <2>3, NodeFields
  <2>5. PICK c \in 0 .. Len(Uris) : c = Client(node)
    BY <2>3, ClientFacts
  <2>6. PICK n : n = [node EXCEPT !.client = c, !.transport = x]
    OBVIOUS
  <2>7. /\ n \in NodeType /\ SamePlace(node, n) /\ SamePort(node, n) /\ n.link = node.link /\ n.peer = node.peer
        /\ n.transport = x
    BY <2>3, <2>4, <2>5, <2>6 DEF NodeType, SamePlace, SamePort
  <2>8. PICK k : k = WithNode(h, n)
    OBVIOUS
  <2>9. k = [Here EXCEPT !.n.client = Client(node), !.n.transport = IF t = "NULL" THEN "INTERFACE_UP" ELSE t]
    BY <1>3, <1>4, <2>2, <2>5, <2>6, <2>8 DEF H, WithNode
  <2>10. k \in H /\ k.n = n /\ k.file = file /\ k.sent = <<>>
    BY <1>4, <2>7, <2>8, WithNodeFacts
  <2>11. PICK g : g = NextUri(k)
    OBVIOUS
  <2>12. Becomes(g)
    BY <2>1, <2>9, <2>11
  <2>13. /\ g \in H /\ g.file = file /\ g.sent = <<>> /\ SamePort(node, g.n) /\ g.n.link = node.link
         /\ g.n.transport = x /\ g.n.peer = node.peer /\ g.n.pc \in {"dial", "main"} /\ g.n.state = "DO_START"
    <3>1. CASE g = At(k, "main")
      BY <1>2, <1>5, <2>7, <2>10, <3>1, AtFacts DEF SamePlace, SamePort, SameConn
    <3>2. CASE k.n.uri < Len(Uris) /\ g = At(State([k EXCEPT !.n.uri = @ + 1], "DO_START"), "dial")
      <4>1. PICK u \in 1 .. Len(Uris) : u = k.n.uri + 1
        <5>1. k.n.uri \in 1 .. Len(Uris) /\ Len(Uris) \in Nat
          BY <2>7, <2>10, NodeFields, NodeAssumption
        <5> QED
          BY <3>2, <5>1
      <4>2. PICK p : p = [n EXCEPT !.uri = u]
        OBVIOUS
      <4>3. /\ p \in NodeType /\ SamePlace(n, p) /\ SamePort(n, p) /\ SameConn(n, p)
        BY <2>7, <4>2 DEF NodeType, SamePlace, SamePort, SameConn
      <4>4. PICK j : j = WithNode(k, p)
        OBVIOUS
      <4>5. j \in H /\ j.n = p /\ j.file = file /\ j.sent = <<>>
        BY <2>10, <4>3, <4>4, WithNodeFacts
      <4>6. [k EXCEPT !.n.uri = @ + 1] = j
        BY <2>10, <4>1, <4>2, <4>4 DEF H, WithNode
      <4>7. PICK i : i = State(j, "DO_START")
        OBVIOUS
      <4>8. /\ i \in H /\ i.file = j.file /\ i.sent = j.sent
            /\ i.n.state = "DO_START" /\ SameConn(j.n, i.n) /\ SamePort(j.n, i.n)
        BY <4>5, <4>7, StateFacts
      <4>9. g = At(i, "dial")
        BY <3>2, <4>6, <4>7
      <4>10. /\ g \in H /\ g.file = i.file /\ g.sent = i.sent /\ g.n.pc = "dial" /\ g.n.state = i.n.state
             /\ SameConn(i.n, g.n) /\ SamePort(i.n, g.n)
        BY <1>2, <4>8, <4>9, AtFacts
      <4> QED
        BY <2>7, <4>3, <4>5, <4>8, <4>10 DEF SamePort, SameConn
    <3> QED
      BY <2>11, <3>1, <3>2 DEF NextUri
  <2>14. toProxy' \in Seq(Request) /\ node' = g.n /\ file' = file
    BY <1>4, <2>12, <2>13, StepStreams
  <2>15. Bounded'
    BY <1>1, <1>4, <1>8, NodeAssumption DEF Bounded
  <2>16. g.n \in NodeType /\ (g.n.transport = "ENABLED" => g.n.peer = server)
    BY <1>2, <1>4, <2>4, <2>13, StepFields DEF HSound, StepSound, NodeSound, ConnSound
  <2> QED
    BY <1>1, <1>2, <1>5, <1>6, <1>8, <2>13, <2>14, <2>15, <2>16, Parted
<1> QED
  BY <1>7, <1>8 DEF DialFails

\* Dial keeps the invariant.
LEMMA DialKeeps ==
  ASSUME NodeInv, Dial
  PROVE  NodeInv'
<1>1. /\ node.pc = "dial" /\ server' \in Proxy /\ conn' = "up" /\ toNode' = <<>>
      /\ UNCHANGED <<file, configured, past, env>>
  BY DEF Dial
<1>2. node.pc \in Running \ {"save"} /\ "wait_join" \in Pc /\ "wait_join" \in Running \ {"save"}
  BY <1>1 DEF Running, Pc, Waits
<1>3. /\ NodeSound(node, Going, toNode) /\ PortSound(node.port, node.tunnel["token"].state)
      /\ FileSound(file) /\ TypeOK /\ PlaceSound(node) /\ node \in NodeType /\ file \in FileType
  BY <1>2 DEF NodeInv, TypeOK
<1>4. Settled(node) /\ node.state = "DO_START"
  BY <1>1, <1>2, <1>3, DialSettled DEF PlaceSound
<1>5. PICK c \in 0 .. Len(Uris) : c = Client(node)
  BY <1>3, ClientFacts
<1>6. PICK n : n = [node EXCEPT !.client = c, !.transport = "PENDING", !.pc = "wait_join"]
  OBVIOUS
<1>7. /\ n \in NodeType /\ SamePort(node, n) /\ n.link = node.link /\ n.pc = "wait_join" /\ n.transport = "PENDING"
      /\ n.state = "DO_START"
  BY <1>2, <1>3, <1>4, <1>5, <1>6 DEF NodeType, SamePort
<1>8. node' = n
  BY <1>5, <1>6 DEF Dial
<1>9. PICK q : q = [type |-> "join"]
  OBVIOUS
<1>10. q \in Request /\ q.type = "join"
  BY <1>9, PlainRequest
<1>11. PICK s : s = <<q>>
  OBVIOUS
<1>12. s \in Seq(Request) /\ \A i \in 1 .. Len(s) : s[i] = q
  BY <1>10, <1>11
<1>13. toProxy' = s /\ Going' = s
  BY <1>1, <1>9, <1>11 DEF Dial, Going
<1>14. \A t, T : NoneAbout(s, t) /\ OnceAbout(s, t) /\ ("join" \notin T => ~Has(s, T))
  BY <1>10, <1>12 DEF NoneAbout, OnceAbout, Has, About
<1>15. \A t, T : NoneAbout(<<>>, t) /\ OnceAbout(<<>>, t) /\ ~Has(<<>>, T)
  BY DEF NoneAbout, OnceAbout, Has
<1>16. n.tunnel = node.tunnel /\ n.port = node.port
  BY <1>7 DEF SamePort
<1>17. TunnelsSound(node, Going, toNode)'
  BY <1>1, <1>3, <1>8, <1>13, <1>14, <1>15, <1>16 DEF NodeSound, TunnelsSound
<1>18. ReportsSound(node, Going, toNode)'
  <2>1. ~Engaged(n) /\ n.pc # "wait_setup" /\ ~Accepted(<<>>)
    BY <1>7 DEF Engaged, Accepted
  <2>3. ~Has(s, Reports) /\ ~Has(s, {"wake", "sleep"})
    BY <1>14 DEF Reports
  <2>2. ~Engaged(node)' /\ ~Accepted(toNode)'
    BY <1>1, <1>8, <2>1 DEF Engaged
  <2> QED
    BY <1>1, <1>8, <1>13, <1>15, <2>1, <2>2, <2>3 DEF ReportsSound
<1>19. LinkSound(node)'
  BY <1>1, <1>4, <1>7, <1>8, <1>16 DEF LinkSound, Settled, Excused
<1>20. ConnSound(node, toNode)'
  BY <1>7, <1>8 DEF ConnSound
<1>21. PlaceSound(node)' /\ WaitSound(node, Going, toNode)'
  <2>1. ~Has(s, Reports) /\ ~Has(s, {"tunnel"})
    BY <1>14 DEF Reports
  <2> QED
    BY <1>1, <1>7, <1>8, <1>13, <1>15, <2>1 DEF PlaceSound, WaitSound
<1>22. FileSound(file)'
  BY <1>1, <1>3 DEF FileSound, Excused
<1>23. TypeOK'
  BY <1>1, <1>3, <1>7, <1>8 DEF TypeOK, env
<1>24. PortSound(node.port, node.tunnel["token"].state)'
  BY <1>3, <1>8, <1>16 DEF PortSound
<1>25. node'.pc \notin {"off", "fault"} /\ toNode' \in Seq(Reply)
  BY <1>1, <1>7, <1>8
<1> QED
  BY <1>12, <1>13, <1>17, <1>18, <1>19, <1>20, <1>21, <1>22, <1>23, <1>24, <1>25 DEF NodeInv, NodeSound

\* EvtWaitFails keeps the invariant.
LEMMA EvtWaitFailsKeeps ==
  ASSUME NodeInv, EvtWaitFails
  PROVE  NodeInv' /\ node'.pc # "off"
<1>1. /\ node.pc \in Waits /\ toNode = <<>> /\ conn = "broken"
      /\ UNCHANGED <<conn, server, toNode, configured, past, env>>
  BY DEF EvtWaitFails
<1>2. node.pc \in Running \ {"save"}
  BY <1>1 DEF Running, Waits
<1>3. PICK h : h = Here
  OBVIOUS
<1>4. /\ Streams /\ Bounded /\ FileSound(h.file) /\ HSound(h, toNode) /\ h.n = node /\ h.sent = <<>>
      /\ h.file = file /\ PlaceSound(h.n) /\ h \in H
  BY <1>2, <1>3, HereFacts
<1>5. Settled(node)
  BY <1>1, <1>2, DialSettled
<1>6. Grows /\ Stays /\ Bounded' /\ toNode' = toNode /\ toNode \in Seq(Reply)
  BY <1>1, <1>4 DEF Grows, Stays, Bounded, Streams, env
<1>7. CASE node.pc = "main"
  <2>1. PICK n : n = [node EXCEPT !.transport = "DISCONNECTED"]
    OBVIOUS
  <2>2. node \in NodeType
    BY <1>4, StepFields
  <2>3. n \in NodeType /\ SamePlace(node, n) /\ SamePort(node, n) /\ n.link = node.link /\ n.transport = "DISCONNECTED"
    BY <2>1, <2>2 DEF NodeType, SamePlace, SamePort
  <2>4. PICK k : k = WithNode(h, n)
    OBVIOUS
  <2>5. k \in H /\ k.n = n /\ k.file = file /\ k.sent = <<>>
    BY <1>4, <2>3, <2>4, WithNodeFacts
  <2>6. Becomes(Top(k))
    <3>1. k = [Here EXCEPT !.n.transport = "DISCONNECTED"]
      BY <1>3, <1>4, <2>1, <2>4 DEF H, WithNode
    <3> QED
      BY <1>7, <3>1 DEF EvtWaitFails
  <2>7. PICK g : g = Top(k)
    OBVIOUS
  <2>8. /\ g \in H /\ g.file = file /\ g.sent = <<>> /\ SamePort(node, g.n) /\ g.n.link = node.link
        /\ g.n.transport = "DISCONNECTED"
        /\ \/ g.n.pc = "stop" /\ g.n.state = "STOP"
           \/ g.n.pc = "dial" /\ g.n.state = "DO_START"
    <3>1. "stop" \in Pc /\ "dial" \in Pc /\ 1 \in 1 .. Len(Uris)
      BY NodeAssumption DEF Pc, Running
    <3>2. CASE k.n.state = "STOP" /\ g = At(k, "stop")
      BY <2>3, <2>5, <3>1, <3>2, AtFacts DEF SamePlace, SamePort, SameConn
    <3>3. CASE g = At(State([k EXCEPT !.n.uri = 1], "DO_START"), "dial")
      <4>1. PICK p : p = [n EXCEPT !.uri = 1]
        OBVIOUS
      <4>2. /\ p \in NodeType /\ SamePort(n, p) /\ SameConn(n, p)
        BY <2>3, <3>1, <4>1 DEF NodeType, SamePort, SameConn
      <4>3. PICK j : j = WithNode(k, p)
        OBVIOUS
      <4>4. j \in H /\ j.n = p /\ j.file = file /\ j.sent = <<>>
        BY <2>5, <4>2, <4>3, WithNodeFacts
      <4>5. [k EXCEPT !.n.uri = 1] = j
        BY <2>5, <4>1, <4>3 DEF H, WithNode
      <4>6. PICK i : i = State(j, "DO_START")
        OBVIOUS
      <4>7. /\ i \in H /\ i.file = j.file /\ i.sent = j.sent
            /\ i.n.state = "DO_START" /\ SameConn(j.n, i.n) /\ SamePort(j.n, i.n)
        BY <4>4, <4>6, StateFacts
      <4>8. g = At(i, "dial")
        BY <3>3, <4>5, <4>6
      <4>9. /\ g \in H /\ g.file = i.file /\ g.sent = i.sent /\ g.n.pc = "dial" /\ g.n.state = i.n.state
            /\ SameConn(i.n, g.n) /\ SamePort(i.n, g.n)
        BY <3>1, <4>7, <4>8, AtFacts
      <4> QED
        BY <2>3, <4>2, <4>4, <4>7, <4>9 DEF SamePort, SameConn
    <3> QED
      BY <2>3, <2>5, <2>7, <3>2, <3>3 DEF Top
  <2>9. toProxy' \in Seq(Request) /\ node' = g.n /\ file' = file
    BY <1>4, <2>6, <2>7, <2>8, StepStreams
  <2>10. g.n \in NodeType
    BY <2>8, StepFields
  <2> QED
    BY <1>1, <1>2, <1>5, <1>6, <2>8, <2>9, <2>10, Parted
<1>8. CASE node.pc = "wait_sleep"
  <2>1. PICK g : g = Awake(h)
    OBVIOUS
  <2>2. Becomes(g)
    BY <1>3, <1>8, <2>1 DEF EvtWaitFails
  <2>3. Done(g, toNode) /\ g.file = h.file
    BY <1>4, <1>8, <2>1, AwakeSound DEF PlaceSound
  <2> QED
    BY <1>4, <1>6, <2>2, <2>3, Reached
<1>9. CASE node.pc \notin {"main", "wait_sleep"}
  <2>1. PICK g : g = NextUri(h)
    OBVIOUS
  <2>2. Becomes(g)
    BY <1>3, <1>9, <2>1 DEF EvtWaitFails
  <2>3. Done(g, toNode) /\ g.file = h.file
    BY <1>1, <1>4, <1>5, <2>1, NextUriSound
  <2> QED
    BY <1>4, <1>6, <2>2, <2>3, Reached
<1> QED
  BY <1>7, <1>8, <1>9

\* EvtWaitTimesOut keeps the invariant.
LEMMA EvtWaitTimesOutKeeps ==
  ASSUME NodeInv, EvtWaitTimesOut
  PROVE  NodeInv' /\ node'.pc # "off"
<1>1. /\ node.pc \in {"main", "wait_sleep"} /\ Becomes(After(Here))
      /\ UNCHANGED <<conn, server, toNode, configured, past, env>>
  BY DEF EvtWaitTimesOut
<1>2. node.pc \in Running \ {"save"}
  BY <1>1 DEF Running, Waits
<1>3. PICK h : h = Here
  OBVIOUS
<1>4. /\ Streams /\ Bounded /\ FileSound(h.file) /\ HSound(h, toNode) /\ h.n = node /\ h.sent = <<>>
      /\ h.file = file /\ PlaceSound(h.n) /\ h \in H
  BY <1>2, <1>3, HereFacts
<1>5. Grows /\ Stays /\ Bounded' /\ toNode' = toNode /\ toNode \in Seq(Reply)
  BY <1>1, <1>4 DEF Grows, Stays, Bounded, Streams, env
<1>6. PICK g : g = After(h)
  OBVIOUS
<1>7. CASE node.pc = "main"
  <2>1. g = Top(h)
    BY <1>4, <1>6, <1>7 DEF After
  <2>2. Done(g, toNode) /\ g.file = h.file
    BY <1>4, <1>7, <2>1, TopSound
  <2> QED
    BY <1>1, <1>3, <1>4, <1>5, <1>6, <2>2, Reached
<1>8. CASE node.pc = "wait_sleep"
  <2>1. g = Awake(h)
    BY <1>4, <1>6, <1>8 DEF After
  <2>2. Done(g, toNode) /\ g.file = h.file
    BY <1>4, <1>8, <2>1, AwakeSound DEF PlaceSound
  <2> QED
    BY <1>1, <1>3, <1>4, <1>5, <1>6, <2>2, Reached
<1> QED
  BY <1>1, <1>7, <1>8

\* A node that has asked to sleep, or tried to: it was started, or is excused.
LEMMA Asked ==
  ASSUME NodeInv, node.pc = "main", node.transport = "ENABLED", Ready(node) \/ "forced" \in past',
         NEW g \in H, g.file = file, SamePort(node, g.n), SameConn(node, g.n),
         \/ g.n.pc = "main" /\ g.n.state = "STARTED"
         \/ g.n.pc = "wait_sleep" /\ g.n.state = "PENDING",
         NEW q \in Request, q.type = "sleep", On(g) = Going \/ On(g) = Append(Going, q),
         CanSend \/ g.sent = <<>>, Becomes(g), Stays, Grows, toNode' = toNode, Bounded'
  PROVE  NodeInv'
<1>1. node.pc \in Running \ {"save"} /\ g.n.pc \in Running \ {"save"} /\ g.n.pc \notin {"off", "fault"}
  BY DEF Running, Waits
<1>2. /\ NodeSound(node, Going, toNode) /\ PortSound(node.port, node.tunnel["token"].state)
      /\ FileSound(file) /\ TypeOK /\ Streams
  BY <1>1 DEF NodeInv, Streams, TypeOK
<1>3. toProxy' \in Seq(Request) /\ node' = g.n /\ file' = file /\ Going' = On(g)
  BY <1>2, StepStreams DEF Stays
<1>4. Going \in Seq(Request) /\ toNode \in Seq(Reply)
  BY <1>2, GoingFacts DEF Streams
<1>5. /\ \A t : NoneAbout(On(g), t) <=> NoneAbout(Going, t)
      /\ \A t : OnceAbout(Going, t) => OnceAbout(On(g), t)
  <2>1. CASE On(g) = Going
    BY <2>1
  <2>2. CASE On(g) = Append(Going, q)
    <3>1. /\ \A t : NoneAbout(On(g), t) <=> NoneAbout(Going, t) /\ ~About(q, t)
          /\ \A t : OnceAbout(Going, t) /\ (~About(q, t) \/ NoneAbout(Going, t)) => OnceAbout(On(g), t)
      BY <1>4, <2>2, AppendFacts
    <3>2. \A t : ~About(q, t)
      BY DEF About
    <3> QED
      BY <3>1, <3>2
  <2> QED
    BY <2>1, <2>2
<1>6. g.n.tunnel = node.tunnel /\ g.n.port = node.port /\ g.n.peer = node.peer /\ g.n.link = node.link
      /\ g.n.transport = "ENABLED" /\ g.n.new_proxy = node.new_proxy
  BY DEF SamePort, SameConn
<1>7. TunnelsSound(node, Going, toNode)'
  BY <1>2, <1>3, <1>5, <1>6 DEF NodeSound, TunnelsSound
<1>8. (Forced' \/ Attached(node)') /\ (Excused' \/ node'.peer \in configured')
  <2>1. CASE Ready(node)
    BY <1>3, <1>6, <2>1 DEF Ready, Prepared, Attached, Forced, Excused, Grows
  <2>2. CASE "forced" \in past'
    BY <2>2 DEF Forced, Excused
  <2> QED
    BY <2>1, <2>2
<1>9. ReportsSound(node, Going, toNode)'
  BY <1>3, <1>6, <1>8 DEF ReportsSound
<1>10. LinkSound(node)'
  BY <1>2, <1>3, <1>6 DEF NodeSound, LinkSound, Grows, Stays, Excused
<1>11. ConnSound(node, toNode)'
  BY <1>2, <1>3, <1>6 DEF NodeSound, ConnSound, Stays
<1>12. PlaceSound(node)' /\ WaitSound(node, Going, toNode)'
  BY <1>3 DEF PlaceSound, WaitSound
<1>13. FileSound(file)'
  BY <1>2, <1>3, LiftedFile
<1>14. TypeOK'
  BY <1>2, <1>3, StepFields DEF TypeOK, Bounded
<1>15. PortSound(node.port, node.tunnel["token"].state)'
  BY <1>2, <1>3, <1>6 DEF PortSound
<1> QED
  BY <1>1, <1>3, <1>4, <1>7, <1>9, <1>10, <1>11, <1>12, <1>13, <1>14, <1>15 DEF NodeInv, NodeSound

\* What asking to sleep comes to.
LEMMA EnterSleepFacts ==
  ASSUME NodeInv, node.pc = "main", NEW g, g = cc_node_enter_sleep(Here)
  PROVE  \/ node.transport # "ENABLED" /\ Sleeps(Here, g)
         \/ /\ node.transport = "ENABLED" /\ g \in H /\ g.file = file /\ SamePort(node, g.n) /\ SameConn(node, g.n)
            /\ \/ g.n.pc = "main" /\ g.n.state = "STARTED"
               \/ g.n.pc = "wait_sleep" /\ g.n.state = "PENDING"
            /\ \E q \in Request : q.type = "sleep" /\ (On(g) = Going \/ On(g) = Append(Going, q))
            /\ CanSend \/ g.sent = <<>>
<1>1. node.pc \in Running \ {"save"} /\ "main" \in Pc /\ "wait_sleep" \in Pc
  BY DEF Running, Waits, Pc
<1>2. PICK h : h = Here
  OBVIOUS
<1>3. /\ Streams /\ HSound(h, toNode) /\ h.n = node /\ h.sent = <<>>
      /\ On(h) = Going /\ h.file = file /\ h \in H /\ NodeSound(h.n, On(h), toNode)
  BY <1>1, <1>2, HereFacts DEF HSound, StepSound
<1>4. PICK q : q = [type |-> "sleep"]
  OBVIOUS
<1>5. q \in Request /\ q.type = "sleep"
  BY <1>4, PlainRequest
<1>6. CASE node.transport # "ENABLED"
  <2>1. g = DeepSleep(h)
    BY <1>2, <1>3, <1>6 DEF cc_node_enter_sleep
  <2>2. ~CanSend
    BY <1>3, <1>6 DEF NodeSound, ConnSound, CanSend
  <2> QED
    BY <1>2, <1>3, <1>6, <2>1, <2>2, DeepSleepFacts
<1>7. CASE node.transport = "ENABLED" /\ ~CanSend
  <2>1. g = Top(State(h, "STARTED"))
    BY <1>2, <1>3, <1>7 DEF cc_node_enter_sleep
  <2>2. PICK k : k = State(h, "STARTED")
    OBVIOUS
  <2>3. /\ k \in H /\ k.file = h.file /\ k.sent = h.sent /\ On(k) = On(h)
        /\ k.n.state = "STARTED" /\ SameConn(h.n, k.n) /\ SamePort(h.n, k.n)
    BY <1>3, <2>2, StateFacts
  <2>4. g = At(k, "main")
    BY <1>3, <1>7, <2>1, <2>2, <2>3 DEF Top, SameConn
  <2>5. /\ g \in H /\ g.file = k.file /\ g.sent = k.sent /\ On(g) = On(k)
        /\ g.n.pc = "main" /\ g.n.state = k.n.state /\ SameConn(k.n, g.n) /\ SamePort(k.n, g.n)
    BY <1>1, <2>3, <2>4, AtFacts
  <2>6. SameConn(node, g.n) /\ SamePort(node, g.n)
    BY <1>3, <2>3, <2>5 DEF SameConn, SamePort
  <2> QED
    BY <1>3, <1>5, <1>7, <2>3, <2>5, <2>6
<1>8. CASE node.transport = "ENABLED" /\ CanSend
  <2>1. PICK k : k = Send(h, q)
    OBVIOUS
  <2>2. k \in H /\ k.n = h.n /\ k.file = h.file /\ On(k) = Append(On(h), q)
    BY <1>3, <1>5, <1>8, <2>1, SendFacts
  <2>3. PICK j : j = State(k, "PENDING")
    OBVIOUS
  <2>4. /\ j \in H /\ j.file = k.file /\ On(j) = On(k)
        /\ j.n.state = "PENDING" /\ SameConn(k.n, j.n) /\ SamePort(k.n, j.n)
    BY <2>2, <2>3, StateFacts
  <2>5. g = At(j, "wait_sleep")
    BY <1>2, <1>3, <1>4, <1>8, <2>1, <2>3 DEF cc_node_enter_sleep
  <2>6. /\ g \in H /\ g.file = j.file /\ On(g) = On(j)
        /\ g.n.pc = "wait_sleep" /\ g.n.state = j.n.state /\ SameConn(j.n, g.n) /\ SamePort(j.n, g.n)
    BY <1>1, <2>4, <2>5, AtFacts
  <2>7. SameConn(node, g.n) /\ SamePort(node, g.n)
    BY <1>3, <2>2, <2>4, <2>6 DEF SameConn, SamePort
  <2> QED
    BY <1>3, <1>5, <1>8, <2>2, <2>4, <2>6, <2>7
<1> QED
  BY <1>6, <1>7, <1>8

\* TrySleep keeps the invariant.
LEMMA TrySleepKeeps ==
  ASSUME NodeInv, TrySleep
  PROVE  NodeInv'
<1>1. PICK g : g = cc_node_enter_sleep(Here)
  OBVIOUS
<1>2. /\ sleeps < MaxSleeps /\ node.pc = "main" /\ sleeps' = sleeps + 1 /\ Becomes(g)
      /\ conn' = IF g.n.pc = "off" THEN "none" ELSE conn
      /\ toNode' = IF g.n.pc = "off" THEN <<>> ELSE toNode
      /\ past' = IF node.state = "STARTED" THEN past ELSE past \cup {"forced"}
      /\ UNCHANGED <<server, configured, losses, boots, messages>>
  BY <1>1 DEF TrySleep
<1>3. node.pc \in Running \ {"save"}
  BY <1>2 DEF Running, Waits
<1>4. PICK h : h = Here
  OBVIOUS
<1>5. /\ Streams /\ Bounded /\ HSound(h, toNode) /\ h.n = node
      /\ NodeSound(node, Going, toNode) /\ PortSound(node.port, node.tunnel["token"].state)
  BY <1>3, <1>4, HereFacts DEF NodeInv
<1>6. Grows /\ Bounded'
  BY <1>2, <1>5, NodeAssumption DEF Grows, Bounded
<1>7. node.state = "STARTED" => Ready(node)
  BY <1>5, EngagedReady DEF Engaged
<1>8. CASE node.transport # "ENABLED" /\ Sleeps(Here, g)
  <2>1. Sleeps(h, g)
    BY <1>4, <1>8
  <2>2. g \in H /\ g.n.pc = "off" /\ conn' = "none" /\ toNode' = <<>> /\ file' = g.file
    BY <1>2, <2>1 DEF Sleeps, Becomes
  <2>3. "forced" \in past'
    BY <1>2, <1>7, <1>8 DEF Ready, Prepared
  <2>4. FileSound(file)'
    BY <1>5, <2>1, <2>2, <2>3 DEF Sleeps, FileSound, Excused
  <2> QED
    BY <1>2, <1>5, <1>6, <2>2, <2>4, TurnedOff
<1>9. CASE /\ node.transport = "ENABLED" /\ g \in H /\ g.file = file /\ SamePort(node, g.n) /\ SameConn(node, g.n)
           /\ \/ g.n.pc = "main" /\ g.n.state = "STARTED"
              \/ g.n.pc = "wait_sleep" /\ g.n.state = "PENDING"
           /\ \E q \in Request : q.type = "sleep" /\ (On(g) = Going \/ On(g) = Append(Going, q))
           /\ CanSend \/ g.sent = <<>>
  <2>1. PICK q \in Request : q.type = "sleep" /\ (On(g) = Going \/ On(g) = Append(Going, q))
    BY <1>9
  <2>2. g.n.pc # "off"
    BY <1>9
  <2>3. Stays /\ toNode' = toNode
    BY <1>2, <2>2 DEF Stays
  <2>4. Ready(node) \/ "forced" \in past'
    BY <1>2, <1>7
  <2> QED
    BY <1>2, <1>6, <1>9, <2>1, <2>3, <2>4, Asked
<1> QED
  BY <1>1, <1>2, <1>8, <1>9, EnterSleepFacts

\* Types alone.
LEMMA HereType ==
  ASSUME NodeInv, NEW h, h = Here
  PROVE  h \in H /\ h.n = node /\ h.file = file /\ h.sent = <<>> /\ Streams /\ Bounded
<1>1. node \in NodeType /\ file \in FileType /\ Streams /\ Bounded /\ <<>> \in Seq(Request)
  BY DEF NodeInv, TypeOK, Streams, Bounded
<1> QED
  BY <1>1 DEF Here, H

\* A tunnel is given back if it is there.
Dropped(h, t) == IF h.n.tunnel[t].state = "FREE" THEN h ELSE cc_tunnel_remove_ref(h, t)

Drops(h, t, g) ==
  /\ g \in H /\ g.file = h.file /\ g.n.state = h.n.state /\ \A x : In(x, h.sent) => In(x, g.sent)
  /\ \A u \in Type : u # t => g.n.tunnel[u] = h.n.tunnel[u]
  /\ h.n.tunnel[t].state # "FREE" /\ h.n.tunnel[t].ref_count = 1 /\ CanSend => In(Destroy(t), g.sent)

\* What giving it back sends.
LEMMA DropFacts ==
  ASSUME Streams, NEW h \in H, NEW t \in Type, h.n.state # "DO_SLEEP", NEW g, g = Dropped(h, t)
  PROVE  Drops(h, t, g)
<1>1. CASE g = h /\ h.n.tunnel[t].state = "FREE"
  BY <1>1 DEF Drops
<1>2. CASE g = cc_tunnel_remove_ref(h, t)
  <2>1. /\ Frees(h, g)
        /\ \A u \in Type : u # t => g.n.tunnel[u] = h.n.tunnel[u]
        /\ h.n.tunnel[t].ref_count = 1 /\ h.n.state # "DO_SLEEP" /\ CanSend => In(Destroy(t), g.sent)
    BY <1>2, RemoveRefFacts
  <2> QED
    BY <2>1 DEF Drops, Frees, SamePlace
<1> QED
  BY <1>1, <1>2 DEF Dropped

\* What stopping sends.
LEMMA StopFacts ==
  ASSUME NodeInv, node.pc = "stop", NEW g, g = cc_node_stop(Here)
  PROVE  /\ g \in H /\ g.file = file /\ g.n.pc = "save"
         /\ CanSend => \A t \in Type :
              node.tunnel[t].state # "FREE" /\ (node.tunnel[t].restored => t = "token") => In(Destroy(t), g.sent)
<1>1. node.pc \in Running \ {"save"} /\ "save" \in Pc
  BY DEF Running, Waits, Pc
<1>2. PICK h : h = Here
  OBVIOUS
<1>3. /\ Streams /\ h.n = node /\ h.file = file /\ h \in H /\ node.state = "STOP"
      /\ PortSound(node.port, node.tunnel["token"].state) /\ TunnelsSound(node, Going, toNode)
  BY <1>1, <1>2, HereFacts DEF NodeInv, NodeSound, PlaceSound
<1>4. PICK m : m = [type |-> "actor_new"]
  OBVIOUS
<1>5. m \in Request
  BY <1>4, PlainRequest
<1>6. PICK s : s = IF h.n.port # "none" /\ h.n.stop_method = "MIGRATE" THEN Send(h, m) ELSE h
  OBVIOUS
<1>7. s \in H /\ s.n = node /\ s.file = file
  <2>1. CASE s = h
    BY <1>3, <2>1
  <2>2. CASE s = Send(h, m)
    BY <1>3, <1>5, <2>2, SendFacts
  <2> QED
    BY <1>6, <2>1, <2>2
<1>8. PICK a : a = cc_actor_free(s)
  OBVIOUS
<1>9. PICK b : b = Dropped(a, "proxy")
  OBVIOUS
<1>10. PICK c : c = Dropped(b, "storage")
  OBVIOUS
<1>11. g = At(c, "save")
  BY <1>2, <1>4, <1>6, <1>8, <1>9, <1>10 DEF cc_node_stop, Dropped
<1>12. "token" \in Type /\ "proxy" \in Type /\ "storage" \in Type
  BY DEF Type
<1>13. /\ Frees(s, a)
       /\ \A u \in Type : u # "token" => a.n.tunnel[u] = node.tunnel[u]
       /\ node.port \in {"PENDING", "ENABLED"} /\ node.tunnel["token"].ref_count = 1 /\ CanSend
            => In(Destroy("token"), a.sent)
  BY <1>3, <1>7, <1>8, ActorFreeFacts
<1>14. a \in H /\ a.file = file /\ a.n.state = "STOP"
  BY <1>3, <1>7, <1>13 DEF Frees, SamePlace
<1>15. /\ b \in H /\ b.file = a.file /\ b.n.state = a.n.state /\ \A x : In(x, a.sent) => In(x, b.sent)
       /\ \A u \in Type : u # "proxy" => b.n.tunnel[u] = a.n.tunnel[u]
       /\ a.n.tunnel["proxy"].state # "FREE" /\ a.n.tunnel["proxy"].ref_count = 1 /\ CanSend
            => In(Destroy("proxy"), b.sent)
  <2>1. Drops(a, "proxy", b)
    BY <1>3, <1>9, <1>12, <1>14, DropFacts
  <2> QED
    BY <2>1 DEF Drops
<1>16. /\ c \in H /\ c.file = b.file /\ \A x : In(x, b.sent) => In(x, c.sent)
       /\ b.n.tunnel["storage"].state # "FREE" /\ b.n.tunnel["storage"].ref_count = 1 /\ CanSend
            => In(Destroy("storage"), c.sent)
  <2>1. b.n.state # "DO_SLEEP" /\ b \in H
    BY <1>14, <1>15
  <2>2. Drops(b, "storage", c)
    BY <1>3, <1>10, <1>12, <2>1, DropFacts
  <2> QED
    BY <2>2 DEF Drops
<1>17. g \in H /\ g.file = c.file /\ g.n.pc = "save" /\ g.sent = c.sent
  BY <1>1, <1>11, <1>16, AtFacts
<1>18. ASSUME CanSend, NEW t \in Type, node.tunnel[t].state # "FREE", node.tunnel[t].restored => t = "token"
       PROVE  In(Destroy(t), c.sent)
  <2>1. node.tunnel[t].ref_count = 1
    BY <1>3, <1>18 DEF TunnelsSound
  <2>2. CASE t = "token"
    <3>1. node.port \in {"PENDING", "ENABLED"}
      BY <1>3, <1>18, <2>2 DEF PortSound
    <3> QED
      BY <1>13, <1>15, <1>16, <1>18, <2>1, <2>2, <3>1
  <2>3. CASE t = "proxy"
    BY <1>12, <1>13, <1>15, <1>16, <1>18, <2>1, <2>3
  <2>4. CASE t = "storage"
    BY <1>12, <1>13, <1>15, <1>16, <1>18, <2>1, <2>4
  <2> QED
    BY <2>2, <2>3, <2>4 DEF Type
<1> QED
  BY <1>14, <1>15, <1>16, <1>17, <1>18

\* Stop keeps the invariant.
LEMMA StopKeeps ==
  ASSUME NodeInv, Stop
  PROVE  NodeInv'
<1>1. PICK g : g = cc_node_stop(Here)
  OBVIOUS
<1>2. node.pc = "stop" /\ Becomes(g) /\ UNCHANGED <<conn, server, toNode, configured, past, env>>
  BY <1>1 DEF Stop
<1>3. g \in H /\ g.file = file /\ g.n.pc = "save"
  BY <1>1, <1>2, StopFacts
<1>4. Streams /\ Bounded /\ FileSound(file) /\ toNode \in Seq(Reply)
  BY DEF NodeInv, TypeOK, Streams, Bounded
<1>5. toProxy' \in Seq(Request) /\ node' = g.n /\ file' = file
  BY <1>2, <1>3, <1>4, StepStreams
<1>6. FileSound(file)'
  BY <1>2, <1>4, <1>5 DEF FileSound, Excused
<1>7. TypeOK'
  BY <1>2, <1>3, <1>4, <1>5, StepFields DEF TypeOK, Bounded, env
<1> QED
  BY <1>2, <1>3, <1>4, <1>5, <1>6, <1>7 DEF NodeInv

\* SaveAndExit keeps the invariant.
LEMMA SaveAndExitKeeps ==
  ASSUME NodeInv, SaveAndExit
  PROVE  NodeInv'
<1>1. PICK h : h = Here
  OBVIOUS
<1>2. h \in H /\ Streams /\ Bounded
  BY <1>1, HereType
<1>3. PICK k : k = cc_node_set_state(h, FALSE)
  OBVIOUS
<1>4. k \in H /\ k.file = Config
  BY <1>2, <1>3, SetStateFacts
<1>5. PICK j : j = At(k, "off")
  OBVIOUS
<1>6. j \in H /\ j.file = Config /\ j.n.pc = "off"
  BY <1>4, <1>5, AtFacts DEF Pc
<1>7. PICK n : n = [j.n EXCEPT !.transport = "NULL"]
  OBVIOUS
<1>8. n \in NodeType /\ n.pc = "off"
  <2>1. j.n \in NodeType
    BY <1>6, StepFields
  <2> QED
    BY <1>6, <1>7, <2>1 DEF NodeType
<1>9. PICK g : g = WithNode(j, n)
  OBVIOUS
<1>10. g \in H /\ g.n.pc = "off" /\ g.file = Config
  BY <1>6, <1>8, <1>9, WithNodeFacts
<1>11. g = [At(cc_node_set_state(Here, FALSE), "off") EXCEPT !.n.transport = "NULL"]
  BY <1>1, <1>3, <1>5, <1>6, <1>7, <1>9 DEF H, WithNode
<1>12. Becomes(g) /\ conn' = "none" /\ toNode' = <<>> /\ UNCHANGED <<server, toProxy, configured, past, env>>
  BY <1>11 DEF SaveAndExit
<1>13. Bounded'
  BY <1>2, <1>12 DEF Bounded, env
<1>14. FileSound(file)'
  BY <1>10, <1>12 DEF Becomes, FileSound, Config
<1> QED
  BY <1>2, <1>10, <1>12, <1>13, <1>14, TurnedOff

\* A new node.
LEMMA NewNodeFacts ==
  /\ NewNode \in NodeType /\ NewNode.pc = "dial" /\ NewNode.state = "DO_START" /\ NewNode.transport = "NULL"
  /\ NewNode.link = None /\ NewNode.port = "none" /\ \A t \in Type : NewNode.tunnel[t] = NoTunnel
<1>1. PICK w : w = [t \in Type |-> NoTunnel]
  OBVIOUS
<1>2. w \in [Type -> TunnelType] /\ \A t \in Type : w[t] = NoTunnel
  BY <1>1, NoTunnelFacts
<1>3. NewNode = [pc |-> "dial", state |-> "DO_START", stop_method |-> "CLEAN", uri |-> 1, transport |-> "NULL",
                 client |-> 0, peer |-> None, link |-> None, new_proxy |-> TRUE, port |-> "none", tunnel |-> w]
  BY <1>1 DEF NewNode
<1>4. 1 \in 1 .. Len(Uris) /\ 0 \in 0 .. Len(Uris)
  BY NodeAssumption
<1> QED
  BY <1>2, <1>3, <1>4 DEF NodeType, Pc, Running, PortState, TunnelType

\* A node that has just started, without a connection.
LEMMA Started ==
  ASSUME NodeInv, conn # "up", toNode = <<>>,
         NEW n \in NodeType, node' = n, n.pc = "dial", n.state = "DO_START", n.transport = "NULL",
         \A t \in Type : n.tunnel[t].state # "FREE"
            => n.tunnel[t].ref_count = IF n.tunnel[t].restored /\ t # "token" THEN 0 ELSE 1,
         n.link = None \/ n.link \in configured \/ Excused, PortSound(n.port, n.tunnel["token"].state),
         file' \in FileType, FileSound(file)', Excused' <=> Excused,
         UNCHANGED <<conn, server, toProxy, toNode, configured>>, Bounded'
  PROVE  NodeInv'
<1>1. Going' = <<>> /\ toNode' = <<>>
  BY DEF Going
<1>2. \A t, T : NoneAbout(<<>>, t) /\ OnceAbout(<<>>, t) /\ ~Has(<<>>, T)
  BY DEF NoneAbout, OnceAbout, Has
<1>3. TunnelsSound(node, Going, toNode)'
  BY <1>1, <1>2 DEF TunnelsSound
<1>4. ReportsSound(node, Going, toNode)'
  <2>1. ~Engaged(n) /\ n.pc # "wait_setup" /\ ~Accepted(<<>>)
    BY DEF Engaged, Accepted
  <2>2. ~Engaged(node)' /\ ~Accepted(toNode)'
    BY <1>1, <2>1 DEF Engaged
  <2> QED
    BY <1>1, <1>2, <2>1, <2>2 DEF ReportsSound
<1>5. LinkSound(node)' /\ ConnSound(node, toNode)'
  BY <1>1 DEF LinkSound, ConnSound
<1>6. PlaceSound(node)' /\ WaitSound(node, Going, toNode)'
  BY DEF PlaceSound, WaitSound
<1>7. PortSound(node.port, node.tunnel["token"].state)'
  BY DEF PortSound
<1>8. TypeOK' /\ toProxy' \in Seq(Request) /\ toNode' \in Seq(Reply)
  BY DEF NodeInv, TypeOK, Bounded
<1> QED
  BY <1>3, <1>4, <1>5, <1>6, <1>7, <1>8 DEF NodeInv, NodeSound

\* What comes out of the state file.
LEMMA RestoredFacts ==
  ASSUME NEW f \in FileType, f.kind = "state", PortSound(f.port, f.tunnel["token"]), ~RestoreFaults(f),
         NEW n, n = cc_node_get_state(f)
  PROVE  /\ n \in NodeType /\ n.pc = "dial" /\ n.state = "DO_START" /\ n.transport = "NULL" /\ n.link = f.link
         /\ PortSound(n.port, n.tunnel["token"].state)
         /\ \A t \in Type : n.tunnel[t].state # "FREE"
              => n.tunnel[t].ref_count = IF n.tunnel[t].restored /\ t # "token" THEN 0 ELSE 1
<1>1. f \in [kind : {"state"}, link : Proxy \cup {None}, port : PortState, tunnel : [Type -> TunnelState]]
  BY DEF FileType, NoFile, Torn, Config
<1>2. f.link \in Proxy \cup {None} /\ f.port \in PortState /\ \A t \in Type : f.tunnel[t] \in TunnelState
  BY <1>1
<1>3. PICK w : w = [t \in Type |-> cc_tunnel_deserialize(f.tunnel[t], IF t = "token" THEN 1 ELSE 0)]
  OBVIOUS
<1>4. ASSUME NEW t \in Type
      PROVE  /\ w[t] \in TunnelType /\ w[t].state = f.tunnel[t]
             /\ w[t].state # "FREE" => w[t].ref_count = IF w[t].restored /\ t # "token" THEN 0 ELSE 1
  <2>1. PICK c \in {0, 1} : c = IF t = "token" THEN 1 ELSE 0
    OBVIOUS
  <2>2. w[t] = cc_tunnel_deserialize(f.tunnel[t], c)
    BY <1>3, <2>1
  <2>3. CASE f.tunnel[t] = "FREE"
    BY <2>2, <2>3, NoTunnelFacts DEF cc_tunnel_deserialize
  <2>4. CASE f.tunnel[t] # "FREE"
    <3>1. w[t] = [state |-> f.tunnel[t], ref_count |-> c, restored |-> TRUE]
      BY <2>2, <2>4 DEF cc_tunnel_deserialize
    <3>2. c \in 0 .. RefModulus - 1 /\ f.tunnel[t] \in TunnelState
      BY <1>2, NodeAssumption
    <3> QED
      BY <2>1, <3>1, <3>2 DEF TunnelType
  <2> QED
    BY <2>3, <2>4
<1>5. w \in [Type -> TunnelType]
  <2>1. w = [t \in Type |-> w[t]]
    BY <1>3
  <2> QED
    BY <1>4, <2>1
<1>6. PICK m : m = NewNode
  OBVIOUS
<1>7. m \in NodeType /\ m.pc = "dial" /\ m.state = "DO_START" /\ m.transport = "NULL"
  BY <1>6, NewNodeFacts
<1>8. n = [m EXCEPT !.link = f.link, !.port = f.port, !.tunnel = w]
  BY <1>3, <1>6 DEF cc_node_get_state
<1>9. /\ n \in NodeType /\ n.pc = "dial" /\ n.state = "DO_START" /\ n.transport = "NULL" /\ n.link = f.link
      /\ n.port = f.port /\ n.tunnel = w
  BY <1>2, <1>5, <1>7, <1>8 DEF NodeType, TunnelType
<1>10. "token" \in Type
  BY DEF Type
<1> QED
  BY <1>4, <1>9, <1>10

\* Boot keeps the invariant.
LEMMA BootKeeps ==
  ASSUME NodeInv, Boot
  PROVE  NodeInv'
<1>1. /\ node.pc = "off" /\ boots < MaxBoots /\ boots' = boots + 1
      /\ node' = cc_node_setup(file).n /\ file' = cc_node_setup(file).file /\ past' = past \ {"told"}
      /\ UNCHANGED <<conn, server, toProxy, toNode, configured, losses, messages, sleeps>>
  BY DEF Boot
<1>2. /\ conn # "up" /\ toNode = <<>> /\ FileSound(file) /\ file \in FileType /\ Bounded
      /\ toProxy \in Seq(Request) /\ toNode \in Seq(Reply)
  BY <1>1 DEF NodeInv, TypeOK, Bounded
<1>3. Bounded' /\ (Excused' <=> Excused)
  BY <1>1, <1>2, NodeAssumption DEF Bounded, Excused
<1>4. FileSound(file)' /\ file' \in FileType
  <2>1. CASE file' = file
    BY <1>1, <1>2, <1>3, <2>1 DEF FileSound
  <2>2. CASE file' = Config
    BY <2>2 DEF FileSound, Config, FileType
  <2> QED
    BY <1>1, <2>1, <2>2 DEF cc_node_setup
<1>5. CASE file.kind = "state" /\ RestoreFaults(file)
  <2>1. node' = [NewNode EXCEPT !.pc = "fault"]
    BY <1>1, <1>5 DEF cc_node_setup, cc_node_get_state
  <2>2. node' \in NodeType /\ node'.pc = "fault" /\ "fault" \notin Running
    BY <2>1, NewNodeFacts DEF NodeType, Pc, Running, Waits
  <2>3. TypeOK'
    BY <1>3, <1>4, <2>2 DEF TypeOK, Bounded
  <2> QED
    BY <1>1, <1>2, <1>4, <2>2, <2>3 DEF NodeInv
<1>6. CASE file.kind = "state" /\ ~RestoreFaults(file)
  <2>1. PICK n : n = cc_node_get_state(file)
    OBVIOUS
  <2>2. node' = n
    BY <1>1, <1>6, <2>1 DEF cc_node_setup
  <2>3. /\ PortSound(file.port, file.tunnel["token"])
        /\ file.link = None \/ file.link \in configured \/ Excused
    BY <1>2, <1>6 DEF FileSound
  <2>4. /\ n \in NodeType /\ n.pc = "dial" /\ n.state = "DO_START" /\ n.transport = "NULL" /\ n.link = file.link
        /\ PortSound(n.port, n.tunnel["token"].state)
        /\ \A t \in Type : n.tunnel[t].state # "FREE"
             => n.tunnel[t].ref_count = IF n.tunnel[t].restored /\ t # "token" THEN 0 ELSE 1
    BY <1>2, <1>6, <2>1, <2>3, RestoredFacts
  <2> QED
    BY <1>1, <1>2, <1>3, <1>4, <2>2, <2>3, <2>4, Started
<1>7. CASE file.kind # "state"
  <2>1. PICK n : n = NewNode
    OBVIOUS
  <2>2. node' = n
    BY <1>1, <1>7, <2>1 DEF cc_node_setup
  <2>3. /\ n \in NodeType /\ n.pc = "dial" /\ n.state = "DO_START" /\ n.transport = "NULL" /\ n.link = None
        /\ n.port = "none" /\ \A t \in Type : n.tunnel[t].state = "FREE"
    BY <2>1, NewNodeFacts, NoTunnelFacts
  <2>4. PortSound(n.port, n.tunnel["token"].state)
    BY <2>3 DEF PortSound, Type
  <2> QED
    BY <1>1, <1>2, <1>3, <1>4, <2>2, <2>3, <2>4, Started
<1> QED
  BY <1>5, <1>6, <1>7

\* Crash keeps the invariant.
LEMMA CrashKeeps ==
  ASSUME NodeInv, Crash
  PROVE  NodeInv'
<1>1. /\ node' = [NewNode EXCEPT !.pc = "off"] /\ file' \in {file, Torn} /\ conn' = "none" /\ toNode' = <<>>
      /\ UNCHANGED <<server, toProxy, configured, past, env>>
  BY DEF Crash
<1>2. node' \in NodeType /\ node'.pc = "off" /\ "off" \notin Running
  BY <1>1, NewNodeFacts DEF NodeType, Pc, Running, Waits
<1>3. FileSound(file) /\ file \in FileType /\ Bounded /\ toProxy \in Seq(Request)
  BY DEF NodeInv, TypeOK, Bounded
<1>4. FileSound(file)' /\ file' \in FileType
  <2>1. CASE file' = file
    BY <1>1, <1>3, <2>1 DEF FileSound, Excused
  <2>2. CASE file' = Torn
    BY <2>2 DEF FileSound, Torn, FileType
  <2> QED
    BY <1>1, <2>1, <2>2
<1>5. TypeOK'
  BY <1>1, <1>2, <1>3, <1>4 DEF TypeOK, Bounded, env
<1> QED
  BY <1>1, <1>2, <1>3, <1>4, <1>5 DEF NodeInv

(***************************************************************************)
(* The proxy and the connection.                                            *)
(***************************************************************************)
\* Messages arrive, are answered or get lost: what tp and tn are afterwards.
Carried(tp, tn) ==
  /\ \A t \in Type :
       /\ OnceAbout(Going, t) /\ OnceAbout(toNode, t) /\ (NoneAbout(Going, t) \/ NoneAbout(toNode, t))
            => OnceAbout(tp, t) /\ OnceAbout(tn, t) /\ (NoneAbout(tp, t) \/ NoneAbout(tn, t))
       /\ NoneAbout(Going, t) /\ NoneAbout(toNode, t) => NoneAbout(tp, t) /\ NoneAbout(tn, t)
  /\ \A T \in SUBSET (Reports \cup {"tunnel"}) :
       Has(tp, T) \/ Has(tn, T) => Has(Going, T) \/ Has(toNode, T)

\* A step of the proxy or of the connection.
LEMMA Traffic ==
  ASSUME NodeInv, UNCHANGED <<node, file, server>>, Grows, Bounded',
         NEW tp \in Seq(Request), NEW tn \in Seq(Reply), Carried(tp, tn), Going' = tp, toNode' = tn,
         toProxy' \in Seq(Request),
         Accepted(tn) => Accepted(toNode) \/ (Has(Going, Reports) /\ server \in configured'),
         conn' = conn \/ (conn' # "up" /\ (server \in configured \/ Excused')),
         conn # "up" /\ toNode = <<>> => tn = <<>>
  PROVE  NodeInv'
<1>1. TypeOK /\ FileSound(file) /\ (node.pc \in {"off", "fault"} => conn # "up" /\ toNode = <<>>)
  BY DEF NodeInv
<1>2. TypeOK' /\ FileSound(file)'
  BY <1>1, LiftedFile DEF TypeOK, Bounded
<1>3. node'.pc \in {"off", "fault"} => conn' # "up" /\ toNode' = <<>>
  BY <1>1
<1>4. (Forced => Forced') /\ (Excused => Excused')
  BY DEF Forced, Excused, Grows
<1>5. ASSUME node.pc \in Running \ {"save"}
      PROVE  /\ NodeSound(node, Going, toNode)' /\ PlaceSound(node)' /\ WaitSound(node, Going, toNode)'
             /\ PortSound(node.port, node.tunnel["token"].state)'
  <2>1. /\ NodeSound(node, Going, toNode) /\ PlaceSound(node) /\ WaitSound(node, Going, toNode)
        /\ PortSound(node.port, node.tunnel["token"].state)
    BY <1>5 DEF NodeInv
  <2>2. TunnelsSound(node, Going, toNode)'
    <3>1. ASSUME NEW t \in Type
          PROVE  /\ OnceAbout(tp, t) /\ OnceAbout(tn, t) /\ (NoneAbout(tp, t) \/ NoneAbout(tn, t))
                 /\ node.tunnel[t].state = "PENDING" \/ (NoneAbout(tp, t) /\ NoneAbout(tn, t))
                 /\ node.tunnel[t].state # "FREE"
                      => node.tunnel[t].ref_count = IF node.tunnel[t].restored /\ t # "token" THEN 0 ELSE 1
      BY <2>1 DEF NodeSound, TunnelsSound, Carried
    <3> QED
      BY <3>1 DEF TunnelsSound
  <2>3. /\ Has(tp, Reports) \/ Has(tn, Reports) => Has(Going, Reports) \/ Has(toNode, Reports)
        /\ Has(tp, {"wake", "sleep"}) \/ Has(tn, {"wake", "sleep"})
             => Has(Going, {"wake", "sleep"}) \/ Has(toNode, {"wake", "sleep"})
        /\ Has(tp, {"sleep"}) \/ Has(tn, {"sleep"}) => Has(Going, {"sleep"}) \/ Has(toNode, {"sleep"})
        /\ Has(tp, {"tunnel"}) \/ Has(tn, {"tunnel"}) => Has(Going, {"tunnel"}) \/ Has(toNode, {"tunnel"})
    <3>1. /\ Reports \in SUBSET (Reports \cup {"tunnel"}) /\ {"wake", "sleep"} \in SUBSET (Reports \cup {"tunnel"})
          /\ {"sleep"} \in SUBSET (Reports \cup {"tunnel"}) /\ {"tunnel"} \in SUBSET (Reports \cup {"tunnel"})
      BY DEF Reports
    <3> QED
      BY <3>1 DEF Carried
  <2>4. ReportsSound(node, Going, toNode)'
    <3>1. (Engaged(node)' <=> Engaged(node)) /\ (Attached(node)' <=> Attached(node))
      BY DEF Engaged, Attached
    <3>2. /\ Engaged(node) \/ node.pc = "wait_setup" \/ Has(tp, Reports) \/ Has(tn, Reports)
               => node.transport = "ENABLED" /\ (Forced \/ Attached(node))
      BY <2>1, <2>3 DEF NodeSound, ReportsSound
    <3>3. ASSUME Engaged(node) \/ Has(tp, {"wake", "sleep"}) \/ Has(tn, {"wake", "sleep"}) \/ Accepted(tn)
          PROVE  Excused' \/ node.peer \in configured'
      <4>1. CASE Engaged(node) \/ Has(tp, {"wake", "sleep"}) \/ Has(tn, {"wake", "sleep"}) \/ Accepted(toNode)
        BY <1>4, <2>1, <2>3, <4>1 DEF NodeSound, ReportsSound, Grows
      <4>2. CASE Has(Going, Reports) /\ server \in configured'
        BY <2>1, <4>2 DEF NodeSound, ReportsSound, ConnSound
      <4> QED
        BY <3>3, <4>1, <4>2
    <3> QED
      BY <1>4, <3>1, <3>2, <3>3 DEF ReportsSound
  <2>5. LinkSound(node)'
    BY <1>4, <2>1 DEF NodeSound, LinkSound, Grows
  <2>6. ConnSound(node, toNode)'
    BY <2>1 DEF NodeSound, ConnSound
  <2>7. PlaceSound(node)' /\ PortSound(node.port, node.tunnel["token"].state)'
    BY <2>1 DEF PlaceSound, PortSound
  <2>8. WaitSound(node, Going, toNode)'
    BY <1>4, <2>1, <2>3 DEF WaitSound, Grows
  <2> QED
    BY <2>2, <2>4, <2>5, <2>6, <2>7, <2>8 DEF NodeSound
<1> QED
  BY <1>2, <1>3, <1>5 DEF NodeInv

\* ProxySends keeps the invariant.
LEMMA ProxySendsKeeps ==
  ASSUME NodeInv, ProxySends
  PROVE  NodeInv'
<1>1. /\ conn = "up" /\ messages < MaxMessages /\ messages' = messages + 1
      /\ UNCHANGED <<node, file, conn, server, toProxy, configured, past, losses, boots, sleeps>>
  BY DEF ProxySends
<1>2. PICK m \in {[type |-> "actor_new"]} \cup {[type |-> "stop", migrate |-> b] : b \in BOOLEAN} :
        toNode' = Append(toNode, m)
  BY DEF ProxySends
<1>3. m \in Reply /\ m.type \in {"actor_new", "stop"}
  BY <1>2 DEF Reply
<1>4. Streams /\ Bounded /\ toNode \in Seq(Reply) /\ Going \in Seq(Request) /\ toProxy \in Seq(Request)
  BY GoingFacts DEF NodeInv, TypeOK, Streams, Bounded
<1>5. PICK tn : tn = Append(toNode, m)
  OBVIOUS
<1>6. /\ tn \in Seq(Reply)
      /\ \A t : NoneAbout(tn, t) <=> NoneAbout(toNode, t) /\ ~About(m, t)
      /\ \A t : OnceAbout(toNode, t) /\ (~About(m, t) \/ NoneAbout(toNode, t)) => OnceAbout(tn, t)
      /\ \A T : Has(tn, T) <=> Has(toNode, T) \/ m.type \in T
      /\ Accepted(tn) <=> Accepted(toNode) \/ Accepts(m)
  BY <1>3, <1>4, <1>5, AppendFacts
<1>7. (\A t : ~About(m, t)) /\ ~Accepts(m) /\ m.type \notin Reports \cup {"tunnel"}
  BY <1>3 DEF About, Accepts, Reports
<1>8. Carried(Going, tn)
  BY <1>6, <1>7 DEF Carried
<1>9. Going' = Going /\ Grows /\ Bounded' /\ toNode' = tn
  BY <1>1, <1>2, <1>4, <1>5, NodeAssumption DEF Going, Grows, Bounded
<1> QED
  BY <1>1, <1>4, <1>6, <1>7, <1>8, <1>9, Traffic

\* Lose keeps the invariant.
LEMMA LoseKeeps ==
  ASSUME NodeInv, Lose
  PROVE  NodeInv'
<1>1. /\ conn = "up" /\ losses < MaxLosses /\ conn' = "broken" /\ losses' = losses + 1
      /\ toProxy' = <<>> /\ toNode' \in {toNode, <<>>}
      /\ past' = IF server \in configured THEN past ELSE past \cup {"interrupted"}
      /\ UNCHANGED <<node, file, server, configured, boots, messages, sleeps>>
  BY DEF Lose
<1>2. Streams /\ Bounded /\ toNode \in Seq(Reply) /\ <<>> \in Seq(Request) /\ <<>> \in Seq(Reply)
  BY DEF NodeInv, TypeOK, Streams, Bounded
<1>3. Going' = <<>> /\ Grows /\ Bounded' /\ (server \in configured \/ Excused')
  <2>1. Going' = <<>> /\ Grows
    BY <1>1 DEF Going, Grows
  <2>2. Bounded'
    BY <1>1, <1>2, NodeAssumption DEF Bounded
  <2>3. server \in configured \/ Excused'
    BY <1>1 DEF Excused
  <2> QED
    BY <2>1, <2>2, <2>3
<1>4. (\A t, T : NoneAbout(<<>>, t) /\ OnceAbout(<<>>, t) /\ ~Has(<<>>, T)) /\ ~Accepted(<<>>)
  BY DEF NoneAbout, OnceAbout, Has, Accepted
<1>5. Carried(<<>>, toNode) /\ Carried(<<>>, <<>>)
  BY <1>4 DEF Carried
<1>6. PICK tn \in Seq(Reply) : toNode' = tn /\ tn \in {toNode, <<>>}
  BY <1>1, <1>2
<1>7. Carried(<<>>, tn) /\ (Accepted(tn) => Accepted(toNode))
  BY <1>4, <1>5, <1>6
<1> QED
  BY <1>1, <1>2, <1>3, <1>6, <1>7, Traffic

\* The answer to a request.
LEMMA AnswerFacts ==
  ASSUME NEW m \in Request, m.type \notin {"destroy", "destroyed", "actor_new"}, NEW ok \in BOOLEAN,
         NEW a, a = Answer(m, ok)
  PROVE  a \in Reply /\ a.type = m.type /\ (\A t : About(a, t) <=> About(m, t)) /\ (Accepts(a) <=> m.type = "setup" /\ ok)
<1>1. CASE m.type = "tunnel"
  <2>1. m.of \in Type
    BY <1>1 DEF Request
  <2>2. a = [type |-> "tunnel", of |-> m.of, ok |-> ok]
    BY <1>1 DEF Answer
  <2> QED
    BY <1>1, <2>1, <2>2 DEF Reply, About, Accepts
<1>2. CASE m.type # "tunnel"
  <2>1. m.type \in {"join", "setup", "wake", "connect", "sleep"}
    BY <1>2 DEF Request
  <2>2. a = [type |-> m.type, ok |-> ok]
    BY <1>2 DEF Answer
  <2> QED
    BY <1>2, <2>1, <2>2 DEF Reply, About, Accepts
<1> QED
  BY <1>1, <1>2

\* ProxyHandles keeps the invariant.
LEMMA ProxyHandlesKeeps ==
  ASSUME NodeInv, ProxyHandles
  PROVE  NodeInv'
<1>1. PICK m : m = Head(toProxy)
  OBVIOUS
<1>2. PICK ok \in BOOLEAN :
        /\ toNode' = IF conn = "up" /\ m.type \notin {"destroy", "destroyed", "actor_new"}
                     THEN Append(toNode, Answer(m, ok)) ELSE toNode
        /\ configured' = IF m.type = "setup" /\ ok THEN configured \cup {server} ELSE configured
        /\ past' = IF ok THEN past ELSE past \cup {"refused"}
  BY <1>1 DEF ProxyHandles
<1>3. toProxy # <<>> /\ toProxy' = Tail(toProxy) /\ UNCHANGED <<node, file, conn, server, env>>
  BY DEF ProxyHandles
<1>4. Streams /\ Bounded /\ toNode \in Seq(Reply) /\ Going \in Seq(Request) /\ toProxy \in Seq(Request)
  BY GoingFacts DEF NodeInv, TypeOK, Streams, Bounded
<1>5. PICK r : r = Tail(toProxy)
  OBVIOUS
<1>6. /\ r \in Seq(Request) /\ m \in Request
      /\ \A t : NoneAbout(toProxy, t) <=> NoneAbout(r, t) /\ ~About(m, t)
      /\ \A t : OnceAbout(toProxy, t) => OnceAbout(r, t) /\ (About(m, t) => NoneAbout(r, t))
      /\ \A T : Has(toProxy, T) <=> Has(r, T) \/ m.type \in T
  BY <1>1, <1>3, <1>4, <1>5, TailFacts
<1>7. Grows /\ Bounded'
  BY <1>2, <1>3, <1>4 DEF Grows, Bounded, env
<1>8. CASE conn # "up"
  <2>1. Going' = Going /\ toNode' = toNode
    BY <1>2, <1>3, <1>8 DEF Going
  <2>2. Carried(Going, toNode)
    BY DEF Carried
  <2> QED
    BY <1>3, <1>4, <1>5, <1>6, <1>7, <2>1, <2>2, Traffic
<1>9. CASE conn = "up"
  <2>1. Going = toProxy /\ Going' = r
    BY <1>3, <1>5, <1>9 DEF Going
  <2>2. CASE m.type \in {"destroy", "destroyed", "actor_new"}
    <3>1. toNode' = toNode
      BY <1>2, <2>2
    <3>2. Carried(r, toNode)
      BY <1>6, <2>1 DEF Carried
    <3> QED
      BY <1>3, <1>4, <1>5, <1>6, <1>7, <2>1, <3>1, <3>2, Traffic
  <2>3. CASE m.type \notin {"destroy", "destroyed", "actor_new"}
    <3>1. PICK a : a = Answer(m, ok)
      OBVIOUS
    <3>2. /\ a \in Reply /\ a.type = m.type /\ (\A t : About(a, t) <=> About(m, t))
          /\ Accepts(a) <=> m.type = "setup" /\ ok
      BY <1>6, <2>3, <3>1, AnswerFacts
    <3>3. PICK tn : tn = Append(toNode, a)
      OBVIOUS
    <3>4. toNode' = tn
      BY <1>2, <1>9, <2>3, <3>1, <3>3
    <3>5. /\ tn \in Seq(Reply)
          /\ \A t : NoneAbout(tn, t) <=> NoneAbout(toNode, t) /\ ~About(a, t)
          /\ \A t : OnceAbout(toNode, t) /\ (~About(a, t) \/ NoneAbout(toNode, t)) => OnceAbout(tn, t)
          /\ \A T : Has(tn, T) <=> Has(toNode, T) \/ a.type \in T
          /\ Accepted(tn) <=> Accepted(toNode) \/ Accepts(a)
      BY <1>4, <3>2, <3>3, AppendFacts
    <3>6. Carried(r, tn)
      BY <1>6, <2>1, <3>2, <3>5 DEF Carried
    <3>7. Accepts(a) => Has(Going, Reports) /\ server \in configured'
      BY <1>2, <1>6, <2>1, <3>2 DEF Reports
    <3> QED
      BY <1>3, <1>5, <1>6, <1>7, <1>9, <2>1, <3>4, <3>5, <3>6, <3>7, Traffic
  <2> QED
    BY <2>2, <2>3
<1> QED
  BY <1>8, <1>9

(***************************************************************************)
(* The theorems.                                                            *)
(***************************************************************************)
\* The first state.
LEMMA InitSound ==
  ASSUME Init
  PROVE  NodeInv
<1>1. /\ node = [NewNode EXCEPT !.pc = "off"] /\ file = NoFile
      /\ conn = "none" /\ server \in Proxy /\ toProxy = <<>> /\ toNode = <<>>
      /\ configured = {} /\ past = {}
      /\ losses = 0 /\ boots = 0 /\ messages = 0 /\ sleeps = 0
  BY DEF Init
<1>2. node \in NodeType /\ node.pc = "off" /\ "off" \notin Running
  BY <1>1, NewNodeFacts DEF NodeType, Pc, Running, Waits
<1>3. FileSound(file) /\ file \in FileType
  BY <1>1 DEF FileSound, NoFile, FileType
<1>4. TypeOK
  BY <1>1, <1>2, <1>3, NodeAssumption DEF TypeOK
<1>5. toProxy \in Seq(Request) /\ toNode \in Seq(Reply) /\ conn # "up"
  BY <1>1
<1> QED
  BY <1>1, <1>2, <1>3, <1>4, <1>5 DEF NodeInv

\* A step that changes nothing.
LEMMA Stutters ==
  ASSUME NodeInv, UNCHANGED vars
  PROVE  NodeInv'
<1>1. /\ node' = node /\ file' = file /\ conn' = conn /\ server' = server /\ toProxy' = toProxy /\ toNode' = toNode
      /\ configured' = configured /\ past' = past /\ losses' = losses /\ boots' = boots /\ messages' = messages
      /\ sleeps' = sleeps
  BY DEF vars
<1>2. Streams /\ Bounded /\ toNode \in Seq(Reply) /\ Going \in Seq(Request) /\ toProxy \in Seq(Request)
  BY GoingFacts DEF NodeInv, TypeOK, Streams, Bounded
<1>3. Going' = Going /\ Grows /\ Bounded' /\ Carried(Going, toNode)
  BY <1>1, <1>2 DEF Going, Grows, Bounded, Carried
<1> QED
  BY <1>1, <1>2, <1>3, Traffic

\* Every step.
LEMMA NextKeeps ==
  ASSUME NodeInv, [Next]_vars
  PROVE  NodeInv'
<1>1. CASE NodeStep
  BY <1>1, DialFailsKeeps, DialKeeps, ReceiveKeeps, EvtWaitFailsKeeps, EvtWaitTimesOutKeeps, TrySleepKeeps,
     StopKeeps, SaveAndExitKeeps DEF NodeStep
<1>2. CASE Boot \/ Crash \/ ProxyHandles \/ ProxySends \/ Lose
  BY <1>2, BootKeeps, CrashKeeps, ProxyHandlesKeeps, ProxySendsKeeps, LoseKeeps
<1> QED
  BY <1>1, <1>2, Stutters DEF Next

\* The inductive invariant: what the node believes of its tunnels, its link and
\* its peer agrees with the messages under way and with what the proxies know.
THEOREM NodeInvariant == Spec => []NodeInv
<1>1. Init => NodeInv
  BY InitSound
<1>2. NodeInv /\ [Next]_vars => NodeInv'
  BY NextKeeps
<1> QED
  BY <1>1, <1>2, PTL DEF Spec

\* The node, the state file and the counters of the bounds have their types; no
\* count of users of a tunnel (an uint8_t) leaves its range.
THEOREM NodeTypeCorrect == Spec => []TypeOK
<1>1. NodeInv => TypeOK
  BY DEF NodeInv
<1> QED
  BY <1>1, NodeInvariant, PTL

\* A node that runs connected to its proxy has the link and both tunnels to it,
\* and a port holds the token tunnel exactly while it is connected or getting
\* connected (cc_node_connect_to_proxy, cc_node_enter_sleep, cc_port_connect).
THEOREM NodeConnected == Spec => []StartedIsConnected
<1>1. NodeInv => StartedIsConnected
  <2> SUFFICES ASSUME NodeInv PROVE StartedIsConnected
    OBVIOUS
  <2>1. ASSUME node.pc = "main", node.state = "STARTED", node.transport = "ENABLED"
        PROVE  \/ "forced" \in past
               \/ /\ node.link = node.peer
                  /\ node.tunnel["storage"].state = "ENABLED" /\ node.tunnel["proxy"].state = "ENABLED"
    <3>1. node.pc \in Running \ {"save"}
      BY <2>1 DEF Running, Waits
    <3>2. Ready(node)
      BY <2>1, <3>1, EngagedReady DEF NodeInv, Engaged
    <3> QED
      BY <3>2 DEF Ready, Prepared, Forced, Attached
  <2>2. node.pc \in Running \ {"save"}
          => (node.tunnel["token"].state # "FREE" <=> node.port \in {"PENDING", "ENABLED"})
    BY DEF NodeInv, PortSound
  <2> QED
    BY <2>1, <2>2 DEF StartedIsConnected
<1> QED
  BY <1>1, NodeInvariant, PTL

\* A node that runs has been configured at its proxy, unless a connection broke
\* before the proxy had handled the CONFIG or a node that was not started asked
\* to sleep: WAKEUP goes only to a runtime that handled a CONFIG.
THEOREM NodeConfigured == Spec => []StartedIsConfigured
<1>1. NodeInv => StartedIsConfigured
  <2> SUFFICES ASSUME NodeInv, node.pc = "main", node.state = "STARTED", node.transport = "ENABLED"
               PROVE  node.peer \in configured \/ past \cap {"interrupted", "forced"} # {}
    BY DEF StartedIsConfigured
  <2>1. node.pc \in Running \ {"save"}
    BY DEF Running, Waits
  <2>2. Ready(node)
    BY <2>1, EngagedReady DEF NodeInv, Engaged
  <2> QED
    BY <2>2 DEF Ready, Excused
<1> QED
  BY <1>1, NodeInvariant, PTL

\* The messages of a step are added to those under way.
LEMMA StepRange ==
  ASSUME NodeInv, NEW g \in H, Becomes(g)
  PROVE  /\ conn = "up" => \A x : x \in Range(toProxy') <=> x \in Range(toProxy) \/ In(x, g.sent)
         /\ conn # "up" => toProxy' = toProxy
<1>1. toProxy \in Seq(Request) /\ g.sent \in Seq(Request)
  BY StepFields DEF NodeInv
<1>2. toProxy' = IF conn = "up" THEN toProxy \o g.sent ELSE toProxy
  BY DEF Becomes
<1>3. CASE conn = "up"
  <2>1. toProxy' = toProxy \o g.sent
    BY <1>2, <1>3
  <2>2. \A x : x \in Range(toProxy \o g.sent) <=> x \in Range(toProxy) \/ In(x, g.sent)
    BY <1>1, InConcat
  <2> QED
    BY <1>3, <2>1, <2>2
<1> QED
  BY <1>2, <1>3

\* A node that stops gives its tunnels back to its proxy, all but those of its
\* own that came out of the state file (cc_node_stop, cc_tunnel_remove_ref).
THEOREM NodeReleases == Spec => StopReleases
<1>1. ASSUME NodeInv, Next, node.pc = "stop", node'.pc = "save", conn = "up"
      PROVE  \A t \in Type : node.tunnel[t].state # "FREE" /\ (node.tunnel[t].restored => t = "token")
                               => [type |-> "destroy", of |-> t] \in Range(toProxy')
  <2>1. CASE Stop
    <3>1. PICK g : g = cc_node_stop(Here)
      OBVIOUS
    <3>2. Becomes(g) /\ CanSend
      BY <1>1, <2>1, <3>1 DEF Stop, CanSend
    <3>3. /\ g \in H
          /\ CanSend => \A t \in Type :
               node.tunnel[t].state # "FREE" /\ (node.tunnel[t].restored => t = "token") => In(Destroy(t), g.sent)
      BY <1>1, <3>1, StopFacts
    <3>4. \A x : In(x, g.sent) => x \in Range(toProxy')
      BY <1>1, <3>2, <3>3, StepRange
    <3> QED
      BY <3>2, <3>3, <3>4 DEF Destroy
  <2>2. ~(DialFails \/ Dial \/ Receive \/ EvtWaitFails \/ EvtWaitTimesOut \/ TrySleep \/ SaveAndExit \/ Boot)
    BY <1>1 DEF DialFails, Dial, Receive, EvtWaitFails, EvtWaitTimesOut, TrySleep, SaveAndExit, Boot, Waits
  <2>3. ~(Crash \/ ProxyHandles \/ ProxySends \/ Lose)
    <3>1. Crash => node'.pc = "off"
      BY NewNodeFacts DEF Crash, NodeType
    <3>2. ProxyHandles \/ ProxySends \/ Lose => node' = node
      BY DEF ProxyHandles, ProxySends, Lose
    <3> QED
      BY <1>1, <3>1, <3>2
  <2> QED
    BY <1>1, <2>1, <2>2, <2>3 DEF Next, NodeStep
<1>2. NodeInv /\ [Next]_vars
        => [node.pc = "stop" /\ node'.pc = "save" /\ conn = "up"
              => \A t \in Type : node.tunnel[t].state # "FREE" /\ (node.tunnel[t].restored => t = "token")
                                   => [type |-> "destroy", of |-> t] \in Range(toProxy')]_vars
  BY <1>1
<1> QED
  BY <1>2, NodeInvariant, PTL DEF Spec, StopReleases

\* A node that goes to sleep does not destroy, at its proxy, the tunnels it has
\* saved (cc_node_enter_sleep, cc_tunnel_remove_ref).
THEOREM NodeKeepsTunnels == Spec => SleepKeepsTunnels
<1>1. ASSUME NodeInv, Next, node.pc \in {"main", "wait_sleep"}, node'.pc = "off"
      PROVE  \A t \in Type : [type |-> "destroy", of |-> t] \in Range(toProxy')
                               => [type |-> "destroy", of |-> t] \in Range(toProxy)
  <2>1. ASSUME NEW g \in H, Becomes(g), ~Has(g.sent, {"destroy"}), NEW t \in Type, Destroy(t) \in Range(toProxy')
        PROVE  Destroy(t) \in Range(toProxy)
    <3>1. ~In(Destroy(t), g.sent)
      BY <2>1 DEF In, Has, Destroy
    <3> QED
      BY <1>1, <2>1, <3>1, StepRange
  <2>2. CASE Receive
    <3>1. PICK g : g = After(cc_node_handle_message(Here, Head(toNode)))
      OBVIOUS
    <3>2. node.pc \in Waits /\ toNode # <<>> /\ Becomes(g) /\ node' = g.n
      BY <2>2, <3>1 DEF Receive, Becomes
    <3>3. PICK tn : tn = Tail(toNode)
      OBVIOUS
    <3>4. Done(g, tn) \/ Down(g)
      BY <1>1, <3>1, <3>2, <3>3, MessageHandled
    <3>5. Down(g)
      BY <1>1, <3>2, <3>4 DEF Done, Running, Waits
    <3> QED
      BY <2>1, <3>2, <3>5 DEF Down, Destroy
  <2>3. CASE TrySleep
    <3>1. PICK g : g = cc_node_enter_sleep(Here)
      OBVIOUS
    <3>2. node.pc = "main" /\ Becomes(g) /\ node' = g.n
      BY <2>3, <3>1 DEF TrySleep, Becomes
    <3>3. Sleeps(Here, g)
      BY <1>1, <3>1, <3>2, EnterSleepFacts
    <3>4. PICK h : h = Here
      OBVIOUS
    <3>5. h.sent = <<>> /\ Sleeps(h, g)
      BY <1>1, <3>3, <3>4, HereType
    <3>6. g \in H /\ ~Has(g.sent, {"destroy"})
      BY <3>5 DEF Sleeps, Has
    <3> QED
      BY <2>1, <3>2, <3>6 DEF Destroy
  <2>4. CASE Crash
    BY <2>4 DEF Crash
  <2>5. ~(EvtWaitFails \/ EvtWaitTimesOut)
    BY <1>1, EvtWaitFailsKeeps, EvtWaitTimesOutKeeps
  <2>6. ~(DialFails \/ Dial \/ Stop \/ SaveAndExit \/ Boot)
    BY <1>1 DEF DialFails, Dial, Stop, SaveAndExit, Boot
  <2>7. ~(ProxyHandles \/ ProxySends \/ Lose)
    BY <1>1 DEF ProxyHandles, ProxySends, Lose
  <2> QED
    BY <1>1, <2>2, <2>3, <2>4, <2>5, <2>6, <2>7 DEF Next, NodeStep
<1>2. NodeInv /\ [Next]_vars
        => [node.pc \in {"main", "wait_sleep"} /\ node'.pc = "off"
              => \A t \in Type : [type |-> "destroy", of |-> t] \in Range(toProxy')
                                   => [type |-> "destroy", of |-> t] \in Range(toProxy)]_vars
  BY <1>1
<1> QED
  BY <1>2, NodeInvariant, PTL DEF Spec, SleepKeepsTunnels
=============================================================================
