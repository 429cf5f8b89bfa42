---------------------------- MODULE TokenTransfer ----------------------------
(***************************************************************************)
(* Tokens from an out-port ("snd") to an in-port ("rcv") on another runtime *)
(* over a token tunnel, both runtimes executing this code.                  *)
(*                                                                          *)
(* Each scheduler round the sender peeks one token, sends it with its       *)
(* position as sequence number and goes on without waiting; the receiver    *)
(* answers every token with ACK or NACK; the sender frees a token on ACK    *)
(* and moves its tentative read position back on NACK.  The ports may be    *)
(* disconnected and connected again by either side, and either runtime may  *)
(* lose its transport and come back through the same or another proxy.      *)
(*                                                                          *)
(* A runtime has one TCP connection to its proxy, so the messages between   *)
(* two ports stay in order (the proxy, external, forwards them in order)    *)
(* and are lost only with the connection.  Looking up the peer and setting  *)
(* up the tunnel happen within the step Connect.  Each actor has this one   *)
(* port, so it is enabled exactly when the port is.                         *)
(***************************************************************************)
EXTENDS Fifo, Sequences

CONSTANTS
  SndSize, RcvSize,  \* sizes of the two queues (4 unless the script says otherwise)
  MaxTokens,         \* bound: tokens the sending actor produces
  MaxInFlight,       \* bound: messages under way when a token is sent
  MaxFaults,         \* bound: transport losses and disconnects
  MaxRetries         \* connect attempts without success (5 in cc_port_connect)

ASSUME SizeAssumption == SndSize \in Nat \ {0} /\ RcvSize \in Nat \ {0}
ASSUME BoundAssumption == MaxTokens \in Nat /\ MaxInFlight \in Nat /\ MaxFaults \in Nat /\ MaxRetries \in Nat
\* The runs and the proofs stay below the wrap of the positions.
ASSUME NoWrapAssumption == MaxTokens < UIntMod
\* Produced tokens are numbers; the two special values are not.
ASSUME ValueAssumption == NoToken \notin Nat /\ NilData \notin Nat /\ NoToken # NilData

VARIABLES
  fifo,       \* the queue of each port
  port,       \* state, tunnel (port->tunnel != NULL) and retries of each port
  chan,       \* chan[e]: messages sent by end e and not yet handled by its peer
  written,    \* number of tokens the sending actor has produced: 0, 1, 2 ...
  delivered,  \* the tokens the receiving actor has consumed, in order
  faults      \* faults so far

vars == <<fifo, port, chan, written, delivered, faults>>

End == {"snd", "rcv"}
Peer(e) == IF e = "snd" THEN "rcv" ELSE "snd"
Size == [e \in End |-> IF e = "snd" THEN SndSize ELSE RcvSize]

Data == Nat \cup {NilData}
PortState == {"DISCONNECTED", "PENDING_CONNECT", "ENABLED"}
Port == [state : PortState, tunnel : BOOLEAN, retries : 0 .. MaxRetries]

Message ==
  [type : {"TOKEN"}, seq : Position, data : Data]
    \cup [type : {"TOKEN_REPLY"}, seq : Position, ack : BOOLEAN]
    \cup [type : {"PORT_CONNECT", "PORT_CONNECT_REPLY", "PORT_DISCONNECT"}]

TypeOK ==
  /\ fifo \in [End -> FifoType(SndSize, Data) \cup FifoType(RcvSize, Data)]
  /\ \A e \in End : fifo[e] \in FifoType(Size[e], Data)
  /\ port \in [End -> Port]
  /\ chan \in [End -> Seq(Message)]
  /\ written \in Nat
  /\ delivered \in Seq(Data)
  /\ faults \in Nat

Init ==
  /\ fifo = [e \in End |-> cc_fifo_init(Size[e])]
  /\ port = [e \in End |-> [state |-> "ENABLED", tunnel |-> TRUE, retries |-> 0]]
  /\ chan = [e \in End |-> <<>>]
  /\ written = 0
  /\ delivered = <<>>
  /\ faults = 0

\* The next message for end e; the channels when e has handled it, and when e
\* has also answered it with message m.
Incoming(e, type) == chan[Peer(e)] # <<>> /\ Head(chan[Peer(e)]).type = type
Handled(e) == [chan EXCEPT ![Peer(e)] = Tail(@)]
Answered(e, m) == [chan EXCEPT ![Peer(e)] = Tail(@), ![e] = Append(@, m)]

(***************************************************************************)
(* Ports.                                                                   *)
(***************************************************************************)
cc_port_set_state(p, state) ==
  [p EXCEPT !.state = state, !.retries = IF state = "ENABLED" THEN 0 ELSE @]

Unconnected(p) == [cc_port_set_state(p, "DISCONNECTED") EXCEPT !.tunnel = FALSE]

ActorEnabled(e) == port[e].state = "ENABLED"

(***************************************************************************)
(* The sending actor fires: it produces a token when its port has a slot.   *)
(***************************************************************************)
SndFire ==
  /\ ActorEnabled("snd")
  /\ written < MaxTokens
  /\ cc_fifo_slots_available(fifo["snd"], 1)
  /\ fifo' = [fifo EXCEPT !["snd"] = cc_fifo_write(@, written)]
  /\ written' = written + 1
  /\ UNCHANGED <<port, chan, delivered, faults>>

(***************************************************************************)
(* The scheduler sends a token of the out-port.  A token that cannot be     *)
(* sent, or that has no tunnel to be sent on, is put back.                  *)
(***************************************************************************)
cc_port_transmit ==
  LET f == fifo["snd"]
      seq == PeekedSequenceNbr(f)
      token == [type |-> "TOKEN", seq |-> seq, data |-> cc_token_encode(PeekedToken(f))]
  IN /\ port["snd"].state = "ENABLED" /\ ActorEnabled("snd")
     /\ cc_fifo_tokens_available(f, 1)
     /\ Len(chan["snd"]) + Len(chan["rcv"]) < MaxInFlight
     /\ \E sent \in BOOLEAN :
          IF sent /\ port["snd"].tunnel
          THEN /\ fifo' = [fifo EXCEPT !["snd"] = cc_fifo_com_peek(f)]
               /\ chan' = [chan EXCEPT !["snd"] = Append(@, token)]
          ELSE /\ fifo' = [fifo EXCEPT !["snd"] =
                                 cc_fifo_com_cancel_read(cc_fifo_com_peek(f), seq)]
               /\ UNCHANGED chan
     /\ UNCHANGED <<port, written, delivered, faults>>

(***************************************************************************)
(* A token arrives: it is acknowledged when the receiving actor is enabled  *)
(* and its queue has a slot, whether the token is stored or dropped as old. *)
(***************************************************************************)
\* Mutant: a token for which there is no room is acknowledged.
cc_node_handle_token_ack_full(f, data, seq) ==
  [ack |-> ActorEnabled("rcv"), fifo |-> IF ActorEnabled("rcv") THEN cc_fifo_com_write(f, data, seq) ELSE f]

cc_node_handle_token(f, data, seq) ==
  IF ActorEnabled("rcv") /\ cc_fifo_slots_available(f, 1)
  THEN [ack |-> TRUE, fifo |-> cc_fifo_com_write(f, data, seq)]
  ELSE [ack |-> FALSE, fifo |-> f]

proto_parse_token ==
  /\ Incoming("rcv", "TOKEN")
  /\ LET m == Head(chan["snd"])
         r == cc_node_handle_token(fifo["rcv"], m.data, m.seq)
     IN /\ fifo' = [fifo EXCEPT !["rcv"] = r.fifo]
        /\ chan' = Answered("rcv", [type |-> "TOKEN_REPLY", seq |-> m.seq, ack |-> r.ack])
  /\ UNCHANGED <<port, written, delivered, faults>>

(***************************************************************************)
(* The answer arrives, whatever state the port is in by then.               *)
(***************************************************************************)
cc_node_handle_token_reply(f, ack, seq) ==
  IF ack THEN cc_fifo_com_commit_read(f, seq) ELSE cc_fifo_com_cancel_read(f, seq)

proto_parse_token_reply ==
  /\ Incoming("snd", "TOKEN_REPLY")
  /\ LET m == Head(chan["rcv"])
     IN fifo' = [fifo EXCEPT !["snd"] = cc_node_handle_token_reply(@, m.ack, m.seq)]
  /\ chan' = Handled("snd")
  /\ UNCHANGED <<port, written, delivered, faults>>

(***************************************************************************)
(* The receiving actor fires: it consumes one token.                        *)
(***************************************************************************)
RcvFire ==
  /\ ActorEnabled("rcv")
  /\ cc_fifo_tokens_available(fifo["rcv"], 1)
  /\ delivered' = Append(delivered, PeekedToken(fifo["rcv"]))
  /\ fifo' = [fifo EXCEPT !["rcv"] = cc_fifo_commit_read(cc_fifo_peek(@))]
  /\ UNCHANGED <<port, chan, written, faults>>

(***************************************************************************)
(* Connecting and disconnecting the ports, by either end.                   *)
(***************************************************************************)
\* Mutant: no limit on the attempts.
cc_port_connect_unlimited(e) ==
  /\ port[e].state # "ENABLED"
  /\ port' = [port EXCEPT ![e] = [state |-> "PENDING_CONNECT", tunnel |-> TRUE,
                                  retries |-> @.retries + 1]]
  /\ chan' = [chan EXCEPT ![e] = Append(@, [type |-> "PORT_CONNECT"])]
  /\ UNCHANGED <<fifo, written, delivered, faults>>

\* The runtime of end e connects its port (again): peer found, tunnel
\* enabled, PORT_CONNECT sent.  The code deletes a port whose attempts are used up;
\* here it stays as it is.  That, requests that are refused and tunnels that are
\* not known belong to module Ports: no token moves on them.
cc_port_connect(e) ==
  /\ port[e].state # "ENABLED"
  /\ port[e].retries < MaxRetries
  /\ port' = [port EXCEPT ![e] = [state |-> "PENDING_CONNECT", tunnel |-> TRUE,
                                  retries |-> @.retries + 1]]
  /\ chan' = [chan EXCEPT ![e] = Append(@, [type |-> "PORT_CONNECT"])]
  /\ UNCHANGED <<fifo, written, delivered, faults>>

cc_port_handle_connect(e) ==
  /\ Incoming(e, "PORT_CONNECT")
  /\ port' = [port EXCEPT ![e] = [cc_port_set_state(@, "ENABLED") EXCEPT !.tunnel = TRUE]]
  /\ chan' = Answered(e, [type |-> "PORT_CONNECT_REPLY"])
  /\ UNCHANGED <<fifo, written, delivered, faults>>

\* The reply enables the port in whatever state it finds it (a refusal, in Ports,
\* disconnects it).
cc_port_connect_reply_handler(e) ==
  /\ Incoming(e, "PORT_CONNECT_REPLY")
  /\ port' = [port EXCEPT ![e] = cc_port_set_state(@, "ENABLED")]
  /\ chan' = Handled(e)
  /\ UNCHANGED <<fifo, written, delivered, faults>>

\* The runtime of end e disconnects its port (an actor that is to migrate
\* and then stays, because the migration is refused).
cc_port_disconnect(e) ==
  /\ faults < MaxFaults
  /\ faults' = faults + 1
  /\ fifo' = [fifo EXCEPT ![e] = cc_fifo_cancel(@)]
  /\ port' = [port EXCEPT ![e] = Unconnected(@)]
  /\ chan' = IF port[e].tunnel
             THEN [chan EXCEPT ![e] = Append(@, [type |-> "PORT_DISCONNECT"])]
             ELSE chan
  /\ UNCHANGED <<written, delivered>>

cc_port_handle_disconnect(e) ==
  /\ Incoming(e, "PORT_DISCONNECT")
  /\ fifo' = [fifo EXCEPT ![e] = cc_fifo_cancel(@)]
  /\ port' = [port EXCEPT ![e] = Unconnected(@)]
  /\ chan' = Handled(e)
  /\ UNCHANGED <<written, delivered, faults>>

(***************************************************************************)
(* The runtime of end e loses its transport and connects again.  What it    *)
(* was sent is lost; of what it sent, some first messages had reached the   *)
(* proxy.  Behind the same proxy its ports stay as they are; behind a new   *)
(* one the tunnels are gone and every actor is disconnected, without a      *)
(* PORT_DISCONNECT to the peer.                                             *)
(***************************************************************************)
cc_node_connect_to_proxy(e, newProxy) ==
  /\ faults < MaxFaults
  /\ faults' = faults + 1
  /\ \E n \in 0 .. Len(chan[e]) :
       chan' = [chan EXCEPT ![e] = SubSeq(@, 1, n), ![Peer(e)] = <<>>]
  /\ IF newProxy
     THEN /\ fifo' = [fifo EXCEPT ![e] = cc_fifo_cancel(@)]
          /\ port' = [port EXCEPT ![e] = Unconnected(@)]
     ELSE UNCHANGED <<fifo, port>>
  /\ UNCHANGED <<written, delivered>>

Control(e) ==
  \/ cc_port_connect(e)
  \/ cc_port_handle_connect(e)
  \/ cc_port_connect_reply_handler(e)
  \/ cc_port_disconnect(e)
  \/ cc_port_handle_disconnect(e)
  \/ \E newProxy \in BOOLEAN : cc_node_connect_to_proxy(e, newProxy)

Next ==
  \/ SndFire
  \/ cc_port_transmit
  \/ proto_parse_token
  \/ proto_parse_token_reply
  \/ RcvFire
  \/ \E e \in End : Control(e)

Spec == Init /\ [][Next]_vars

\* The event loop goes on: it handles the messages that arrive, fires the
\* enabled actors and sends their tokens, and sending succeeds in the end.
FairSpec ==
  /\ Spec
  /\ WF_vars(cc_port_transmit)
  /\ WF_vars(proto_parse_token)
  /\ WF_vars(proto_parse_token_reply)
  /\ WF_vars(RcvFire)

(***************************************************************************)
(* Properties.                                                              *)
(***************************************************************************)
\* Neither queue ever has more unread tokens than it has room for, and exactly
\* the slots of unread tokens are filled, after writes, commits and cancels in
\* any order of events: a write never hits a token that was not read.
QueueWellFormed == \A e \in End : WellFormed(fifo[e])

\* A step of either runtime may free the oldest token of a queue and add a new
\* one; the tokens in between stay in place and keep their data.
UnreadKeptStep ==
  \A e \in End :
    LET f == fifo[e]
    IN \A p \in fifo'[e].read_pos .. f.write_pos - 1 :
         fifo'[e].tokens[Slot(p, f.size)] = f.tokens[Slot(p, f.size)]
UnreadKept == [][UnreadKeptStep]_vars

\* What the receiving actor consumes is what the sending actor produced, each
\* token once and in order, whatever is disconnected, lost or sent again.
InOrderDelivery == \A i \in 1 .. Len(delivered) : delivered[i] = i - 1

\* The sender never frees more tokens than the receiver has stored.  Positions
\* are compared, not tokens: with several under way one that was overtaken is
\* sent again, dropped as old, acknowledged and freed (see StoredInSequence).
FreedOnlyWhenStored == fifo["snd"].read_pos <= fifo["rcv"].write_pos

\* Every token the sender has freed has itself been consumed or waits in its
\* place in the receiving queue, though tokens are refused, lost and sent again
\* and late answers arrive.  With one token under way.
FreedIsStored ==
  LET f == fifo["rcv"]
  IN \A p \in 0 .. fifo["snd"].read_pos - 1 :
       IF p < Len(delivered) THEN delivered[p + 1] = p
       ELSE p < f.write_pos /\ f.tokens[Slot(p, f.size)] = p

\* No slot that was freed already is read again, sent and consumed as a token.
NoNilDelivered == \A i \in 1 .. Len(delivered) : delivered[i] # NilData

\* A token stored at a position of the receiving queue was sent with that
\* sequence number: the comment in cc_fifo_com_write asks for it.
StoredInSequence ==
  LET f == fifo["rcv"]
  IN \A p \in f.read_pos .. f.write_pos - 1 : f.tokens[Slot(p, f.size)] = p

\* Without faults every token that is produced is consumed in the end: one that
\* cc_node_handle_token refuses is sent again until there is room for it.
AllDelivered ==
  [](faults = 0) => \A n \in 1 .. MaxTokens : written >= n ~> Len(delivered) >= n

\* With one token under way at a time the connection is the bounded queue it
\* promises to be.
Queue == INSTANCE TokenQueue WITH Capacity <- RcvSize, put <- written, got <- delivered
ImplementsQueue == Queue!Spec

(***************************************************************************)
(* The inductive invariants behind these properties.                        *)
(***************************************************************************)
Messages(s) == {s[i] : i \in 1 .. Len(s)}

\* For every size: no sequence number runs ahead of the sending queue, and the
\* receiving queue never gets ahead of it either.
SequenceBounds ==
  /\ written = fifo["snd"].write_pos
  /\ written <= MaxTokens
  /\ fifo["rcv"].write_pos <= written
  /\ fifo["rcv"].tentative_read_pos = fifo["rcv"].read_pos
  /\ \A m \in Messages(chan["snd"]) : m.type = "TOKEN" => m.seq < written
  /\ \A m \in Messages(chan["rcv"]) : m.type = "TOKEN_REPLY" => m.seq < written

SafetyInv == TypeOK /\ QueueWellFormed /\ SequenceBounds

\* For a sending queue of two slots: the only token that can be new to the
\* receiver is the one the sender has not freed yet, and it has its own data;
\* a token is acknowledged only when it is stored.
OneTokenInv ==
  /\ fifo["snd"].read_pos <= fifo["rcv"].write_pos
  /\ \A e \in End : \A p \in fifo[e].read_pos .. fifo[e].write_pos - 1 :
       fifo[e].tokens[Slot(p, fifo[e].size)] = p
  /\ \A m \in Messages(chan["snd"]) : m.type = "TOKEN" =>
       /\ m.seq <= fifo["snd"].read_pos
       /\ m.seq = fifo["snd"].read_pos => m.data = m.seq
  /\ \A m \in Messages(chan["rcv"]) : m.type = "TOKEN_REPLY" /\ m.ack =>
       m.seq < fifo["rcv"].write_pos
  /\ Len(delivered) = fifo["rcv"].read_pos
  /\ InOrderDelivery

\* Where the sender's read position may be after it has handled answer m.
ReadAfter(m, pos) == IF m.type = "TOKEN_REPLY" /\ m.ack /\ m.seq = pos THEN pos + 1 ELSE pos

\* The answers s, handled one after the other from read position r on, take it
\* no further than w: reach[i] bounds it before the i-th answer.
Covered(s, r, w) ==
  \E reach \in [1 .. Len(s) + 1 -> 0 .. w] :
    /\ reach[1] >= r
    /\ \A i \in 1 .. Len(s) : reach[i + 1] >= ReadAfter(s[i], reach[i])

\* For every size: the acknowledgements under way free no token for which none
\* was stored, although one of them may be for a token that was stored in the
\* place of an earlier one; and a token that is sent from a slot that was freed
\* is older than the receiving queue, which drops it.
WindowInv ==
  /\ Covered(chan["rcv"], fifo["snd"].read_pos, fifo["rcv"].write_pos)
  /\ \A m \in Messages(chan["snd"]) : m.type = "TOKEN" /\ m.data = NilData =>
       m.seq < fifo["rcv"].write_pos
  /\ \A e \in End : \A p \in fifo[e].read_pos .. fifo[e].write_pos - 1 :
       fifo[e].tokens[Slot(p, fifo[e].size)] # NilData
  /\ NoNilDelivered
=============================================================================
