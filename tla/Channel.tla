------------------------------ MODULE Channel ------------------------------
(***************************************************************************)
(* What the runtime relies on when cc_node_handle_message is called: on one *)
(* connection it gets the messages the proxy sent, whole, each once and in  *)
(* order.  A new connection forgets what the old one still carried.         *)
(***************************************************************************)
EXTENDS Integers, Sequences

CONSTANT Message

VARIABLES sent, handled  \* on the current connection

vars == <<sent, handled>>

Init == sent = <<>> /\ handled = <<>>

Send(m) == sent' = Append(sent, m) /\ UNCHANGED handled

Handle ==
  /\ Len(handled) < Len(sent)
  /\ handled' = Append(handled, sent[Len(handled) + 1])
  /\ UNCHANGED sent

Open == sent' = <<>> /\ handled' = <<>>

Next == (\E m \in Message : Send(m)) \/ Handle \/ Open

Spec == Init /\ [][Next]_vars
=============================================================================
