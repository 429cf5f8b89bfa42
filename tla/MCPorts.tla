------------------------------ MODULE MCPorts ------------------------------
(* Two shapes of application on the node.                                   *)
EXTENDS Ports

CONSTANTS a, b, a1, a2, b1, r1, r2

\* Actor a has a remote in-port; its out-port is connected to actor b when
\* both are on the node.
PairPorts == a :> <<a1, a2>> @@ b :> <<b1>>
PairPeers == a1 :> None @@ a2 :> b1 @@ b1 :> a2

\* One actor with two remote ports.
TwoPorts == a :> <<a1, a2>>
TwoPeers == a1 :> None @@ a2 :> None

\* One actor with one remote port.
OnePort == a :> <<a1>>
OnePeer == a1 :> None
=============================================================================
