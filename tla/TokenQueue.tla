----------------------------- MODULE TokenQueue -----------------------------
(***************************************************************************)
(* What a connection between two ports promises to the actors at its ends:  *)
(* a bounded queue.  The tokens the producer puts in come out once, in the  *)
(* order in which they were put in, and no more than Capacity of them are   *)
(* ever under way.  Token n is the number n: the runtime never looks at the *)
(* data of a token.                                                         *)
(***************************************************************************)
EXTENDS Naturals, Sequences

CONSTANT Capacity   \* tokens the connection can hold

VARIABLES
  put,    \* number of tokens put in
  got     \* the tokens taken out

Init == put = 0 /\ got = <<>>

Put ==
  /\ put - Len(got) < Capacity
  /\ put' = put + 1
  /\ UNCHANGED got

Get ==
  /\ Len(got) < put
  /\ got' = Append(got, Len(got))
  /\ UNCHANGED put

Spec == Init /\ [][Put \/ Get]_<<put, got>>

\* A token that was put in is eventually taken out.
FairSpec == Spec /\ WF_<<put, got>>(Get)
=============================================================================
