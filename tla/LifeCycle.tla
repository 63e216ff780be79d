------------------------------ MODULE LifeCycle ------------------------------
(***************************************************************************)
(* What a connection promises its application: it is established once, it  *)
(* may end at any time, and from its end there is no way back.  Connection *)
(* implements this, whatever the machines beneath it do and however late   *)
(* they do it.                                                             *)
(***************************************************************************)
VARIABLE phase     \* where the connection is in its life

\* A client's connection waits for amqp_connection_connect_to; a server's is
\* accepted and waits for its peer.
Init == phase \in {"idle", "establishing"}

Connect == phase = "idle" /\ phase' = "establishing"
Establish == phase = "establishing" /\ phase' = "established"
End == phase' = "ending"

Next == Connect \/ Establish \/ End
Spec == Init /\ [][Next]_phase
=============================================================================
