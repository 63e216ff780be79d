----------------------------- MODULE ObjectPool -----------------------------
(***************************************************************************)
(* What amqp_allocate and amqp_deallocate (Memory/Pool.h) promise: an      *)
(* object handed out is not handed out again before it was given back, and *)
(* stats.outstanding_allocations counts the objects handed out.            *)
(***************************************************************************)
EXTENDS Naturals

CONSTANT Objects

VARIABLES held, outstanding

Init == held = {} /\ outstanding = 0

Allocate == \E o \in Objects \ held :
                held' = held \cup {o} /\ outstanding' = outstanding + 1

Deallocate == \E o \in held :
                  held' = held \ {o} /\ outstanding' = outstanding - 1

Next == Allocate \/ Deallocate
Spec == Init /\ [][Next]_<<held, outstanding>>
=============================================================================
