------------------------- MODULE CountingSemaphore -------------------------
(***************************************************************************)
(* What Thread/Semaphore.c promises: a wait takes one signal, a signal     *)
(* lets one wait through, and no signal is kept from a thread that waits.  *)
(***************************************************************************)
EXTENDS Naturals

CONSTANT Threads

VARIABLES count, waiting

vars == <<count, waiting>>

Init == count = 0 /\ waiting = {}

Request(t) == t \notin waiting /\ waiting' = waiting \cup {t} /\ UNCHANGED count

Acquire(t) == /\ t \in waiting /\ count > 0
              /\ waiting' = waiting \ {t} /\ count' = count - 1

Release == count' = count + 1 /\ UNCHANGED waiting

Next == Release \/ \E t \in Threads : Request(t) \/ Acquire(t)

Spec == Init /\ [][Next]_vars

FairSpec == Spec /\ WF_vars(\E t \in Threads : Acquire(t))
=============================================================================
