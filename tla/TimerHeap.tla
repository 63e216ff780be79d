----------------------------- MODULE TimerHeap ------------------------------
(***************************************************************************)
(* The heap of timers of libev (3rd-party/libev-4_4/ev.c).  A heap is a    *)
(* sequence of entries [w, at]; position k stands for the array element    *)
(* k + HEAP0 - 1 of the code.  `active' is the index every timer keeps of  *)
(* its own entry (ev_active).                                              *)
(***************************************************************************)
EXTENDS Integers, Sequences

CONSTANT DHEAP    \* the branching factor: 4, or 2 when EV_USE_4HEAP is off

HPARENT(k) == (k - 2) \div DHEAP + 1

Children(heap, k) == {c \in DHEAP * (k - 1) + 2 .. DHEAP * k + 1 : c <= Len(heap)}

\* the first of the children that are due first
MinChild(heap, k) ==
    CHOOSE c \in Children(heap, k) : \A d \in Children(heap, k) :
        heap[c].at < heap[d].at \/ (heap[c].at = heap[d].at /\ c <= d)

\* the entry at the first position of path goes to its last one, the others
\* move one position towards the first; every entry moved learns its index
Shifted(timers, path) ==
    LET heap == timers.heap
        at(k) == CHOOSE n \in DOMAIN path : path[n] = k
        moved == [k \in DOMAIN heap |->
                    IF \A n \in DOMAIN path : path[n] # k THEN heap[k]
                    ELSE IF at(k) = Len(path) THEN heap[path[1]] ELSE heap[path[at(k) + 1]]]
    IN  [heap |-> moved,
         active |-> [w \in DOMAIN timers.active |->
            IF \E n \in DOMAIN path : moved[path[n]].w = w
            THEN CHOOSE k \in DOMAIN heap : moved[k].w = w ELSE timers.active[w]]]

\* towards the root
upheap(timers, k) ==
    LET heap == timers.heap
        Path[j \in 1 .. k] ==
            IF j = 1 THEN <<j>>
            ELSE IF heap[HPARENT(j)].at <= heap[k].at THEN <<j>>
            ELSE <<j>> \o Path[HPARENT(j)]
    IN  Shifted(timers, Path[k])

\* away from the root
downheap(timers, k) ==
    LET heap == timers.heap
        Path[j \in DOMAIN heap] ==
            IF Children(heap, j) = {} THEN <<j>>
            ELSE IF heap[k].at <= heap[MinChild(heap, j)].at THEN <<j>>
            ELSE <<j>> \o Path[MinChild(heap, j)]
    IN  Shifted(timers, Path[k])

\* after a change of the entry at k
adjustheap(timers, k) ==
    IF k > 1 /\ timers.heap[k].at <= timers.heap[HPARENT(k)].at
    THEN upheap(timers, k) ELSE downheap(timers, k)

\* ev_timer_start, for a timer that is due at `at'
Started(timers, w, at) ==
    LET k == Len(timers.heap) + 1
    IN  upheap([heap |-> Append(timers.heap, [w |-> w, at |-> at]),
                active |-> [timers.active EXCEPT ![w] = k]], k)

\* ev_timer_stop: the last entry takes the place of the one removed
Stopped(timers, w) ==
    LET k == timers.active[w]
        n == Len(timers.heap)
        rest == [heap |-> SubSeq(timers.heap, 1, n - 1), active |-> [timers.active EXCEPT ![w] = 0]]
    IN  IF k = n THEN rest
        ELSE adjustheap([rest EXCEPT !.heap[k] = timers.heap[n]], k)

\* an active timer of ev_timer_again
Rearmed(timers, w, at) == adjustheap([timers EXCEPT !.heap[timers.active[w]].at = at], timers.active[w])

-----------------------------------------------------------------------------
(* What ev_verify asserts of a heap (verify_heap) *)

HeapSound(timers) ==
    /\ \A k \in DOMAIN timers.heap :
         /\ timers.active[timers.heap[k].w] = k
         /\ k > 1 => timers.heap[HPARENT(k)].at <= timers.heap[k].at
    /\ \A w \in DOMAIN timers.active :
         timers.active[w] > 0 => /\ timers.active[w] \in DOMAIN timers.heap
                                 /\ timers.heap[timers.active[w]].w = w
=============================================================================
