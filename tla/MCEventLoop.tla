---------------------------- MODULE MCEventLoop -----------------------------
(* Small programs that use the event loop. *)
EXTENDS EventLoop

CONSTANTS reader, writer, socket, t1, t2, s1, s2

\* a connection's two watchers of a socket, two timers, an event thread that
\* two others interrupt, and one that also has a timer
MCPrograms ==
    {[ios |-> {reader, writer}, timers |-> {}, delays |-> {},
      asyncs |-> {}, senders |-> {}, flags |-> {FALSE}],
     [ios |-> {}, timers |-> {t1, t2}, delays |-> {0, 2},
      asyncs |-> {}, senders |-> {}, flags |-> {FALSE}],
     [ios |-> {}, timers |-> {}, delays |-> {},
      asyncs |-> {async}, senders |-> {s1, s2}, flags |-> {FALSE}],
     [ios |-> {}, timers |-> {t1}, delays |-> {1},
      asyncs |-> {async}, senders |-> {s1}, flags |-> BOOLEAN]}

MCFdOf == [w \in {reader, writer} |-> socket]
MCEventsOf == (reader :> {READ}) @@ (writer :> {WRITE})
MCPriority == [w \in Watchers |-> IF w = pipe_w THEN 2 ELSE 0]

-----------------------------------------------------------------------------
(* The operations of the heap, for both of the branching factors, on every  *)
(* heap of up to seven timers that are due at one of three times: deep      *)
(* enough that an entry moved to another branch has to climb.  Timers are   *)
(* named after their position, which loses nothing.                         *)

Tree(d) == INSTANCE TimerHeap WITH DHEAP <- d

Heap(at) ==
    LET n == Len(at)
    IN  [heap |-> [k \in 1 .. n |-> [w |-> k, at |-> at[k]]],
         active |-> [k \in 1 .. n + 1 |-> IF k <= n THEN k ELSE 0]]

Heaps(d) == {h \in {Heap(at) : at \in UNION {[1 .. n -> 1 .. 3] : n \in 1 .. 7}} : Tree(d)!HeapSound(h)}

Holds(d, h, entries) == Tree(d)!HeapSound(h) /\ {h.heap[k] : k \in DOMAIN h.heap} = entries

ASSUME HeapOperations ==
    \A d \in {2, 4} : \A h \in Heaps(d) : \A k \in DOMAIN h.heap, a \in 1 .. 3 :
        LET entries == {h.heap[j] : j \in DOMAIN h.heap}
            others == entries \ {h.heap[k]}
            new == Len(h.heap) + 1
        IN  /\ Holds(d, Tree(d)!Stopped(h, k), others)
            /\ Holds(d, Tree(d)!Rearmed(h, k, a), others \cup {[w |-> k, at |-> a]})
            /\ Holds(d, Tree(d)!Started(h, new, a), entries \cup {[w |-> new, at |-> a]})
=============================================================================
