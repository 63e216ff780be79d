-------------------------- MODULE ListenerThread ---------------------------
(***************************************************************************)
(* A broker's listener: the main thread starts an event thread, which      *)
(* listens, accepts connections and runs its event loop, and later asks it *)
(* to stop and waits for its end (EventThread.c, ListenerThread.c,         *)
(* Listener.c, AcceptedConnections.c, DummyBroker.c, Thread.c).            *)
(*                                                                         *)
(* The semaphore is CountingSemaphore, which Semaphore is shown to         *)
(* implement. Of an accepted connection only its life is kept: Connection  *)
(* shows that it halts once.                                               *)
(***************************************************************************)
EXTENDS Integers, FiniteSets

CONSTANTS
    Connections,      \* addresses of connections
    NULL,
    MaxClients        \* bound: clients that connect

ASSUME ConnectionsAssumption == IsFiniteSet(Connections) /\ NULL \notin Connections

VARIABLES
    main,             \* where the main thread is
    thread,           \* where the event thread is
    semaphore,        \* thread_running_semaphore.count
    private,          \* whether the event thread makes its own event loop
    loop,             \* event_thread->loop: "none", "live" or "destroyed"
    async,            \* async_watcher: "stopped", "started", or "sent"
    loop_done,        \* ev_break was called
    listener,         \* accept_watcher: "none", "listening", "failed" or "closed"
    clients,          \* clients the kernel holds in the queue of the socket
    connected,        \* clients that connected so far
    running_connection_count,
    connection,       \* connections->connection
    live,             \* accepted connections that did not halt
    outstanding,      \* the hook reported connections that did not shut down
    fatal             \* why the process died, or "no"

connectionVars == <<running_connection_count, connection, live>>
loopVars == <<private, loop, async, loop_done>>
vars == <<main, thread, semaphore, loopVars, listener, clients, connected,
          connectionVars, outstanding, fatal>>

\* amqp_accept_handler_arguments_initialize, amqp_connections_initialize
Init ==
    /\ main = "outside" /\ thread = "none" /\ semaphore = 0
    /\ private \in BOOLEAN
    /\ loop = IF private THEN "none" ELSE "live"
    /\ async = "stopped" /\ loop_done = FALSE
    /\ listener = "none" /\ clients = 0 /\ connected = 0
    /\ running_connection_count = 0 /\ connection = NULL /\ live = {}
    /\ outstanding = FALSE /\ fatal = "no"

-----------------------------------------------------------------------------
(* The main thread *)

Main(from, to) == fatal = "no" /\ main = from /\ main' = to

\* amqp_event_thread_initialize, amqp_thread_start: the new thread runs, or
\* cannot be created, and the main thread waits
Initialize ==
    /\ Main("outside", "starting")
    /\ thread' \in {"begin", "not_created"}
    /\ UNCHANGED <<semaphore, loopVars, listener, clients, connected, connectionVars,
                   outstanding, fatal>>

\* Mutant of Wait: the signal is not taken.
WaitUncounted(from, to) ==
    /\ Main(from, to)
    /\ semaphore > 0
    /\ UNCHANGED <<thread, semaphore, loopVars, listener, clients, connected, connectionVars,
                   outstanding, fatal>>

\* amqp_semaphore_wait
Wait(from, to) ==
    /\ Main(from, to)
    /\ semaphore > 0
    /\ semaphore' = semaphore - 1
    /\ UNCHANGED <<thread, loopVars, listener, clients, connected, connectionVars,
                   outstanding, fatal>>

WaitRunning == Wait("starting", "running")

\* send_break_request; a watcher that was not started is not looked at
SendBreakRequest ==
    /\ Main("running", "stopping")
    /\ async' = IF async = "started" THEN "sent" ELSE async
    /\ UNCHANGED <<thread, semaphore, private, loop, loop_done, listener, clients, connected,
                   connectionVars, outstanding, fatal>>

WaitFinished == Wait("stopping", "joining")

\* Mutant of Join: the thread is not waited for.
JoinNothing ==
    /\ Main("joining", "done")
    /\ UNCHANGED <<thread, semaphore, loopVars, listener, clients, connected, connectionVars,
                   outstanding, fatal>>

\* amqp_thread_destroy, and all that is freed then: the context, the semaphore
\* and the structure of the event thread, of the listener and of the broker
Join ==
    /\ Main("joining", "done")
    /\ thread = "ended"
    /\ UNCHANGED <<thread, semaphore, loopVars, listener, clients, connected, connectionVars,
                   outstanding, fatal>>

-----------------------------------------------------------------------------
(* The event thread *)

Thread(from, to) == fatal = "no" /\ thread = from /\ thread' = to /\ UNCHANGED main

\* event_thread_handler up to its handler
BeginHandler ==
    /\ Thread("begin", "listen")
    /\ loop' = "live"
    /\ UNCHANGED <<semaphore, private, async, loop_done, listener, clients, connected,
                   connectionVars, outstanding, fatal>>

\* amqp_listener_initialize; its result is not looked at. A port that cannot be
\* bound does not make it fail.
ListenerInitialize ==
    /\ Thread("listen", "start")
    /\ listener' \in {"listening", "failed"}
    /\ UNCHANGED <<semaphore, loopVars, clients, connected, connectionVars, outstanding, fatal>>

\* amqp_event_thread_run_loop: the watcher of break requests
AsyncStart ==
    /\ Thread("start", "signal")
    /\ async' = "started"
    /\ UNCHANGED <<semaphore, private, loop, loop_done, listener, clients, connected,
                   connectionVars, outstanding, fatal>>

\* amqp_event_thread_run_loop: the semaphore, then ev_run
SignalRunning ==
    /\ Thread("signal", "loop")
    /\ semaphore' = semaphore + 1
    /\ UNCHANGED <<loopVars, listener, clients, connected, connectionVars, outstanding, fatal>>

\* the event loop runs callbacks: in amqp_event_thread_run_loop, and in the
\* loop of amqp_connections_shutdown_hook while a connection runs
Looping == /\ fatal = "no"
           /\ thread = "loop" \/ (thread = "drain" /\ running_connection_count > 0)
           /\ UNCHANGED <<main, thread, semaphore>>

\* async_watcher_callback
AsyncBreak ==
    /\ Looping
    /\ thread = "loop"
    /\ async = "sent"
    /\ async' = "started"
    /\ loop_done' = TRUE
    /\ UNCHANGED <<private, loop, listener, clients, connected, connectionVars, outstanding, fatal>>

\* a client connects while the socket listens
ClientConnects ==
    /\ fatal = "no" /\ listener = "listening" /\ connected < MaxClients
    /\ clients' = clients + 1
    /\ connected' = connected + 1
    /\ UNCHANGED <<main, thread, semaphore, loopVars, listener, connectionVars, outstanding, fatal>>

\* Mutant of Add: a connection that halted already is not counted.
AddRunning(c, halted) ==
    /\ connection' = IF halted THEN connection ELSE c
    /\ live' = IF halted THEN live ELSE live \cup {c}
    /\ running_connection_count' = running_connection_count + (IF halted THEN -1 ELSE 1)
    /\ fatal' = IF connection = NULL THEN "no" ELSE "assert"

\* amqp_connections_add, after amqp_connection_shutdown_confirm when halted
Add(c, halted) ==
    IF connection = NULL
    THEN /\ connection' = c
         /\ live' = IF halted THEN live ELSE live \cup {c}
         /\ running_connection_count' = running_connection_count + (IF halted THEN 0 ELSE 1)
         /\ UNCHANGED fatal
    ELSE fatal' = "assert" /\ UNCHANGED connectionVars

\* accept_new_connection_handler, amqp_connection_accept: a connection whose
\* client is gone halts before it is added
Accept ==
    /\ Looping
    /\ listener = "listening" /\ clients > 0
    /\ clients' = clients - 1
    /\ \E c \in Connections \ live, halted \in BOOLEAN : Add(c, halted)
    /\ UNCHANGED <<loopVars, listener, connected, outstanding>>

\* connection_halt: amqp_connections_shutdown_confirm, amqp_connection_destroy
ConnectionHalts ==
    /\ Looping
    /\ \E c \in live : live' = live \ {c}
    /\ running_connection_count' = running_connection_count - 1
    /\ UNCHANGED <<loopVars, listener, clients, connected, connection, outstanding, fatal>>

\* ev_run returns, ev_async_stop
LeaveLoop ==
    /\ Thread("loop", "hook")
    /\ loop_done
    /\ loop_done' = FALSE
    /\ async' = "stopped"
    /\ UNCHANGED <<semaphore, private, loop, listener, clients, connected, connectionVars,
                   outstanding, fatal>>

\* amqp_connections_shutdown_hook up to its loop; amqp_connection_shutdown may
\* halt the connection at once
ShutdownHook ==
    /\ Thread("hook", "drain")
    /\ \/ /\ running_connection_count > 0
          /\ live' = live \ {connection}
          /\ running_connection_count' = running_connection_count - 1
       \/ UNCHANGED <<running_connection_count, live>>
    /\ UNCHANGED <<semaphore, loopVars, listener, clients, connected, connection,
                   outstanding, fatal>>

\* Mutant of LeaveHook: the timer is not started.
LeaveHookIdle ==
    /\ Thread("drain", "close")
    /\ running_connection_count <= 0
    /\ UNCHANGED <<semaphore, loopVars, listener, clients, connected, connectionVars,
                   outstanding, fatal>>

\* the end of the loop: no connection runs, or the time is up
LeaveHook ==
    /\ Thread("drain", "close")
    /\ outstanding' = (running_connection_count > 0)
    /\ UNCHANGED <<semaphore, loopVars, listener, clients, connected, connectionVars, fatal>>

\* amqp_listener_destroy
ListenerDestroy ==
    /\ Thread("close", "unloop")
    /\ IF listener = "failed" THEN fatal' = "null" /\ UNCHANGED listener
                              ELSE listener' = "closed" /\ UNCHANGED fatal
    /\ UNCHANGED <<semaphore, loopVars, clients, connected, connectionVars, outstanding>>

\* the end of event_thread_handler but the signal
DestroyLoop ==
    /\ Thread("unloop", "finish")
    /\ loop' = IF private THEN "destroyed" ELSE loop
    /\ UNCHANGED <<semaphore, private, async, loop_done, listener, clients, connected,
                   connectionVars, outstanding, fatal>>

SignalFinished ==
    /\ Thread("finish", "signalled")
    /\ semaphore' = semaphore + 1
    /\ UNCHANGED <<loopVars, listener, clients, connected, connectionVars, outstanding, fatal>>

\* thread_wrapper: the thread is marked as no longer running, and ends
ThreadEnds ==
    /\ Thread("signalled", "ended")
    /\ UNCHANGED <<semaphore, loopVars, listener, clients, connected, connectionVars,
                   outstanding, fatal>>

-----------------------------------------------------------------------------
MainNext == Initialize \/ WaitRunning \/ SendBreakRequest \/ WaitFinished \/ Join

\* what the event thread does of its own accord
ThreadNext == \/ BeginHandler \/ ListenerInitialize \/ AsyncStart \/ SignalRunning
              \/ AsyncBreak \/ LeaveLoop \/ ShutdownHook \/ LeaveHook \/ ListenerDestroy
              \/ DestroyLoop \/ SignalFinished \/ ThreadEnds

Next == MainNext \/ ThreadNext \/ Accept \/ ConnectionHalts \/ ClientConnects

Spec == Init /\ [][Next]_vars

\* The application may never ask the thread to stop and clients may never
\* come. A thread runs until it has to wait; the event loop sees a break
\* request, and the timer of the shutdown hook ends its loop.
FairSpec == Spec /\ WF_vars(ThreadNext)
                 /\ WF_vars(WaitRunning) /\ WF_vars(WaitFinished) /\ WF_vars(Join)

-----------------------------------------------------------------------------
TypeOK ==
    /\ main \in {"outside", "starting", "running", "stopping", "joining", "done"}
    /\ thread \in {"none", "not_created", "begin", "listen", "start", "signal", "loop", "hook",
                   "drain", "close", "unloop", "finish", "signalled", "ended"}
    /\ semaphore \in 0 .. 1
    /\ private \in BOOLEAN /\ loop \in {"none", "live", "destroyed"}
    /\ async \in {"stopped", "started", "sent"} /\ loop_done \in BOOLEAN
    /\ listener \in {"none", "listening", "failed", "closed"}
    /\ connected \in 0 .. MaxClients /\ clients \in 0 .. connected
    /\ running_connection_count \in Int
    /\ connection \in Connections \cup {NULL} /\ live \subseteq Connections
    /\ outstanding \in BOOLEAN /\ fatal \in {"no", "assert", "null"}

(***************************************************************************)
(* send_break_request: from the moment amqp_event_thread_initialize        *)
(* returns, the break request finds a live event loop and a started        *)
(* watcher, however far the thread got since it signalled.                 *)
(***************************************************************************)
BreakTarget == main = "running" => thread = "loop" /\ loop = "live" /\ async = "started"

(***************************************************************************)
(* amqp_event_thread_destroy: the wait for the end is not satisfied by the *)
(* signal of the start, though one semaphore serves both, and memory the   *)
(* thread uses (its structure, its context, the semaphore it signals, the  *)
(* accepted connections) is freed only when the thread is gone.            *)
(***************************************************************************)
FreedAfterEnd ==
    /\ main = "joining" => thread \in {"signalled", "ended"}
    /\ main = "done" => thread = "ended"

(***************************************************************************)
(* AcceptedConnections.c: running_connection_count is the number of        *)
(* connections that run, though one may halt before it is added.           *)
(***************************************************************************)
CountExact == running_connection_count = Cardinality(live)

(***************************************************************************)
(* amqp_connections_shutdown_hook shuts down, or reports about, a          *)
(* connection that was not freed: connections->connection is not cleared   *)
(* when a connection halts, and is used when the count is not 0.           *)
(***************************************************************************)
HookTarget == running_connection_count > 0 => connection \in live

(***************************************************************************)
(* AcceptedConnections.c: its record of the one connection is right, in    *)
(* every order of acceptance, halt and addition, and good when it is used. *)
(***************************************************************************)
RecordExact == CountExact /\ HookTarget

(***************************************************************************)
(* amqp_dummy_broker_destroy: when it returns the socket is closed, a      *)
(* private event loop is destroyed, no signal is left, and a connection    *)
(* that still exists was reported.                                         *)
(***************************************************************************)
AllReleased ==
    main = "done" => /\ listener = "closed" /\ semaphore = 0 /\ async = "stopped"
                     /\ loop = IF private THEN "destroyed" ELSE "live"
                     /\ live # {} => outstanding

(***************************************************************************)
(* Listener.c, EventThread.c: what the two threads share is there when the *)
(* one asks the other to stop, is freed when the thread is gone and not    *)
(* before, and is all released in the end.                                 *)
(***************************************************************************)
SharedInTime == BreakTarget /\ FreedAfterEnd /\ AllReleased

(***************************************************************************)
(* amqp_event_thread_initialize returns once the thread was created, and   *)
(* amqp_event_thread_destroy returns, unless the process dies.             *)
(***************************************************************************)
Starts == main = "starting" /\ thread # "not_created" ~> main = "running" \/ fatal # "no"
Stops == main = "stopping" ~> main = "done" \/ fatal # "no"
StartsAndStops == Starts /\ Stops
=============================================================================
