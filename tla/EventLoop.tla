----------------------------- MODULE EventLoop ------------------------------
(***************************************************************************)
(* The event loop a libamqp thread runs: the parts of libev (3rd-party/    *)
(* libev-4_4/ev.c, ev_epoll.c) that LowLevel/EventLoop.c, Timer.c and      *)
(* EventThread.c use, namely descriptors watched through epoll, timers,    *)
(* the async watcher by which another thread interrupts the loop, and the  *)
(* queue of pending callbacks.  Callbacks start and stop watchers, arm     *)
(* timers, close descriptors and open others under the same number.        *)
(*                                                                         *)
(* Times are relative to mn_now, the time the loop believes it is: `lag'   *)
(* is how far the clock is ahead of it.                                    *)
(***************************************************************************)
EXTENDS TimerHeap, FiniteSets, SequencesExt

CONSTANTS
    Programs,      \* what a program has: sets [ios, timers, delays, asyncs, senders, flags]
    Fds, FdOf,     \* descriptors, and the one of every watcher of a descriptor
    EventsOf,      \* the events it waits for
    Priority,      \* of every watcher
    MAX_BLOCKTIME, \* the longest time to sleep
    MaxLag         \* bound: how late the loop may be

ASSUME TimeAssumption == MaxLag \in Nat /\ MAX_BLOCKTIME \in 1 .. MaxLag

READ == "READ"
WRITE == "WRITE"
HUP == "HUP"                   \* EPOLLERR, EPOLLHUP
evfd == "evfd"                 \* the descriptor of the wake-ups
pipe_w == "pipe_w"             \* its watcher, of the highest priority
async == "async"
pending_w == "pending_w"       \* stands for watchers that were stopped

VARIABLES
    program,
    \* watchers, and the callbacks that wait
    active,        \* watchers of descriptors, and the async one, that are started
    activecnt,
    timers,        \* the heap, with the index of every timer in it
    repeat,
    queue,         \* [list: priority -> pendings, pending: watcher -> index]
    due,           \* history: when a timer that is pending was due
    \* descriptors
    fds,           \* [anfds: descriptor -> [head, events, reify, emask],
                   \*  fdchanges, kernel: descriptor -> events epoll watches for]
    iofdset,       \* watchers initialised, and not started since: EV__IOFDSET
    open, ready,   \* descriptors of the program that are open, and what is ready
    counter,       \* whether the descriptor of the wake-ups is readable
    lag,
    \* the loop
    pc, loop_done, once, waittime,
    \* shared with the senders
    sent, async_pending, pipe_write_wanted, pipe_write_skipped,
    sender         \* where each of them is in ev_async_send

watcherVars == <<active, activecnt, timers, repeat, queue, due>>
fdVars == <<fds, iofdset, open>>
worldVars == <<ready, counter, lag>>
loopVars == <<loop_done, once, waittime>>
sharedVars == <<sent, async_pending, pipe_write_wanted, pipe_write_skipped>>
vars == <<program, watcherVars, fdVars, worldVars, pc, loopVars, sharedVars, sender>>

\* the descriptors of the program
Own == {FdOf[w] : w \in program.ios}

Ios == UNION {p.ios : p \in Programs} \cup {pipe_w}
Timers == UNION {p.timers : p \in Programs}
Senders == UNION {p.senders : p \in Programs}    \* threads that call ev_async_send
Delays == UNION {p.delays : p \in Programs}       \* of timers; 0 stops one
Watchers == Ios \cup Timers \cup {async}
AllFds == Fds \cup {evfd}
Fd(w) == IF w = pipe_w THEN evfd ELSE FdOf[w]
Events(w) == IF w = pipe_w THEN {READ} ELSE EventsOf[w]
Priorities == {Priority[w] : w \in Watchers}

\* loop_init, and the macros that initialise watchers
Init ==
    /\ program \in Programs
    /\ active = {} /\ activecnt = 0
    /\ timers = [heap |-> <<>>, active |-> [t \in Timers |-> 0]]
    /\ repeat = [t \in Timers |-> 0] /\ due = [t \in Timers |-> 0]
    /\ queue = [list |-> [p \in Priorities |-> <<>>], pending |-> [w \in Watchers |-> 0]]
    /\ fds = [anfds |-> [f \in AllFds |-> [head |-> <<>>, events |-> {}, reify |-> {}, emask |-> {}]],
              fdchanges |-> <<>>, kernel |-> [f \in AllFds |-> {}]]
    /\ iofdset = Ios /\ open = Fds
    /\ ready = [f \in Fds |-> {}] /\ counter = FALSE /\ lag = 0
    /\ pc = "out" /\ loop_done = FALSE /\ once = FALSE /\ waittime = 0
    /\ sent = FALSE /\ async_pending = FALSE
    /\ pipe_write_wanted = FALSE /\ pipe_write_skipped = FALSE
    /\ sender = [s \in Senders |-> "idle"]

-----------------------------------------------------------------------------
(* The queue of pending callbacks *)

\* ev_feed_event
Fed(q, w, revents) ==
    LET p == Priority[w]
    IN  IF q.pending[w] > 0 THEN [q EXCEPT !.list[p][q.pending[w]].events = @ \cup revents]
        ELSE [q EXCEPT !.list[p] = Append(@, [w |-> w, events |-> revents]),
                       !.pending[w] = Len(q.list[p]) + 1]

\* Mutant of clear_pending: the entry of a watcher that is stopped stays.
clear_pending_kept(q, w) == q

clear_pending(q, w) ==
    IF q.pending[w] = 0 THEN q
    ELSE [q EXCEPT !.list[Priority[w]][q.pending[w]].w = pending_w, !.pending[w] = 0]

-----------------------------------------------------------------------------
(* Descriptors and epoll *)

fd_change(d, f, flags) ==
    [d EXCEPT !.anfds[f].reify = @ \cup flags,
              !.fdchanges = IF d.anfds[f].reify = {} THEN Append(@, f) ELSE @]

\* Mutant of IoStarted: that the descriptor may be a new one is not passed on.
IoStartedUnset(d, w) ==
    fd_change([d EXCEPT !.anfds[Fd(w)].head = <<w>> \o @], Fd(w), {"REIFY"})

\* ev_io_start
IoStarted(d, w) ==
    fd_change([d EXCEPT !.anfds[Fd(w)].head = <<w>> \o @], Fd(w),
              {"REIFY"} \cup IF w \in iofdset THEN {"IOFDSET"} ELSE {})

\* ev_io_stop
IoStopped(d, w) ==
    fd_change([d EXCEPT !.anfds[Fd(w)].head = Remove(@, w)], Fd(w), {"REIFY"})

\* epoll_modify.  EPOLL_CTL_ADD of a descriptor that is watched fails, and is
\* made a modification unless the mask is the same; EPOLL_CTL_MOD of one that
\* is not watched fails, and is made an addition.
epoll_modify(d, f, oev, nev) ==
    LET old == d.anfds[f].emask
        add == oev = {} \/ old = nev
    IN  IF nev = {} THEN d
        ELSE [d EXCEPT !.anfds[f].emask = nev,
                       !.kernel[f] = IF add /\ @ # {} /\ old = nev THEN @ ELSE nev]

\* one descriptor of fd_reify
Reified(d, f) ==
    LET was == d.anfds[f]
        events == UNION {Events(was.head[i]) : i \in DOMAIN was.head}
        now == [d EXCEPT !.anfds[f].events = events, !.anfds[f].reify = {}]
    IN  IF events # was.events \/ "IOFDSET" \in was.reify
        THEN epoll_modify(now, f, was.events, events) ELSE now

fd_reify(d) == [FoldLeft(Reified, d, d.fdchanges) EXCEPT !.fdchanges = <<>>]

\* what epoll_wait reports of a descriptor: errors always, the rest if asked for
Reported(f) ==
    LET is == IF f # evfd THEN ready[f] ELSE IF counter THEN {READ} ELSE {}
    IN  IF fds.kernel[f] = {} THEN {}
        ELSE IF HUP \in is THEN {READ, WRITE} ELSE is \cap fds.kernel[f]

\* one event of epoll_poll; the kernel is corrected if nobody wants it
Polled(s, f) ==
    LET got == Reported(f)
        anfd == s.fds.anfds[f]
        fixed == [s.fds EXCEPT !.anfds[f].emask = anfd.events,
                               !.kernel[f] = anfd.events]
        wanting == SelectSeq(anfd.head, LAMBDA w : Events(w) \cap got # {})
    IN  [fds |-> IF got \subseteq anfd.events THEN s.fds ELSE fixed,
         queue |-> IF anfd.reify # {} THEN s.queue
                   ELSE FoldLeft(LAMBDA q, w : Fed(q, w, Events(w) \cap got), s.queue, wanting)]

-----------------------------------------------------------------------------
(* What a program does, outside of the loop or in a callback *)

Programming == pc \in {"out", "callback"}
unchangedByProgram == <<program, worldVars, pc, loopVars, sharedVars, sender>>

\* amqp_io_event_watcher_start, ev_io_start
IoStart(w) ==
    /\ Programming /\ w \in program.ios \ active /\ Fd(w) \in open
    /\ active' = active \cup {w} /\ activecnt' = activecnt + 1
    /\ fds' = IoStarted(fds, w) /\ iofdset' = iofdset \ {w}
    /\ UNCHANGED <<unchangedByProgram, timers, repeat, queue, due, open>>

\* amqp_io_event_watcher_stop, ev_io_stop
IoStop(w) ==
    /\ Programming /\ w \in program.ios \cap active
    /\ queue' = clear_pending(queue, w)
    /\ active' = active \ {w} /\ activecnt' = activecnt - 1
    /\ fds' = IoStopped(fds, w)
    /\ UNCHANGED <<unchangedByProgram, timers, repeat, due, iofdset, open>>

\* close, of a descriptor whose watchers are stopped and destroyed
Close(f) ==
    /\ Programming /\ f \in open /\ \A w \in program.ios \cap active : Fd(w) # f
    /\ open' = open \ {f} /\ fds' = [fds EXCEPT !.kernel[f] = {}]
    /\ UNCHANGED <<unchangedByProgram, watcherVars, iofdset>>

\* socket or accept return the number of one that was closed, and watchers of
\* the new one are initialised (amqp_io_event_watcher_initialize)
Open(f) ==
    /\ Programming /\ f \notin open
    /\ open' = open \cup {f} /\ iofdset' = iofdset \cup {w \in program.ios : Fd(w) = f}
    /\ ready' = [ready EXCEPT ![f] = {}]
    /\ UNCHANGED <<program, watcherVars, fds, counter, lag, pc, loopVars, sharedVars, sender>>

\* amqp_timer_start: ev_timer_again
TimerStart(t, delay) ==
    /\ Programming /\ t \in program.timers
    /\ repeat' = [repeat EXCEPT ![t] = delay]
    /\ LET on == timers.active[t] > 0
       IN  IF delay = 0
           THEN /\ timers' = IF on THEN Stopped(timers, t) ELSE timers
                /\ queue' = IF on THEN clear_pending(queue, t) ELSE queue
                /\ activecnt' = IF on THEN activecnt - 1 ELSE activecnt
           ELSE /\ timers' = IF on THEN Rearmed(timers, t, delay) ELSE Started(timers, t, delay)
                /\ activecnt' = IF on THEN activecnt ELSE activecnt + 1
                /\ queue' = queue
    /\ UNCHANGED <<unchangedByProgram, active, due, fdVars>>

\* Mutant of TimerStop: a timer that was not started counts too.
TimerStopUncounted(t) ==
    /\ Programming /\ t \in program.timers
    /\ queue' = clear_pending(queue, t)
    /\ timers' = IF timers.active[t] > 0 THEN Stopped(timers, t) ELSE timers
    /\ activecnt' = activecnt - 1
    /\ UNCHANGED <<unchangedByProgram, active, repeat, due, fdVars>>

\* amqp_timer_stop: ev_timer_stop
TimerStop(t) ==
    /\ Programming /\ t \in program.timers
    /\ queue' = clear_pending(queue, t)
    /\ timers' = IF timers.active[t] > 0 THEN Stopped(timers, t) ELSE timers
    /\ activecnt' = IF timers.active[t] > 0 THEN activecnt - 1 ELSE activecnt
    /\ UNCHANGED <<unchangedByProgram, active, repeat, due, fdVars>>

\* ev_async_start, with evpipe_init: the watcher of the wake-ups does not count
AsyncStart ==
    /\ pc = "out" /\ async \in program.asyncs \ active
    /\ sent' = FALSE
    /\ active' = active \cup {async, pipe_w} /\ activecnt' = activecnt + 1
    /\ fds' = IF pipe_w \in active THEN fds ELSE IoStarted(fds, pipe_w)
    /\ iofdset' = iofdset \ {pipe_w}
    /\ UNCHANGED <<program, timers, repeat, queue, due, open, worldVars, pc, loopVars,
                   async_pending, pipe_write_wanted, pipe_write_skipped, sender>>

\* ev_async_stop
AsyncStop ==
    /\ pc = "out" /\ async \in active
    /\ queue' = clear_pending(queue, async)
    /\ active' = active \ {async} /\ activecnt' = activecnt - 1
    /\ UNCHANGED <<unchangedByProgram, timers, repeat, due, fdVars>>

\* ev_break in a callback
Break ==
    /\ pc = "callback" /\ loop_done' = TRUE
    /\ UNCHANGED <<program, watcherVars, fdVars, worldVars, pc, once, waittime, sharedVars, sender>>

Return ==
    /\ pc = "callback" /\ pc' = "invoke"
    /\ UNCHANGED <<program, watcherVars, fdVars, worldVars, loop_done, once, waittime, sharedVars, sender>>

\* ev_run, with EVRUN_ONCE or not; nothing is pending outside of it
Run(flag) ==
    /\ pc = "out" /\ pc' = "top" /\ loop_done' = FALSE /\ once' = flag
    /\ UNCHANGED <<program, watcherVars, fdVars, worldVars, waittime, sharedVars, sender>>

-----------------------------------------------------------------------------
(* The loop: ev_run *)

\* time_update: the times in the heap are relative
Later(heap, d) == [k \in DOMAIN heap |-> [heap[k] EXCEPT !.at = @ - d]]

\* fd_reify and time_update, then wake-ups are asked for
Top ==
    /\ pc = "top" /\ pc' = "wait"
    /\ fds' = fd_reify(fds)
    /\ timers' = [timers EXCEPT !.heap = Later(@, lag)] /\ lag' = 0
    /\ pipe_write_wanted' = TRUE
    /\ UNCHANGED <<program, active, activecnt, repeat, queue, due, iofdset, open, ready, counter,
                   loopVars, sent, async_pending, pipe_write_skipped, sender>>

\* Mutant of Timeout: a wake-up that was skipped before it was asked for is not
\* looked for.
TimeoutBlind ==
    IF activecnt = 0 THEN 0
    ELSE Max({1, Min({MAX_BLOCKTIME} \cup {timers.heap[k].at : k \in DOMAIN timers.heap \cap {1}})})

\* the time to sleep: until the first timer, but not none
Timeout ==
    IF activecnt = 0 \/ pipe_write_skipped THEN 0
    ELSE Max({1, Min({MAX_BLOCKTIME} \cup {timers.heap[k].at : k \in DOMAIN timers.heap \cap {1}})})

Wait ==
    /\ pc = "wait" /\ pc' = "poll" /\ waittime' = Timeout
    /\ UNCHANGED <<program, watcherVars, fdVars, worldVars, loop_done, once, sharedVars, sender>>

\* epoll_poll: with what is ready, in any order, or after the time to wait
Poll ==
    LET some == {f \in AllFds : Reported(f) # {}}
    IN  /\ pc = "poll" /\ pc' = "woken"
        /\ some # {} \/ lag >= waittime
        /\ \E order \in SetToSeqs(some) :
             LET s == FoldLeft(Polled, [fds |-> fds, queue |-> queue], order)
             IN  fds' = s.fds /\ queue' = s.queue
        /\ UNCHANGED <<program, active, activecnt, timers, repeat, due, iofdset, open, worldVars,
                       loopVars, sharedVars, sender>>

Woken ==
    /\ pc = "woken" /\ pc' = "skip" /\ waittime' = 0 /\ pipe_write_wanted' = FALSE
    /\ UNCHANGED <<program, watcherVars, fdVars, worldVars, loop_done, once,
                   sent, async_pending, pipe_write_skipped, sender>>

\* one timer of timers_reify
Expired(s) ==
    LET first == s.timers.heap[1]
        next == first.at + repeat[first.w]
    IN  [timers |-> downheap([s.timers EXCEPT !.heap[1].at = IF next < 0 THEN 0 ELSE next], 1),
         fed |-> <<first>> \o s.fed]

\* Mutant of feed_reverse_done: the timers are fed in the order they expired.
feed_in_order(q, fed) == FoldRight(LAMBDA e, r : Fed(r, e.w, {"TIMER"}), fed, q)

feed_reverse_done(q, fed) == FoldLeft(LAMBDA r, e : Fed(r, e.w, {"TIMER"}), q, fed)

\* a wake-up that was skipped, time_update and timers_reify: every timer that
\* is due is due again later, and fed
Skip ==
    LET q == IF pipe_write_skipped THEN Fed(queue, pipe_w, {"CUSTOM"}) ELSE queue
        now == [timers EXCEPT !.heap = Later(@, lag)]
        Step(s, n) == IF s.timers.heap[1].at < 0 THEN Expired(s) ELSE s
        s == FoldLeft(Step, [timers |-> now, fed |-> <<>>], now.heap)
    IN  /\ pc = "skip" /\ pc' = "invoke"
        /\ timers' = s.timers /\ lag' = 0
        /\ queue' = feed_reverse_done(q, s.fed)
        /\ due' = [t \in Timers |-> IF \E i \in DOMAIN s.fed : s.fed[i].w = t
                                    THEN (CHOOSE e \in ToSet(s.fed) : e.w = t).at ELSE due[t]]
        /\ UNCHANGED <<program, active, activecnt, repeat, fdVars, ready, counter, loopVars, sharedVars, sender>>

\* ev_invoke_pending, one callback: the last entry of the highest priority.
\* The callback of the async watcher is async_watcher_callback.
Invoke ==
    /\ pc = "invoke"
    /\ \E p \in Priorities :
         LET last == queue.list[p][Len(queue.list[p])]
         IN  /\ queue.list[p] # <<>> /\ \A r \in Priorities : queue.list[r] # <<>> => r <= p
             /\ queue' = [list |-> [queue.list EXCEPT ![p] = Front(@)],
                          pending |-> [w \in Watchers |-> IF w = last.w THEN 0 ELSE queue.pending[w]]]
             /\ pc' = CASE last.w \in {pending_w, async} -> "invoke"
                        [] last.w = pipe_w -> IF READ \in last.events THEN "drain" ELSE "unskip"
                        [] OTHER -> "callback"
             /\ loop_done' = (loop_done \/ last.w = async)
             /\ due' = [t \in Timers |-> IF t = last.w THEN 0 ELSE due[t]]
    /\ UNCHANGED <<program, active, activecnt, timers, repeat, fdVars, worldVars, once, waittime, sharedVars, sender>>

\* nothing is pending: another iteration, or the end
Again ==
    /\ pc = "invoke" /\ \A p \in Priorities : queue.list[p] = <<>>
    /\ pc' = IF activecnt # 0 /\ ~loop_done /\ ~once THEN "top" ELSE "out"
    /\ UNCHANGED <<program, watcherVars, fdVars, worldVars, loopVars, sharedVars, sender>>

\* pipecb
Drain ==
    /\ pc = "drain" /\ pc' = "unskip" /\ counter' = FALSE
    /\ UNCHANGED <<program, watcherVars, fdVars, ready, lag, loopVars, sharedVars, sender>>

Unskip ==
    /\ pc = "unskip" /\ pc' = "collect" /\ pipe_write_skipped' = FALSE
    /\ UNCHANGED <<program, watcherVars, fdVars, worldVars, loopVars, sent, async_pending, pipe_write_wanted, sender>>

\* Mutant of Collect: the flag stays set.
CollectKeepsFlag ==
    /\ pc = "collect" /\ pc' = IF async_pending THEN "feed" ELSE "invoke"
    /\ UNCHANGED <<program, watcherVars, fdVars, worldVars, loopVars, sharedVars, sender>>

Collect ==
    /\ pc = "collect" /\ pc' = IF async_pending THEN "feed" ELSE "invoke"
    /\ async_pending' = FALSE
    /\ UNCHANGED <<program, watcherVars, fdVars, worldVars, loopVars, sent, pipe_write_wanted, pipe_write_skipped, sender>>

Feed ==
    /\ pc = "feed" /\ pc' = "invoke"
    /\ sent' = IF async \in active THEN FALSE ELSE sent
    /\ queue' = IF async \in active /\ sent THEN Fed(queue, async, {"ASYNC"}) ELSE queue
    /\ UNCHANGED <<program, active, activecnt, timers, repeat, due, fdVars, worldVars, loopVars,
                   async_pending, pipe_write_wanted, pipe_write_skipped, sender>>

LoopStep ==
    Top \/ Wait \/ Poll \/ Woken \/ Skip \/ Invoke \/ Again \/ Drain \/ Unskip \/ Collect \/ Feed

-----------------------------------------------------------------------------
(* Another thread: ev_async_send, evpipe_write *)

unchangedBySender == <<program, watcherVars, fdVars, ready, lag, pc, loopVars, pipe_write_wanted>>

Goes(s, from, to) == sender[s] = from /\ sender' = [sender EXCEPT ![s] = to]

\* after amqp_event_thread_initialize, which waits for ev_async_start
Send(s) ==
    /\ pipe_w \in active
    /\ Goes(s, "idle", "test") /\ sent' = TRUE
    /\ UNCHANGED <<unchangedBySender, counter, async_pending, pipe_write_skipped>>

Test(s) ==
    /\ Goes(s, "test", IF async_pending THEN "idle" ELSE "flag")
    /\ UNCHANGED <<unchangedBySender, counter, sent, async_pending, pipe_write_skipped>>

Flag(s) ==
    /\ Goes(s, "flag", "mark") /\ async_pending' = TRUE
    /\ UNCHANGED <<unchangedBySender, counter, sent, pipe_write_skipped>>

Mark(s) ==
    /\ Goes(s, "mark", "look") /\ pipe_write_skipped' = TRUE
    /\ UNCHANGED <<unchangedBySender, counter, sent, async_pending>>

Look(s) ==
    /\ Goes(s, "look", IF pipe_write_wanted THEN "unmark" ELSE "idle")
    /\ UNCHANGED <<unchangedBySender, counter, sent, async_pending, pipe_write_skipped>>

Unmark(s) ==
    /\ Goes(s, "unmark", "write") /\ pipe_write_skipped' = FALSE
    /\ UNCHANGED <<unchangedBySender, counter, sent, async_pending>>

Write(s) ==
    /\ Goes(s, "write", "idle") /\ counter' = TRUE
    /\ UNCHANGED <<unchangedBySender, sent, async_pending, pipe_write_skipped>>

SenderStep(s) == Test(s) \/ Flag(s) \/ Mark(s) \/ Look(s) \/ Unmark(s) \/ Write(s)

-----------------------------------------------------------------------------
(* The world *)

Tick ==
    /\ lag < MaxLag /\ lag' = lag + 1
    /\ UNCHANGED <<program, watcherVars, fdVars, ready, counter, pc, loopVars, sharedVars, sender>>

Becomes(f, is) ==
    /\ f \in open /\ ready[f] # is /\ ready' = [ready EXCEPT ![f] = is]
    /\ UNCHANGED <<program, watcherVars, fdVars, counter, lag, pc, loopVars, sharedVars, sender>>

ProgramStep ==
    \/ \E w \in program.ios : IoStart(w) \/ IoStop(w)
    \/ \E f \in Own : Close(f) \/ Open(f)
    \/ \E t \in program.timers : TimerStop(t) \/ \E delay \in program.delays : TimerStart(t, delay)
    \/ AsyncStart \/ AsyncStop \/ Break \/ \E flag \in program.flags : Run(flag)

Next ==
    \/ ProgramStep \/ Return \/ LoopStep
    \/ \E s \in program.senders : Send(s) \/ SenderStep(s)
    \/ Tick \/ \E f \in Own, is \in SUBSET {READ, WRITE} \cup {{HUP}} : Becomes(f, is)

Spec == Init /\ [][Next]_vars

\* when the loop can take a step: ENABLED LoopStep
LoopReady ==
    /\ ~Programming
    /\ pc = "poll" => lag >= waittime \/ \E f \in AllFds : Reported(f) # {}

\* The operating system schedules the threads, callbacks return, time passes.
\* The first conjunct is weak fairness of LoopStep.
Fairness ==
    /\ []<>~LoopReady \/ []<><<LoopStep>>_vars
    /\ WF_vars(Return) /\ WF_vars(Tick) /\ \A s \in Senders : WF_vars(SenderStep(s))

FairSpec == Spec /\ Fairness

-----------------------------------------------------------------------------
(* Properties *)

Due(t) == timers.heap[timers.active[t]].at

\* Every variable has values of its kind.
TypeOK ==
    /\ program \in Programs /\ active \subseteq Ios \cup {async} /\ activecnt \in Nat
    /\ timers.active \in [Timers -> 0 .. Cardinality(Timers)] /\ repeat \in [Timers -> Delays \cup {0}]
    /\ queue.pending \in [Watchers -> Nat] /\ DOMAIN queue.list = Priorities
    /\ \A f \in AllFds : /\ fds.anfds[f].events \subseteq {READ, WRITE}
                         /\ fds.anfds[f].emask \subseteq {READ, WRITE}
                         /\ fds.anfds[f].reify \subseteq {"REIFY", "IOFDSET"}
                         /\ fds.kernel[f] \subseteq {READ, WRITE}
    /\ open \subseteq Fds /\ iofdset \subseteq Ios /\ lag \in 0 .. MaxLag
    /\ pc \in {"out", "top", "wait", "poll", "woken", "skip", "invoke", "callback",
               "drain", "unskip", "collect", "feed"}
    /\ {counter, loop_done, once, sent, async_pending, pipe_write_wanted, pipe_write_skipped} \subseteq BOOLEAN
    /\ waittime \in 0 .. MAX_BLOCKTIME
    /\ sender \in [Senders -> {"idle", "test", "flag", "mark", "look", "unmark", "write"}]

\* The queue and the index every watcher keeps of its entry agree, whatever
\* callbacks started, stopped and armed while others were pending (what
\* verify_watcher asserts, and its converse), and nothing is left in it
\* when the loop is left.
QueueSound ==
    /\ \A w \in Watchers : queue.pending[w] > 0 =>
         /\ queue.pending[w] \in DOMAIN queue.list[Priority[w]]
         /\ queue.list[Priority[w]][queue.pending[w]].w = w
    /\ \A p \in Priorities : \A i \in DOMAIN queue.list[p] :
         LET w == queue.list[p][i].w IN w # pending_w => Priority[w] = p /\ queue.pending[w] = i
    /\ pc = "out" => \A p \in Priorities : queue.list[p] = <<>>

\* Entries and indices of the heap of timers agree and parents are due before
\* their children (verify_heap), whatever order timers are started, armed
\* again, stopped and expire in.
TimersSound == HeapSound(timers)

\* A callback that waits belongs to a watcher that is started: one that a
\* callback stopped, and libamqp then freed (amqp_io_event_watcher_destroy,
\* amqp_timer_destroy), is not called any more.
PendingIsActive ==
    \A w \in Watchers : queue.pending[w] > 0 =>
        IF w \in Timers THEN timers.active[w] > 0 ELSE w \in active

\* While the loop sleeps, or decides how long, the kernel watches every
\* descriptor for all that started watchers wait for, also where the
\* descriptor was closed and its number given to a new one without an
\* iteration of the loop in between.
KernelWatches ==
    pc \in {"wait", "poll"} =>
        \A w \in active \cap Ios : Events(w) \subseteq fds.kernel[Fd(w)]

\* The loop ends exactly when nothing is started: the counter agrees with
\* the watchers, among which the one of the wake-ups does not count.
ActiveCounted ==
    activecnt = Cardinality(active \ {pipe_w}) + Len(timers.heap)

\* The descriptors to look at in fd_reify are the ones that changed, once each.
ChangesListed ==
    /\ ToSet(fds.fdchanges) = {f \in AllFds : fds.anfds[f].reify # {}}
    /\ Len(fds.fdchanges) = Cardinality(ToSet(fds.fdchanges))
    /\ \A f \in AllFds : LET head == fds.anfds[f].head
                         IN  /\ ToSet(head) = {w \in active \cap Ios : Fd(w) = f}
                             /\ Len(head) = Cardinality(ToSet(head))

\* What libev keeps about its watchers agrees with them (what ev_verify
\* asserts, and more), whatever callbacks start, stop, arm and free while
\* others are pending: the queue, the heap of timers, the lists of changed
\* descriptors and of watchers, and the counter that ends the loop.
BookkeepingSound ==
    QueueSound /\ PendingIsActive /\ TimersSound /\ ChangesListed /\ ActiveCounted

\* The loop does not sleep longer than until any of the timers is due.
NoTimerOverslept ==
    pc = "poll" => \A t \in Timers : timers.active[t] > 0 =>
        waittime <= 1 \/ waittime <= Due(t)

\* Timers that expired together are called in the order they were due in:
\* entries are taken from the end of the queue.
ExpiryOrder ==
    \A p \in Priorities : \A i, j \in DOMAIN queue.list[p] :
        LET e == queue.list[p]
        IN  i < j /\ {e[i].w, e[j].w} \subseteq Timers => due[e[j].w] <= due[e[i].w]

\* Timers are served in time and in order (timers_reify), although the loop
\* may be late and callbacks arm, stop and start the timers that wait.
TimersOnTime == NoTimerOverslept /\ ExpiryOrder

\* A wake-up is not lost: when the loop sleeps and a request is flagged, the
\* descriptor of the wake-ups is readable, or a sender is about to see that it
\* has to write, or the time to wait is zero.
NoLostWakeup ==
    pc = "poll" /\ async_pending =>
        counter \/ waittime = 0 \/ \E s \in Senders : sender[s] \in {"mark", "look", "unmark", "write"}

\* The request to end the loop that amqp_event_thread_destroy makes with
\* ev_async_send ends it, however it is interleaved with the loop going to
\* sleep or waking up for something else.
RequestEndsLoop == (sent /\ async \in active /\ pc # "out") ~> pc = "out"

Calls(w) == Invoke /\ queue.pending[w] > 0 /\ queue'.pending[w] = 0

\* A watcher of a descriptor that stays started, and the descriptor ready, is
\* called again and again as long as the loop runs.
ReadyServed ==
    \A w \in Ios \ {pipe_w} :
        <>[](w \in active /\ Events(w) \subseteq ready[Fd(w)] /\ pc # "out") => []<><<Calls(w)>>_vars

Arms(t) == \E delay \in Delays : TimerStart(t, delay)

\* A timer that stays started is called, unless it is armed again and again.
TimersServed ==
    \A t \in Timers :
        <>[](timers.active[t] > 0 /\ pc # "out") => []<><<Calls(t) \/ Arms(t)>>_vars

\* Nobody is left out (ev_invoke_pending): neither a ready descriptor nor a
\* running timer is kept from its callback by the others.
EveryoneServed == ReadyServed /\ TimersServed
=============================================================================
