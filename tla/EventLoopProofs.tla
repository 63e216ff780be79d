-------------------------- MODULE EventLoopProofs ---------------------------
(***************************************************************************)
(* No wake-up is lost, for any number of threads that send them and any    *)
(* watchers.  NoLostWakeup is not inductive: that the descriptor of the    *)
(* wake-ups is readable when it has to be depends on what the loop had     *)
(* seen of pipe_write_skipped before it went to sleep, and on where every  *)
(* sender stands between its two writes of it.                             *)
(***************************************************************************)
EXTENDS EventLoop, TLAPS

SenderPlaces == {"idle", "test", "flag", "mark", "look", "unmark", "write"}

Someone(places) == \E s \in Senders : sender[s] \in places

SendersTyped == program \in Programs /\ sender \in [Senders -> SenderPlaces]

\* Wake-ups are asked for before the loop decides to sleep.
Wanted == pc \in {"wait", "poll"} => pipe_write_wanted

\* A request is on its way to the loop, or the loop is about to take it.
Carried ==
    async_pending => \/ counter \/ pipe_write_skipped \/ Someone({"mark", "unmark", "write"})
                     \/ pc \in {"unskip", "collect"}

\* A mark made after the loop had looked for it belongs to a sender that
\* will see that it has to write.
SeenBySender ==
    pc = "poll" /\ waittime # 0 /\ pipe_write_skipped =>
        counter \/ Someone({"look", "unmark", "write"})

\* The inductive invariant of NoLostWakeup.
WakeupInv == SendersTyped /\ Wanted /\ Carried /\ SeenBySender

wakeVars == <<program, sender, pc, waittime, counter, async_pending, pipe_write_wanted, pipe_write_skipped>>

\* Steps that leave the variables of the invariant alone preserve it.
LEMMA WakeupStutter == WakeupInv /\ UNCHANGED wakeVars => WakeupInv'
  BY DEF WakeupInv, SendersTyped, Wanted, Carried, SeenBySender, Someone, wakeVars

\* A thread of the program is one of the threads.
LEMMA SenderOfProgram ==
    ASSUME program \in Programs, NEW s \in program.senders
    PROVE  s \in Senders
  BY DEF Senders

\* The invariant implies that no wake-up is lost.
LEMMA WakeupInvImplies == WakeupInv => NoLostWakeup
<1> SUFFICES ASSUME WakeupInv, pc = "poll", async_pending, ~counter, waittime # 0
             PROVE  Someone({"mark", "look", "unmark", "write"})
    BY DEF NoLostWakeup, Someone
<1>1. pipe_write_skipped \/ Someone({"mark", "unmark", "write"})
    BY DEF WakeupInv, Carried
<1>2. CASE pipe_write_skipped
    BY <1>2 DEF WakeupInv, SeenBySender, Someone
<1>3. CASE Someone({"mark", "unmark", "write"})
    BY <1>3 DEF Someone
<1> QED BY <1>1, <1>2, <1>3

\* The steps of ev_async_send preserve it, whatever the loop is doing.
LEMMA WakeupSender ==
    ASSUME WakeupInv, NEW s \in Senders, Send(s) \/ SenderStep(s)
    PROVE  WakeupInv'
<1> USE DEF WakeupInv, SendersTyped, Wanted, Carried, SeenBySender, Someone, SenderPlaces,
            unchangedBySender, loopVars, Goes
<1>1. CASE Send(s) BY <1>1 DEF Send
<1>2. CASE Test(s) BY <1>2 DEF Test
<1>3. CASE Flag(s) BY <1>3 DEF Flag
<1>4. CASE Mark(s) BY <1>4 DEF Mark
<1>5. CASE Look(s) BY <1>5 DEF Look
<1>6. CASE Unmark(s) BY <1>6 DEF Unmark
<1>7. CASE Write(s) BY <1>7 DEF Write
<1> QED BY <1>1, <1>2, <1>3, <1>4, <1>5, <1>6, <1>7 DEF SenderStep

\* The steps of ev_run and of pipecb preserve it.
LEMMA WakeupLoop ==
    ASSUME WakeupInv, LoopStep
    PROVE  WakeupInv'
<1> USE DEF WakeupInv, SendersTyped, Wanted, Carried, SeenBySender, Someone,
            loopVars, worldVars, sharedVars
<1>1. CASE Top BY <1>1 DEF Top
<1>2. CASE Wait BY <1>2 DEF Wait, Timeout
<1>3. CASE Poll BY <1>3 DEF Poll
<1>4. CASE Woken BY <1>4 DEF Woken
<1>5. CASE Skip BY <1>5 DEF Skip
<1>6. CASE Invoke
  <2>1. pc = "invoke" /\ pc' \in {"invoke", "drain", "unskip", "callback"}
      BY <1>6 DEF Invoke
  <2>2. UNCHANGED <<program, sender, counter, async_pending, pipe_write_wanted, pipe_write_skipped>>
      BY <1>6 DEF Invoke
  <2> QED BY <2>1, <2>2
<1>7. CASE Again BY <1>7 DEF Again
<1>8. CASE Drain BY <1>8 DEF Drain
<1>9. CASE Unskip BY <1>9 DEF Unskip
<1>10. CASE Collect BY <1>10 DEF Collect
<1>11. CASE Feed BY <1>11 DEF Feed
<1> QED BY <1>1, <1>2, <1>3, <1>4, <1>5, <1>6, <1>7, <1>8, <1>9, <1>10, <1>11 DEF LoopStep

\* What a program does with its watchers does not touch the wake-ups.
LEMMA WakeupProgram ==
    ASSUME WakeupInv, ProgramStep \/ Return \/ Tick
                      \/ \E f \in Own, is \in SUBSET {READ, WRITE} \cup {{HUP}} : Becomes(f, is)
    PROVE  WakeupInv'
<1>1. CASE \E flag \in program.flags : Run(flag)
    BY <1>1 DEF Run, WakeupInv, SendersTyped, Wanted, Carried, SeenBySender, Someone, worldVars, sharedVars
<1>2. CASE Return
    BY <1>2 DEF Return, WakeupInv, SendersTyped, Wanted, Carried, SeenBySender, Someone, worldVars, sharedVars
<1> USE DEF wakeVars, unchangedByProgram, worldVars, loopVars, sharedVars
<1>3. CASE \E w \in program.ios : IoStart(w) \/ IoStop(w)
    BY <1>3, WakeupStutter DEF IoStart, IoStop
<1>4. CASE \E f \in Own : Close(f) \/ Open(f)
    BY <1>4, WakeupStutter DEF Close, Open
<1>5. CASE \E t \in program.timers : TimerStop(t) \/ \E delay \in program.delays : TimerStart(t, delay)
    BY <1>5, WakeupStutter DEF TimerStop, TimerStart
<1>6. CASE AsyncStart \/ AsyncStop \/ Break \/ Tick
    BY <1>6, WakeupStutter DEF AsyncStart, AsyncStop, Break, Tick
<1>7. CASE \E f \in Own, is \in SUBSET {READ, WRITE} \cup {{HUP}} : Becomes(f, is)
    BY <1>7, WakeupStutter DEF Becomes
<1> QED BY <1>1, <1>2, <1>3, <1>4, <1>5, <1>6, <1>7 DEF ProgramStep

\* However the threads that request the end of a loop and the loop that goes
\* to sleep interleave, evpipe_write and ev_run lose no wake-up.
THEOREM EventLoopNoLostWakeup == Spec => []NoLostWakeup
<1>1. Init => WakeupInv
    BY DEF Init, WakeupInv, SendersTyped, Wanted, Carried, SeenBySender, SenderPlaces
<1>2. WakeupInv /\ [Next]_vars => WakeupInv'
  <2> SUFFICES ASSUME WakeupInv, [Next]_vars PROVE WakeupInv'
      OBVIOUS
  <2>1. CASE UNCHANGED vars
      BY <2>1, WakeupStutter DEF vars, wakeVars, worldVars, loopVars, sharedVars
  <2>2. CASE LoopStep BY <2>2, WakeupLoop
  <2>3. ASSUME NEW s \in program.senders, Send(s) \/ SenderStep(s) PROVE WakeupInv'
      BY <2>3, WakeupSender, SenderOfProgram DEF WakeupInv, SendersTyped
  <2>4. CASE ProgramStep \/ Return \/ Tick
             \/ \E f \in Own, is \in SUBSET {READ, WRITE} \cup {{HUP}} : Becomes(f, is)
      BY <2>4, WakeupProgram
  <2> QED BY <2>1, <2>2, <2>3, <2>4 DEF Next
<1> QED BY <1>1, <1>2, WakeupInvImplies, PTL DEF Spec
=============================================================================
