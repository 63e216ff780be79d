----------------------------- MODULE Semaphore -----------------------------
(***************************************************************************)
(* Thread/Semaphore.c over the mutex and the condition variable of         *)
(* pthreads: a counting semaphore used by any number of threads.           *)
(***************************************************************************)
EXTENDS Naturals, FiniteSets

CONSTANTS
    Threads,
    NOBODY,
    MaxCount     \* bound: most signals not taken yet

ASSUME ThreadsAssumption == IsFiniteSet(Threads) /\ NOBODY \notin Threads

VARIABLES
    count,       \* semaphore->count
    mutex,       \* the thread that holds semaphore->mutex, or NOBODY
    pc           \* where each thread is

vars == <<count, mutex, pc>>

\* the thread runs elsewhere, or stands before the statement named
Waiting == {"wait_lock", "wait_test", "wait_blocked", "wait_relock"}
Signalling == {"signal_lock", "signal_count", "signal_notify"}
Locations == {"outside", "unlock"} \cup Waiting \cup Signalling
At(location) == {t \in Threads : pc[t] = location}

\* amqp_semaphore_initialize
Init ==
    /\ count = 0
    /\ mutex = NOBODY
    /\ pc = [t \in Threads |-> "outside"]

Goto(t, location) == pc' = [pc EXCEPT ![t] = location]

\* amqp_mutex_lock
Lock(t, from, to) ==
    /\ pc[t] = from
    /\ mutex = NOBODY
    /\ mutex' = t
    /\ Goto(t, to)
    /\ UNCHANGED count

\* amqp_mutex_unlock, the end of both functions
Unlock(t) ==
    /\ pc[t] = "unlock"
    /\ mutex' = NOBODY
    /\ Goto(t, "outside")
    /\ UNCHANGED count

-----------------------------------------------------------------------------
\* amqp_semaphore_wait
CallWait(t) ==
    /\ pc[t] = "outside"
    /\ Goto(t, "wait_lock")
    /\ UNCHANGED <<count, mutex>>

WaitLock(t) == Lock(t, "wait_lock", "wait_test")

\* Mutant of ConditionWait: the thread blocks without another test.
ConditionWaitAlways(t) ==
    /\ pc[t] = "wait_test"
    /\ mutex' = NOBODY
    /\ Goto(t, "wait_blocked")
    /\ UNCHANGED count

\* amqp_condition_wait: the mutex is released and the thread blocks in one step
ConditionWait(t) ==
    /\ pc[t] = "wait_test"
    /\ count = 0
    /\ mutex' = NOBODY
    /\ Goto(t, "wait_blocked")
    /\ UNCHANGED count

\* pthread_cond_wait may return when nobody signalled
SpuriousWakeup(t) ==
    /\ pc[t] = "wait_blocked"
    /\ Goto(t, "wait_relock")
    /\ UNCHANGED <<count, mutex>>

\* the end of amqp_condition_wait; count is tested again
Relock(t) == Lock(t, "wait_relock", "wait_test")

Take(t) ==
    /\ pc[t] = "wait_test"
    /\ count # 0
    /\ count' = count - 1
    /\ Goto(t, "unlock")
    /\ UNCHANGED mutex

-----------------------------------------------------------------------------
\* amqp_semaphore_signal
CallSignal(t) ==
    /\ pc[t] = "outside"
    /\ count + Cardinality(At("signal_lock")) + Cardinality(At("signal_count")) < MaxCount
    /\ Goto(t, "signal_lock")
    /\ UNCHANGED <<count, mutex>>

SignalLock(t) == Lock(t, "signal_lock", "signal_count")

SignalCount(t) ==
    /\ pc[t] = "signal_count"
    /\ count' = count + 1
    /\ Goto(t, "signal_notify")
    /\ UNCHANGED mutex

\* Mutant of SignalNotify: nobody is woken.
SignalNotifyNobody(t) ==
    /\ pc[t] = "signal_notify"
    /\ Goto(t, "unlock")
    /\ UNCHANGED <<count, mutex>>

\* amqp_condition_notify: pthread_cond_signal wakes one blocked thread, or more
SignalNotify(t) ==
    /\ pc[t] = "signal_notify"
    /\ \E woken \in SUBSET At("wait_blocked") :
          /\ At("wait_blocked") # {} => woken # {}
          /\ pc' = [u \in Threads |-> IF u = t THEN "unlock"
                                      ELSE IF u \in woken THEN "wait_relock" ELSE pc[u]]
    /\ UNCHANGED <<count, mutex>>

-----------------------------------------------------------------------------
\* what a thread does once it called one of the functions
Step(t) == \/ WaitLock(t) \/ ConditionWait(t) \/ Relock(t) \/ Take(t)
           \/ SignalLock(t) \/ SignalCount(t) \/ SignalNotify(t) \/ Unlock(t)

Next == \E t \in Threads : CallWait(t) \/ CallSignal(t) \/ SpuriousWakeup(t) \/ Step(t)

Spec == Init /\ [][Next]_vars

\* a thread that is not blocked runs
FairSpec == Spec /\ \A t \in Threads : WF_vars(Step(t))

-----------------------------------------------------------------------------
TypeOK ==
    /\ count \in Nat
    /\ mutex \in Threads \cup {NOBODY}
    /\ pc \in [Threads -> Locations]

(***************************************************************************)
(* amqp_semaphore_wait, amqp_semaphore_signal: count is tested and changed *)
(* by one thread at a time, and the thread that blocks has let go of the   *)
(* mutex.                                                                  *)
(***************************************************************************)
Exclusive ==
    \A t \in Threads :
        pc[t] \in {"wait_test", "signal_count", "signal_notify", "unlock"} <=> mutex = t

\* the threads that will look at count, or wake a thread that will
Attentive == UNION {At(l) : l \in {"wait_lock", "wait_test", "wait_relock", "signal_notify"}}

(***************************************************************************)
(* amqp_condition_notify wakes one thread for each signal: while threads   *)
(* are blocked there is a thread on its way to count for each signal that  *)
(* was not taken, though woken threads, spuriously woken ones and ones     *)
(* that just arrived all race for the signals.                             *)
(***************************************************************************)
NoLostWakeup == At("wait_blocked") # {} => count <= Cardinality(Attentive)

(***************************************************************************)
(* The semaphore keeps the promise of CountingSemaphore: a wait takes a    *)
(* signal that was sent, and a signal is taken when threads wait.          *)
(***************************************************************************)
Promise == INSTANCE CountingSemaphore WITH
               waiting <- {t \in Threads : pc[t] \in Waiting}
PromiseKept == Promise!Spec
SignalTaken == Promise!FairSpec
=============================================================================
