-------------------------- MODULE SemaphoreProofs --------------------------
(***************************************************************************)
(* Proofs about Semaphore, for any number of threads and any bound on the  *)
(* count.                                                                  *)
(***************************************************************************)
EXTENDS Semaphore, TLAPS, FiniteSetTheorems

\* The inductive invariant.
IInv == TypeOK /\ Exclusive /\ NoLostWakeup

(***************************************************************************)
(* The threads on their way to count are finitely many.                    *)
(***************************************************************************)
LEMMA AttentiveFinite ==
    /\ IsFiniteSet(Attentive) /\ IsFiniteSet(Attentive')
    /\ Cardinality(Attentive) \in Nat /\ Cardinality(Attentive') \in Nat
<1>1. Attentive \subseteq Threads /\ Attentive' \subseteq Threads
  BY DEF Attentive, At
<1>2. IsFiniteSet(Attentive) /\ IsFiniteSet(Attentive')
  BY <1>1, ThreadsAssumption, FS_Subset
<1> QED BY <1>2, FS_CardinalityType

(***************************************************************************)
(* Type correctness is kept by every step.                                 *)
(***************************************************************************)
LEMMA TypeStep ==
    ASSUME TypeOK, [Next]_vars
    PROVE  TypeOK'
<1>1. CASE UNCHANGED vars
  BY <1>1 DEF TypeOK, vars
<1>2. ASSUME NEW t \in Threads, CallWait(t) \/ CallSignal(t) \/ SpuriousWakeup(t)
      PROVE  TypeOK'
  BY <1>2 DEF TypeOK, CallWait, CallSignal, SpuriousWakeup, Goto, Locations, Waiting, Signalling
<1>3. ASSUME NEW t \in Threads, WaitLock(t) \/ Relock(t) \/ SignalLock(t)
      PROVE  TypeOK'
  BY <1>3 DEF TypeOK, WaitLock, Relock, SignalLock, Lock, Goto, Locations, Waiting, Signalling
<1>4. ASSUME NEW t \in Threads, ConditionWait(t) \/ Unlock(t)
      PROVE  TypeOK'
  BY <1>4 DEF TypeOK, ConditionWait, Unlock, Goto, Locations, Waiting, Signalling
<1>5. ASSUME NEW t \in Threads, Take(t) \/ SignalCount(t)
      PROVE  TypeOK'
  <2>1. count' \in Nat
    BY <1>5 DEF TypeOK, Take, SignalCount
  <2> QED BY <1>5, <2>1 DEF TypeOK, Take, SignalCount, Goto, Locations, Waiting, Signalling
<1>6. ASSUME NEW t \in Threads, SignalNotify(t)
      PROVE  TypeOK'
  BY <1>6 DEF TypeOK, SignalNotify, Locations, Waiting, Signalling
<1> QED BY <1>1, <1>2, <1>3, <1>4, <1>5, <1>6 DEF Next, Step

(***************************************************************************)
(* Mutual exclusion is kept by every step.                                 *)
(***************************************************************************)
LEMMA ExclusiveStep ==
    ASSUME TypeOK, Exclusive, [Next]_vars
    PROVE  Exclusive'
<1>0. NOBODY \notin Threads
  BY ThreadsAssumption
<1>1. CASE UNCHANGED vars
  BY <1>1 DEF Exclusive, vars
<1>2. ASSUME NEW t \in Threads, CallWait(t) \/ CallSignal(t) \/ SpuriousWakeup(t)
      PROVE  Exclusive'
  BY <1>2 DEF TypeOK, Exclusive, CallWait, CallSignal, SpuriousWakeup, Goto
<1>3. ASSUME NEW t \in Threads, WaitLock(t) \/ Relock(t) \/ SignalLock(t)
      PROVE  Exclusive'
  BY <1>0, <1>3 DEF TypeOK, Exclusive, WaitLock, Relock, SignalLock, Lock, Goto
<1>4. ASSUME NEW t \in Threads, ConditionWait(t) \/ Unlock(t)
      PROVE  Exclusive'
  BY <1>0, <1>4 DEF TypeOK, Exclusive, ConditionWait, Unlock, Goto
<1>5. ASSUME NEW t \in Threads, Take(t) \/ SignalCount(t)
      PROVE  Exclusive'
  BY <1>5 DEF TypeOK, Exclusive, Take, SignalCount, Goto
<1>6. ASSUME NEW t \in Threads, SignalNotify(t)
      PROVE  Exclusive'
  BY <1>6 DEF TypeOK, Exclusive, SignalNotify, At
<1> QED BY <1>1, <1>2, <1>3, <1>4, <1>5, <1>6 DEF Next, Step

(***************************************************************************)
(* A step that blocks nobody, takes no attentive thread away and leaves    *)
(* the count alone keeps NoLostWakeup.                                     *)
(***************************************************************************)
LEMMA NoneLost ==
    ASSUME TypeOK, NoLostWakeup, count' = count,
           At("wait_blocked")' \subseteq At("wait_blocked"), Attentive \subseteq Attentive'
    PROVE  NoLostWakeup'
<1>1. Cardinality(Attentive) <= Cardinality(Attentive')
  BY AttentiveFinite, FS_Subset
<1> QED BY <1>1, AttentiveFinite DEF TypeOK, NoLostWakeup

(***************************************************************************)
(* No step loses a wakeup.                                                 *)
(***************************************************************************)
LEMMA WakeupStep ==
    ASSUME TypeOK, NoLostWakeup, [Next]_vars
    PROVE  NoLostWakeup'
<1>1. CASE UNCHANGED vars
  BY <1>1 DEF NoLostWakeup, vars, At, Attentive
<1>2. ASSUME NEW t \in Threads,
             \/ CallWait(t) \/ CallSignal(t) \/ SpuriousWakeup(t)
             \/ WaitLock(t) \/ Relock(t) \/ SignalLock(t) \/ Unlock(t)
      PROVE  NoLostWakeup'
  <2>1. count' = count
    BY <1>2 DEF CallWait, CallSignal, SpuriousWakeup, WaitLock, Relock, SignalLock, Lock, Unlock
  <2>2. At("wait_blocked")' \subseteq At("wait_blocked")
    BY <1>2 DEF CallWait, CallSignal, SpuriousWakeup, WaitLock, Relock, SignalLock, Lock,
                Unlock, Goto, At, TypeOK
  <2>3. Attentive \subseteq Attentive'
    BY <1>2 DEF CallWait, CallSignal, SpuriousWakeup, WaitLock, Relock, SignalLock, Lock,
                Unlock, Goto, At, Attentive, TypeOK
  <2> QED BY <2>1, <2>2, <2>3, NoneLost
<1>3. ASSUME NEW t \in Threads, ConditionWait(t)
      PROVE  NoLostWakeup'
  BY <1>3, AttentiveFinite DEF ConditionWait, NoLostWakeup
<1>4. ASSUME NEW t \in Threads, Take(t)
      PROVE  NoLostWakeup'
  <2>1. t \in Attentive /\ Attentive' = Attentive \ {t}
    BY <1>4 DEF Take, Goto, At, Attentive, TypeOK
  <2>2. Cardinality(Attentive') = Cardinality(Attentive) - 1
    BY <2>1, AttentiveFinite, FS_RemoveElement
  <2>3. At("wait_blocked")' = At("wait_blocked")
    BY <1>4 DEF Take, Goto, At, TypeOK
  <2>4. count' = count - 1
    BY <1>4 DEF Take
  <2> QED BY <2>2, <2>3, <2>4, AttentiveFinite DEF NoLostWakeup, TypeOK
<1>5. ASSUME NEW t \in Threads, SignalCount(t)
      PROVE  NoLostWakeup'
  <2>1. t \notin Attentive /\ Attentive' = Attentive \cup {t}
    BY <1>5 DEF SignalCount, Goto, At, Attentive, TypeOK
  <2>2. Cardinality(Attentive') = Cardinality(Attentive) + 1
    BY <2>1, AttentiveFinite, FS_AddElement
  <2>3. At("wait_blocked")' = At("wait_blocked")
    BY <1>5 DEF SignalCount, Goto, At, TypeOK
  <2>4. count' = count + 1
    BY <1>5 DEF SignalCount
  <2> QED BY <2>2, <2>3, <2>4, AttentiveFinite DEF NoLostWakeup, TypeOK
<1>6. ASSUME NEW t \in Threads, SignalNotify(t)
      PROVE  NoLostWakeup'
  <2>1. PICK woken \in SUBSET At("wait_blocked") :
          /\ At("wait_blocked") # {} => woken # {}
          /\ pc' = [u \in Threads |-> IF u = t THEN "unlock"
                                      ELSE IF u \in woken THEN "wait_relock" ELSE pc[u]]
    BY <1>6 DEF SignalNotify
  <2>2. pc[t] = "signal_notify" /\ count' = count
    BY <1>6 DEF SignalNotify
  <2>3. At("wait_blocked")' \subseteq At("wait_blocked")
    BY <2>1 DEF At
  <2>4. CASE At("wait_blocked") = {}
    BY <2>3, <2>4 DEF NoLostWakeup
  <2>5. CASE At("wait_blocked") # {}
    <3>1. PICK w \in woken : TRUE
      BY <2>1, <2>5
    <3>2. w \in Threads /\ pc[w] = "wait_blocked" /\ w # t
      BY <2>1, <2>2, <3>1 DEF At
    <3>3. t \in Attentive /\ w \notin Attentive
      BY <2>2, <3>2 DEF Attentive, At
    <3> DEFINE A == Attentive \ {t}
               B == A \cup {w}
    <3>4. B \subseteq Attentive'
      BY <2>1, <2>2, <3>1, <3>2 DEF Attentive, At
    <3>5. IsFiniteSet(A) /\ Cardinality(A) = Cardinality(Attentive) - 1
      BY <3>3, AttentiveFinite, FS_RemoveElement
    <3>6. w \notin A
      BY <3>3
    <3> HIDE DEF A
    <3>7. Cardinality(B) = Cardinality(A) + 1
      BY <3>5, <3>6, FS_AddElement
    <3> HIDE DEF B
    <3>8. Cardinality(B) <= Cardinality(Attentive')
      BY <3>4, AttentiveFinite, FS_Subset
    <3> QED BY <2>2, <2>5, <3>5, <3>7, <3>8, AttentiveFinite DEF NoLostWakeup, TypeOK
  <2> QED BY <2>4, <2>5
<1> QED BY <1>1, <1>2, <1>3, <1>4, <1>5, <1>6 DEF Next, Step

(***************************************************************************)
(* The invariant holds from amqp_semaphore_initialize on.                  *)
(***************************************************************************)
LEMMA Invariance == Spec => []IInv
<1>1. Init => IInv
  BY ThreadsAssumption DEF Init, IInv, TypeOK, Exclusive, NoLostWakeup, At, Locations
<1>2. IInv /\ [Next]_vars => IInv'
  BY TypeStep, ExclusiveStep, WakeupStep DEF IInv
<1> QED BY <1>1, <1>2, PTL DEF Spec

-----------------------------------------------------------------------------
(***************************************************************************)
(* Thread/Semaphore.c: count is tested and changed under the mutex, and    *)
(* there is a thread on its way to each signal not taken while threads are *)
(* blocked, for any number of threads.                                     *)
(***************************************************************************)
THEOREM SemaphoreSafe == Spec => [](TypeOK /\ Exclusive /\ NoLostWakeup)
<1>1. IInv => TypeOK /\ Exclusive /\ NoLostWakeup
  BY DEF IInv
<1> QED BY <1>1, Invariance, PTL

(***************************************************************************)
(* Thread/Semaphore.c implements CountingSemaphore: every step that tests, *)
(* blocks or wakes is invisible, the count is taken when it is not 0.      *)
(***************************************************************************)
THEOREM SemaphoreKeepsPromise == Spec => PromiseKept
<1> DEFINE waiting == {t \in Threads : pc[t] \in Waiting}
<1>1. Init => Promise!Init
  BY DEF Init, Promise!Init, Waiting
<1>2. TypeOK /\ [Next]_vars => [Promise!Next]_Promise!vars
  <2> SUFFICES ASSUME TypeOK, [Next]_vars
               PROVE  [Promise!Next]_Promise!vars
    OBVIOUS
  <2>1. CASE UNCHANGED vars
    BY <2>1 DEF vars, Promise!vars
  <2>2. ASSUME NEW t \in Threads, CallWait(t)
        PROVE  Promise!Request(t)
    <3>1. t \notin waiting /\ waiting' = waiting \cup {t}
      BY <2>2 DEF TypeOK, CallWait, Goto, Waiting
    <3> QED BY <2>2, <3>1 DEF CallWait, Promise!Request
  <2>3. ASSUME NEW t \in Threads, Take(t)
        PROVE  Promise!Acquire(t)
    <3>1. t \in waiting /\ waiting' = waiting \ {t}
      BY <2>3 DEF TypeOK, Take, Goto, Waiting
    <3>2. count > 0 /\ count' = count - 1
      BY <2>3 DEF TypeOK, Take
    <3> QED BY <3>1, <3>2 DEF Promise!Acquire
  <2>4. ASSUME NEW t \in Threads, SignalCount(t)
        PROVE  Promise!Release
    <3>1. waiting' = waiting
      BY <2>4 DEF TypeOK, SignalCount, Goto, Waiting
    <3> QED BY <2>4, <3>1 DEF SignalCount, Promise!Release
  <2>5. ASSUME NEW t \in Threads,
               \/ CallSignal(t) \/ SpuriousWakeup(t) \/ WaitLock(t) \/ ConditionWait(t)
               \/ Relock(t) \/ SignalLock(t) \/ Unlock(t)
        PROVE  UNCHANGED Promise!vars
    <3>1. waiting' = waiting
      BY <2>5 DEF TypeOK, CallSignal, SpuriousWakeup, WaitLock, ConditionWait, Relock,
                  SignalLock, Lock, Unlock, Goto, Waiting
    <3>2. count' = count
      BY <2>5 DEF CallSignal, SpuriousWakeup, WaitLock, ConditionWait, Relock,
                  SignalLock, Lock, Unlock
    <3> QED BY <3>1, <3>2 DEF Promise!vars
  <2>6. ASSUME NEW t \in Threads, SignalNotify(t)
        PROVE  UNCHANGED Promise!vars
    <3>1. waiting' = waiting
      BY <2>6 DEF TypeOK, SignalNotify, At, Waiting
    <3> QED BY <2>6, <3>1 DEF SignalNotify, Promise!vars
  <2> QED BY <2>1, <2>2, <2>3, <2>4, <2>5, <2>6 DEF Next, Step, Promise!Next
<1>3. IInv => TypeOK
  BY DEF IInv
<1> QED BY <1>1, <1>2, <1>3, Invariance, PTL DEF Spec, PromiseKept, Promise!Spec
=============================================================================
