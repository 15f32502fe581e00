---------------------------- MODULE MutexV2Proofs ----------------------------
(***************************************************************************)
(* Proofs about MutexV2 for every set of threads, spin limit and number of *)
(* calls.                                                                  *)
(***************************************************************************)
EXTENDS MutexV2, TLAPS

\* What Exclusion needs beside itself to be inductive: a thread owns a guard only
\* between operations, and a sleeping thread stands in the waiting loop.
Placement ==
    /\ \A t \in Threads : guard[t] # "none" => pc[t] = "idle"
    /\ \A t \in Threads : t \in acquired <=> guard[t] # "none"
    /\ \A t \in sleepers : pc[t] = "cas_wait"

\* The inductive invariant.
IInv == TypeOK /\ Placement /\ Exclusion /\ NoLostWakeup

\* Types are preserved by every step of every operation of the mutex.
LEMMA TypeInduction == TypeOK /\ [Next]_vars => TypeOK'
<1> SUFFICES ASSUME TypeOK, [Next]_vars PROVE TypeOK'
    OBVIOUS
<1> USE MutexV2Assumption DEF TypeOK, UNLOCKED, LOCKED, LOCKED_HAS_WAITERS
<1>1. CASE UNCHANGED vars
    BY <1>1 DEF vars
<1>2. ASSUME NEW t \in Threads, Step(t) PROVE TypeOK'
    <2>1. CASE Spin(t)
        BY <2>1 DEF Spin, Goto
    <2>2. CASE CasSpin(t)
        BY <2>2 DEF CasSpin, Goto
    <2>3. CASE CasWait(t)
        BY <2>3 DEF CasWait, Goto
    <2>4. CASE Wait(t)
        BY <2>4 DEF Wait, Goto, FutexWait
    <2>5. CASE FinishLock(t)
        BY <2>5 DEF FinishLock, Goto
    <2>6. CASE DropGuard(t)
        BY <2>6 DEF DropGuard, Goto
    <2>7. CASE Swap(t)
        BY <2>7 DEF Swap, Goto
    <2>8. CASE Wake(t)
        BY <2>8 DEF Wake, Goto, FutexWakeOne
    <2>. QED
        BY <1>2, <2>1, <2>2, <2>3, <2>4, <2>5, <2>6, <2>7, <2>8 DEF Step
<1>3. ASSUME NEW t \in Threads, Client(t) PROVE TypeOK'
    <2>1. CASE Reenter(t)
        BY <2>1 DEF Reenter, Call, Goto
    <2>2. CASE LockFast(t)
        BY <2>2 DEF LockFast, Call, Goto
    <2>3. CASE LockContended(t)
        BY <2>3 DEF LockContended, Call, Goto
    <2>4. CASE TryLock(t)
        BY <2>4 DEF TryLock, Call, Goto
    <2>5. CASE ClearPoison(t)
        BY <2>5 DEF ClearPoison, Goto
    <2>6. CASE SpuriousWake(t)
        BY <2>6 DEF SpuriousWake
    <2>. QED
        BY <1>3, <2>1, <2>2, <2>3, <2>4, <2>5, <2>6 DEF Client
<1>. QED
    BY <1>1, <1>2, <1>3 DEF Next

\* Guards, the thread-local flag and the sleeping threads stay where they belong.
LEMMA PlacementInduction == TypeOK /\ Placement /\ [Next]_vars => Placement'
<1> SUFFICES ASSUME TypeOK, Placement, [Next]_vars PROVE Placement'
    OBVIOUS
<1> USE DEF TypeOK, Placement
<1>1. CASE UNCHANGED vars
    BY <1>1 DEF vars
<1>2. ASSUME NEW t \in Threads, Step(t) PROVE Placement'
    <2>1. CASE Spin(t)
        BY <2>1 DEF Spin, Goto
    <2>2. CASE CasSpin(t)
        BY <2>2 DEF CasSpin, Goto
    <2>3. CASE CasWait(t)
        BY <2>3 DEF CasWait, Goto
    <2>4. CASE Wait(t)
        BY <2>4 DEF Wait, Goto, FutexWait
    <2>5. CASE FinishLock(t)
        BY <2>5 DEF FinishLock, Goto
    <2>6. CASE DropGuard(t)
        BY <2>6 DEF DropGuard, Goto
    <2>7. CASE Swap(t)
        BY <2>7 DEF Swap, Goto
    <2>8. CASE Wake(t)
        BY <2>8 DEF Wake, Goto, FutexWakeOne
    <2>. QED
        BY <1>2, <2>1, <2>2, <2>3, <2>4, <2>5, <2>6, <2>7, <2>8 DEF Step
<1>3. ASSUME NEW t \in Threads, Client(t) PROVE Placement'
    <2>1. CASE Reenter(t)
        BY <2>1 DEF Reenter, Call, Goto
    <2>2. CASE LockFast(t)
        BY <2>2 DEF LockFast, Call, Goto
    <2>3. CASE LockContended(t)
        BY <2>3 DEF LockContended, Call, Goto
    <2>4. CASE TryLock(t)
        BY <2>4 DEF TryLock, Call, Goto
    <2>5. CASE ClearPoison(t)
        BY <2>5 DEF ClearPoison, Goto
    <2>6. CASE SpuriousWake(t)
        BY <2>6 DEF SpuriousWake
    <2>. QED
        BY <1>3, <2>1, <2>2, <2>3, <2>4, <2>5, <2>6 DEF Client
<1>. QED
    BY <1>1, <1>2, <1>3 DEF Next

\* At most one thread is inside, and `state` tells whether one is.
LEMMA ExclusionInduction == TypeOK /\ Placement /\ Exclusion /\ [Next]_vars => Exclusion'
<1> SUFFICES ASSUME TypeOK, Placement, Exclusion, [Next]_vars PROVE Exclusion'
    OBVIOUS
<1> USE DEF TypeOK, Placement, Exclusion, Owners, Owns,
           UNLOCKED, LOCKED, LOCKED_HAS_WAITERS
<1>1. CASE UNCHANGED vars
    BY <1>1 DEF vars
<1>2. ASSUME NEW t \in Threads, Step(t) PROVE Exclusion'
    <2>1. CASE Spin(t)
        BY <2>1 DEF Spin, Goto
    <2>2. CASE CasSpin(t)
        BY <2>2 DEF CasSpin, Goto
    <2>3. CASE CasWait(t)
        BY <2>3 DEF CasWait, Goto
    <2>4. CASE Wait(t)
        BY <2>4 DEF Wait, Goto, FutexWait
    <2>5. CASE FinishLock(t)
        BY <2>5 DEF FinishLock, Goto
    <2>6. CASE DropGuard(t)
        BY <2>6 DEF DropGuard, Goto
    <2>7. CASE Swap(t)
        BY <2>7 DEF Swap, Goto
    <2>8. CASE Wake(t)
        BY <2>8 DEF Wake, Goto, FutexWakeOne
    <2>. QED
        BY <1>2, <2>1, <2>2, <2>3, <2>4, <2>5, <2>6, <2>7, <2>8 DEF Step
<1>3. ASSUME NEW t \in Threads, Client(t) PROVE Exclusion'
    <2>1. CASE Reenter(t)
        BY <2>1 DEF Reenter, Call, Goto
    <2>2. CASE LockFast(t)
        BY <2>2 DEF LockFast, Call, Goto
    <2>3. CASE LockContended(t)
        BY <2>3 DEF LockContended, Call, Goto
    <2>4. CASE TryLock(t)
        BY <2>4 DEF TryLock, Call, Goto
    <2>5. CASE ClearPoison(t)
        BY <2>5 DEF ClearPoison, Goto
    <2>6. CASE SpuriousWake(t)
        BY <2>6 DEF SpuriousWake
    <2>. QED
        BY <1>3, <2>1, <2>2, <2>3, <2>4, <2>5, <2>6 DEF Client
<1>. QED
    BY <1>1, <1>2, <1>3 DEF Next

\* A sleeping thread always has somebody who will wake it.
LEMMA WakeupInduction == TypeOK /\ Placement /\ NoLostWakeup /\ [Next]_vars => NoLostWakeup'
<1> SUFFICES ASSUME TypeOK, Placement, NoLostWakeup, [Next]_vars PROVE NoLostWakeup'
    OBVIOUS
<1> USE DEF TypeOK, Placement, NoLostWakeup,
           UNLOCKED, LOCKED, LOCKED_HAS_WAITERS
<1>1. CASE UNCHANGED vars
    BY <1>1 DEF vars
<1>2. ASSUME NEW t \in Threads, Step(t) PROVE NoLostWakeup'
    <2>1. CASE Spin(t)
        BY <2>1 DEF Spin, Goto
    <2>2. CASE CasSpin(t)
        BY <2>2 DEF CasSpin, Goto
    <2>3. CASE CasWait(t)
        BY <2>3 DEF CasWait, Goto
    <2>4. CASE Wait(t)
        BY <2>4 DEF Wait, Goto, FutexWait
    <2>5. CASE FinishLock(t)
        BY <2>5 DEF FinishLock, Goto
    <2>6. CASE DropGuard(t)
        BY <2>6 DEF DropGuard, Goto
    <2>7. CASE Swap(t)
        BY <2>7 DEF Swap, Goto
    <2>8. CASE Wake(t)
        BY <2>8 DEF Wake, Goto, FutexWakeOne
    <2>. QED
        BY <1>2, <2>1, <2>2, <2>3, <2>4, <2>5, <2>6, <2>7, <2>8 DEF Step
<1>3. ASSUME NEW t \in Threads, Client(t) PROVE NoLostWakeup'
    <2>1. CASE Reenter(t)
        BY <2>1 DEF Reenter, Call, Goto
    <2>2. CASE LockFast(t)
        BY <2>2 DEF LockFast, Call, Goto
    <2>3. CASE LockContended(t)
        BY <2>3 DEF LockContended, Call, Goto
    <2>4. CASE TryLock(t)
        BY <2>4 DEF TryLock, Call, Goto
    <2>5. CASE ClearPoison(t)
        BY <2>5 DEF ClearPoison, Goto
    <2>6. CASE SpuriousWake(t)
        BY <2>6 DEF SpuriousWake
    <2>. QED
        BY <1>3, <2>1, <2>2, <2>3, <2>4, <2>5, <2>6 DEF Client
<1>. QED
    BY <1>1, <1>2, <1>3 DEF Next

\* The inductive invariant holds in every reachable state.
LEMMA Invariance == Spec => []IInv
<1>1. Init => IInv
    <2> SUFFICES ASSUME Init PROVE IInv
        OBVIOUS
    <2> USE DEF Init, UNLOCKED, LOCKED, LOCKED_HAS_WAITERS
    <2>1. TypeOK
        <3>1. 0 \in 0..SpinLimit /\ 0 \in 0..MaxCalls
            BY MutexV2Assumption
        <3>. QED
            BY <3>1 DEF TypeOK
    <2>2. Placement
        BY DEF Placement
    <2>3. Exclusion
        BY DEF Exclusion, Owners, Owns
    <2>4. NoLostWakeup
        BY DEF NoLostWakeup
    <2>. QED
        BY <2>1, <2>2, <2>3, <2>4 DEF IInv
<1>2. IInv /\ [Next]_vars => IInv'
    BY TypeInduction, PlacementInduction, ExclusionInduction, WakeupInduction DEF IInv
<1>. QED
    BY <1>1, <1>2, PTL DEF Spec

\* Type correctness: every variable keeps its type; `state` is only ever one of the
\* three values of the code, and the spin loop stops at its limit.
THEOREM TypeCorrect == Spec => []TypeOK
<1>1. IInv => TypeOK
    BY DEF IInv
<1>. QED
    BY Invariance, <1>1, PTL

\* Mutual exclusion of the futex mutex, and the word is UNLOCKED exactly when nobody
\* is inside.
THEOREM MutualExclusion == Spec => []Exclusion
<1>1. IInv => Exclusion
    BY DEF IInv
<1>. QED
    BY Invariance, <1>1, PTL

\* The thread-local set tells exactly who owns a guard, and no thread waits for a
\* mutex that it holds.
THEOREM ReentrancyCheckExact == Spec => []AcquiredMatchesGuard
<1>1. IInv => AcquiredMatchesGuard
    BY DEF IInv, TypeOK, Placement, AcquiredMatchesGuard, InLock, Owns
<1>. QED
    BY Invariance, <1>1, PTL

\* A thread asleep in wait() always has somebody who will wake it.
THEOREM WakeupsKept == Spec => []NoLostWakeup
<1>1. IInv => NoLostWakeup
    BY DEF IInv
<1>. QED
    BY Invariance, <1>1, PTL

----------------------------------------------------------------------------
\* The threads inside the mutex are the holders of the abstract mutex: each step of
\* the code is a step of AbstractMutex or leaves its variables alone.
LEMMA StepRefinement == IInv /\ IInv' /\ [Next]_vars => [Abstract!Next]_<<Owners, poisoned>>
<1> SUFFICES ASSUME IInv, IInv', [Next]_vars
             PROVE  [Abstract!Next]_<<Owners, poisoned>>
    OBVIOUS
<1> USE DEF IInv, TypeOK, Placement, Owners, Owns
<1>1. CASE UNCHANGED vars
    BY <1>1 DEF vars
<1>3. ASSUME NEW t \in Threads, Step(t)
      PROVE  [Abstract!Next]_<<Owners, poisoned>>
    <2>1. CASE Spin(t)
        BY <2>1 DEF Spin, Goto
    <2>2. CASE CasSpin(t)
        <3>1. CASE state = UNLOCKED
            <4>1. Owners = {} /\ Owners' = {t}
                BY <2>2, <3>1 DEF CasSpin, Goto, Exclusion
            <4>. QED
                BY <2>2, <4>1 DEF CasSpin, Abstract!Next, Abstract!Acquire
        <3>2. CASE state # UNLOCKED
            BY <2>2, <3>2 DEF CasSpin, Goto
        <3>. QED
            BY <3>1, <3>2
    <2>3. CASE CasWait(t)
        <3>1. CASE state = UNLOCKED
            <4>1. Owners = {} /\ Owners' = {t}
                BY <2>3, <3>1 DEF CasWait, Goto, Exclusion
            <4>. QED
                BY <2>3, <4>1 DEF CasWait, Abstract!Next, Abstract!Acquire
        <3>2. CASE state # UNLOCKED
            BY <2>3, <3>2 DEF CasWait, Goto
        <3>. QED
            BY <3>1, <3>2
    <2>4. CASE Wait(t)
        BY <2>4 DEF Wait, Goto
    <2>5. CASE FinishLock(t)
        BY <2>5 DEF FinishLock, Goto
    <2>6. CASE DropGuard(t)
        <3>1. Owners = {t} /\ Owners' = {t}
            BY <2>6 DEF DropGuard, Goto, Exclusion
        <3>. QED
            BY <2>6, <3>1 DEF DropGuard, Abstract!Next, Abstract!Poison
    <2>7. CASE Swap(t)
        <3>1. Owners = {t} /\ Owners' = {}
            BY <2>7 DEF Swap, Goto, Exclusion
        <3>. QED
            BY <2>7, <3>1 DEF Swap, Abstract!Next, Abstract!Release
    <2>8. CASE Wake(t)
        BY <2>8 DEF Wake, Goto
    <2>. QED
        BY <1>3, <2>1, <2>2, <2>3, <2>4, <2>5, <2>6, <2>7, <2>8 DEF Step
<1>4. ASSUME NEW t \in Threads, Client(t)
      PROVE  [Abstract!Next]_<<Owners, poisoned>>
    <2>1. CASE Reenter(t)
        BY <2>1 DEF Reenter, Call, Goto
    <2>2. CASE LockFast(t)
        <3>1. Owners = {} /\ Owners' = {t}
            BY <2>2 DEF LockFast, Call, Goto, Exclusion
        <3>. QED
            BY <2>2, <3>1 DEF LockFast, Abstract!Next, Abstract!Acquire
    <2>3. CASE LockContended(t)
        BY <2>3 DEF LockContended, Call, Goto
    <2>4. CASE TryLock(t)
        <3>1. CASE pc'[t] = "finish"
            <4>1. Owners = {} /\ Owners' = {t}
                BY <2>4, <3>1 DEF TryLock, Call, Goto, Exclusion
            <4>. QED
                BY <2>4, <4>1 DEF TryLock, Abstract!Next, Abstract!Acquire
        <3>2. CASE pc'[t] # "finish"
            BY <2>4, <3>2 DEF TryLock, Call, Goto
        <3>. QED
            BY <3>1, <3>2
    <2>5. CASE ClearPoison(t)
        <3>1. Owners' = Owners
            BY <2>5 DEF ClearPoison, Goto
        <3>. QED
            BY <2>5, <3>1 DEF ClearPoison, Abstract!Next, Abstract!ClearPoison
    <2>6. CASE SpuriousWake(t)
        BY <2>6 DEF SpuriousWake
    <2>. QED
        BY <1>4, <2>1, <2>2, <2>3, <2>4, <2>5, <2>6 DEF Client
<1>. QED
    BY <1>1, <1>3, <1>4 DEF Next

\* The futex mutex implements the abstract mutex: one thread inside at a time, and
\* poisoned only by the thread inside.
THEOREM Refinement == Spec => ImplementsMutex
<1>1. Init => Abstract!Init
    BY DEF Init, Abstract!Init, Owners, Owns
<1>2. IInv /\ IInv' /\ [Next]_vars => [Abstract!Next]_Abstract!absVars
    BY StepRefinement DEF Abstract!absVars
<1>. QED
    BY <1>1, <1>2, Invariance, PTL DEF Spec, ImplementsMutex, Abstract!Spec
=============================================================================
