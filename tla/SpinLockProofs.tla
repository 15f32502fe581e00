--------------------------- MODULE SpinLockProofs ---------------------------
(***************************************************************************)
(* Proofs about SpinLock for every set of threads and number of calls.     *)
(***************************************************************************)
EXTENDS SpinLock, TLAPS

\* The inductive invariant.
IInv == TypeOK /\ OwnerInWord

\* The invariant is preserved by every step of the lock.
LEMMA Induction == IInv /\ [Next]_vars => IInv'
<1> SUFFICES ASSUME IInv, [Next]_vars PROVE IInv'
    OBVIOUS
<1> USE SpinLockAssumption DEF IInv, TypeOK, OwnerInWord, InLock
<1>1. CASE UNCHANGED vars
    BY <1>1 DEF vars
<1>2. ASSUME NEW t \in Threads, Reenter(t) PROVE IInv'
    BY <1>2 DEF Reenter, Call, Goto
<1>3. ASSUME NEW t \in Threads, Lock(t) PROVE IInv'
    BY <1>3 DEF Lock, Call, Goto
<1>4. ASSUME NEW t \in Threads, SpinLoad(t) PROVE IInv'
    BY <1>4 DEF SpinLoad, Goto
<1>5. ASSUME NEW t \in Threads, CasOk(t) PROVE IInv'
    BY <1>5 DEF CasOk, Goto
<1>6. ASSUME NEW t \in Threads, CasFail(t) PROVE IInv'
    BY <1>6 DEF CasFail, Goto
<1>7. ASSUME NEW t \in Threads, DropGuard(t) PROVE IInv'
    BY <1>7 DEF DropGuard, Goto
<1>. QED
    BY <1>1, <1>2, <1>3, <1>4, <1>5, <1>6, <1>7 DEF Next, Step

\* The inductive invariant holds in every reachable state.
LEMMA Invariance == Spec => []IInv
<1>1. Init => IInv
    <2>1. 0 \in 0..MaxCalls
        BY SpinLockAssumption
    <2>. QED
        BY <2>1, SpinLockAssumption DEF Init, IInv, TypeOK, OwnerInWord, InLock
<1>. QED
    BY <1>1, Induction, PTL DEF Spec

\* Type correctness.
THEOREM TypeCorrect == Spec => []TypeOK
<1>1. IInv => TypeOK
    BY DEF IInv
<1>. QED
    BY Invariance, <1>1, PTL

\* The word names exactly the thread that owns a guard.
THEOREM OwnerExact == Spec => []OwnerInWord
<1>1. IInv => OwnerInWord
    BY DEF IInv
<1>. QED
    BY Invariance, <1>1, PTL

\* The spinning lock implements the abstract mutex.
THEOREM Refinement == Spec => ImplementsMutex
<1>1. Init => Abstract!Init
    BY DEF Init, Abstract!Init
<1>2. IInv /\ [Next]_vars => [Abstract!Next]_Abstract!absVars
    <2> SUFFICES ASSUME IInv, [Next]_vars PROVE [Abstract!Next]_<<guard, FALSE>>
        BY DEF Abstract!absVars
    <2> USE SpinLockAssumption DEF IInv, TypeOK, OwnerInWord
    <2>1. ASSUME NEW t \in Threads, CasOk(t) PROVE Abstract!Next
        <3>1. guard = {} /\ guard' = {t}
            BY <2>1 DEF CasOk
        <3>. QED
            BY <3>1 DEF Abstract!Next, Abstract!Acquire
    <2>2. ASSUME NEW t \in Threads, DropGuard(t) PROVE Abstract!Next
        <3>1. guard = {t} /\ guard' = {}
            BY <2>2 DEF DropGuard
        <3>. QED
            BY <3>1 DEF Abstract!Next, Abstract!Release
    <2>. QED
        BY <2>1, <2>2 DEF Next, Step, vars, Reenter, Lock, SpinLoad, CasFail
<1>. QED
    BY <1>1, <1>2, Invariance, PTL DEF Spec, ImplementsMutex, Abstract!Spec
=============================================================================
