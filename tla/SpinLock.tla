------------------------------ MODULE SpinLock ------------------------------
(***************************************************************************)
(* src/spinlock.rs: the spinning lock, shared by Threads.  Every access to *)
(* `locking_thread` is a step of its own.  There is no poisoning: a thread *)
(* that panics drops its guard like any other.                             *)
(***************************************************************************)
EXTENDS Naturals

CONSTANTS Threads,    \* the threads that share the lock
          NoThread,   \* 0: what thread_id::get() never returns
          MaxCalls    \* calls of lock() a thread makes (bound)

ASSUME SpinLockAssumption == NoThread \notin Threads /\ MaxCalls \in Nat

VARIABLES locking_thread,   \* NoThread, or the thread that holds the lock
          pc,               \* where each thread stands in lock()
          guard,            \* the threads that own a SpinGuard
          calls             \* calls made so far

vars == <<locking_thread, pc, guard, calls>>

Init ==
    /\ locking_thread = NoThread
    /\ pc = [t \in Threads |-> "idle"]
    /\ guard = {}
    /\ calls = [t \in Threads |-> 0]

----------------------------------------------------------------------------
Goto(t, from, to) ==
    /\ pc[t] = from
    /\ pc' = [pc EXCEPT ![t] = to]

Call(t, to) ==
    /\ Goto(t, "idle", to)
    /\ calls[t] < MaxCalls
    /\ calls' = [calls EXCEPT ![t] = @ + 1]

\* lock() finds the caller's own id and panics.  The guard is dropped if the unwinding
\* passes it, which is DropGuard, or outlives the panic if somebody catches it before.
Reenter(t) ==
    /\ locking_thread = t
    /\ Call(t, "idle")
    /\ UNCHANGED <<locking_thread, guard>>

\* lock() finds another value and enters its loop.
Lock(t) ==
    /\ locking_thread # t
    /\ Call(t, "spin")
    /\ UNCHANGED <<locking_thread, guard>>

\* One look at `locking_thread` in the loop.
SpinLoad(t) ==
    /\ Goto(t, "spin", IF locking_thread = NoThread THEN "cas" ELSE "spin")
    /\ UNCHANGED <<locking_thread, guard, calls>>

\* Seeded fault: a store in place of the compare_exchange_weak.
CasOkUnchecked(t) ==
    /\ locking_thread' = t
    /\ Goto(t, "cas", "idle")
    /\ guard' = guard \cup {t}
    /\ UNCHANGED calls

\* compare_exchange_weak(0, current_thread) succeeds, and lock() returns a guard.
CasOk(t) ==
    /\ locking_thread = NoThread
    /\ locking_thread' = t
    /\ Goto(t, "cas", "idle")
    /\ guard' = guard \cup {t}
    /\ UNCHANGED calls

\* It fails, which being weak it may do at any time.
CasFail(t) ==
    /\ Goto(t, "cas", "spin")
    /\ UNCHANGED <<locking_thread, guard, calls>>

\* Seeded fault: the drop of a guard leaves the word alone.
DropGuardNoStore(t) ==
    /\ t \in guard
    /\ Goto(t, "idle", "idle")
    /\ guard' = guard \ {t}
    /\ UNCHANGED <<locking_thread, calls>>

\* Drop for SpinGuard.
DropGuard(t) ==
    /\ t \in guard
    /\ Goto(t, "idle", "idle")
    /\ guard' = guard \ {t}
    /\ locking_thread' = NoThread
    /\ UNCHANGED calls

----------------------------------------------------------------------------
\* The steps a thread takes by itself once it is inside lock() or owns a guard.
Step(t) == SpinLoad(t) \/ CasOk(t) \/ CasFail(t) \/ DropGuard(t)

Next == \E t \in Threads : Step(t) \/ Reenter(t) \/ Lock(t)

Spec == Init /\ [][Next]_vars

\* The operating system runs every thread that can run, the users drop the guards
\* they are given, and a compare_exchange_weak does not fail for ever on a free lock.
FairSpec ==
    Spec /\ \A t \in Threads : WF_vars(Step(t)) /\ SF_vars(CasOk(t))

----------------------------------------------------------------------------
InLock(t) == pc[t] \in {"spin", "cas"}

TypeOK ==
    /\ locking_thread \in Threads \cup {NoThread}
    /\ pc \in [Threads -> {"idle", "spin", "cas"}]
    /\ guard \subseteq Threads
    /\ calls \in [Threads -> 0..MaxCalls]

\* The word names exactly the thread that owns a guard.  So at most one does, lock()
\* panics for no thread but the one that would wait for itself, and no thread that
\* owns a guard spins.
OwnerInWord ==
    /\ \A t \in Threads : t \in guard <=> locking_thread = t
    /\ \A t \in guard : ~InLock(t)

\* The lock implements the abstract mutex; nothing poisons it.
Abstract == INSTANCE AbstractMutex WITH holders <- guard, poisoned <- FALSE

ImplementsMutex == Abstract!Spec

\* Every lock() that does not panic returns when the holders drop their guards and
\* the threads make finitely many calls.
EveryLockReturns == \A t \in Threads : InLock(t) ~> ~InLock(t)
=============================================================================
