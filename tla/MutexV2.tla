------------------------------- MODULE MutexV2 -------------------------------
(***************************************************************************)
(* src/mutex_v2.rs: the futex based mutex.  One mutex, shared by Threads.  *)
(*                                                                         *)
(* Every access to the atomic `state` is a step of its own; accesses to    *)
(* thread-local data (ACQUIRED_BY_THREAD) are merged with the access that  *)
(* follows them.  The protected data and the mutex id are left out.        *)
(***************************************************************************)
EXTENDS Naturals, AtomicWait

CONSTANTS Threads,     \* the threads that share the mutex
          SpinLimit,   \* iterations of the spin loop of lock(): 100 in the code
          MaxCalls     \* calls of lock() and try_lock() a thread makes (bound)

ASSUME MutexV2Assumption == SpinLimit \in Nat /\ MaxCalls \in Nat

UNLOCKED == 0
LOCKED == 1
LOCKED_HAS_WAITERS == 2

VARIABLES state,      \* the atomic word
          poisoned,   \* the UnsafeCell<bool>
          acquired,   \* the threads whose ACQUIRED_BY_THREAD holds this mutex's id
          sleepers,   \* the threads asleep in wait(&state, _)
          pc,         \* where each thread stands in lock() or drop()
          spins,      \* `counter` of lock()
          guard,      \* the MutexGuard a thread owns: "none", "Ok" or "Poisoned"
          calls       \* calls made so far

vars == <<state, poisoned, acquired, sleepers, pc, spins, guard, calls>>

Init ==
    /\ state = UNLOCKED
    /\ poisoned = FALSE
    /\ acquired = {}
    /\ sleepers = {}
    /\ pc = [t \in Threads |-> "idle"]
    /\ spins = [t \in Threads |-> 0]
    /\ guard = [t \in Threads |-> "none"]
    /\ calls = [t \in Threads |-> 0]

----------------------------------------------------------------------------
\* A thread steps from one line to the next; a thread asleep in wait() does not.
Goto(t, from, to) ==
    /\ t \notin sleepers
    /\ pc[t] = from
    /\ pc' = [pc EXCEPT ![t] = to]

\* A thread outside every operation starts one of its calls.
Call(t, to) ==
    /\ Goto(t, "idle", to)
    /\ calls[t] < MaxCalls
    /\ calls' = [calls EXCEPT ![t] = @ + 1]

\* lock() and try_lock() return Err(WouldBlock) to the thread that holds the mutex.
Reenter(t) ==
    /\ t \in acquired
    /\ Call(t, "idle")
    /\ UNCHANGED <<state, poisoned, acquired, sleepers, spins, guard>>

\* lock(): acquired_check() passes and the first compare_exchange_weak succeeds.
LockFast(t) ==
    /\ t \notin acquired
    /\ state = UNLOCKED
    /\ state' = LOCKED
    /\ Call(t, "finish")
    /\ UNCHANGED <<poisoned, acquired, sleepers, spins, guard>>

\* lock(): the first compare_exchange_weak fails; being weak, it may do so whatever
\* the state is.
LockContended(t) ==
    /\ t \notin acquired
    /\ Call(t, "spin")
    /\ spins' = [spins EXCEPT ![t] = 0]
    /\ UNCHANGED <<state, poisoned, acquired, sleepers, guard>>

\* Seeded fault: the spin loop of lock() forgets its limit.
SpinUnbounded(t) ==
    /\ IF state # UNLOCKED
       THEN /\ Goto(t, "spin", "spin")
            /\ spins' = [spins EXCEPT ![t] = @ + 1]
       ELSE /\ Goto(t, "spin", "cas_spin")
            /\ UNCHANGED spins
    /\ UNCHANGED <<state, poisoned, acquired, sleepers, guard, calls>>

\* One evaluation of the condition of the spin loop.
Spin(t) ==
    /\ IF spins[t] < SpinLimit /\ state # UNLOCKED
       THEN /\ Goto(t, "spin", "spin")
            /\ spins' = [spins EXCEPT ![t] = @ + 1]
       ELSE /\ Goto(t, "spin", "cas_spin")
            /\ UNCHANGED spins
    /\ UNCHANGED <<state, poisoned, acquired, sleepers, guard, calls>>

\* The compare_exchange(UNLOCKED, LOCKED) after the spin loop.
CasSpin(t) ==
    /\ IF state = UNLOCKED
       THEN Goto(t, "cas_spin", "finish") /\ state' = LOCKED
       ELSE Goto(t, "cas_spin", "cas_wait") /\ UNCHANGED state
    /\ UNCHANGED <<poisoned, acquired, sleepers, spins, guard, calls>>

\* The compare_exchange(UNLOCKED, LOCKED_HAS_WAITERS) of the waiting loop.
CasWait(t) ==
    /\ IF state = UNLOCKED
       THEN Goto(t, "cas_wait", "finish") /\ state' = LOCKED_HAS_WAITERS
       ELSE Goto(t, "cas_wait", "wait") /\ UNCHANGED state
    /\ UNCHANGED <<poisoned, acquired, sleepers, spins, guard, calls>>

\* wait(&self.state, LOCKED_HAS_WAITERS) of the waiting loop.
Wait(t) ==
    /\ Goto(t, "wait", "cas_wait")
    /\ sleepers' \in FutexWait(sleepers, t, state, LOCKED_HAS_WAITERS)
    /\ UNCHANGED <<state, poisoned, acquired, spins, guard, calls>>

\* set_acquired(), is_poisoned() and the return of a guard, in lock() and try_lock().
FinishLock(t) ==
    /\ Goto(t, "finish", "idle")
    /\ acquired' = acquired \cup {t}
    /\ guard' = [guard EXCEPT ![t] = IF poisoned THEN "Poisoned" ELSE "Ok"]
    /\ UNCHANGED <<state, poisoned, sleepers, spins, calls>>

\* Seeded fault: try_lock() stores LOCKED instead of comparing first.
TryLockUnchecked(t) ==
    /\ t \notin acquired
    /\ \/ Call(t, "finish") /\ state' = LOCKED
       \/ Call(t, "idle") /\ UNCHANGED state
    /\ UNCHANGED <<poisoned, acquired, sleepers, spins, guard>>

\* try_lock(): acquired_check() and a compare_exchange_weak, which may fail at any
\* time; a failure returns Err(WouldBlock).
TryLock(t) ==
    /\ t \notin acquired
    /\ \/ Call(t, "finish") /\ state = UNLOCKED /\ state' = LOCKED
       \/ Call(t, "idle") /\ UNCHANGED state
    /\ UNCHANGED <<poisoned, acquired, sleepers, spins, guard>>

\* Seeded fault: drop() forgets remove_acquired().
DropGuardNoRemove(t) ==
    /\ guard[t] # "none"
    /\ Goto(t, "idle", "swap")
    /\ guard' = [guard EXCEPT ![t] = "none"]
    /\ \E panicking \in BOOLEAN : poisoned' = (poisoned \/ panicking)
    /\ UNCHANGED <<acquired, state, sleepers, spins, calls>>

\* Drop for MutexGuard, up to the swap: a panicking thread poisons the mutex.
DropGuard(t) ==
    /\ guard[t] # "none"
    /\ Goto(t, "idle", "swap")
    /\ guard' = [guard EXCEPT ![t] = "none"]
    /\ \E panicking \in BOOLEAN : poisoned' = (poisoned \/ panicking)
    /\ acquired' = acquired \ {t}
    /\ UNCHANGED <<state, sleepers, spins, calls>>

\* Seeded fault: drop() wakes nobody.
SwapNoWake(t) ==
    /\ Goto(t, "swap", "idle")
    /\ state' = UNLOCKED
    /\ UNCHANGED <<poisoned, acquired, sleepers, spins, guard, calls>>

\* state.swap(UNLOCKED), and the test of what was there.
Swap(t) ==
    /\ Goto(t, "swap", IF state = LOCKED_HAS_WAITERS THEN "wake" ELSE "idle")
    /\ state' = UNLOCKED
    /\ UNCHANGED <<poisoned, acquired, sleepers, spins, guard, calls>>

\* wake_one(&self.lock.state).
Wake(t) ==
    /\ Goto(t, "wake", "idle")
    /\ sleepers' \in FutexWakeOne(sleepers)
    /\ UNCHANGED <<state, poisoned, acquired, spins, guard, calls>>

\* clear_poison(): takes no lock.
ClearPoison(t) ==
    /\ Goto(t, "idle", "idle")
    /\ poisoned
    /\ poisoned' = FALSE
    /\ UNCHANGED <<state, acquired, sleepers, spins, guard, calls>>

\* wait() returns though nobody called wake_one().
SpuriousWake(t) ==
    /\ t \in sleepers
    /\ sleepers' = sleepers \ {t}
    /\ UNCHANGED <<state, poisoned, acquired, pc, spins, guard, calls>>

----------------------------------------------------------------------------
\* The steps a thread takes by itself once it is inside lock() or owns a guard.
Step(t) ==
    \/ Spin(t) \/ CasSpin(t) \/ CasWait(t) \/ Wait(t) \/ FinishLock(t)
    \/ DropGuard(t) \/ Swap(t) \/ Wake(t)

\* The calls a thread may or may not make, and what the environment may do.
Client(t) ==
    \/ Reenter(t) \/ LockFast(t) \/ LockContended(t) \/ TryLock(t)
    \/ ClearPoison(t) \/ SpuriousWake(t)

Next == \E t \in Threads : Step(t) \/ Client(t)

Spec == Init /\ [][Next]_vars

\* The operating system runs every thread that can run, and the users of the mutex
\* drop the guards they are given.
FairSpec == Spec /\ \A t \in Threads : WF_vars(Step(t))

----------------------------------------------------------------------------
\* The thread has changed `state` from UNLOCKED and not yet swapped it back.
Owns(t) == pc[t] \in {"finish", "swap"} \/ guard[t] # "none"

Owners == {t \in Threads : Owns(t)}

\* The thread is inside lock() and does not own the mutex yet.
InLock(t) == pc[t] \in {"spin", "cas_spin", "cas_wait", "wait"}

TypeOK ==
    /\ state \in {UNLOCKED, LOCKED, LOCKED_HAS_WAITERS}
    /\ poisoned \in BOOLEAN
    /\ acquired \subseteq Threads
    /\ sleepers \subseteq Threads
    /\ pc \in [Threads -> {"idle", "spin", "cas_spin", "cas_wait", "wait",
                           "finish", "swap", "wake"}]
    /\ spins \in [Threads -> 0..SpinLimit]
    /\ guard \in [Threads -> {"none", "Ok", "Poisoned"}]
    /\ calls \in [Threads -> 0..MaxCalls]

\* Mutual exclusion, and the word says whether somebody is inside: UNLOCKED exactly
\* when no thread is between its successful compare_exchange and its swap.
Exclusion ==
    /\ \A t, u \in Owners : t = u
    /\ (state = UNLOCKED) <=> (Owners = {})

\* ACQUIRED_BY_THREAD never goes stale: the flag is set for exactly the threads that
\* own a guard.  So lock() refuses no thread that could acquire, and no thread waits
\* for a mutex that it holds itself.
AcquiredMatchesGuard ==
    /\ \A t \in Threads : t \in acquired <=> guard[t] # "none"
    /\ \A t \in Threads : InLock(t) => ~Owns(t)

\* No wake-up is lost, although lock() never turns LOCKED into LOCKED_HAS_WAITERS:
\* while a thread sleeps in wait(), the word tells the holder to wake somebody, or
\* a wake_one() is under way, or a thread of the waiting loop is awake (it will
\* acquire with LOCKED_HAS_WAITERS and wake the next one).
NoLostWakeup ==
    sleepers # {} =>
        \/ state = LOCKED_HAS_WAITERS
        \/ \E t \in Threads : pc[t] = "wake"
        \/ \E t \in Threads \ sleepers : pc[t] \in {"cas_wait", "wait"}

\* The mutex implements the abstract one.
Abstract == INSTANCE AbstractMutex WITH holders <- Owners, poisoned <- poisoned

ImplementsMutex == Abstract!Spec

\* Every lock() returns when the holders drop their guards and the threads make
\* finitely many calls: no thread spins or sleeps forever.
EveryLockReturns == \A t \in Threads : InLock(t) ~> ~InLock(t)
=============================================================================
