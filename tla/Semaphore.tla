------------------------------ MODULE Semaphore ------------------------------
(***************************************************************************)
(* src/semaphore.rs: a counting semaphore on a futex, shared by Threads.   *)
(*                                                                         *)
(* Every access to `count` or `num_waiting` is a step of its own.  Both    *)
(* are AtomicU32, so fetch_add and fetch_sub work modulo Modulus.          *)
(***************************************************************************)
EXTENDS Naturals, FiniteSets, AtomicWait

CONSTANTS Threads,        \* the threads that share the semaphore
          Modulus,        \* 2^32 in the code
          InitialCount,   \* the argument of new()
          MaxCalls        \* calls a thread makes (bound)

\* There are far fewer than 2^32 threads.
ASSUME SemaphoreAssumption ==
    /\ Modulus \in Nat \ {0}
    /\ InitialCount \in 0..(Modulus - 1)
    /\ MaxCalls \in Nat
    /\ IsFiniteSet(Threads)
    /\ Cardinality(Threads) < Modulus

VARIABLES count,         \* the permits
          num_waiting,   \* the threads inside wait()
          sleepers,      \* the threads asleep in wait(&count, 0)
          pc,            \* where each thread stands
          loaded,        \* the local `count` of wait() and try_wait()
          timed,         \* the threads whose try_wait() is part of a try_wait_duration()
          calls,         \* calls made so far
          taken,         \* history: successful waits so far
          signals        \* history: fetch_adds of signal() so far

vars == <<count, num_waiting, sleepers, pc, loaded, timed, calls, taken, signals>>
history == <<taken, signals>>

Init ==
    /\ count = InitialCount
    /\ num_waiting = 0
    /\ sleepers = {}
    /\ pc = [t \in Threads |-> "idle"]
    /\ loaded = [t \in Threads |-> 0]
    /\ timed = {}
    /\ calls = [t \in Threads |-> 0]
    /\ taken = 0
    /\ signals = 0

----------------------------------------------------------------------------
\* A thread steps from one line to the next; a thread asleep does not.
Goto(t, from, to) ==
    /\ t \notin sleepers
    /\ pc[t] = from
    /\ pc' = [pc EXCEPT ![t] = to]

Call(t, to) ==
    /\ Goto(t, "idle", to)
    /\ calls[t] < MaxCalls
    /\ calls' = [calls EXCEPT ![t] = @ + 1]

\* wait(): num_waiting.fetch_add(1).
WaitEnter(t) ==
    /\ Call(t, "load")
    /\ num_waiting' = (num_waiting + 1) % Modulus
    /\ UNCHANGED <<count, sleepers, loaded, timed, history>>

\* wait(): the load of `count`, and the test for zero.
WaitLoad(t) ==
    /\ Goto(t, "load", IF count = 0 THEN "sleep" ELSE "cas")
    /\ loaded' = [loaded EXCEPT ![t] = count]
    /\ UNCHANGED <<count, num_waiting, sleepers, timed, calls, history>>

\* wait(): atomic_wait's wait(&self.count, 0).
WaitSleep(t) ==
    /\ Goto(t, "sleep", "load")
    /\ sleepers' \in FutexWait(sleepers, t, count, loaded[t])
    /\ UNCHANGED <<count, num_waiting, loaded, timed, calls, history>>

\* The local `count` goes out of scope.
Forget(t) == loaded' = [loaded EXCEPT ![t] = 0]

\* Seeded fault: a store in place of the compare_exchange_weak.
TakePermitStore(t) ==
    /\ count' = (loaded[t] + Modulus - 1) % Modulus
    /\ taken' = taken + 1
    /\ Forget(t)

\* compare_exchange_weak(loaded, loaded - 1) succeeds: a permit is taken.  The
\* subtraction is the u32's; only the tests for zero keep it from wrapping.
TakePermit(t) ==
    /\ count = loaded[t]
    /\ count' = (loaded[t] + Modulus - 1) % Modulus
    /\ taken' = taken + 1
    /\ Forget(t)

\* wait(): the compare_exchange_weak succeeds.
WaitCasOk(t) ==
    /\ Goto(t, "cas", "leave")
    /\ TakePermit(t)
    /\ UNCHANGED <<num_waiting, sleepers, timed, calls, signals>>

\* wait(): it fails, which being weak it may do at any time.
WaitCasFail(t) ==
    /\ Goto(t, "cas", "load")
    /\ Forget(t)
    /\ UNCHANGED <<count, num_waiting, sleepers, timed, calls, history>>

\* Seeded fault: wait() returns without its fetch_sub.
WaitLeaveNoSub(t) ==
    /\ Goto(t, "leave", "idle")
    /\ UNCHANGED <<num_waiting, count, sleepers, loaded, timed, calls, history>>

\* wait(): num_waiting.fetch_sub(1) and return.
WaitLeave(t) ==
    /\ Goto(t, "leave", "idle")
    /\ num_waiting' = (num_waiting + Modulus - 1) % Modulus
    /\ UNCHANGED <<count, sleepers, loaded, timed, calls, history>>

\* try_wait() is called.
TryWait(t) ==
    /\ Call(t, "try_load")
    /\ UNCHANGED <<count, num_waiting, sleepers, loaded, timed, history>>

\* try_wait_duration() is called.
TryWaitDuration(t) ==
    /\ Call(t, "deadline")
    /\ timed' = timed \cup {t}
    /\ UNCHANGED <<count, num_waiting, sleepers, loaded, history>>

\* try_wait_duration(): the clock is read; the deadline has passed or not.
Deadline(t) ==
    /\ \/ Goto(t, "deadline", "try_load") /\ UNCHANGED timed
       \/ Goto(t, "deadline", "idle") /\ timed' = timed \ {t}
    /\ UNCHANGED <<count, num_waiting, sleepers, loaded, calls, history>>

\* Where a failed try_wait() leaves its caller.
TryFailed(t) == IF t \in timed THEN "deadline" ELSE "idle"

\* Seeded fault: try_wait() goes on to the compare_exchange without its test for zero.
TryLoadUnchecked(t) ==
    /\ Goto(t, "try_load", "try_cas")
    /\ loaded' = [loaded EXCEPT ![t] = count]
    /\ UNCHANGED <<count, num_waiting, sleepers, timed, calls, history>>

\* try_wait(): the load of `count`, and the test for zero.
TryLoad(t) ==
    /\ Goto(t, "try_load", IF count = 0 THEN TryFailed(t) ELSE "try_cas")
    /\ loaded' = [loaded EXCEPT ![t] = count]
    /\ UNCHANGED <<count, num_waiting, sleepers, timed, calls, history>>

\* try_wait(): the compare_exchange_weak succeeds.
TryCasOk(t) ==
    /\ Goto(t, "try_cas", "idle")
    /\ TakePermit(t)
    /\ timed' = timed \ {t}
    /\ UNCHANGED <<num_waiting, sleepers, calls, signals>>

\* try_wait(): it fails.
TryCasFail(t) ==
    /\ Goto(t, "try_cas", TryFailed(t))
    /\ Forget(t)
    /\ UNCHANGED <<count, num_waiting, sleepers, timed, calls, history>>

\* signal(): count.fetch_add(1).
Signal(t) ==
    /\ Call(t, "signal_load")
    /\ count' = (count + 1) % Modulus
    /\ signals' = signals + 1
    /\ UNCHANGED <<num_waiting, sleepers, loaded, timed, taken>>

\* Seeded fault: signal() wakes only when more than one thread waits.
SignalLoadOffByOne(t) ==
    /\ Goto(t, "signal_load", IF num_waiting > 1 THEN "wake" ELSE "idle")
    /\ UNCHANGED <<count, num_waiting, sleepers, loaded, timed, calls, history>>

\* signal(): the load of num_waiting, and its test.
SignalLoad(t) ==
    /\ Goto(t, "signal_load", IF num_waiting > 0 THEN "wake" ELSE "idle")
    /\ UNCHANGED <<count, num_waiting, sleepers, loaded, timed, calls, history>>

\* signal(): wake_one(&self.count).
SignalWake(t) ==
    /\ Goto(t, "wake", "idle")
    /\ sleepers' \in FutexWakeOne(sleepers)
    /\ UNCHANGED <<count, num_waiting, loaded, timed, calls, history>>

\* The futex returns though nobody called wake_one().
SpuriousWake(t) ==
    /\ t \in sleepers
    /\ sleepers' = sleepers \ {t}
    /\ UNCHANGED <<count, num_waiting, pc, loaded, timed, calls, history>>

----------------------------------------------------------------------------
\* The steps a thread takes by itself once it is inside an operation.
Step(t) ==
    \/ WaitLoad(t) \/ WaitSleep(t) \/ WaitCasOk(t) \/ WaitCasFail(t) \/ WaitLeave(t)
    \/ Deadline(t) \/ TryLoad(t) \/ TryCasOk(t) \/ TryCasFail(t)
    \/ SignalLoad(t) \/ SignalWake(t)

\* The calls a thread may or may not make, and what the environment may do.
Client(t) ==
    \/ WaitEnter(t) \/ TryWait(t) \/ TryWaitDuration(t) \/ Signal(t) \/ SpuriousWake(t)

Next == \E t \in Threads : Step(t) \/ Client(t)

Spec == Init /\ [][Next]_vars

\* The operating system runs every thread that can run, and a weak compare_exchange
\* that could succeed again and again does not fail for ever.
FairSpec ==
    Spec /\ \A t \in Threads : WF_vars(Step(t)) /\ SF_vars(WaitCasOk(t))

----------------------------------------------------------------------------
\* The threads between the fetch_add and the fetch_sub of wait().
Waiting == {t \in Threads : pc[t] \in {"load", "sleep", "cas", "leave"}}

\* Those that will look at `count` again by themselves.
Looking == {t \in Threads \ sleepers : pc[t] \in {"load", "sleep", "cas"}}

\* The threads inside signal() that may still wake somebody.
Signalling == {t \in Threads : pc[t] \in {"signal_load", "wake"}}

TypeOK ==
    /\ count \in 0..(Modulus - 1)
    /\ num_waiting \in 0..(Modulus - 1)
    /\ sleepers \subseteq Threads
    /\ pc \in [Threads -> {"idle", "load", "sleep", "cas", "leave", "try_load", "try_cas",
                           "deadline", "signal_load", "wake"}]
    /\ loaded \in [Threads -> 0..(Modulus - 1)]
    /\ timed \subseteq Threads
    /\ calls \in [Threads -> 0..MaxCalls]
    /\ taken \in Nat
    /\ signals \in Nat

\* No permit is forged or lost by racing compare_exchanges: what was taken and what is
\* left add up to what was given, up to the wrap-around of fetch_add.
PermitsConserved == (taken + count) % Modulus = (InitialCount + signals) % Modulus

\* What fetch_add can do to the permits when it passes u32::MAX, and what racing tests
\* for zero must never do.  No more permits are ever taken than were given: `count`
\* never wraps downwards.  And permits are lost only by the upward wrap, that is when
\* Modulus of them had been given and not taken; short of that the count is exact.
PermitsExact ==
    /\ taken + count <= InitialCount + signals
    /\ InitialCount + signals < taken + Modulus => taken + count = InitialCount + signals

\* num_waiting is exactly the number of threads inside wait(): signal() can trust it.
WaitersCounted == num_waiting = Cardinality(Waiting)

\* No signal is lost: while threads sleep, every permit in `count` is matched by a
\* signal() that has yet to wake one of them or by a waiter that is awake and will
\* look again.  So a thread is never left asleep beside a permit nobody will take.
NoLostSignal ==
    sleepers # {} => count <= Cardinality(Signalling) + Cardinality(Looking)

\* Permits reach waiters: the semaphore never stays with a permit to give and a
\* thread inside wait().
PermitsReachWaiters ==
    (count > 0 /\ \E t \in Threads : pc[t] \in {"load", "sleep", "cas"})
        ~> (count = 0 \/ \A t \in Threads : pc[t] \notin {"load", "sleep", "cas"})
=============================================================================
