------------------------------- MODULE CondVar -------------------------------
(***************************************************************************)
(* src/condvar.rs: a condition variable, composed with the mutex its       *)
(* wait() unlocks and locks again.                                         *)
(*                                                                         *)
(* The mutex is a mutex v.1, taken as the AbstractMutex it is proved to    *)
(* implement in MutexV1Proofs.  Both words of the CondVar are AtomicU32:   *)
(* fetch_add and fetch_sub work modulo Modulus.                            *)
(***************************************************************************)
EXTENDS Naturals, FiniteSets, AtomicWait

CONSTANTS Threads,    \* the threads that share the CondVar and the mutex
          Modulus,    \* 2^32 in the code
          MaxCalls    \* calls of wait(), notify_one() and notify_all() a thread makes (bound)

\* There are far fewer than 2^32 threads.
ASSUME CondVarAssumption ==
    /\ Modulus \in Nat \ {0}
    /\ MaxCalls \in Nat
    /\ IsFiniteSet(Threads)
    /\ Cardinality(Threads) < Modulus

VARIABLES counter,    \* the notifications so far
          waiting,    \* the threads inside wait()
          sleepers,   \* the threads asleep in wait(&counter, state)
          holders,    \* the mutex: the thread that owns its guard
          poisoned,   \* the mutex: a holder has panicked
          pc,         \* where each thread stands
          state,      \* the local of wait()
          calls,      \* calls made so far
          since,      \* history: notifications since a thread loaded `state`
          woken       \* history: threads woken by a notification in that time

vars == <<counter, waiting, sleepers, holders, poisoned, pc, state, calls, since, woken>>
mutexVars == <<holders, poisoned>>
history == <<since, woken>>

Mutex == INSTANCE AbstractMutex

Init ==
    /\ counter = 0
    /\ waiting = 0
    /\ sleepers = {}
    /\ Mutex!Init
    /\ pc = [t \in Threads |-> "idle"]
    /\ state = [t \in Threads |-> 0]
    /\ calls = [t \in Threads |-> 0]
    /\ since = [t \in Threads |-> 0]
    /\ woken = [t \in Threads |-> 0]

----------------------------------------------------------------------------
\* A thread steps from one line to the next; a thread asleep does not.
Goto(t, from, to) ==
    /\ t \notin sleepers
    /\ pc[t] = from
    /\ pc' = [pc EXCEPT ![t] = to]

\* Where a thread is between two calls: it owns the guard of the mutex or it does not.
Outside(t) == IF t \in holders THEN "held" ELSE "idle"

Call(t, to) ==
    /\ Goto(t, Outside(t), to)
    /\ calls[t] < MaxCalls
    /\ calls' = [calls EXCEPT ![t] = @ + 1]

\* A user locks the mutex.  When it is poisoned, unwrap() panics with the guard; a user may
\* also take the guard out of the error.
Lock(t) ==
    /\ Goto(t, "idle", "held") \/ (poisoned /\ Goto(t, "idle", "unwind"))
    /\ Mutex!Acquire(t)
    /\ UNCHANGED <<counter, waiting, sleepers, state, calls, history>>

\* The guard is dropped.
Unlock(t) ==
    /\ Goto(t, "held", "idle")
    /\ Mutex!Release(t)
    /\ UNCHANGED <<counter, waiting, sleepers, state, calls, history>>

\* The user's code panics while it owns the guard.
Panic(t) ==
    /\ Goto(t, "held", "unwind")
    /\ UNCHANGED <<counter, waiting, sleepers, mutexVars, state, calls, history>>

\* The drop of a guard on an unwinding thread poisons the mutex ...
PoisonMutex(t) ==
    /\ Goto(t, "unwind", "unlock_dead")
    /\ Mutex!Poison(t)
    /\ UNCHANGED <<counter, waiting, sleepers, state, calls, history>>

\* ... and unlocks it; the thread is gone.
Die(t) ==
    /\ Goto(t, "unlock_dead", "dead")
    /\ Mutex!Release(t)
    /\ UNCHANGED <<counter, waiting, sleepers, state, calls, history>>

\* wait(): counter.load(), under the mutex.
WaitLoad(t) ==
    /\ t \in holders
    /\ Call(t, "add")
    /\ state' = [state EXCEPT ![t] = counter]
    /\ UNCHANGED <<counter, waiting, sleepers, mutexVars, history>>

\* Seeded fault: wait() without its fetch_add.
WaitAddNothing(t) ==
    /\ Goto(t, "add", "unlock")
    /\ UNCHANGED <<waiting, counter, sleepers, mutexVars, state, calls, history>>

\* wait(): waiting.fetch_add(1).
WaitAdd(t) ==
    /\ Goto(t, "add", "unlock")
    /\ waiting' = (waiting + 1) % Modulus
    /\ UNCHANGED <<counter, sleepers, mutexVars, state, calls, history>>

\* wait(): mutex_guard.unlock().
WaitUnlock(t) ==
    /\ Goto(t, "unlock", "sleep")
    /\ Mutex!Release(t)
    /\ UNCHANGED <<counter, waiting, sleepers, state, calls, history>>

\* Seeded fault: the futex gets a fresh value of the counter.
WaitSleepReload(t) ==
    /\ Goto(t, "sleep", "sub")
    /\ sleepers' \in FutexWait(sleepers, t, counter, counter)
    /\ UNCHANGED <<counter, waiting, mutexVars, state, calls, history>>

\* wait(): atomic_wait's wait(&self.counter, state).
WaitSleep(t) ==
    /\ Goto(t, "sleep", "sub")
    /\ sleepers' \in FutexWait(sleepers, t, counter, state[t])
    /\ UNCHANGED <<counter, waiting, mutexVars, state, calls, history>>

\* wait(): waiting.fetch_sub(1).  The local and the history have served.
WaitSub(t) ==
    /\ Goto(t, "sub", "relock")
    /\ waiting' = (waiting + Modulus - 1) % Modulus
    /\ state' = [state EXCEPT ![t] = 0]
    /\ since' = [since EXCEPT ![t] = 0]
    /\ woken' = [woken EXCEPT ![t] = 0]
    /\ UNCHANGED <<counter, sleepers, mutexVars, calls>>

\* wait(): mutex.lock().unwrap(), and return with the guard unless it panics.
WaitRelock(t) ==
    /\ Goto(t, "relock", IF poisoned THEN "unwind" ELSE "held")
    /\ Mutex!Acquire(t)
    /\ UNCHANGED <<counter, waiting, sleepers, state, calls, history>>

\* The threads that have read the counter and not come back from the futex.
Blocking == sleepers \cup {t \in Threads : pc[t] \in {"add", "unlock", "sleep"}}

\* counter.fetch_add(1), noted for every thread it may concern.
Notify ==
    /\ counter' = (counter + 1) % Modulus
    /\ since' = [u \in Threads |-> IF u \in Blocking THEN since[u] + 1 ELSE 0]

\* notify_one(): the fetch_add.  The caller may or may not own the guard.
NotifyOne(t) ==
    /\ Call(t, "wake_one")
    /\ Notify
    /\ UNCHANGED <<waiting, sleepers, mutexVars, state, woken>>

\* A notification woke the threads that are no longer asleep.
CountWoken ==
    woken' = [u \in Threads |->
                IF u \in Blocking THEN woken[u] + Cardinality(sleepers \ sleepers') ELSE 0]

\* notify_one(): wake_one(&self.counter).
WakeOne(t) ==
    /\ Goto(t, "wake_one", Outside(t))
    /\ sleepers' \in FutexWakeOne(sleepers)
    /\ CountWoken
    /\ UNCHANGED <<counter, waiting, mutexVars, state, calls, since>>

\* notify_all(): the fetch_add.
NotifyAll(t) ==
    /\ Call(t, "load")
    /\ Notify
    /\ UNCHANGED <<waiting, sleepers, mutexVars, state, woken>>

\* Seeded fault: a single waiter is overlooked.
LoadWaitingOffByOne(t) ==
    /\ Goto(t, "load", IF waiting > 1 THEN "wake_all" ELSE Outside(t))
    /\ UNCHANGED <<counter, waiting, sleepers, mutexVars, state, calls, history>>

\* notify_all(): the load of `waiting`, and its test.
LoadWaiting(t) ==
    /\ Goto(t, "load", IF waiting # 0 THEN "wake_all" ELSE Outside(t))
    /\ UNCHANGED <<counter, waiting, sleepers, mutexVars, state, calls, history>>

\* notify_all(): wake_all(&self.counter).
WakeAll(t) ==
    /\ Goto(t, "wake_all", Outside(t))
    /\ sleepers' \in FutexWakeAll(sleepers)
    /\ CountWoken
    /\ UNCHANGED <<counter, waiting, mutexVars, state, calls, since>>

\* The futex returns though nobody woke the thread.
SpuriousWake(t) ==
    /\ t \in sleepers
    /\ sleepers' = sleepers \ {t}
    /\ UNCHANGED <<counter, waiting, mutexVars, pc, state, calls, history>>

----------------------------------------------------------------------------
\* The steps a thread takes by itself once it is inside an operation.
Step(t) ==
    \/ WaitAdd(t) \/ WaitUnlock(t) \/ WaitSleep(t) \/ WaitSub(t) \/ WaitRelock(t)
    \/ WakeOne(t) \/ LoadWaiting(t) \/ WakeAll(t)
    \/ PoisonMutex(t) \/ Die(t)

\* What the users may or may not do, and what the environment may do.
Client(t) ==
    \/ Lock(t) \/ Unlock(t) \/ Panic(t)
    \/ WaitLoad(t) \/ NotifyOne(t) \/ NotifyAll(t) \/ SpuriousWake(t)

\* Anyone may call clear_poison() of the mutex at any time.
ClearPoison ==
    /\ Mutex!ClearPoison
    /\ UNCHANGED <<counter, waiting, sleepers, pc, state, calls, history>>

Next ==
    \/ \E t \in Threads : Step(t) \/ Client(t)
    \/ ClearPoison

Spec == Init /\ [][Next]_vars

\* The operating system runs every thread that can run.  Nothing is asked of the mutex:
\* a thread at `relock` may wait for ever.
FairSpec == Spec /\ \A t \in Threads : WF_vars(Step(t))

----------------------------------------------------------------------------
\* The threads between the fetch_add and the fetch_sub of wait().
Waiting == {t \in Threads : pc[t] \in {"unlock", "sleep", "sub"}}

\* The threads inside a notification that have yet to wake somebody.
Notifying == {t \in Threads : pc[t] \in {"wake_one", "load", "wake_all"}}

\* `waiting` is exactly the number of threads inside wait(), also when a thread panics on
\* its way out: notify_all() can rely on it to skip the system call.
WaitingCounted == waiting = Cardinality(Waiting)

\* No notification is lost on a sleeper, wherever it came between the load of the counter
\* and the sleep: each one since then has woken a thread or is still about to.  Only a full
\* turn of the counter can defeat it.
NoLostNotification ==
    \A t \in sleepers :
        since[t] < Modulus => since[t] <= Cardinality(Notifying) + woken[t]

\* notify_all() ends every wait() that has read the counter before it: no thread stays in
\* the futex, short of a full turn of the counter.
NotifyAllEndsWaits ==
    \A t \in Threads :
        (t \in Blocking /\ since[t] > 0 /\ \E n \in Threads : pc[n] = "load")
            ~> (t \notin Blocking \/ since[t] >= Modulus)
=============================================================================
