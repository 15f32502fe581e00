------------------------------- MODULE MutexV1 -------------------------------
(***************************************************************************)
(* src/mutex_v1.rs: the mutex that parks its waiters in a queue of its own. *)
(* One mutex, shared by Threads.                                           *)
(*                                                                         *)
(* `state` holds the id of the owner; the queue of parked threads is       *)
(* guarded by a second, spinning lock, `queue_is_accessed`.  Every access  *)
(* to an atomic is a step of its own.  A loop that only waits for          *)
(* queue_is_accessed to become false is a step guarded by that condition.  *)
(* The protected data are left out.                                        *)
(***************************************************************************)
EXTENDS Naturals, Sequences

CONSTANTS Threads,      \* the threads that share the mutex
          NoThread,     \* 0: what thread_id::get() never returns
          SpinLimit,    \* failed looks at `state` before a thread parks: 100 in the code
          MaxCalls,     \* calls of lock() and try_lock() a thread makes (bound)
          MaxSpurious   \* times park() returns without a token, in all (bound)

ASSUME MutexV1Assumption ==
    /\ NoThread \notin Threads
    /\ SpinLimit \in Nat \ {0}
    /\ MaxCalls \in Nat
    /\ MaxSpurious \in Nat

VARIABLES state,               \* NoThread, or the thread that holds the mutex
          queue_is_accessed,   \* the spinning lock of the queue
          queue,               \* VecDeque<Thread>
          poisoned,            \* the UnsafeCell<bool>
          token,               \* the threads whose unpark token is set
          pc,                  \* where each thread stands in lock() or drop()
          spin_counter,        \* the local of lock()
          thread_to_unpark,    \* the local of dequeue_thread()
          guard,               \* the MutexGuard a thread owns: "none", "Ok" or "Poisoned"
          calls,               \* calls made so far
          spurious             \* spurious returns of park() so far

vars == <<state, queue_is_accessed, queue, poisoned, token, pc, spin_counter,
          thread_to_unpark, guard, calls, spurious>>

\* What the queue and its lock are made of, and what the spinning part of lock() uses.
queueVars == <<queue_is_accessed, queue, thread_to_unpark>>
bounds == <<calls, spurious>>

Init ==
    /\ state = NoThread
    /\ queue_is_accessed = FALSE
    /\ queue = <<>>
    /\ poisoned = FALSE
    /\ token = {}
    /\ pc = [t \in Threads |-> "idle"]
    /\ spin_counter = [t \in Threads |-> 0]
    /\ thread_to_unpark = [t \in Threads |-> NoThread]
    /\ guard = [t \in Threads |-> "none"]
    /\ calls = [t \in Threads |-> 0]
    /\ spurious = 0

----------------------------------------------------------------------------
Goto(t, from, to) ==
    /\ pc[t] = from
    /\ pc' = [pc EXCEPT ![t] = to]

\* A thread outside every operation starts one of its calls.
Call(t, to) ==
    /\ Goto(t, "idle", to)
    /\ calls[t] < MaxCalls
    /\ calls' = [calls EXCEPT ![t] = @ + 1]

\* lock() and try_lock() find the caller's own id in `state`: Err(WouldBlock).
Reenter(t) ==
    /\ state = t
    /\ Call(t, "idle")
    /\ UNCHANGED <<state, queueVars, poisoned, token, spin_counter, guard, spurious>>

\* lock() finds another value in `state` and enters its loop.
Lock(t) ==
    /\ state # t
    /\ Call(t, "spin")
    /\ spin_counter' = [spin_counter EXCEPT ![t] = 0]
    /\ UNCHANGED <<state, queueVars, poisoned, token, guard, spurious>>

\* Seeded fault: the inner loop of lock() never gives up.
SpinLoadUnbounded(t) ==
    /\ IF state = NoThread
       THEN Goto(t, "spin", "cas") /\ UNCHANGED spin_counter
       ELSE /\ spin_counter' = [spin_counter EXCEPT ![t] = @ + 1]
            /\ Goto(t, "spin", "spin")
    /\ UNCHANGED <<state, queueVars, poisoned, token, guard, bounds>>

\* One look at `state` in the inner loop of lock().
SpinLoad(t) ==
    /\ IF state = NoThread
       THEN Goto(t, "spin", "cas") /\ UNCHANGED spin_counter
       ELSE /\ spin_counter' = [spin_counter EXCEPT ![t] = @ + 1]
            /\ Goto(t, "spin", IF spin_counter[t] + 1 < SpinLimit THEN "spin" ELSE "enqueue")
    /\ UNCHANGED <<state, queueVars, poisoned, token, guard, bounds>>

\* compare_exchange_weak(0, current_thread) succeeds.
CasOk(t) ==
    /\ state = NoThread
    /\ state' = t
    /\ Goto(t, "cas", "finish")
    /\ UNCHANGED <<queueVars, poisoned, token, spin_counter, guard, bounds>>

\* It fails, which being weak it may do whatever `state` is; spin_counter stays.
CasFail(t) ==
    /\ Goto(t, "cas", "spin")
    /\ UNCHANGED <<state, queueVars, poisoned, token, spin_counter, guard, bounds>>

\* is_poisoned() and the return of a guard, in lock() and try_lock().
FinishLock(t) ==
    /\ Goto(t, "finish", "idle")
    /\ guard' = [guard EXCEPT ![t] = IF poisoned THEN "Poisoned" ELSE "Ok"]
    /\ UNCHANGED <<state, queueVars, poisoned, token, spin_counter, bounds>>

\* Seeded fault: try_lock() stores its id instead of comparing first.
TryLockUnchecked(t) ==
    /\ state # t
    /\ \/ Call(t, "finish") /\ state' = t
       \/ Call(t, "idle") /\ state # NoThread /\ UNCHANGED state
    /\ UNCHANGED <<queueVars, poisoned, token, spin_counter, guard, spurious>>

\* try_lock(): a compare_exchange that succeeds or returns Err(WouldBlock).
TryLock(t) ==
    /\ state # t
    /\ \/ Call(t, "finish") /\ state = NoThread /\ state' = t
       \/ Call(t, "idle") /\ state # NoThread /\ UNCHANGED state
    /\ UNCHANGED <<queueVars, poisoned, token, spin_counter, guard, spurious>>

\* Seeded fault: the queue is entered without waiting for its lock.
AcquireQueueUnchecked(t) ==
    /\ queue_is_accessed' = TRUE
    /\ Goto(t, "enqueue", "push") \/ Goto(t, "dequeue", "pop")
    /\ UNCHANGED <<state, queue, thread_to_unpark, poisoned, token, spin_counter, guard, bounds>>

\* enqueue_thread() and dequeue_thread() take the spinning lock of the queue.
AcquireQueue(t) ==
    /\ ~queue_is_accessed
    /\ queue_is_accessed' = TRUE
    /\ Goto(t, "enqueue", "push") \/ Goto(t, "dequeue", "pop")
    /\ UNCHANGED <<state, queue, thread_to_unpark, poisoned, token, spin_counter, guard, bounds>>

\* enqueue_thread(): push_back and release of the queue; park() comes next.
Push(t) ==
    /\ Goto(t, "push", "park")
    /\ queue' = Append(queue, t)
    /\ queue_is_accessed' = FALSE
    /\ UNCHANGED <<state, thread_to_unpark, poisoned, token, spin_counter, guard, bounds>>

\* park() returns and consumes the token; lock() starts over.
Park(t) ==
    /\ t \in token
    /\ token' = token \ {t}
    /\ Goto(t, "park", "spin")
    /\ spin_counter' = [spin_counter EXCEPT ![t] = 0]
    /\ UNCHANGED <<state, queueVars, poisoned, guard, bounds>>

\* park() may return without a token; the thread's entry stays in the queue.
SpuriousPark(t) ==
    /\ spurious < MaxSpurious
    /\ spurious' = spurious + 1
    /\ Goto(t, "park", "spin")
    /\ spin_counter' = [spin_counter EXCEPT ![t] = 0]
    /\ UNCHANGED <<state, queueVars, poisoned, token, guard, calls>>

\* Drop for MutexGuard, up to the store: a panicking thread poisons the mutex.
DropGuard(t) ==
    /\ guard[t] # "none"
    /\ Goto(t, "idle", "store")
    /\ guard' = [guard EXCEPT ![t] = "none"]
    /\ \E panicking \in BOOLEAN : poisoned' = (poisoned \/ panicking)
    /\ UNCHANGED <<state, queueVars, token, spin_counter, bounds>>

\* state.store(0); dequeue_thread() comes next.
Store(t) ==
    /\ Goto(t, "store", "dequeue")
    /\ state' = NoThread
    /\ UNCHANGED <<queueVars, poisoned, token, spin_counter, guard, bounds>>

\* Seeded fault: dequeue_thread() empties the queue instead of popping one thread.
PopClear(t) ==
    /\ IF queue = <<>>
       THEN Goto(t, "pop", "idle") /\ UNCHANGED <<queue, thread_to_unpark>>
       ELSE /\ Goto(t, "pop", "unpark")
            /\ thread_to_unpark' = [thread_to_unpark EXCEPT ![t] = Head(queue)]
            /\ queue' = <<>>
    /\ queue_is_accessed' = FALSE
    /\ UNCHANGED <<state, poisoned, token, spin_counter, guard, bounds>>

\* Seeded fault: dequeue_thread() returns early from an empty queue and keeps its lock.
PopKeepsLock(t) ==
    /\ IF queue = <<>>
       THEN Goto(t, "pop", "idle") /\ UNCHANGED <<queue, thread_to_unpark>>
       ELSE /\ Goto(t, "pop", "unpark")
            /\ thread_to_unpark' = [thread_to_unpark EXCEPT ![t] = Head(queue)]
            /\ queue' = Tail(queue)
    /\ queue_is_accessed' = (queue = <<>>)
    /\ UNCHANGED <<state, poisoned, token, spin_counter, guard, bounds>>

\* dequeue_thread(): pop_front if there is a waiter, and release of the queue.
Pop(t) ==
    /\ IF queue = <<>>
       THEN Goto(t, "pop", "idle") /\ UNCHANGED <<queue, thread_to_unpark>>
       ELSE /\ Goto(t, "pop", "unpark")
            /\ thread_to_unpark' = [thread_to_unpark EXCEPT ![t] = Head(queue)]
            /\ queue' = Tail(queue)
    /\ queue_is_accessed' = FALSE
    /\ UNCHANGED <<state, poisoned, token, spin_counter, guard, bounds>>

\* t.unpark(): sets the token, or leaves it set.
Unpark(t) ==
    /\ Goto(t, "unpark", "idle")
    /\ token' = token \cup {thread_to_unpark[t]}
    /\ thread_to_unpark' = [thread_to_unpark EXCEPT ![t] = NoThread]
    /\ UNCHANGED <<state, queue_is_accessed, queue, poisoned, spin_counter, guard, bounds>>

\* clear_poison(): takes no lock.
ClearPoison(t) ==
    /\ Goto(t, "idle", "idle")
    /\ poisoned
    /\ poisoned' = FALSE
    /\ UNCHANGED <<state, queueVars, token, spin_counter, guard, bounds>>

----------------------------------------------------------------------------
\* The steps a thread takes by itself once it is inside lock() or owns a guard.
Step(t) ==
    \/ SpinLoad(t) \/ CasOk(t) \/ CasFail(t) \/ FinishLock(t)
    \/ AcquireQueue(t) \/ Push(t) \/ Park(t)
    \/ DropGuard(t) \/ Store(t) \/ Pop(t) \/ Unpark(t)

\* The calls a thread may or may not make, and what the environment may do.
Client(t) == Reenter(t) \/ Lock(t) \/ TryLock(t) \/ ClearPoison(t) \/ SpuriousPark(t)

Next == \E t \in Threads : Step(t) \/ Client(t)

Spec == Init /\ [][Next]_vars

\* The operating system runs every thread that can run, the users drop the guards
\* they are given, and a weak compare_exchange does not fail for ever on a free mutex.
FairSpec ==
    Spec /\ \A t \in Threads : WF_vars(Step(t)) /\ SF_vars(CasOk(t))

----------------------------------------------------------------------------
\* The thread has stored its id in `state` and not yet stored 0.
Owns(t) == pc[t] \in {"finish", "store"} \/ guard[t] # "none"

Owners == {t \in Threads : Owns(t)}

\* The thread is inside lock() and does not own the mutex yet.
InLock(t) == pc[t] \in {"spin", "cas", "enqueue", "push", "park"}

\* The thread is inside drop().
InDrop(t) == pc[t] \in {"store", "dequeue", "pop", "unpark"}

\* The thread reads or writes the VecDeque.
AccessesQueue(t) == pc[t] \in {"push", "pop"}

TypeOK ==
    /\ state \in Threads \cup {NoThread}
    /\ queue_is_accessed \in BOOLEAN
    /\ queue \in Seq(Threads)
    /\ poisoned \in BOOLEAN
    /\ token \subseteq Threads
    /\ pc \in [Threads -> {"idle", "spin", "cas", "finish", "enqueue", "push", "park",
                           "store", "dequeue", "pop", "unpark"}]
    /\ spin_counter \in [Threads -> 0..SpinLimit]
    /\ thread_to_unpark \in [Threads -> Threads \cup {NoThread}]
    /\ guard \in [Threads -> {"none", "Ok", "Poisoned"}]
    /\ calls \in [Threads -> 0..MaxCalls]
    /\ spurious \in 0..MaxSpurious

\* `state` names the thread that is inside, and no other is: the mutex is exclusive,
\* and the reentrancy test of lock() (state == current_thread) answers for exactly
\* the thread that would wait for itself.
OwnerInState == \A t \in Threads : Owns(t) <=> state = t

\* The VecDeque is reached through an UnsafeCell; queue_is_accessed makes every
\* access exclusive.
QueueExclusive ==
    /\ \A t, u \in Threads : AccessesQueue(t) /\ AccessesQueue(u) => t = u
    /\ queue_is_accessed <=> \E t \in Threads : AccessesQueue(t)

\* A thread in park() can still be reached: its token is set, or it is in the queue,
\* or an unlocking thread has taken it out and is about to unpark it.
ParkedIsReachable ==
    \A t \in Threads : pc[t] = "park" =>
        \/ t \in token
        \/ \E i \in 1..Len(queue) : queue[i] = t
        \/ \E u \in Threads : pc[u] = "unpark" /\ thread_to_unpark[u] = t

\* The mutex implements the abstract one.
Abstract == INSTANCE AbstractMutex WITH holders <- Owners, poisoned <- poisoned

ImplementsMutex == Abstract!Spec

\* Dropping a guard always ends: the unlocking thread gets the queue's lock.
EveryDropReturns == \A t \in Threads : InDrop(t) ~> ~InDrop(t)

\* Every lock() returns when the holders drop their guards and the threads make
\* finitely many calls.  The code does not keep this: see the README.
EveryLockReturns == \A t \in Threads : InLock(t) ~> ~InLock(t)
=============================================================================
