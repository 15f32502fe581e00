------------------------------- MODULE RwLock -------------------------------
(***************************************************************************)
(* src/rwlock.rs: the read-write lock.  One lock, shared by Threads.       *)
(*                                                                         *)
(* `state` is MAX while a writer is inside; otherwise it is twice the      *)
(* number of readers inside, plus 1 when a writer has asked the readers to *)
(* make way.  Every access to an atomic is a step of its own; tests of     *)
(* locals and accesses to thread-local data are merged with the access     *)
(* before or after them.  The protected data, the id, and the choice       *)
(* between Ok(guard) and Err(Poisoned(guard)) are left out: the caller     *)
(* owns the guard either way.                                              *)
(***************************************************************************)
EXTENDS Integers, FiniteSets, AtomicWait

CONSTANTS Threads,          \* the threads that share the lock
          MAX,              \* u32::MAX in the code
          OverflowChecks,   \* is `state + 2` checked, as in a debug build?
          MaxCalls          \* calls a thread makes (bound)

\* u32::MAX is odd, and there are no more than u32::MAX threads.
ASSUME RwLockAssumption ==
    /\ MAX \in Nat
    /\ MAX > 2
    /\ MAX % 2 = 1
    /\ OverflowChecks \in BOOLEAN
    /\ MaxCalls \in Nat
    /\ IsFiniteSet(Threads)
    /\ Cardinality(Threads) <= MAX

VARIABLES state,             \* see above
          writers_number,    \* writes finished so far; writers sleep on it
          waiting_writers,   \* the live WaitingWriterGuards
          poisoned,          \* the UnsafeCell<bool>
          acquired,          \* the threads whose ACQUIRED_BY_THREAD holds this lock's id
          stateSleepers,     \* the threads asleep in wait(&state, _)
          writerSleepers,    \* the threads asleep in wait(&writers_number, _)
          pc,                \* where each thread stands
          seen,              \* the local `state` of each operation
          wc,                \* the local of write()
          guard,             \* the guard a thread owns: "none", "read" or "write"
          calls              \* calls made so far

vars == <<state, writers_number, waiting_writers, poisoned, acquired, stateSleepers,
          writerSleepers, pc, seen, wc, guard, calls>>

\* What only waiting and unlocking touch, and what only the users do.
waitVars == <<writers_number, waiting_writers, stateSleepers, writerSleepers, wc>>
userVars == <<poisoned, acquired, guard>>

Init ==
    /\ state = 0
    /\ writers_number = 0
    /\ waiting_writers = 0
    /\ poisoned = FALSE
    /\ acquired = {}
    /\ stateSleepers = {}
    /\ writerSleepers = {}
    /\ pc = [t \in Threads |-> "idle"]
    /\ seen = [t \in Threads |-> 0]
    /\ wc = [t \in Threads |-> 0]
    /\ guard = [t \in Threads |-> "none"]
    /\ calls = [t \in Threads |-> 0]

----------------------------------------------------------------------------
IsOdd(n) == n % 2 = 1

\* A thread steps from one line to the next; a thread asleep does not.
Goto(t, from, to) ==
    /\ t \notin stateSleepers \cup writerSleepers
    /\ pc[t] = from
    /\ pc' = [pc EXCEPT ![t] = to]

Call(t, to) ==
    /\ Goto(t, "idle", to)
    /\ calls[t] < MaxCalls
    /\ calls' = [calls EXCEPT ![t] = @ + 1]

\* The local `state` is what an atomic access has just returned.
See(t) == seen' = [seen EXCEPT ![t] = state]

\* The four operations return Err(WouldBlock) to a thread that owns a guard.
Reenter(t) ==
    /\ t \in acquired
    /\ Call(t, "idle")
    /\ UNCHANGED <<state, waitVars, userVars, seen>>

\* read(): where the loop goes on after its tests of the local `state`.
ReadLoop(s) ==
    CASE s = MAX              -> "read_wait_max"
      [] s = MAX - 1          -> "idle"          \* Err(TooManyReaders)
      [] s # MAX /\ IsOdd(s)  -> "read_wait"
      [] OTHER                -> "read_cas"

\* read(): acquired_check() and the first load.
Read(t) ==
    /\ t \notin acquired
    /\ Call(t, ReadLoop(state))
    /\ See(t)
    /\ UNCHANGED <<state, waitVars, userVars>>

\* read(): wait(&self.state, u32::MAX); the loop starts over with the same local.
ReadWaitMax(t) ==
    /\ Goto(t, "read_wait_max", "read_wait_max")
    /\ stateSleepers' \in FutexWait(stateSleepers, t, state, MAX)
    /\ UNCHANGED <<state, writers_number, waiting_writers, writerSleepers, wc, userVars,
                   seen, calls>>

\* read(): wait(&self.state, state) of the inner loop.
ReadWait(t) ==
    /\ Goto(t, "read_wait", "read_load")
    /\ stateSleepers' \in FutexWait(stateSleepers, t, state, seen[t])
    /\ UNCHANGED <<state, writers_number, waiting_writers, writerSleepers, wc, userVars,
                   seen, calls>>

\* Seeded fault: the inner loop of read() does not test the low bit again.
ReadLoadOnce(t) ==
    /\ Goto(t, "read_load", "read_cas")
    /\ See(t)
    /\ UNCHANGED <<state, waitVars, userVars, calls>>

\* read(): the load of the inner loop, which only looks at the low bit.
ReadLoad(t) ==
    /\ Goto(t, "read_load", IF IsOdd(state) THEN "read_wait" ELSE "read_cas")
    /\ See(t)
    /\ UNCHANGED <<state, waitVars, userVars, calls>>

\* read(): `state + 2` overflows in a build that checks it; the caller panics.
ReadOverflow(t) ==
    /\ OverflowChecks
    /\ seen[t] + 2 > MAX
    /\ Goto(t, "read_cas", "idle")
    /\ UNCHANGED <<state, waitVars, userVars, seen, calls>>

\* compare_exchange(state, state + 2) succeeds in read() or try_read().
EnterRead(t) ==
    /\ state = seen[t]
    /\ OverflowChecks => seen[t] + 2 <= MAX
    /\ state' = (seen[t] + 2) % (MAX + 1)

\* read(): the compare_exchange_weak succeeds.
ReadCasOk(t) ==
    /\ Goto(t, "read_cas", "finish_read")
    /\ EnterRead(t)
    /\ UNCHANGED <<waitVars, userVars, seen, calls>>

\* read(): it fails, which being weak it may do at any time, and returns the state.
ReadCasFail(t) ==
    /\ OverflowChecks => seen[t] + 2 <= MAX
    /\ Goto(t, "read_cas", ReadLoop(state))
    /\ See(t)
    /\ UNCHANGED <<state, waitVars, userVars, calls>>

\* try_read(): the load and its tests.
TryRead(t) ==
    /\ t \notin acquired
    /\ Call(t, IF state = MAX - 1 \/ IsOdd(state) THEN "idle" ELSE "try_read_cas")
    /\ See(t)
    /\ UNCHANGED <<state, waitVars, userVars>>

\* try_read(): the compare_exchange, which succeeds or returns Err(WouldBlock).
TryReadCas(t) ==
    /\ \/ Goto(t, "try_read_cas", "finish_read") /\ EnterRead(t)
       \/ Goto(t, "try_read_cas", "idle") /\ state # seen[t] /\ UNCHANGED state
    /\ UNCHANGED <<waitVars, userVars, seen, calls>>

\* Seeded fault: write() takes one reader for none.
WriteLoopOffByOne(s) ==
    CASE s <= 2                 -> "write_cas"
      [] s > 2 /\ ~IsOdd(s)     -> "write_flag"
      [] OTHER                  -> "write_enter"

\* write(): where the loop goes on after its tests of the local `state`.
WriteLoop(s) ==
    CASE s <= 1                 -> "write_cas"
      [] s > 1 /\ ~IsOdd(s)     -> "write_flag"
      [] OTHER                  -> "write_enter"

\* write(): acquired_check() and the first load.
Write(t) ==
    /\ t \notin acquired
    /\ Call(t, WriteLoop(state))
    /\ See(t)
    /\ UNCHANGED <<state, waitVars, userVars>>

\* write(): compare_exchange(state, u32::MAX).
WriteCas(t) ==
    /\ \/ /\ state = seen[t]
          /\ Goto(t, "write_cas", "finish_write")
          /\ state' = MAX
          /\ UNCHANGED seen
       \/ /\ state # seen[t]
          /\ Goto(t, "write_cas", WriteLoop(state))
          /\ See(t)
          /\ UNCHANGED state
    /\ UNCHANGED <<waitVars, userVars, calls>>

\* write(): compare_exchange(state, state + 1), which asks the readers to make way.
\* The local `state` keeps its old value when it succeeds.
WriteFlag(t) ==
    /\ \/ /\ state = seen[t]
          /\ Goto(t, "write_flag", "write_enter")
          /\ state' = seen[t] + 1
          /\ UNCHANGED seen
       \/ /\ state # seen[t]
          /\ Goto(t, "write_flag", WriteLoop(state))
          /\ See(t)
          /\ UNCHANGED state
    /\ UNCHANGED <<waitVars, userVars, calls>>

\* WaitingWriterGuard::new().
WriteEnter(t) ==
    /\ Goto(t, "write_enter", "write_load")
    /\ waiting_writers' = (waiting_writers + 1) % (MAX + 1)
    /\ UNCHANGED <<state, writers_number, stateSleepers, writerSleepers, wc, userVars,
                   seen, calls>>

\* write(): the load of writers_number.
WriteLoad(t) ==
    /\ Goto(t, "write_load", "write_wait")
    /\ wc' = [wc EXCEPT ![t] = writers_number]
    /\ UNCHANGED <<state, writers_number, waiting_writers, stateSleepers, writerSleepers,
                   userVars, seen, calls>>

\* write(): wait(&self.writers_number, wc).
WriteWait(t) ==
    /\ Goto(t, "write_wait", "write_leave")
    /\ writerSleepers' \in FutexWait(writerSleepers, t, writers_number, wc[t])
    /\ UNCHANGED <<state, writers_number, waiting_writers, stateSleepers, wc, userVars,
                   seen, calls>>

\* Seeded fault: WaitingWriterGuard has no Drop.
WriteLeaveNoSub(t) ==
    /\ Goto(t, "write_leave", WriteLoop(seen[t]))
    /\ UNCHANGED <<waiting_writers, state, writers_number, stateSleepers, writerSleepers, wc, userVars,
                   seen, calls>>

\* Drop for WaitingWriterGuard; the loop starts over with the same local `state`.
WriteLeave(t) ==
    /\ Goto(t, "write_leave", WriteLoop(seen[t]))
    /\ waiting_writers' = (waiting_writers + MAX) % (MAX + 1)
    /\ UNCHANGED <<state, writers_number, stateSleepers, writerSleepers, wc, userVars,
                   seen, calls>>

\* try_write(): the load and its test.
TryWrite(t) ==
    /\ t \notin acquired
    /\ Call(t, IF state <= 1 THEN "try_write_cas" ELSE "idle")
    /\ See(t)
    /\ UNCHANGED <<state, waitVars, userVars>>

\* try_write(): the compare_exchange, which succeeds or returns Err(WouldBlock).
TryWriteCas(t) ==
    /\ \/ Goto(t, "try_write_cas", "finish_write") /\ state = seen[t] /\ state' = MAX
       \/ Goto(t, "try_write_cas", "idle") /\ state # seen[t] /\ UNCHANGED state
    /\ UNCHANGED <<waitVars, userVars, seen, calls>>

\* set_acquired() and the return of a guard, in the four operations.
Finish(t) ==
    /\ \/ Goto(t, "finish_read", "idle") /\ guard' = [guard EXCEPT ![t] = "read"]
       \/ Goto(t, "finish_write", "idle") /\ guard' = [guard EXCEPT ![t] = "write"]
    /\ acquired' = acquired \cup {t}
    /\ UNCHANGED <<state, waitVars, poisoned, seen, calls>>

\* Seeded fault: the drop of a read guard forgets remove_acquired().
DropReadNoRemove(t) ==
    /\ guard[t] = "read"
    /\ Goto(t, "idle", IF state = 3 THEN "wake_writer" ELSE "idle")
    /\ guard' = [guard EXCEPT ![t] = "none"]
    /\ state' = (state + MAX - 1) % (MAX + 1)
    /\ UNCHANGED <<acquired, waitVars, poisoned, seen, calls>>

\* Drop for RwLockReadGuard: remove_acquired() and the fetch_sub, with its test.
DropRead(t) ==
    /\ guard[t] = "read"
    /\ Goto(t, "idle", IF state = 3 THEN "wake_writer" ELSE "idle")
    /\ guard' = [guard EXCEPT ![t] = "none"]
    /\ acquired' = acquired \ {t}
    /\ state' = (state + MAX - 1) % (MAX + 1)
    /\ UNCHANGED <<waitVars, poisoned, seen, calls>>

\* Drop for RwLockWriteGuard, up to the fetch_add: a panicking thread poisons the lock.
DropWrite(t) ==
    /\ guard[t] = "write"
    /\ Goto(t, "idle", "store")
    /\ guard' = [guard EXCEPT ![t] = "none"]
    /\ acquired' = acquired \ {t}
    /\ \E panicking \in BOOLEAN : poisoned' = (poisoned \/ panicking)
    /\ writers_number' = (writers_number + 1) % (MAX + 1)
    /\ UNCHANGED <<state, waiting_writers, stateSleepers, writerSleepers, wc, seen, calls>>

\* Drop for RwLockWriteGuard: state.store(0).
Store(t) ==
    /\ Goto(t, "store", "load_waiting")
    /\ state' = 0
    /\ UNCHANGED <<waitVars, userVars, seen, calls>>

\* Drop for RwLockWriteGuard: the load of waiting_writers, and its test.
LoadWaiting(t) ==
    /\ Goto(t, "load_waiting", IF waiting_writers # 0 THEN "wake_writer" ELSE "wake_readers")
    /\ UNCHANGED <<state, waitVars, userVars, seen, calls>>

\* wake_one(&self.lock.writers_number), in the drop of either guard.
WakeWriter(t) ==
    /\ Goto(t, "wake_writer", "idle")
    /\ writerSleepers' \in FutexWakeOne(writerSleepers)
    /\ UNCHANGED <<state, writers_number, waiting_writers, stateSleepers, wc, userVars,
                   seen, calls>>

\* Seeded fault: wake_one(&self.lock.state) in place of wake_all.
WakeReadersOne(t) ==
    /\ Goto(t, "wake_readers", "idle")
    /\ stateSleepers' \in FutexWakeOne(stateSleepers)
    /\ UNCHANGED <<state, writers_number, waiting_writers, writerSleepers, wc, userVars,
                   seen, calls>>

\* wake_all(&self.lock.state).
WakeReaders(t) ==
    /\ Goto(t, "wake_readers", "idle")
    /\ stateSleepers' \in FutexWakeAll(stateSleepers)
    /\ UNCHANGED <<state, writers_number, waiting_writers, writerSleepers, wc, userVars,
                   seen, calls>>

\* clear_poison(): takes no lock.
ClearPoison(t) ==
    /\ Goto(t, "idle", "idle")
    /\ poisoned
    /\ poisoned' = FALSE
    /\ UNCHANGED <<state, waitVars, acquired, guard, seen, calls>>

\* A futex wait returns though nobody woke it.
SpuriousWake(t) ==
    /\ t \in stateSleepers \cup writerSleepers
    /\ stateSleepers' = stateSleepers \ {t}
    /\ writerSleepers' = writerSleepers \ {t}
    /\ UNCHANGED <<state, writers_number, waiting_writers, wc, userVars, pc, seen, calls>>

----------------------------------------------------------------------------
\* The steps a thread takes by itself once it is inside an operation or owns a guard.
Step(t) ==
    \/ ReadWaitMax(t) \/ ReadWait(t) \/ ReadLoad(t) \/ ReadOverflow(t) \/ ReadCasOk(t)
    \/ ReadCasFail(t) \/ TryReadCas(t)
    \/ WriteCas(t) \/ WriteFlag(t) \/ WriteEnter(t) \/ WriteLoad(t) \/ WriteWait(t)
    \/ WriteLeave(t) \/ TryWriteCas(t)
    \/ Finish(t) \/ DropRead(t) \/ DropWrite(t) \/ Store(t) \/ LoadWaiting(t)
    \/ WakeWriter(t) \/ WakeReaders(t)

\* The calls a thread may or may not make, and what the environment may do.
Client(t) ==
    \/ Reenter(t) \/ Read(t) \/ TryRead(t) \/ Write(t) \/ TryWrite(t)
    \/ ClearPoison(t) \/ SpuriousWake(t)

Next == \E t \in Threads : Step(t) \/ Client(t)

Spec == Init /\ [][Next]_vars

\* The operating system runs every thread that can run, the users drop the guards
\* they are given, and a weak compare_exchange does not fail for ever on a free lock.
FairSpec ==
    Spec /\ \A t \in Threads : WF_vars(Step(t)) /\ SF_vars(ReadCasOk(t))

----------------------------------------------------------------------------
\* The threads between a successful compare_exchange and the fetch_sub or store that
\* undoes it.
Readers == {t \in Threads : pc[t] = "finish_read" \/ guard[t] = "read"}
Writers == {t \in Threads : pc[t] \in {"finish_write", "store"} \/ guard[t] = "write"}

\* The threads that own a live WaitingWriterGuard.
WaitingWriters == {t \in Threads : pc[t] \in {"write_load", "write_wait", "write_leave"}}

\* The thread is inside write() and does not own the lock yet.
InWrite(t) ==
    \/ pc[t] \in {"write_cas", "write_flag", "write_enter"}
    \/ t \in WaitingWriters

TypeOK ==
    /\ state \in 0..MAX
    /\ writers_number \in 0..MAX
    /\ waiting_writers \in 0..MAX
    /\ poisoned \in BOOLEAN
    /\ acquired \subseteq Threads
    /\ stateSleepers \subseteq Threads
    /\ writerSleepers \subseteq Threads
    /\ pc \in [Threads -> {"idle", "read_wait_max", "read_wait", "read_load", "read_cas",
                           "try_read_cas", "finish_read", "write_cas", "write_flag",
                           "write_enter", "write_load", "write_wait", "write_leave",
                           "try_write_cas", "finish_write", "store", "load_waiting",
                           "wake_writer", "wake_readers"}]
    /\ seen \in [Threads -> 0..MAX]
    /\ wc \in [Threads -> 0..MAX]
    /\ guard \in [Threads -> {"none", "read", "write"}]
    /\ calls \in [Threads -> 0..MaxCalls]

\* `state` tells who is inside: MAX when a writer is (and then nobody else), otherwise
\* twice the number of readers, perhaps plus the bit of a writer that waits.
StateMatchesGuards ==
    /\ Writers # {} => /\ state = MAX
                       /\ Readers = {}
                       /\ \A t, u \in Writers : t = u
    /\ Writers = {} => state - 2 * Cardinality(Readers) \in {0, 1}

\* ACQUIRED_BY_THREAD is set for exactly the threads that own a guard.  So no thread
\* that owns one waits for the lock, or tries to take it a second time.
AcquiredMatchesGuard ==
    /\ \A t \in Threads : t \in acquired <=> guard[t] # "none"
    /\ \A t \in acquired : pc[t] = "idle"

\* waiting_writers is exactly the number of live WaitingWriterGuards: it returns to 0,
\* and the writer that leaves chooses between writers and readers by the right number.
WaitingWritersCounted == waiting_writers = Cardinality(WaitingWriters)

\* The threads that will pass the end of a writer's drop, where readers are woken, or
\* that know of one that will: those inside write(), those that own the lock for
\* writing, and those whose drop has yet to choose whom to wake or to wake the readers.
ReaderWakers ==
    {t \in Threads : InWrite(t) \/ t \in Writers \/ pc[t] \in {"load_waiting", "wake_readers"}}

\* No reader is forgotten: a reader only falls asleep while a writer is on its way, and
\* the last writer to leave wakes every one of them.  So readers never sleep on a lock
\* that no writer holds, awaits or is leaving.  (A writer stuck in write() counts: the
\* readers then sleep on with it, see WritersGetIn.)
NoReaderForgotten == stateSleepers # {} => ReaderWakers # {}

\* "Writer-friendly": once a writer has set the low bit, no reader enters, and the bit
\* stays until a writer has been inside.
WriterFirst ==
    [][IsOdd(state) /\ Writers = {} => IsOdd(state') /\ Readers' \subseteq Readers]_vars

\* The lock implements the abstract one.
Abstract == INSTANCE AbstractRwLock WITH readers <- Readers, writers <- Writers,
                                         poisoned <- poisoned

ImplementsRwLock == Abstract!Spec

\* "Writer-friendly": every write() returns when the guards are dropped and finitely
\* many calls are made.  The code does not keep this: see the README.
WritersGetIn == \A t \in Threads : InWrite(t) ~> ~InWrite(t)
=============================================================================
