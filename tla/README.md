# Synchronisation primitives in TLA+

A verification project for the crate `atomics_for_peace_and_sync_primitives`: hand-written
locks, a semaphore, a condition variable, a channel and a reference-counted pointer, all built
from atomics, `thread::park` and the futex calls of the crate `atomic_wait`. There are TLA+
modules that model the primitives one atomic access at a time, TLC configurations that check
them on small instances, and TLAPS proofs of the safety properties for any number of threads.

File paths below are relative to the repository root (`src/mutex_v1.rs`, ...).

## 1. Inventory

| Component | State it keeps | Operations | What is hard about it |
|---|---|---|---|
| Spinning lock, `spinlock.rs` | `locked`: 0 or the owner's thread id; the data | `lock`, drop of `SpinGuard` | the load that sees 0 and the weak compare_exchange are two steps; re-entrance panics while the guard is alive |
| Mutex v.1, `mutex_v1.rs` | `state`: 0 or the owner's id; a `VecDeque<Thread>` in an `UnsafeCell`; `queue_is_accessed`, the spinning lock of that queue; `poisoned` | `lock`, `try_lock`, `clear_poison`, drop of `MutexGuard` | the decision to park, the queue and the unlock are three different critical sections; `park` may return early, `unpark` may come early |
| Mutex v.2, `mutex_v2.rs` | `state`: `UNLOCKED`, `LOCKED`, `LOCKED_HAS_WAITERS`; a thread-local map of the mutexes a thread holds; `poisoned` | `lock`, `try_lock`, `clear_poison`, drop of `MutexGuard` | the unlocking thread wakes a sleeper only if the word says so |
| RwLock, `rwlock.rs` | `state`: `u32::MAX` or twice the number of readers plus a writer's bit; `writers_number`; `waiting_writers`; a thread-local map; `poisoned` | `read`, `write`, `try_read`, `try_write`, `clear_poison`, drops of the guards and of `WaitingWriterGuard` | stale locals in loops, two futexes, the limits of the word |
| Semaphore, `semaphore.rs` | `count`, `num_waiting` | `wait`, `try_wait`, `try_wait_duration`, `signal` | wake-ups are skipped when `num_waiting` is 0; the count wraps |
| CondVar, `condvar.rs` | `counter`, `waiting` | `wait` (unlocks and locks a mutex v.1), `notify_one`, `notify_all` | a notification between the unlock and the sleep; the counter wraps |
| Ring buffer, `utils/ring_buffer.rs` | `buffer` (slots of `MaybeUninit<T>`), `head`, `tail` | `push`, `pop`, `try_push`, `try_pop`, drop | `head` moves before the slot is written, a slot is read before `tail` moves |
| Channel, `channel.rs` | a ring buffer, `senders_count`, `sender_wait_num`, `receiver_state` | `send`, `try_send`, clone and drop of `Sender`; `recv`, `try_recv`, drop of `Receiver` | "empty, so I sleep" and "full, so I sleep" are decided before the sleep is announced |
| Arc and Weak, `arc.rs` | `strong_count`, `ref_count` (`usize::MAX` locks it), the data, the allocation | `clone`, `downgrade`, `upgrade`, `get_mut`, `into_inner`, drops | two counters that no thread reads together |
| Lock errors, `utils/mutex_common.rs` | none | formatting | nothing: types only |

How they interact: every primitive is shared by threads that call it through `&self`; there
are no messages. The mutexes, the RwLock, the semaphore, CondVar and Channel sleep through
`atomic_wait` (mutex v.1 through `thread::park`). CondVar unlocks and locks a mutex v.1.
Channel moves its messages through the ring buffer. The other primitives do not use each other.

What makes each one correct:

- locks: at most one owner (or several readers and no writer), and the word says who or how
  many; the re-entrance test answers for exactly the owner; poison is set only by a holder that
  panics and cleared only by `clear_poison`; no sleeper is forgotten; `lock`/`write`/`read`
  return when the holders drop their guards;
- semaphore: permits are conserved, and lost only when the full word wraps; a permit reaches a waiter;
- CondVar: a notification after `wait` was called ends some `wait`, and `wait` returns with the
  mutex held;
- ring buffer and channel: each message is delivered at most once, none is read before it is
  written, messages of one sender keep their order, a blocked side is woken when the other side
  acts or goes away;
- Arc: the data are dropped exactly once, after the last strong handle; the allocation is freed
  exactly once, after the last handle of any kind; `get_mut` returns only to the only handle.

The list of hazards in `PROJECT.json` gives, line by line, where each of these could go wrong
and which property would show it.

## 2. Modules

| Module | Stands for |
|---|---|
| `AtomicWait` | external: `wait`, `wake_one`, `wake_all` of `atomic_wait`, as operators on a set of sleepers |
| `AbstractMutex` | what a mutex promises: acquire when free, release by the holder, poison |
| `AbstractRwLock` | what a read-write lock promises |
| `SpinLock` | `spinlock.rs` |
| `MutexV1` | `mutex_v1.rs` |
| `MutexV2` | `mutex_v2.rs` |
| `Semaphore` | `semaphore.rs` |
| `RwLock` | `rwlock.rs`; `MCRwLock` adds the symmetry set for TLC |
| `CondVar` | `condvar.rs`, composed with the mutex of `wait` as an instance of `AbstractMutex` |
| `RingBuffer` | `utils/ring_buffer.rs`: the state and the steps of its four operations and its drop |
| `RingBufferUse` | the ring buffer by itself, every thread a producer and a consumer |
| `Channel` | `channel.rs`, composed with the steps of `RingBuffer` |
| `Arc` | `arc.rs` |
| `SpinLockProofs`, `MutexV1Proofs`, `MutexV2Proofs`, `SemaphoreProofs`, `RwLockProofs`, `ArcProofs`, `CondVarProofs`, `ChannelProofs` | theorems and proofs about the modules they extend; `ChannelProofs` also about `RingBuffer` and `RingBufferUse` |

Conventions shared by the component modules:

- One object, shared by the constant set `Threads`. A variable with a name from the source is
  the field or local of that name. `pc[t]` is the place of a thread inside an operation,
  `guard[t]` the guard the thread owns. `map` in `PROJECT.json` names the lines behind each
  definition.
- **One access to an atomic per action.** Tests of locals and accesses to thread-local data,
  which no other thread can see, are merged with the access next to them. A weak
  compare_exchange has an action for success and one for failure, and may fail at any time.
- **Sequentially consistent interleaving.** The accesses happen in program order. The
  reorderings that `Ordering::Relaxed` permits on weakly ordered hardware are not modelled. It
  matters for one line at least: the Relaxed load of `num_waiting` in `signal`
  (`semaphore.rs:61`) follows a Release `fetch_add` on another variable, and hardware may take
  the load first; the results about lost signals hold for the order in the program.
- A futex wait compares and sleeps atomically, and may return by itself (`SpuriousWake`, or at
  once in `FutexWait`). `park` consumes a token or sleeps until there is one; it may also return
  without one, at most `MaxSpurious` times.
- A loop that only waits for a flag (`queue_is_accessed`) is one action guarded by the flag.
- A holder that panics is the alternative of the drop action that sets `poisoned`.
- The protected data, ids, `Debug`/`Deref` code and the wording of errors are left out.
  `into_inner` and `get_mut` of the locks take the lock by value or by `&mut`, so no other thread
  can be there; they change nothing that the modules keep.
- Definitions marked "Seeded fault" are wrong variants of the definition that follows: a dropped
  guard, a missing reset, an off-by-one. Nothing uses them; `PROJECT.json` pairs each property
  with one that must break it, which shows that the property says something about the code.

`Step(t)` is what a thread does by itself once it is inside an operation or owns a guard;
`Client(t)` is what it may or may not do (calls) and what may or may not happen to it (spurious
wake-ups). Fairness is stated on `Step` only.

### Correspondence, module by module

- `SpinLock`. `Lock`, `Load`, `CasOk`, `CasFail` are the lines of `lock()`; re-entrance panics,
  which drops the guard. `DropGuard` stores 0.
- `MutexV1`. `SpinLoad` and the compare_exchange actions are the loop of `lock()`, then
  `AcquireQueue`, push and park are `enqueue_thread`; `Store`, the queue's lock, `Pop` and unpark
  are `drop` and `dequeue_thread`. A spuriously woken thread goes back to the loop and leaves
  its entry in the queue, as in the code.
- `MutexV2`. The fast path, the spinning loop with its limit, the waiting loop, and the drop:
  the flag is removed, the word swapped, and a sleeper woken if the word asked for it.
- `Semaphore`. `wait` between its `fetch_add` and `fetch_sub` of `num_waiting`; `try_wait`;
  `try_wait_duration`, a loop of `try_wait` with a deadline that may pass at any turn; `signal`.
  `taken` and `signals` are history variables. The subtraction of a permit is a `u32`'s, as in a release
  build; only the tests for zero keep it from wrapping, which is what `PermitsExact` checks.
- `RwLock`. `read` with its two loops and its two places to sleep; `write` with the local `state`
  that is not always loaded again; `WaitingWriterGuard` as `write_load` .. `write_leave`; the
  drops, with the choice between waking a writer and waking the readers. `MAX` stands for
  `u32::MAX`; `OverflowChecks` says whether `state + 2` panics (debug build) or wraps (release).
- `CondVar`. The lines of `wait` from `WaitLoad` to `WaitRelock`; both notifications, by a thread that
  owns the guard or not. `Lock`, `Unlock`, `Panic` .. `Die` are what the users do with the mutex:
  a holder may panic, after which `lock().unwrap()` panics in every other thread, also inside
  `wait`, unless a user takes the guard out of the error or someone calls `clear_poison()`. The mutex is `AbstractMutex`, which mutex v.1 is proved to implement; nothing is assumed about when it
  lets a thread in. `since` and `woken` are history: the notifications, and the
  threads woken, since a thread in `wait` read the counter.
- `RingBuffer`. `PushTail` .. `PushWrite` and `PopTail` .. `PopCasOk` are the loads, the compare_exchange and
  the access to the slot, in the order of the code: a position is claimed before its
  slot is written, a slot is copied before its position is taken. The operators take as a parameter where
  the caller goes on, so that `push` and `try_push` differ in that parameter only. `pushed` and
  `ended` are the values in the order of their positions as they came and as they went (returned, or
  dropped with the buffer); `torn` notes that a `pop` returned a copy it made before the slot
  was written. Values are plain data.
- `Channel`. `Call...` starts a call, `Push` and `Pop` are the steps of the ring buffer inside it, the other
  actions are the channel's own lines. `call` tells `recv` from `try_recv`, and `"drain"` is a `recv` that
  has read `senders_count` 0. A thread owns at most one `Sender`; `Clone` gives one to a thread that
  has none yet.
- `Arc`. Handles of one kind cannot be told apart, so the module counts them: `arcs` and `weaks` are
  the live handles that no call has taken. A call on `&self` borrows a handle; `get_mut(&mut self)`,
  `into_inner(self)` and the drops take one away, and the borrow checker allows that while another
  handle is left for the borrowers (`TakeArc`, `TakeWeak`). Counting loses nothing: when calls
  are borrowing, they may all borrow the same handle, which then stays. `GetMut` .. `MutEnd` are
  `get_mut` and the life of the `&mut T`; `IntoInner` .. `Free` are `into_inner`, whose `None` ends in
  the drop of `self`; `DropArc` .. `Free` are the two drops. A call of `get_mut` that fails at its
  compare_exchange changes nothing and has no action.

## 3. Runs

`tlc -workers 2 -config X.cfg M` in this directory. Deadlock checking is off in all of them:
each thread makes at most `MaxCalls` calls, after which the system rightly stops, and an `Arc` ends
with its last handle or with the abort of the process.

| Run | Bounds | States | What it shows |
|---|---|---|---|
| `spinlock` | 3 threads, 3 calls each | 1,900 | the word names the one owner, the lock implements `AbstractMutex`, every `lock()` that does not panic returns |
| `mutex_v1` | 3 threads, 2 calls, 1 spurious return of `park`, `SpinLimit` 1 | 169,099 | the same, and: the `VecDeque` is never shared, no parked thread drops out of reach, every drop returns |
| `mutex_v1_lost_wakeup` | 2 threads, 1 call | | **violation** of `EveryLockReturns`, see section 5 |
| `mutex_v2` | 3 threads, 2 calls, `SpinLimit` 1 | 128,012 | exclusion, the thread-local flag is exact, no wake-up is lost, `AbstractMutex` is implemented, every `lock()` returns |
| `semaphore` | 3 threads, 2 calls, `Modulus` 4, no initial permit | 72,290 | permits are conserved and lost only when the full word wraps, `num_waiting` is exact, no signal is lost, no permit stays beside a waiter; the count wraps |
| `rwlock` | 3 threads, 2 calls, `MAX` 5, symmetry | 884,983 | the word matches the guards, the flag and `waiting_writers` are exact, no reader sleeps without a writer to wake it, a writer that asks goes first, `AbstractRwLock` is implemented |
| `arc` | 3 threads, `USIZE_MAX` 7, new handles while there are fewer than 6, any number of calls | 419,594 | the counters are exact, no use after free, `get_mut` and `into_inner` succeed only for the only handle, nothing leaks, `ref_count` does not stay locked |
| `condvar` | 3 threads, 2 calls, `Modulus` 4 | 421,914 | `waiting` is exact, no notification is lost on a sleeper, `notify_all` ends every `wait` before it; the counter makes a full turn |
| `ring_buffer` | 3 threads, 2 calls, `N` 2 | 2,632,242 | no position is claimed twice or too early; the ring is a queue until a `pop` returns a slot that was not written yet |
| `channel` | 2 Senders, 1 Receiver, 2 calls each, `N` 2 | 1,952,699 | a message after the announcement wakes the Receiver, `Disconnected` from an empty buffer is final, a departure of the Receiver stays seen |
| `channel_stuck` | 1 Sender, 1 Receiver, 1 call each, `N` 2 | | **violation** of `CallsReturn`, see section 5 |
| `rwlock_writer_stuck` | 2 threads, 1 call, `MAX` 9 | | **violation** of `WritersGetIn`, see section 5 |

Why the bounds are enough to be interesting. Three threads give a holder, a sleeper and a thread
that overtakes. Two calls let a thread come back with what an earlier call left behind (a flag, a
queue entry, an unpark token). `SpinLimit` 1 passes through both sides of the limit (100 in the code), as the counter
does nothing but count. With `Modulus` 4 four signals wrap the semaphore's count. With `MAX` 5
the word holds 2 readers, so the third reader meets `MAX - 1`, and the read that is refused by
the overflow check happens. With `USIZE_MAX` 7 the limit `MAX_REF_COUNT` is 3, so that the abort of
`clone` and both assertions happen, three threads can be past the limit at once, and the lock value 7 is
next to what they reach. In `condvar` the other two threads can notify 4 times while one is in `wait`,
which is a full turn of the counter and the one case the properties except. With 6 calls on a ring of 2 slots,
at most 4 of them successful pushes, `head` reaches 4 in both runs: two laps, so that slots are used again
while somebody still holds a copy of the last lap. The symmetry of `MCRwLock` permutes the threads and is used with
safety properties only.

### Fairness

- `WF_vars(Step(t))`: the operating system runs each thread that can run, and the users drop the
  guards they were given. The first is what any liveness of a spinning lock rests on; the second
  is Rust's scoping, short of `mem::forget`.
- `SF_vars` of the successful weak compare_exchange: a weak compare_exchange may fail
  spuriously, but not for ever on a word that is free again and again. It is strong
  because another thread may take the word in between; with finitely many calls this happens
  finitely often.
- `condvar` asks for nothing but steps: `NotifyAllEndsWaits` ends at the return of the futex, since the
  lock that follows may be refused for ever by mutex v.1 (section 5).
- For `Channel` the successful compare_exchanges of the ring are the strong ones (`head' # head`, `tail' # tail`).
- For `Arc`, `WF_vars(Step(t))` also says that the `&mut T` of `get_mut` does not live for ever.
- No fairness on calls, on `SpuriousWake` or on `clear_poison`: the properties hold when
  these never happen.
- Liveness of the locks and the semaphore is checked with finitely many calls. None of the locks is fair to its waiters, so with
  endless calls of other threads starvation is possible and nothing here excludes it.

## 4. Theorems

For every set of threads and every value of the constants that meets the module's `ASSUME`
(checked by TLC on every run; they say that bounds are naturals, that the id 0 is no thread's,
for the modules that count threads in a 32-bit word, that there are finitely many and no more
than the word can count, and for the ring that its size is a power of 2 and at least 2). The call bounds are constants too, so the results cover any of them.

| Module | Theorems | Inductive invariant |
|---|---|---|
| `SpinLockProofs` | `TypeCorrect`, `OwnerExact`, `Refinement` | `TypeOK /\ OwnerInWord` |
| `MutexV1Proofs` | `TypeCorrect`, `OwnerExact`, `QueueLockExclusive`, `ParkedReachable`, `Refinement` | `TypeOK /\ Placement /\ OwnerInState /\ QueueExclusive /\ ParkedIsReachable` |
| `MutexV2Proofs` | `TypeCorrect`, `MutualExclusion`, `ReentrancyCheckExact`, `WakeupsKept`, `Refinement` | `TypeOK /\ Placement /\ Exclusion /\ NoLostWakeup` |
| `SemaphoreProofs` | `TypeCorrect`, `Conservation`, `ExactShortOfWrap`, `CounterExact`, `SignalsKept` | `TypeOK /\ Placement /\ PermitsConserved /\ NotOverdrawn /\ WaitersCounted /\ NoLostSignal` |
| `RwLockProofs`, any build | `TypeCorrect`, `ReentrancyCheckExact`, `WaitingExact`, `ReadersReached` | `IInv`: `TypeOK /\ Placement /\ AcquiredMatchesGuard /\ WaitingWritersCounted /\ OddAnnounced /\ NoReaderForgotten` |
| `RwLockProofs`, under `NoOverflow` | `ReadersWriters`, `WritersFirst`, `Refinement` | `ExactInv`: `IInv /\ StateMatchesGuards` |
| `ArcProofs` | `TypeCorrect`, `CountersExact`, `MemorySafe`, `GetMutExclusive`, `LeakFree` | `TypeOK`, and `Living` while the allocation is there, `Gone` afterwards |
| `CondVarProofs` | `TypeCorrect`, `WaitingExact`, `NotificationsKept`, `GuardSafe` | `TypeOK /\ Placement /\ StateIsOld /\ GuardOwned /\ WaitingCounted /\ NoLostNotification` |
| `ChannelProofs`, the ring | `RingSafe`, `UseIsClient`, `UseCapacity`, `UseQueue` | `RingInv`: `RingTypeOK /\ Positions /\ OneWriter /\ WholeCopy /\ Contents /\ Abandoned` |
| `ChannelProofs`, the channel | `TypeCorrect`, `ChannelIsClient`, `ChannelRing`, `CountExact`, `LaterMessageWakes`, `DisconnectedFinal`, `DepartureSeen` | `RingInv /\ ChannelTypeOK /\ Placement /\ SendersCounted /\ WakeDue /\ DisconnectedIsFinal /\ DepartureIsSeen` |

`Placement`, in each module, is what the code knows at a given line and the properties do not
say: which threads may own a guard at that line, which tests the local value has passed
(`RwLock`: a thread tries to enter as a reader only with an even value), who may be asleep where.
Without it the properties are not inductive: a thread that tries `compare_exchange(seen, seen + 2)` with
an odd `seen` would break `StateMatchesGuards` in one step.

The arguments. Each lemma `...Induction` takes the actions one by one. The semaphore's needs the
arithmetic of `%` (lemmas `Quotient`, `Remainder`, `AddModulus`, `SuccessorModulus`, from the
definition of division) and how cardinalities of sets of threads change by one element
(`Counting`). `NoLostSignal` is a count, not a mere "somebody is awake": a permit in `count` is
paid for by a signalling or a looking thread, and each step keeps the balance. `PermitsExact` is drawn from
two inductive parts: `NotOverdrawn` (nobody takes what was not given, since a thread subtracts only
from a count it has seen positive, `TakesOne`) and the congruence `PermitsConserved`; numbers less than
the modulus apart with equal remainders are equal (`SameRemainder`).
In `RwLockProofs` the lemma `Effects` reduces each action to what it does to `state`, `Readers` and
`Writers`; exclusion, `WriterFirst` and the refinement all follow from it. `NoReaderForgotten` rests on `OddAnnounced`:
a reader only falls asleep over an odd `state` (`SleepsOnOdd`), and `state` is odd only while some thread
is inside `write()` or owns the lock for writing; those threads leave through a drop (`WritersStay`), which finds
another `WaitingWriterGuard` alive, by `WaitingWritersCounted`, or wakes all readers. It needs no `NoOverflow`:
`MAX + 1` is even, so a wrap leaves the low bit alone (`LowBit`). The refinements map
the abstract holders to the threads between a successful compare_exchange and the store that
undoes it, not to the owners of guards, since the guard appears only after the poison flag was
read.

In `ArcProofs` the invariant `Living` puts five parts together, none of which is inductive alone:
`CountsExact` and `UniqueAccess`; `Borrowed` (a call on `&self` keeps a handle alive); `LifeEnds` (who
drops the data and who frees the allocation, and that `ref_count` is 0 only for the thread that is
about to free it); `Limits` (a count exceeds `MAX_REF_COUNT + 1` only by threads that are about to
abort). The lemma `Empty` draws what a counter at 0 or 1 says about all other threads, which is the
heart of `get_mut` and of both drops. The assumption is that of the code: fewer threads than fit
between the limit and `usize::MAX`.

In `CondVarProofs` the heart is `StateIsOld`: the `state` a thread took into `wait` is exactly `since`
notifications older than `counter`, modulo the word, as long as `since` is less than a full turn. So a
thread that was notified before its futex call finds the two different and does not sleep, and for one
that sleeps, each notification since has woken somebody or is on its way to.
Users must own the mutex when they call `wait` (`GuardOwned`), which is what the type of the guard says.

`RingBuffer` is used by two modules, so its invariant is proved once, for the most general client:
`AnyClient` lets a thread outside the ring do anything to its program counter and to the value it is
about to push, lets one inside return to any place, and lets the ring be dropped when
nobody is inside. `UseIsClient` and `ChannelIsClient` show that `RingBufferUse` and `Channel` are such
clients, step by step, and `RingSafe` gives both what the ring promises. The parts of `RingInv`:
`Positions` says where the tests of `push` and `pop` have put the positions a thread has loaded, which
gives the capacity; two positions less than `N` apart have different slots (`SlotsDiffer`, from
`Quotient` and `Multiples`), so that a writer disturbs nobody else's slot; `WholeCopy` says that a copy
that is not `early` was made after its writer had finished; and `Contents`, which is
claimed only while nothing torn was returned, says that writers have not been overtaken, that the
slots from `tail` to `head` hold what was pushed unless their writer is on its way, and that whoever
would succeed with its compare_exchange on `tail` holds the value that is next. Each part was needed:
without "writers have not been overtaken", a late writer could overwrite the next lap.

For the channel, `SenderEffect` and `ReceiverEffect` reduce each step to what it does to the state the
other side relies on. `LaterSendWakes` is not inductive; `WakeDue` is. It names two stages: while
`receiver_state` is 2, a message later than the announcement has a Sender before its compare_exchange, also when
the Receiver has announced but not yet gone to sleep; and while the Receiver sleeps with `receiver_state` back
at 1, some Sender stands before `wake_one`. `DisconnectedIsFinal` needs `SendersCounted`: a `recv()` that drains has read an
exact 0, and without a living Sender nobody can clone one.
All inductive invariants were checked with TLC on the constants of the runs first (`RingInv` on
`RingBufferUse.cfg` and, with the rest of the channel's, on `Channel.cfg`; that of CondVar on `CondVar.cfg`).

`NoOverflow` is the one hypothesis that is not an assumption of the model, and three theorems of
`RwLockProofs` need it: either the build
checks `state + 2`, or there are too few threads to fill the word with readers
(`2 * Cardinality(Threads) < MAX - 1`). In a release build with 2^31 - 1 readers, `read()` leaves
its inner loop with `MAX - 1` and wraps the word; the hypothesis is how far those theorems are from the
code.

Only model-checked: all liveness properties (`EveryLockReturns`, `EveryDropReturns`,
`PermitsReachWaiters`, `LockIsReleased`, `NotifyAllEndsWaits`), because fairness and `ENABLED` are outside what the prover handles.
Every safety property of the passing runs, the invariants and the refinements, is stated by a theorem.

## 5. What the checks found

**Mutex v.1 can lose a wake-up** (`mutex_v1_lost_wakeup`). `lock()` decides to park because it
saw the mutex locked (`mutex_v1.rs:61`), then takes the queue's lock and enters the queue without
another look at `state`. If the holder stores 0 and finds the queue empty in between, the thread
parks on a free mutex, and nobody will unpark it unless yet another thread locks and unlocks. The
property `ParkedIsReachable` holds nevertheless: the thread is in the queue; what is missing is
somebody who looks there.

**A second writer never gets into the RwLock** (`rwlock_writer_stuck`). `write()` keeps the value
of `state` it loaded first. If that value is odd and above 1, no branch of the loop loads a new
one: the thread waits on `writers_number`, wakes, looks at the old value and waits again, with the
lock free. `read()` that has seen `MAX` has the same shape (`rwlock.rs:68`). The violation hides a second way to
miss a wake-up, at `rwlock.rs:260`: the last reader wakes a writer that has set the low bit but not yet
gone to sleep; no run shows it by itself. Readers asleep behind a stuck writer sleep
on with it: `NoReaderForgotten` says that some thread is there that should wake them, not that it ever will.

**The Receiver sleeps for ever** (`channel_stuck`). `recv()` reads `senders_count`, finds the buffer empty,
stores 2 and sleeps, without another look at either; the drop of the last `Sender` wakes nobody. The
property is violated in three more ways, each found by TLC when the ones before it are taken out of
the model: a message pushed between the look into the buffer and the store of 2 wakes nobody, because its
Sender still reads 1; a `send()` that has found the buffer full reads `sender_wait_num` after the
reception it should have noticed, and sleeps beside room; and a `send()` sleeps on when the Receiver
is dropped. What does hold is in the run `channel`: after the announcement no message is slept
through (`LaterSendWakes`).

Observations without a run of their own:

- Ring buffer: `pop()` may return a slot that `push()` has claimed and not yet written, so that
  `assume_init_read()` reads memory that is not initialised, or the value of the last lap. `torn` is
  reachable in both `ring_buffer` and `channel`, one producer and one consumer are enough. `QueueUntilTorn` says
  that this is the one thing that goes wrong: as long as it has not happened, the ring is a queue.
- Ring buffer: a `pop()` whose compare_exchange_weak fails drops the copy it made of a value that is still in the
  buffer. For a type with a `Drop` of its own the value is dropped again later. The modules take values
  as plain data and do not show it.
- Ring buffer: `new()` asserts that `N` is even with the words "Size should be power of 2"
  (`utils/ring_buffer.rs:19`). For `N` = 6 `push` writes slot `i % 6` and `pop` reads slot `i & 5`.
  The modules assume a power of 2, as the README of the crate says.
- Ring buffer: a consumer that is a lap behind copies a slot while a producer writes it. The copy is thrown
  away, since its compare_exchange fails, but the access is a data race.
- Channel: `recv()` without Senders and `try_recv()` answer `Disconnected` when the weak compare_exchange of
  `try_pop()` fails spuriously, with messages in the buffer; `try_recv()` also when the last Sender pushes and goes away
  between its two looks. `DisconnectedIsFinal` is about the `recv()` that has found the buffer empty.
- Channel: `try_recv()` takes a message and wakes no Sender that sleeps for room.
- CondVar: `notify_one()` called without the mutex may wake a thread that came to `wait` after the
  `fetch_add`, and leave one asleep that was there before. `NoLostNotification` counts wake-ups,
  not whom they reach.
- Mutex v.2: `lock()` never turns `LOCKED` into `LOCKED_HAS_WAITERS`. A waiter that meets `LOCKED`
  calls `wait` with the other value, which returns at once: it spins through system calls
  instead of sleeping. No wake-up is lost (`NoLostWakeup`): the chain of waiters that
  acquire with `LOCKED_HAS_WAITERS` wakes everyone.
- `Arc::into_inner` called by the last two handles at once may return `None` to both, and the data
  are dropped: one call finds `ref_count` locked by the other, which finds two Arcs. Nothing
  in the repository promises otherwise; the `into_inner` of the standard library does.
- `clear_poison()` of all locks writes its flag without the lock. In the models this is a step that may
  come between the panicking holder's write and the next reader's read, which the abstract
  specifications allow.

## 6. Plan

Done: every component with state is modelled and checked, and every safety property of the runs
is proved. Next:

1. A run for the release build of the RwLock (`OverflowChecks = FALSE`), and one for `read()` that has seen
   `MAX`.
2. An abstract queue that the ring buffer implements until a torn copy is returned, as a refinement
   beside `QueueUntilTorn`.

## 7. Not modelled

- `utils/mutex_common.rs`: types and their formatting.
- The memory model of the `Ordering` arguments: it would need a model of store buffers and a
  different set of modules. The interleavings are sequentially consistent.
- The protected data, the contents of messages and their `Drop`.
- The assertion of `Sender::clone` (more than `usize::MAX / 2` Senders), the wrap of `head` and `tail` (2^64 calls) and
  of `sender_wait_num` (2^32 receptions during one sleep).
