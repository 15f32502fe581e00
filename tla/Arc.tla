-------------------------------- MODULE Arc --------------------------------
(***************************************************************************)
(* src/arc.rs: Arc and Weak.  One allocation, shared by Threads.           *)
(*                                                                         *)
(* Handles of one kind cannot be told apart, so `arcs` and `weaks` count   *)
(* the ones that no call has taken.  get_mut(&mut self), into_inner(self)  *)
(* and the drops take a handle away from everybody else; the borrow        *)
(* checker lets them do so when the calls that borrow a handle (&self) can *)
(* all go on with another one.  Every access to a counter is a step of its *)
(* own; the counters are usize.                                            *)
(***************************************************************************)
EXTENDS Naturals, FiniteSets

CONSTANTS Threads,      \* the threads that share the handles
          USIZE_MAX,    \* usize::MAX in the code
          MaxHandles    \* no call makes a handle while there are so many (bound)

MAX_REF_COUNT == USIZE_MAX \div 2

\* The assumption behind the limit of half the range: too few threads to get past it.
ASSUME ArcAssumption ==
    /\ USIZE_MAX \in Nat
    /\ MaxHandles \in Nat
    /\ Threads # {}
    /\ IsFiniteSet(Threads)
    /\ Cardinality(Threads) + MAX_REF_COUNT < USIZE_MAX

VARIABLES strong_count,   \* of ArcInner
          ref_count,      \* of ArcInner: the Weaks, plus 1 for all Arcs; or USIZE_MAX, locked
          data,           \* "alive", "dropped", or "moved" out by into_inner()
          allocated,      \* is the Box of the ArcInner still there?
          aborted,        \* has the process been aborted?
          arcs,           \* live Arcs that no call has taken
          weaks,          \* live Weaks
          pc,             \* where each thread stands
          seen            \* the local of downgrade() and upgrade()

vars == <<strong_count, ref_count, data, allocated, aborted, arcs, weaks, pc, seen>>
memory == <<data, allocated, aborted>>

\* Arc::new()
Init ==
    /\ strong_count = 1
    /\ ref_count = 1
    /\ data = "alive"
    /\ allocated = TRUE
    /\ aborted = FALSE
    /\ arcs = 1
    /\ weaks = 0
    /\ pc = [t \in Threads |-> "idle"]
    /\ seen = [t \in Threads |-> 0]

----------------------------------------------------------------------------
Goto(t, from, to) ==
    /\ ~aborted
    /\ pc[t] = from
    /\ pc' = [pc EXCEPT ![t] = to]

See(t, value) == seen' = [seen EXCEPT ![t] = value]

\* The threads inside a call on &Arc or on &Weak.
ArcBorrowers == {t \in Threads : pc[t] \in {"downgrade", "abort"}}
WeakBorrowers == {t \in Threads : pc[t] = "upgrade"}

\* A call takes an Arc or a Weak for itself.
TakeArc ==
    /\ arcs > (IF ArcBorrowers = {} THEN 0 ELSE 1)
    /\ arcs' = arcs - 1

TakeWeak ==
    /\ weaks > (IF WeakBorrowers = {} THEN 0 ELSE 1)
    /\ weaks' = weaks - 1

Room == arcs + weaks < MaxHandles

\* fetch_add(1) and fetch_sub(1) on an AtomicUsize.
Add1(count) == IF count = USIZE_MAX THEN 0 ELSE count + 1
Sub1(count) == IF count = 0 THEN USIZE_MAX ELSE count - 1

----------------------------------------------------------------------------
\* clone(): the fetch_add, with its test.
Clone(t) ==
    /\ arcs > 0
    /\ strong_count <= MAX_REF_COUNT
    /\ Room
    /\ Goto(t, "idle", "idle")
    /\ strong_count' = Add1(strong_count)
    /\ arcs' = arcs + 1
    /\ UNCHANGED <<ref_count, memory, weaks, seen>>

CloneTooMany(t) ==
    /\ arcs > 0
    /\ strong_count > MAX_REF_COUNT
    /\ Goto(t, "idle", "abort")
    /\ strong_count' = Add1(strong_count)
    /\ UNCHANGED <<ref_count, memory, arcs, weaks, seen>>

\* clone(): process::abort().
Abort(t) ==
    /\ Goto(t, "abort", "abort")
    /\ aborted' = TRUE
    /\ UNCHANGED <<strong_count, ref_count, data, allocated, arcs, weaks, seen>>

----------------------------------------------------------------------------
\* downgrade(): the first load.
Downgrade(t) ==
    /\ arcs > 0
    /\ Room
    /\ Goto(t, "idle", "downgrade")
    /\ See(t, ref_count)
    /\ UNCHANGED <<strong_count, ref_count, memory, arcs, weaks>>

\* downgrade(): ref_count was locked, load it again.
DowngradeSpin(t) ==
    /\ seen[t] = USIZE_MAX
    /\ Goto(t, "downgrade", "downgrade")
    /\ See(t, ref_count)
    /\ UNCHANGED <<strong_count, ref_count, memory, arcs, weaks>>

\* downgrade(): the assertion fails.
DowngradePanic(t) ==
    /\ seen[t] \in (MAX_REF_COUNT + 1)..(USIZE_MAX - 1)
    /\ Goto(t, "downgrade", "idle")
    /\ UNCHANGED <<strong_count, ref_count, memory, arcs, weaks, seen>>

\* Seeded fault: the count is stored without a comparison.
DowngradeCasOkUnchecked(t) ==
    /\ seen[t] <= MAX_REF_COUNT
    /\ Goto(t, "downgrade", "idle")
    /\ ref_count' = seen[t] + 1
    /\ weaks' = weaks + 1
    /\ UNCHANGED <<strong_count, memory, arcs, seen>>

\* downgrade(): the compare_exchange.
DowngradeCasOk(t) ==
    /\ seen[t] <= MAX_REF_COUNT
    /\ ref_count = seen[t]
    /\ Goto(t, "downgrade", "idle")
    /\ ref_count' = seen[t] + 1
    /\ weaks' = weaks + 1
    /\ UNCHANGED <<strong_count, memory, arcs, seen>>

DowngradeCasFail(t) ==
    /\ seen[t] <= MAX_REF_COUNT
    /\ ref_count # seen[t]
    /\ Goto(t, "downgrade", "downgrade")
    /\ See(t, ref_count)
    /\ UNCHANGED <<strong_count, ref_count, memory, arcs, weaks>>

----------------------------------------------------------------------------
\* Weak::upgrade(): the load.
Upgrade(t) ==
    /\ weaks > 0
    /\ Room
    /\ Goto(t, "idle", "upgrade")
    /\ See(t, strong_count)
    /\ UNCHANGED <<strong_count, ref_count, memory, arcs, weaks>>

\* upgrade(): None, or the assertion fails.
UpgradeFails(t) ==
    /\ seen[t] = 0 \/ seen[t] > MAX_REF_COUNT
    /\ Goto(t, "upgrade", "idle")
    /\ UNCHANGED <<strong_count, ref_count, memory, arcs, weaks, seen>>

\* Seeded fault: the test for 0 is missing.
UpgradeCasOkFromZero(t) ==
    /\ seen[t] <= MAX_REF_COUNT
    /\ strong_count = seen[t]
    /\ Goto(t, "upgrade", "idle")
    /\ strong_count' = seen[t] + 1
    /\ arcs' = arcs + 1
    /\ UNCHANGED <<ref_count, memory, weaks, seen>>

\* Seeded fault: the assertion of the limit is missing.
UpgradeCasOkNoLimit(t) ==
    /\ seen[t] > 0
    /\ strong_count = seen[t]
    /\ Goto(t, "upgrade", "idle")
    /\ strong_count' = seen[t] + 1
    /\ arcs' = arcs + 1
    /\ UNCHANGED <<ref_count, memory, weaks, seen>>

\* upgrade(): the compare_exchange.
UpgradeCasOk(t) ==
    /\ seen[t] \in 1..MAX_REF_COUNT
    /\ strong_count = seen[t]
    /\ Goto(t, "upgrade", "idle")
    /\ strong_count' = seen[t] + 1
    /\ arcs' = arcs + 1
    /\ UNCHANGED <<ref_count, memory, weaks, seen>>

UpgradeCasFail(t) ==
    /\ seen[t] \in 1..MAX_REF_COUNT
    /\ strong_count # seen[t]
    /\ Goto(t, "upgrade", "upgrade")
    /\ See(t, strong_count)
    /\ UNCHANGED <<strong_count, ref_count, memory, arcs, weaks>>

----------------------------------------------------------------------------
\* get_mut(): the compare_exchange(1, usize::MAX).  When it fails, nothing happens.
GetMut(t) ==
    /\ ref_count = 1
    /\ Goto(t, "idle", "mut_load")
    /\ TakeArc
    /\ ref_count' = USIZE_MAX
    /\ UNCHANGED <<strong_count, memory, weaks, seen>>

\* Seeded fault: get_mut() does not ask for other Arcs.
MutLoadUnchecked(t) ==
    /\ Goto(t, "mut_load", "mut_store")
    /\ UNCHANGED <<strong_count, ref_count, memory, arcs, weaks, seen>>

\* get_mut(): strong_count.load().
MutLoad(t) ==
    /\ Goto(t, "mut_load", IF strong_count = 1 THEN "mut_store" ELSE "mut_store_none")
    /\ UNCHANGED <<strong_count, ref_count, memory, arcs, weaks, seen>>

\* get_mut(): ref_count.store(1), then Some(&mut T)...
MutStore(t) ==
    /\ Goto(t, "mut_store", "mutate")
    /\ ref_count' = 1
    /\ UNCHANGED <<strong_count, memory, arcs, weaks, seen>>

\* ...or None.
MutStoreNone(t) ==
    /\ Goto(t, "mut_store_none", "idle")
    /\ ref_count' = 1
    /\ arcs' = arcs + 1
    /\ UNCHANGED <<strong_count, memory, weaks, seen>>

\* The life of the &mut T ends, and the Arc may be used again.
MutEnd(t) ==
    /\ Goto(t, "mutate", "idle")
    /\ arcs' = arcs + 1
    /\ UNCHANGED <<strong_count, ref_count, memory, weaks, seen>>

----------------------------------------------------------------------------
\* into_inner(): the compare_exchange(1, usize::MAX).  When it fails, self is dropped.
IntoInner(t) ==
    /\ TakeArc
    /\ IF ref_count = 1
       THEN ref_count' = USIZE_MAX /\ Goto(t, "idle", "inner_load")
       ELSE ref_count' = ref_count /\ Goto(t, "idle", "drop_arc")
    /\ UNCHANGED <<strong_count, memory, weaks, seen>>

\* into_inner(): strong_count.load().
InnerLoad(t) ==
    /\ Goto(t, "inner_load", IF strong_count = 1 THEN "inner_read" ELSE "inner_store")
    /\ UNCHANGED <<strong_count, ref_count, memory, arcs, weaks, seen>>

\* Seeded fault: into_inner() returns None and leaves ref_count locked.
InnerStoreMissing(t) ==
    /\ Goto(t, "inner_store", "drop_arc")
    /\ UNCHANGED <<strong_count, ref_count, memory, arcs, weaks, seen>>

\* into_inner(): not the only Arc, ref_count.store(1); self is dropped.
InnerStore(t) ==
    /\ Goto(t, "inner_store", "drop_arc")
    /\ ref_count' = 1
    /\ UNCHANGED <<strong_count, memory, arcs, weaks, seen>>

\* into_inner(): the data are moved out; Free follows.
InnerRead(t) ==
    /\ Goto(t, "inner_read", "inner_free")
    /\ data' = "moved"
    /\ UNCHANGED <<strong_count, ref_count, allocated, aborted, arcs, weaks, seen>>

----------------------------------------------------------------------------
\* Drop for Arc: strong_count.fetch_sub(1), of an Arc that thread t has taken.
SubStrong(t, from) ==
    /\ Goto(t, from, IF strong_count = 1 THEN "drop_data" ELSE "idle")
    /\ strong_count' = Sub1(strong_count)

DropArc(t) ==
    /\ TakeArc
    /\ SubStrong(t, "idle")
    /\ UNCHANGED <<ref_count, memory, weaks, seen>>

\* The same, for self of an into_inner() that returns None.
DropSelf(t) ==
    /\ SubStrong(t, "drop_arc")
    /\ UNCHANGED <<ref_count, memory, arcs, weaks, seen>>

\* Seeded fault: the share of all Arcs in ref_count is not given back.
DropDataOnly(t) ==
    /\ Goto(t, "drop_data", "idle")
    /\ data' = "dropped"
    /\ UNCHANGED <<strong_count, ref_count, allocated, aborted, arcs, weaks, seen>>

\* Drop for Arc: ManuallyDrop::drop().
DropData(t) ==
    /\ Goto(t, "drop_data", "drop_weak")
    /\ data' = "dropped"
    /\ UNCHANGED <<strong_count, ref_count, allocated, aborted, arcs, weaks, seen>>

\* Drop for Weak: ref_count.fetch_sub(1).
SubRef(t, from) ==
    /\ Goto(t, from, IF ref_count = 1 THEN "free" ELSE "idle")
    /\ ref_count' = Sub1(ref_count)

\* Of a Weak...
DropWeak(t) ==
    /\ TakeWeak
    /\ SubRef(t, "idle")
    /\ UNCHANGED <<strong_count, memory, arcs, seen>>

\* ...and of the one that stands for all Arcs.
DropLastArc(t) ==
    /\ SubRef(t, "drop_weak")
    /\ UNCHANGED <<strong_count, memory, arcs, weaks, seen>>

\* Box::from_raw() is dropped, at the end of drop() or of into_inner().
Free(t) ==
    /\ \/ Goto(t, "free", "idle")
       \/ Goto(t, "inner_free", "idle")
    /\ allocated' = FALSE
    /\ UNCHANGED <<strong_count, ref_count, data, aborted, arcs, weaks, seen>>

----------------------------------------------------------------------------
\* The steps a thread takes by itself once it is inside an operation.
Step(t) ==
    \/ Abort(t)
    \/ DowngradeSpin(t) \/ DowngradePanic(t) \/ DowngradeCasOk(t) \/ DowngradeCasFail(t)
    \/ UpgradeFails(t) \/ UpgradeCasOk(t) \/ UpgradeCasFail(t)
    \/ MutLoad(t) \/ MutStore(t) \/ MutStoreNone(t) \/ MutEnd(t)
    \/ InnerLoad(t) \/ InnerStore(t) \/ InnerRead(t)
    \/ DropSelf(t) \/ DropData(t) \/ DropLastArc(t) \/ Free(t)

\* The calls a thread may or may not make.
Client(t) ==
    \/ Clone(t) \/ CloneTooMany(t) \/ Downgrade(t) \/ Upgrade(t) \/ GetMut(t)
    \/ IntoInner(t) \/ DropArc(t) \/ DropWeak(t)

Next == \E t \in Threads : Step(t) \/ Client(t)

Spec == Init /\ [][Next]_vars

\* The operating system runs every thread that is inside an operation, and a &mut T
\* does not live for ever.
FairSpec == Spec /\ \A t \in Threads : WF_vars(Step(t))

----------------------------------------------------------------------------
\* Where a thread keeps ref_count at usize::MAX, and where it has an Arc that a call
\* has taken and not yet given back or away.
Locking == {"mut_load", "mut_store", "mut_store_none", "inner_load", "inner_store",
            "inner_read", "inner_free"}
Taking == Locking \cup {"mutate", "drop_arc"}

Lockers == {t \in Threads : pc[t] \in Locking}
Takers == {t \in Threads : pc[t] \in Taking}

\* The threads that have counted an Arc that will never be.
Aborting == {t \in Threads : pc[t] = "abort"}

\* The threads that drop the last Arc and still hold its share of ref_count.
LastDroppers == {t \in Threads : pc[t] \in {"drop_data", "drop_weak"}}

TypeOK ==
    /\ strong_count \in 0..USIZE_MAX
    /\ ref_count \in 0..USIZE_MAX
    /\ data \in {"alive", "dropped", "moved"}
    /\ allocated \in BOOLEAN
    /\ aborted \in BOOLEAN
    /\ arcs \in Nat
    /\ weaks \in Nat
    /\ pc \in [Threads -> {"idle", "abort", "downgrade", "upgrade", "mut_load", "mut_store",
                           "mut_store_none", "mutate", "inner_load", "inner_store",
                           "inner_read", "inner_free", "drop_arc", "drop_data",
                           "drop_weak", "free"}]
    /\ seen \in [Threads -> 0..USIZE_MAX]

\* The counters never wrap and never lie: strong_count is the number of Arcs, and
\* ref_count the number of Weaks plus one while there is an Arc, or usize::MAX while
\* exactly one get_mut() or into_inner() has locked it, and then there is no Weak.
CountsExact ==
    allocated =>
        /\ strong_count = arcs + Cardinality(Takers) + Cardinality(Aborting)
        /\ Lockers = {} =>
              ref_count = weaks + (IF strong_count > 0 \/ LastDroppers # {} THEN 1 ELSE 0)
        /\ Lockers # {} => ref_count = USIZE_MAX /\ weaks = 0
        /\ \A t, u \in Lockers : t = u

\* Nobody uses what is gone: while there is an Arc the data are alive, while there is
\* a handle or a call under way the allocation is there, and the data are dropped or
\* moved out, and the allocation freed, by one thread and once.
NoUseAfterFree ==
    /\ data # "alive" =>
          arcs = 0 /\ \A t \in Threads : pc[t] \in {"idle", "upgrade", "inner_free",
                                                   "drop_weak", "free"}
    /\ ~allocated => weaks = 0 /\ \A t \in Threads : pc[t] = "idle"
    /\ ~allocated => data # "alive"

\* get_mut() and into_inner() succeed for the only handle: no Arc, no Weak and no call
\* of another thread can reach the data meanwhile.
UniqueAccess ==
    \A t \in Threads : pc[t] \in {"mut_store", "mutate", "inner_read", "inner_free"} =>
        /\ arcs = 0
        /\ weaks = 0
        /\ \A u \in Threads \ {t} : pc[u] = "idle"

\* Nothing leaks: when the last handle is gone and every call has returned, the data
\* were dropped or moved out and the allocation was freed.
NothingLeaks ==
    (arcs = 0 /\ weaks = 0 /\ \A t \in Threads : pc[t] = "idle") => ~allocated

\* ref_count does not stay locked: downgrade() does not spin for ever on usize::MAX.
LockIsReleased == ref_count = USIZE_MAX ~> (ref_count # USIZE_MAX \/ ~allocated \/ aborted)
=============================================================================
