----------------------------- MODULE ArcProofs -----------------------------
(***************************************************************************)
(* Proofs about Arc for every finite set of threads, every usize::MAX that *)
(* leaves room for them above the limit, and every number of handles.      *)
(***************************************************************************)
EXTENDS Arc, FiniteSetTheorems, TLAPS

\* A call that borrows a handle keeps it there.
Borrowed ==
    /\ ArcBorrowers # {} => arcs > 0
    /\ WeakBorrowers # {} => weaks > 0

\* Where the thread that ends the life of the data or of the allocation stands, and
\* what it may rely on.
LifeEnds ==
    /\ LastDroppers # {} => strong_count = 0
    /\ \A t, u \in LastDroppers : t = u
    /\ data = "alive" <=>
          \/ strong_count > 0 /\ \A t \in Threads : pc[t] # "inner_free"
          \/ \E t \in Threads : pc[t] = "drop_data"
    /\ \A t \in Threads : pc[t] = "free" =>
          arcs = 0 /\ weaks = 0 /\ \A u \in Threads \ {t} : pc[u] = "idle"
    /\ ref_count = 0 <=> \E t \in Threads : pc[t] = "free"

\* The counters stay below the lock value and the end of the range.
Limits ==
    /\ strong_count <= MAX_REF_COUNT + 1 + Cardinality(Aborting)
    /\ Lockers = {} => ref_count <= MAX_REF_COUNT + 1

\* After the end nothing is left.
Gone ==
    /\ arcs = 0
    /\ weaks = 0
    /\ data # "alive"
    /\ \A t \in Threads : pc[t] = "idle"

\* What holds while the allocation is there.
Living == CountsExact /\ Borrowed /\ LifeEnds /\ Limits /\ UniqueAccess

\* The inductive invariant.
IInv ==
    /\ TypeOK
    /\ allocated => Living
    /\ ~allocated => Gone

----------------------------------------------------------------------------
\* What the proofs need to know of the constants.
LEMMA Constants ==
    /\ USIZE_MAX \in Nat
    /\ MAX_REF_COUNT \in Nat
    /\ Cardinality(Threads) \in Nat
    /\ Cardinality(Threads) > 0
    /\ Cardinality(Threads) + MAX_REF_COUNT < USIZE_MAX
<1>1. MAX_REF_COUNT \in Nat
    BY ArcAssumption DEF MAX_REF_COUNT
<1>2. Cardinality(Threads) \in Nat /\ Cardinality(Threads) # 0
    BY ArcAssumption, FS_CardinalityType, FS_EmptySet
<1>. QED
    BY <1>1, <1>2, ArcAssumption

\* The numbers of threads that CountsExact and Limits speak of.
LEMMA Sizes ==
    /\ Cardinality(Takers) \in Nat
    /\ Cardinality(Aborting) \in Nat
    /\ Cardinality(Aborting) <= Cardinality(Threads)
    /\ Cardinality(Aborting) = 0 => Aborting = {}
    /\ Cardinality(Takers) = 0 => Takers = {}
    /\ \A t \in Takers : Cardinality(Takers) >= 1
    /\ \A t \in Aborting : Cardinality(Aborting) >= 1
    /\ \A t, u \in Takers : Cardinality(Takers) = 1 => t = u
<1>1. Takers \subseteq Threads /\ Aborting \subseteq Threads
    BY DEF Takers, Aborting
<1>2. /\ IsFiniteSet(Takers)
      /\ IsFiniteSet(Aborting)
      /\ Cardinality(Aborting) <= Cardinality(Threads)
    BY <1>1, ArcAssumption, FS_Subset
<1>3. Cardinality(Takers) \in Nat /\ Cardinality(Aborting) \in Nat
    BY <1>2, FS_CardinalityType
<1>4. /\ Cardinality(Aborting) = 0 <=> Aborting = {}
      /\ Cardinality(Takers) = 0 <=> Takers = {}
    BY <1>2, FS_EmptySet
<1>5. ASSUME NEW t \in Takers, NEW u \in Takers, Cardinality(Takers) = 1 PROVE t = u
    <2>1. PICK x : Takers = {x}
        BY <1>2, <1>5, FS_Singleton
    <2>. QED
        BY <2>1
<1>. QED
    BY <1>2, <1>3, <1>4, <1>5

\* How those numbers change when thread t moves.
LEMMA Moves ==
    ASSUME TypeOK, NEW t \in Threads, pc' = [pc EXCEPT ![t] = pc'[t]]
    PROVE  /\ Cardinality(Takers') = Cardinality(Takers)
                  + (IF pc'[t] \in Taking THEN 1 ELSE 0) - (IF pc[t] \in Taking THEN 1 ELSE 0)
           /\ Cardinality(Aborting') = Cardinality(Aborting)
                  + (IF pc'[t] = "abort" THEN 1 ELSE 0) - (IF pc[t] = "abort" THEN 1 ELSE 0)
           /\ Cardinality(Aborting') <= Cardinality(Threads)
<1>1. Takers \subseteq Threads /\ Aborting \subseteq Threads
    BY DEF Takers, Aborting
<1>2. IsFiniteSet(Takers) /\ IsFiniteSet(Aborting)
    BY <1>1, ArcAssumption, FS_Subset
<1>3. Cardinality(Takers) \in Nat /\ Cardinality(Aborting) \in Nat
    BY <1>2, FS_CardinalityType
<1>4. Takers' = IF pc'[t] \in Taking THEN Takers \cup {t} ELSE Takers \ {t}
    BY DEF Takers, TypeOK
<1>5. Aborting' = IF pc'[t] = "abort" THEN Aborting \cup {t} ELSE Aborting \ {t}
    BY DEF Aborting, TypeOK
<1>6. t \in Takers <=> pc[t] \in Taking
    BY DEF Takers
<1>7. t \in Aborting <=> pc[t] = "abort"
    BY DEF Aborting
<1>8. /\ Cardinality(Takers \cup {t}) = IF t \in Takers THEN Cardinality(Takers) ELSE Cardinality(Takers) + 1
      /\ Cardinality(Takers \ {t}) = IF t \in Takers THEN Cardinality(Takers) - 1 ELSE Cardinality(Takers)
    BY <1>2, FS_AddElement, FS_RemoveElement
<1>9. /\ Cardinality(Aborting \cup {t}) = IF t \in Aborting THEN Cardinality(Aborting) ELSE Cardinality(Aborting) + 1
      /\ Cardinality(Aborting \ {t}) = IF t \in Aborting THEN Cardinality(Aborting) - 1 ELSE Cardinality(Aborting)
    BY <1>2, FS_AddElement, FS_RemoveElement
<1>10. Cardinality(Aborting') <= Cardinality(Threads)
    <2>1. Aborting' \subseteq Threads
        BY DEF Aborting
    <2>. QED
        BY <2>1, ArcAssumption, FS_Subset
<1>. QED
    BY <1>3, <1>4, <1>5, <1>6, <1>7, <1>8, <1>9, <1>10

\* What the invariant says of the threads when a counter is 0.
LEMMA Empty ==
    ASSUME TypeOK, allocated, Living
    PROVE  /\ Lockers \subseteq Takers
           /\ Lockers # {} => strong_count > 0
           /\ arcs > 0 => strong_count > 0
           /\ strong_count > 0 => LastDroppers = {}
           /\ ref_count > 0 => \A u \in Threads : pc[u] # "free"
           /\ strong_count = 0 => /\ arcs = 0
                                 /\ Takers = {}
                                 /\ Aborting = {}
                                 /\ \A u \in Threads : pc[u] \in {"idle", "upgrade", "drop_data",
                                                                 "drop_weak", "free"}
           /\ weaks = 0 => \A u \in Threads : pc[u] # "upgrade"
<1>1. Lockers \subseteq Takers
    BY DEF Lockers, Takers, Taking
<1>2. strong_count = arcs + Cardinality(Takers) + Cardinality(Aborting)
    BY DEF Living, CountsExact
<1>3. Lockers # {} => strong_count > 0
    BY <1>1, <1>2, Sizes DEF TypeOK
<1>4. arcs > 0 => strong_count > 0
    BY <1>2, Sizes DEF TypeOK
<1>5. strong_count > 0 => LastDroppers = {}
    BY DEF Living, LifeEnds
<1>6. ref_count > 0 => \A u \in Threads : pc[u] # "free"
    BY DEF Living, LifeEnds
<1>7. strong_count = 0 => arcs = 0 /\ Takers = {} /\ Aborting = {}
    <2>1. strong_count = 0 => arcs = 0 /\ Cardinality(Takers) = 0 /\ Cardinality(Aborting) = 0
        BY <1>2, Sizes DEF TypeOK
    <2>. QED
        BY <2>1, Sizes
<1>8. arcs = 0 => \A u \in Threads : pc[u] # "downgrade"
    BY DEF Living, Borrowed, ArcBorrowers, TypeOK
<1>9. weaks = 0 => \A u \in Threads : pc[u] # "upgrade"
    BY DEF Living, Borrowed, WeakBorrowers, TypeOK
<1>10. ASSUME strong_count = 0, NEW u \in Threads
       PROVE  pc[u] \in {"idle", "upgrade", "drop_data", "drop_weak", "free"}
    BY <1>7, <1>8, <1>10 DEF TypeOK, Takers, Aborting, Taking, Locking
<1>. QED
    BY <1>1, <1>3, <1>4, <1>5, <1>6, <1>7, <1>9, <1>10

\* Types are preserved by every step.
LEMMA TypeInduction == TypeOK /\ [Next]_vars => TypeOK'
<1> SUFFICES ASSUME TypeOK, [Next]_vars PROVE TypeOK'
    OBVIOUS
<1> USE Constants DEF TypeOK, memory
<1>1. CASE UNCHANGED vars
    BY <1>1 DEF vars
<1>2. ASSUME NEW t \in Threads, Step(t) PROVE TypeOK'
    <2>1. CASE Abort(t)
        BY <2>1 DEF Abort, Goto
    <2>2. CASE DowngradeSpin(t)
        BY <2>2 DEF DowngradeSpin, Goto, See
    <2>3. CASE DowngradePanic(t)
        BY <2>3 DEF DowngradePanic, Goto
    <2>4. CASE DowngradeCasOk(t)
        BY <2>4 DEF DowngradeCasOk, Goto
    <2>5. CASE DowngradeCasFail(t)
        BY <2>5 DEF DowngradeCasFail, Goto, See
    <2>6. CASE UpgradeFails(t)
        BY <2>6 DEF UpgradeFails, Goto
    <2>7. CASE UpgradeCasOk(t)
        BY <2>7 DEF UpgradeCasOk, Goto
    <2>8. CASE UpgradeCasFail(t)
        BY <2>8 DEF UpgradeCasFail, Goto, See
    <2>9. CASE MutLoad(t)
        BY <2>9 DEF MutLoad, Goto
    <2>10. CASE MutStore(t)
        BY <2>10 DEF MutStore, Goto
    <2>11. CASE MutStoreNone(t)
        BY <2>11 DEF MutStoreNone, Goto
    <2>12. CASE MutEnd(t)
        BY <2>12 DEF MutEnd, Goto
    <2>13. CASE InnerLoad(t)
        BY <2>13 DEF InnerLoad, Goto
    <2>14. CASE InnerStore(t)
        BY <2>14 DEF InnerStore, Goto
    <2>15. CASE InnerRead(t)
        BY <2>15 DEF InnerRead, Goto
    <2>16. CASE DropSelf(t)
        BY <2>16 DEF DropSelf, Goto, SubStrong, Sub1
    <2>17. CASE DropData(t)
        BY <2>17 DEF DropData, Goto
    <2>18. CASE DropLastArc(t)
        BY <2>18 DEF DropLastArc, Goto, SubRef, Sub1
    <2>19. CASE Free(t)
        BY <2>19 DEF Free, Goto
    <2>. QED
        BY <1>2, <2>1, <2>2, <2>3, <2>4, <2>5, <2>6, <2>7, <2>8, <2>9, <2>10, <2>11, <2>12, <2>13, <2>14, <2>15, <2>16, <2>17, <2>18, <2>19
           DEF Step
<1>3. ASSUME NEW t \in Threads, Client(t) PROVE TypeOK'
    <2>1. CASE Clone(t)
        BY <2>1 DEF Clone, Goto, Add1, Room
    <2>2. CASE CloneTooMany(t)
        BY <2>2 DEF CloneTooMany, Goto, Add1
    <2>3. CASE Downgrade(t)
        BY <2>3 DEF Downgrade, Goto, See
    <2>4. CASE Upgrade(t)
        BY <2>4 DEF Upgrade, Goto, See
    <2>5. CASE GetMut(t)
        BY <2>5 DEF GetMut, Goto, TakeArc
    <2>6. CASE IntoInner(t)
        BY <2>6 DEF IntoInner, Goto, TakeArc
    <2>7. CASE DropArc(t)
        BY <2>7 DEF DropArc, Goto, TakeArc, SubStrong, Sub1
    <2>8. CASE DropWeak(t)
        BY <2>8 DEF DropWeak, Goto, TakeWeak, SubRef, Sub1
    <2>. QED
        BY <1>3, <2>1, <2>2, <2>3, <2>4, <2>5, <2>6, <2>7, <2>8 DEF Client
<1>. QED
    BY <1>1, <1>2, <1>3 DEF Next

\* Nobody does anything once the allocation is gone.
LEMMA Alive ==
    ASSUME IInv, NEW t \in Threads, Step(t) \/ Client(t)
    PROVE  allocated
<1>1. ASSUME Gone PROVE ~Step(t)
    BY <1>1
       DEF Gone, Step, Goto, Abort, DowngradeSpin, DowngradePanic, DowngradeCasOk,
           DowngradeCasFail, UpgradeFails, UpgradeCasOk, UpgradeCasFail, MutLoad, MutStore,
           MutStoreNone, MutEnd, InnerLoad, InnerStore, InnerRead, DropSelf, DropData,
           DropLastArc, Free, SubStrong, SubRef
<1>2. ASSUME Gone PROVE ~Client(t)
    BY <1>2
       DEF Gone, Client, TakeArc, TakeWeak, Clone, CloneTooMany, Downgrade, Upgrade, GetMut,
           IntoInner, DropArc, DropWeak
<1>. QED
    BY <1>1, <1>2 DEF IInv

\* A step that moves a thread into, within or out of a call on a borrowed handle and
\* leaves the counters, the handles and the data alone.
LEMMA Quiet ==
    ASSUME TypeOK, allocated, Living, NEW t \in Threads, NEW y,
           UNCHANGED <<strong_count, ref_count, data, allocated, arcs, weaks>>,
           pc' = [pc EXCEPT ![t] = y],
           \/ pc[t] = y
           \/ pc[t] \in {"idle", "downgrade", "upgrade"} /\ y = "idle"
           \/ pc[t] = "idle" /\ y = "downgrade" /\ arcs > 0
           \/ pc[t] = "idle" /\ y = "upgrade" /\ weaks > 0
    PROVE  Living'
<1> USE DEF Living, TypeOK
<1>1. /\ Takers' = Takers
      /\ Lockers' = Lockers
      /\ Aborting' = Aborting
      /\ LastDroppers' = LastDroppers
    BY DEF Takers, Lockers, Aborting, LastDroppers, Taking, Locking
<1>2. CountsExact'
    BY <1>1 DEF CountsExact
<1>3. Borrowed'
    BY DEF Borrowed, ArcBorrowers, WeakBorrowers
<1>4. Limits'
    BY <1>1 DEF Limits
<1>5. UniqueAccess'
    BY DEF UniqueAccess
<1>6. \A u \in Threads : pc[u] = "free" => pc[t] = y \/ u = t
    BY DEF LifeEnds
<1>7. LifeEnds'
    BY <1>1 DEF LifeEnds
<1>. QED
    BY <1>2, <1>3, <1>4, <1>5, <1>7

----------------------------------------------------------------------------
\* Each step keeps the invariant of an allocation that is there.
LEMMA LivingInduction ==
    ASSUME TypeOK, TypeOK', allocated, Living, NEW t \in Threads, Step(t) \/ Client(t), ~Free(t)
    PROVE  Living'
<1>1. CASE Abort(t)
    BY <1>1, Quiet DEF Abort, Goto, memory, TypeOK, Living, Borrowed, ArcBorrowers, WeakBorrowers
<1>2. CASE DowngradeSpin(t)
    BY <1>2, Quiet
       DEF DowngradeSpin, Goto, See, memory, TypeOK, Living, Borrowed, ArcBorrowers,
           WeakBorrowers
<1>3. CASE DowngradePanic(t)
    BY <1>3, Quiet
       DEF DowngradePanic, Goto, memory, TypeOK, Living, Borrowed, ArcBorrowers, WeakBorrowers
<1>4. CASE DowngradeCasOk(t)
    <2>1. pc[t] = "downgrade" /\ pc' = [pc EXCEPT ![t] = "idle"]
        BY <1>4 DEF DowngradeCasOk, Goto
    <2>2. pc[t] = "downgrade" /\ pc'[t] = "idle" /\ pc' = [pc EXCEPT ![t] = pc'[t]]
        BY <2>1 DEF TypeOK
    <2>3. /\ Cardinality(Takers') = Cardinality(Takers)
          /\ Cardinality(Aborting') = Cardinality(Aborting)
        BY <2>2, Moves, Sizes DEF Taking, Locking
    <2>4. /\ Lockers' = Lockers
          /\ LastDroppers' = LastDroppers
        BY <2>1 DEF TypeOK, Lockers, LastDroppers, Locking
    <2>5. Lockers = {} /\ strong_count > 0 /\ LastDroppers = {}
        <3>1. ref_count # USIZE_MAX
            BY <1>4, Constants DEF DowngradeCasOk, TypeOK
        <3>2. arcs > 0
            BY <2>2 DEF Living, Borrowed, ArcBorrowers, TypeOK
        <3>. QED
            BY <3>1, <3>2, Empty DEF Living, CountsExact
    <2>8. CountsExact'
        BY <1>4, <2>3, <2>4, <2>5 DEF DowngradeCasOk, memory, Living, CountsExact, TypeOK
    <2>9. Borrowed'
        BY <1>4, <2>1, <2>3, <2>4, Empty
           DEF DowngradeCasOk, Goto, memory, TypeOK, Living, Borrowed, ArcBorrowers,
               WeakBorrowers
    <2>10. LifeEnds'
        BY <1>4, <2>1, <2>3, <2>4, Empty
           DEF DowngradeCasOk, Goto, memory, TypeOK, Living, LifeEnds
    <2>11. Limits'
        BY <1>4, <2>1, <2>3, <2>4, Constants, Sizes, Empty
           DEF DowngradeCasOk, Goto, memory, TypeOK, Living, Limits, CountsExact, Lockers,
               Locking
    <2>12. UniqueAccess'
        BY <1>4, <2>1, <2>3, <2>4, Empty
           DEF DowngradeCasOk, Goto, memory, TypeOK, Living, UniqueAccess
    <2>. QED
        BY <2>8, <2>9, <2>10, <2>11, <2>12 DEF Living
<1>5. CASE DowngradeCasFail(t)
    BY <1>5, Quiet
       DEF DowngradeCasFail, Goto, See, memory, TypeOK, Living, Borrowed, ArcBorrowers,
           WeakBorrowers
<1>6. CASE UpgradeFails(t)
    BY <1>6, Quiet
       DEF UpgradeFails, Goto, memory, TypeOK, Living, Borrowed, ArcBorrowers, WeakBorrowers
<1>7. CASE UpgradeCasOk(t)
    <2>1. pc[t] = "upgrade" /\ pc' = [pc EXCEPT ![t] = "idle"]
        BY <1>7 DEF UpgradeCasOk, Goto
    <2>2. pc[t] = "upgrade" /\ pc'[t] = "idle" /\ pc' = [pc EXCEPT ![t] = pc'[t]]
        BY <2>1 DEF TypeOK
    <2>3. /\ Cardinality(Takers') = Cardinality(Takers)
          /\ Cardinality(Aborting') = Cardinality(Aborting)
        BY <2>2, Moves, Sizes DEF Taking, Locking
    <2>4. /\ Lockers' = Lockers
          /\ LastDroppers' = LastDroppers
        BY <2>1 DEF TypeOK, Lockers, LastDroppers, Locking
    <2>8. CountsExact'
        BY <1>7, <2>1, <2>3, <2>4, Constants, Sizes, Empty
           DEF UpgradeCasOk, Goto, memory, TypeOK, Living, CountsExact, Lockers, Locking,
               LastDroppers
    <2>9. Borrowed'
        BY <1>7, <2>1, <2>3, <2>4, Empty
           DEF UpgradeCasOk, Goto, memory, TypeOK, Living, Borrowed, ArcBorrowers, WeakBorrowers
    <2>10. LifeEnds'
        BY <1>7, <2>1, <2>3, <2>4, Empty DEF UpgradeCasOk, Goto, memory, TypeOK, Living, LifeEnds
    <2>11. Limits'
        BY <1>7, <2>1, <2>3, <2>4, Constants, Sizes, Empty
           DEF UpgradeCasOk, Goto, memory, TypeOK, Living, Limits, CountsExact, Lockers, Locking
    <2>12. UniqueAccess'
        BY <1>7, <2>1, <2>3, <2>4, Empty
           DEF UpgradeCasOk, Goto, memory, TypeOK, Living, UniqueAccess
    <2>. QED
        BY <2>8, <2>9, <2>10, <2>11, <2>12 DEF Living
<1>8. CASE UpgradeCasFail(t)
    BY <1>8, Quiet
       DEF UpgradeCasFail, Goto, See, memory, TypeOK, Living, Borrowed, ArcBorrowers,
           WeakBorrowers
<1>9. CASE MutLoad(t)
    <2>1. pc[t] = "mut_load" /\ pc' = [pc EXCEPT ![t] = IF strong_count = 1 THEN "mut_store" ELSE "mut_store_none"]
        BY <1>9 DEF MutLoad, Goto
    <2>2. pc[t] = "mut_load" /\ pc'[t] = (IF strong_count = 1 THEN "mut_store" ELSE "mut_store_none") /\ pc' = [pc EXCEPT ![t] = pc'[t]]
        BY <2>1 DEF TypeOK
    <2>3. /\ Cardinality(Takers') = Cardinality(Takers)
          /\ Cardinality(Aborting') = Cardinality(Aborting)
        BY <2>2, Moves, Sizes DEF Taking, Locking
    <2>4. /\ Lockers' = Lockers
          /\ LastDroppers' = LastDroppers
        BY <2>1 DEF TypeOK, Lockers, LastDroppers, Locking
    <2>8. CountsExact'
        BY <1>9, <2>1, <2>3, <2>4, Empty DEF MutLoad, Goto, memory, TypeOK, Living, CountsExact
    <2>9. Borrowed'
        BY <1>9, <2>1, <2>3, <2>4, Empty
           DEF MutLoad, Goto, memory, TypeOK, Living, Borrowed, ArcBorrowers, WeakBorrowers
    <2>10. LifeEnds'
        BY <1>9, <2>1, <2>3, <2>4, Empty DEF MutLoad, Goto, memory, TypeOK, Living, LifeEnds
    <2>11. Limits'
        BY <1>9, <2>1, <2>3, <2>4, Empty DEF MutLoad, Goto, memory, TypeOK, Living, Limits
    <2>12. UniqueAccess'
        BY <1>9, <2>1, <2>3, <2>4, Constants, Sizes
           DEF MutLoad, Goto, memory, TypeOK, Living, UniqueAccess, CountsExact, Borrowed,
               ArcBorrowers, WeakBorrowers, Lockers, Takers, Aborting, LastDroppers, LifeEnds,
               Locking, Taking
    <2>. QED
        BY <2>8, <2>9, <2>10, <2>11, <2>12 DEF Living
<1>10. CASE MutStore(t)
    <2>1. pc[t] = "mut_store" /\ pc' = [pc EXCEPT ![t] = "mutate"]
        BY <1>10 DEF MutStore, Goto
    <2>2. pc[t] = "mut_store" /\ pc'[t] = "mutate" /\ pc' = [pc EXCEPT ![t] = pc'[t]]
        BY <2>1 DEF TypeOK
    <2>3. /\ Cardinality(Takers') = Cardinality(Takers)
          /\ Cardinality(Aborting') = Cardinality(Aborting)
        BY <2>2, Moves, Sizes DEF Taking, Locking
    <2>4. /\ Lockers' = Lockers \ {t}
          /\ LastDroppers' = LastDroppers
        BY <2>1 DEF TypeOK, Lockers, LastDroppers, Locking
    <2>8. CountsExact'
        BY <1>10, <2>1, <2>3, <2>4, Constants, Sizes
           DEF MutStore, Goto, memory, TypeOK, Living, CountsExact, Lockers, Takers,
               LastDroppers, LifeEnds, Locking, Taking
    <2>9. Borrowed'
        BY <1>10, <2>1, <2>3, <2>4, Empty
           DEF MutStore, Goto, memory, TypeOK, Living, Borrowed, ArcBorrowers, WeakBorrowers
    <2>10. LifeEnds'
        BY <1>10, <2>1, <2>3, <2>4, Empty DEF MutStore, Goto, memory, TypeOK, Living, LifeEnds
    <2>11. Limits'
        BY <1>10, <2>1, <2>3, <2>4, Constants, Sizes, Empty
           DEF MutStore, Goto, memory, TypeOK, Living, Limits, CountsExact, Lockers, Locking
    <2>12. UniqueAccess'
        BY <1>10, <2>1, <2>3, <2>4, Empty DEF MutStore, Goto, memory, TypeOK, Living, UniqueAccess
    <2>. QED
        BY <2>8, <2>9, <2>10, <2>11, <2>12 DEF Living
<1>11. CASE MutStoreNone(t)
    <2>1. pc[t] = "mut_store_none" /\ pc' = [pc EXCEPT ![t] = "idle"]
        BY <1>11 DEF MutStoreNone, Goto
    <2>2. pc[t] = "mut_store_none" /\ pc'[t] = "idle" /\ pc' = [pc EXCEPT ![t] = pc'[t]]
        BY <2>1 DEF TypeOK
    <2>3. /\ Cardinality(Takers') = Cardinality(Takers) - 1
          /\ Cardinality(Aborting') = Cardinality(Aborting)
        BY <2>2, Moves, Sizes DEF Taking, Locking
    <2>4. /\ Lockers' = Lockers \ {t}
          /\ LastDroppers' = LastDroppers
        BY <2>1 DEF TypeOK, Lockers, LastDroppers, Locking
    <2>8. CountsExact'
        BY <1>11, <2>1, <2>3, <2>4, Constants, Sizes, Empty
           DEF MutStoreNone, Goto, memory, TypeOK, Living, CountsExact, Lockers, Locking,
               LastDroppers
    <2>9. Borrowed'
        BY <1>11, <2>1, <2>3, <2>4, Empty
           DEF MutStoreNone, Goto, memory, TypeOK, Living, Borrowed, ArcBorrowers, WeakBorrowers
    <2>10. LifeEnds'
        BY <1>11, <2>1, <2>3, <2>4, Empty DEF MutStoreNone, Goto, memory, TypeOK, Living, LifeEnds
    <2>11. Limits'
        BY <1>11, <2>1, <2>3, <2>4, Constants, Sizes, Empty
           DEF MutStoreNone, Goto, memory, TypeOK, Living, Limits, CountsExact, Lockers, Locking
    <2>12. UniqueAccess'
        BY <1>11, <2>1, <2>3, <2>4, Empty
           DEF MutStoreNone, Goto, memory, TypeOK, Living, UniqueAccess
    <2>. QED
        BY <2>8, <2>9, <2>10, <2>11, <2>12 DEF Living
<1>12. CASE MutEnd(t)
    <2>1. pc[t] = "mutate" /\ pc' = [pc EXCEPT ![t] = "idle"]
        BY <1>12 DEF MutEnd, Goto
    <2>2. pc[t] = "mutate" /\ pc'[t] = "idle" /\ pc' = [pc EXCEPT ![t] = pc'[t]]
        BY <2>1 DEF TypeOK
    <2>3. /\ Cardinality(Takers') = Cardinality(Takers) - 1
          /\ Cardinality(Aborting') = Cardinality(Aborting)
        BY <2>2, Moves, Sizes DEF Taking, Locking
    <2>4. /\ Lockers' = Lockers
          /\ LastDroppers' = LastDroppers
        BY <2>1 DEF TypeOK, Lockers, LastDroppers, Locking
    <2>8. CountsExact'
        BY <1>12, <2>1, <2>3, <2>4, Constants, Sizes, Empty
           DEF MutEnd, Goto, memory, TypeOK, Living, CountsExact, Lockers, Locking, LastDroppers
    <2>9. Borrowed'
        BY <1>12, <2>1, <2>3, <2>4, Empty
           DEF MutEnd, Goto, memory, TypeOK, Living, Borrowed, ArcBorrowers, WeakBorrowers
    <2>10. LifeEnds'
        BY <1>12, <2>1, <2>3, <2>4, Empty DEF MutEnd, Goto, memory, TypeOK, Living, LifeEnds
    <2>11. Limits'
        BY <1>12, <2>1, <2>3, <2>4, Empty DEF MutEnd, Goto, memory, TypeOK, Living, Limits
    <2>12. UniqueAccess'
        BY <1>12, <2>1, <2>3, <2>4, Empty DEF MutEnd, Goto, memory, TypeOK, Living, UniqueAccess
    <2>. QED
        BY <2>8, <2>9, <2>10, <2>11, <2>12 DEF Living
<1>13. CASE InnerLoad(t)
    <2>1. pc[t] = "inner_load" /\ pc' = [pc EXCEPT ![t] = IF strong_count = 1 THEN "inner_read" ELSE "inner_store"]
        BY <1>13 DEF InnerLoad, Goto
    <2>2. pc[t] = "inner_load" /\ pc'[t] = (IF strong_count = 1 THEN "inner_read" ELSE "inner_store") /\ pc' = [pc EXCEPT ![t] = pc'[t]]
        BY <2>1 DEF TypeOK
    <2>3. /\ Cardinality(Takers') = Cardinality(Takers)
          /\ Cardinality(Aborting') = Cardinality(Aborting)
        BY <2>2, Moves, Sizes DEF Taking, Locking
    <2>4. /\ Lockers' = Lockers
          /\ LastDroppers' = LastDroppers
        BY <2>1 DEF TypeOK, Lockers, LastDroppers, Locking
    <2>8. CountsExact'
        BY <1>13, <2>1, <2>3, <2>4, Empty DEF InnerLoad, Goto, memory, TypeOK, Living, CountsExact
    <2>9. Borrowed'
        BY <1>13, <2>1, <2>3, <2>4, Empty
           DEF InnerLoad, Goto, memory, TypeOK, Living, Borrowed, ArcBorrowers, WeakBorrowers
    <2>10. LifeEnds'
        BY <1>13, <2>1, <2>3, <2>4, Empty DEF InnerLoad, Goto, memory, TypeOK, Living, LifeEnds
    <2>11. Limits'
        BY <1>13, <2>1, <2>3, <2>4, Empty DEF InnerLoad, Goto, memory, TypeOK, Living, Limits
    <2>12. UniqueAccess'
        BY <1>13, <2>1, <2>3, <2>4, Constants, Sizes
           DEF InnerLoad, Goto, memory, TypeOK, Living, UniqueAccess, CountsExact, Borrowed,
               ArcBorrowers, WeakBorrowers, Lockers, Takers, Aborting, LastDroppers, LifeEnds,
               Locking, Taking
    <2>. QED
        BY <2>8, <2>9, <2>10, <2>11, <2>12 DEF Living
<1>14. CASE InnerStore(t)
    <2>1. pc[t] = "inner_store" /\ pc' = [pc EXCEPT ![t] = "drop_arc"]
        BY <1>14 DEF InnerStore, Goto
    <2>2. pc[t] = "inner_store" /\ pc'[t] = "drop_arc" /\ pc' = [pc EXCEPT ![t] = pc'[t]]
        BY <2>1 DEF TypeOK
    <2>3. /\ Cardinality(Takers') = Cardinality(Takers)
          /\ Cardinality(Aborting') = Cardinality(Aborting)
        BY <2>2, Moves, Sizes DEF Taking, Locking
    <2>4. /\ Lockers' = Lockers \ {t}
          /\ LastDroppers' = LastDroppers
        BY <2>1 DEF TypeOK, Lockers, LastDroppers, Locking
    <2>8. CountsExact'
        BY <1>14, <2>1, <2>3, <2>4, Constants, Sizes
           DEF InnerStore, Goto, memory, TypeOK, Living, CountsExact, Lockers, Takers,
               LastDroppers, LifeEnds, Locking, Taking
    <2>9. Borrowed'
        BY <1>14, <2>1, <2>3, <2>4, Empty
           DEF InnerStore, Goto, memory, TypeOK, Living, Borrowed, ArcBorrowers, WeakBorrowers
    <2>10. LifeEnds'
        BY <1>14, <2>1, <2>3, <2>4, Empty DEF InnerStore, Goto, memory, TypeOK, Living, LifeEnds
    <2>11. Limits'
        BY <1>14, <2>1, <2>3, <2>4, Constants, Sizes, Empty
           DEF InnerStore, Goto, memory, TypeOK, Living, Limits, CountsExact, Lockers, Locking
    <2>12. UniqueAccess'
        BY <1>14, <2>1, <2>3, <2>4, Empty
           DEF InnerStore, Goto, memory, TypeOK, Living, UniqueAccess
    <2>. QED
        BY <2>8, <2>9, <2>10, <2>11, <2>12 DEF Living
<1>15. CASE InnerRead(t)
    <2>1. pc[t] = "inner_read" /\ pc' = [pc EXCEPT ![t] = "inner_free"]
        BY <1>15 DEF InnerRead, Goto
    <2>2. pc[t] = "inner_read" /\ pc'[t] = "inner_free" /\ pc' = [pc EXCEPT ![t] = pc'[t]]
        BY <2>1 DEF TypeOK
    <2>3. /\ Cardinality(Takers') = Cardinality(Takers)
          /\ Cardinality(Aborting') = Cardinality(Aborting)
        BY <2>2, Moves, Sizes DEF Taking, Locking
    <2>4. /\ Lockers' = Lockers
          /\ LastDroppers' = LastDroppers
        BY <2>1 DEF TypeOK, Lockers, LastDroppers, Locking
    <2>8. CountsExact'
        BY <1>15, <2>1, <2>3, <2>4, Empty DEF InnerRead, Goto, memory, TypeOK, Living, CountsExact
    <2>9. Borrowed'
        BY <1>15, <2>1, <2>3, <2>4, Empty
           DEF InnerRead, Goto, memory, TypeOK, Living, Borrowed, ArcBorrowers, WeakBorrowers
    <2>10. LifeEnds'
        BY <1>15, <2>1, <2>3, <2>4, Constants, Sizes, Empty
           DEF InnerRead, Goto, memory, TypeOK, Living, LifeEnds, CountsExact, Lockers,
               LastDroppers, UniqueAccess, Locking
    <2>11. Limits'
        BY <1>15, <2>1, <2>3, <2>4, Empty DEF InnerRead, Goto, memory, TypeOK, Living, Limits
    <2>12. UniqueAccess'
        BY <1>15, <2>1, <2>3, <2>4, Empty
           DEF InnerRead, Goto, memory, TypeOK, Living, UniqueAccess
    <2>. QED
        BY <2>8, <2>9, <2>10, <2>11, <2>12 DEF Living
<1>16. CASE DropSelf(t)
    <2>1. pc[t] = "drop_arc" /\ pc' = [pc EXCEPT ![t] = IF strong_count = 1 THEN "drop_data" ELSE "idle"]
        BY <1>16 DEF DropSelf, Goto, SubStrong, Sub1
    <2>2. pc[t] = "drop_arc" /\ pc'[t] = (IF strong_count = 1 THEN "drop_data" ELSE "idle") /\ pc' = [pc EXCEPT ![t] = pc'[t]]
        BY <2>1 DEF TypeOK
    <2>3. /\ Cardinality(Takers') = Cardinality(Takers) - 1
          /\ Cardinality(Aborting') = Cardinality(Aborting)
        BY <2>2, Moves, Sizes DEF Taking, Locking
    <2>4. /\ Lockers' = Lockers
          /\ LastDroppers' = IF strong_count = 1 THEN LastDroppers \cup {t} ELSE LastDroppers
        BY <2>1 DEF TypeOK, Lockers, LastDroppers, Locking
    <2>5. strong_count > 0 /\ strong_count' = strong_count - 1 /\ LastDroppers = {}
        <3>1. strong_count > 0
            BY <1>16, <2>1, Sizes, Empty
               DEF DropSelf, TakeArc, Living, CountsExact, TypeOK, Takers, Taking
        <3>. QED
            BY <1>16, <3>1, Empty DEF DropSelf, SubStrong, Sub1, TypeOK
    <2>6. ref_count > 0 /\ ref_count' = ref_count /\ weaks' = weaks /\ data' = data
        BY <1>16, <2>5, Constants DEF DropSelf, memory, Living, CountsExact, TypeOK
    <2>7. strong_count = 1 => Lockers = {} /\ arcs' = 0
        BY <1>16, <2>1, <2>3, <2>5, Sizes
           DEF DropSelf, TakeArc, Living, CountsExact, TypeOK, Lockers, Takers, Taking, Locking
    <2>8. CountsExact'
        BY <1>16, <2>3, <2>4, <2>5, <2>6, <2>7, Sizes
           DEF DropSelf, TakeArc, memory, Living, CountsExact, TypeOK
    <2>9. Borrowed'
        BY <1>16, <2>1, <2>3, <2>4, Empty
           DEF DropSelf, Goto, SubStrong, Sub1, memory, TypeOK, Living, Borrowed, ArcBorrowers,
               WeakBorrowers
    <2>10. LifeEnds'
        <3>1. \A u \in Threads : pc[u] # "free" /\ pc'[u] # "free"
            BY <2>1, <2>6, Empty DEF TypeOK
        <3>2. \A u \in Threads : pc[u] # "drop_data" /\ (pc'[u] = "drop_data" <=> u = t /\ strong_count = 1)
            BY <2>1, <2>5 DEF TypeOK, LastDroppers
        <3>3. \A u \in Threads : pc'[u] = "inner_free" <=> pc[u] = "inner_free"
            BY <2>1 DEF TypeOK
        <3>4. strong_count = 1 => \A u \in Threads : pc[u] # "inner_free"
            BY <2>7 DEF Lockers, Locking
        <3>. QED
            BY <2>4, <2>5, <2>6, <3>1, <3>2, <3>3, <3>4 DEF Living, LifeEnds, TypeOK
    <2>11. Limits'
        BY <1>16, <2>1, <2>3, <2>4, Constants, Sizes
           DEF DropSelf, Goto, SubStrong, Sub1, memory, TypeOK, Living, Limits, CountsExact,
               Lockers, Takers, Locking, Taking, LastDroppers, LifeEnds
    <2>12. UniqueAccess'
        BY <1>16, <2>1, <2>3, <2>4, Empty
           DEF DropSelf, Goto, SubStrong, Sub1, memory, TypeOK, Living, UniqueAccess
    <2>. QED
        BY <2>8, <2>9, <2>10, <2>11, <2>12 DEF Living
<1>17. CASE DropData(t)
    <2>1. pc[t] = "drop_data" /\ pc' = [pc EXCEPT ![t] = "drop_weak"]
        BY <1>17 DEF DropData, Goto
    <2>2. pc[t] = "drop_data" /\ pc'[t] = "drop_weak" /\ pc' = [pc EXCEPT ![t] = pc'[t]]
        BY <2>1 DEF TypeOK
    <2>3. /\ Cardinality(Takers') = Cardinality(Takers)
          /\ Cardinality(Aborting') = Cardinality(Aborting)
        BY <2>2, Moves, Sizes DEF Taking, Locking
    <2>4. /\ Lockers' = Lockers
          /\ LastDroppers' = LastDroppers
        BY <2>1 DEF TypeOK, Lockers, LastDroppers, Locking
    <2>8. CountsExact'
        BY <1>17, <2>1, <2>3, <2>4, Empty DEF DropData, Goto, memory, TypeOK, Living, CountsExact
    <2>9. Borrowed'
        BY <1>17, <2>1, <2>3, <2>4, Empty
           DEF DropData, Goto, memory, TypeOK, Living, Borrowed, ArcBorrowers, WeakBorrowers
    <2>10. LifeEnds'
        BY <1>17, <2>1, <2>3, <2>4, Constants, Sizes
           DEF DropData, Goto, memory, TypeOK, Living, LifeEnds, CountsExact, Lockers,
               LastDroppers, Takers, Taking, Locking, Aborting, UniqueAccess, Borrowed,
               ArcBorrowers, WeakBorrowers
    <2>11. Limits'
        BY <1>17, <2>1, <2>3, <2>4, Empty DEF DropData, Goto, memory, TypeOK, Living, Limits
    <2>12. UniqueAccess'
        BY <1>17, <2>1, <2>3, <2>4, Empty DEF DropData, Goto, memory, TypeOK, Living, UniqueAccess
    <2>. QED
        BY <2>8, <2>9, <2>10, <2>11, <2>12 DEF Living
<1>18. CASE DropLastArc(t)
    <2>1. pc[t] = "drop_weak" /\ pc' = [pc EXCEPT ![t] = IF ref_count = 1 THEN "free" ELSE "idle"]
        BY <1>18 DEF DropLastArc, Goto, SubRef, Sub1
    <2>2. pc[t] = "drop_weak" /\ pc'[t] = (IF ref_count = 1 THEN "free" ELSE "idle") /\ pc' = [pc EXCEPT ![t] = pc'[t]]
        BY <2>1 DEF TypeOK
    <2>3. /\ Cardinality(Takers') = Cardinality(Takers)
          /\ Cardinality(Aborting') = Cardinality(Aborting)
        BY <2>2, Moves, Sizes DEF Taking, Locking
    <2>4. /\ Lockers' = Lockers
          /\ LastDroppers' = LastDroppers \ {t}
        BY <2>1 DEF TypeOK, Lockers, LastDroppers, Locking
    <2>5. /\ strong_count = 0 /\ LastDroppers = {t} /\ Lockers = {}
          /\ ref_count = weaks + 1 /\ ref_count' = ref_count - 1
        <3>1. strong_count = 0 /\ LastDroppers = {t}
            BY <2>1 DEF Living, LifeEnds, LastDroppers
        <3>2. Lockers = {}
            BY <3>1, Empty DEF TypeOK
        <3>3. ref_count = weaks + 1
            BY <3>1, <3>2 DEF Living, CountsExact
        <3>. QED
            BY <1>18, <3>1, <3>2, <3>3 DEF DropLastArc, SubRef, Sub1, TypeOK
    <2>8. CountsExact'
        BY <1>18, <2>3, <2>4, <2>5 DEF DropLastArc, memory, Living, CountsExact, TypeOK
    <2>9. Borrowed'
        BY <1>18, <2>1, <2>3, <2>4, Empty
           DEF DropLastArc, Goto, SubRef, Sub1, memory, TypeOK, Living, Borrowed, ArcBorrowers,
               WeakBorrowers
    <2>10. LifeEnds'
        <3>1. \A u \in Threads \ {t} : pc[u] \in {"idle", "upgrade"} /\ (weaks = 0 => pc[u] = "idle")
            BY <2>5, Empty DEF TypeOK, LastDroppers
        <3>2. \A u \in Threads \ {t} : pc'[u] = pc[u]
            BY <2>1 DEF TypeOK
        <3>3. pc[t] = "drop_weak" /\ pc'[t] = IF weaks = 0 THEN "free" ELSE "idle"
            BY <2>2, <2>5 DEF TypeOK
        <3>4. arcs = 0 /\ UNCHANGED <<arcs, weaks, strong_count, data>>
            BY <1>18, <2>5, Empty DEF DropLastArc, memory
        <3>5. data # "alive"
            BY <2>5, <3>1, <3>3 DEF Living, LifeEnds
        <3>. QED
            BY <2>4, <2>5, <3>1, <3>2, <3>3, <3>4, <3>5 DEF LifeEnds, TypeOK
    <2>11. Limits'
        BY <1>18, <2>1, <2>3, <2>4, Constants, Sizes
           DEF DropLastArc, Goto, SubRef, Sub1, memory, TypeOK, Living, Limits, CountsExact,
               Lockers, Takers, Locking, Taking, LastDroppers, LifeEnds
    <2>12. UniqueAccess'
        BY <1>18, <2>1, <2>3, <2>4, Empty
           DEF DropLastArc, Goto, SubRef, Sub1, memory, TypeOK, Living, UniqueAccess
    <2>. QED
        BY <2>8, <2>9, <2>10, <2>11, <2>12 DEF Living
<1>19. CASE Clone(t)
    <2>1. pc[t] = "idle" /\ pc' = [pc EXCEPT ![t] = "idle"]
        BY <1>19 DEF Clone, Goto, Add1, Room
    <2>2. pc[t] = "idle" /\ pc'[t] = "idle" /\ pc' = [pc EXCEPT ![t] = pc'[t]]
        BY <2>1 DEF TypeOK
    <2>3. /\ Cardinality(Takers') = Cardinality(Takers)
          /\ Cardinality(Aborting') = Cardinality(Aborting)
        BY <2>2, Moves, Sizes DEF Taking, Locking
    <2>4. /\ Lockers' = Lockers
          /\ LastDroppers' = LastDroppers
        BY <2>1 DEF TypeOK, Lockers, LastDroppers, Locking
    <2>8. CountsExact'
        BY <1>19, <2>1, <2>3, <2>4, Constants, Sizes, Empty
           DEF Clone, Goto, Add1, Room, memory, TypeOK, Living, CountsExact, Lockers, Locking,
               LastDroppers
    <2>9. Borrowed'
        BY <1>19, <2>1, <2>3, <2>4, Empty
           DEF Clone, Goto, Add1, Room, memory, TypeOK, Living, Borrowed, ArcBorrowers,
               WeakBorrowers
    <2>10. LifeEnds'
        BY <1>19, <2>1, <2>3, <2>4, Constants, Sizes, Empty
           DEF Clone, Goto, Add1, Room, memory, TypeOK, Living, LifeEnds, CountsExact, Lockers,
               LastDroppers, UniqueAccess, Locking
    <2>11. Limits'
        BY <1>19, <2>1, <2>3, <2>4, Constants, Sizes, Empty
           DEF Clone, Goto, Add1, Room, memory, TypeOK, Living, Limits, CountsExact, Lockers,
               Locking
    <2>12. UniqueAccess'
        BY <1>19, <2>1, <2>3, <2>4, Empty
           DEF Clone, Goto, Add1, Room, memory, TypeOK, Living, UniqueAccess
    <2>. QED
        BY <2>8, <2>9, <2>10, <2>11, <2>12 DEF Living
<1>20. CASE CloneTooMany(t)
    <2>1. pc[t] = "idle" /\ pc' = [pc EXCEPT ![t] = "abort"]
        BY <1>20 DEF CloneTooMany, Goto, Add1
    <2>2. pc[t] = "idle" /\ pc'[t] = "abort" /\ pc' = [pc EXCEPT ![t] = pc'[t]]
        BY <2>1 DEF TypeOK
    <2>3. /\ Cardinality(Takers') = Cardinality(Takers)
          /\ Cardinality(Aborting') = Cardinality(Aborting) + 1
          /\ Cardinality(Aborting') <= Cardinality(Threads)
        BY <2>2, Moves, Sizes DEF Taking, Locking
    <2>4. /\ Lockers' = Lockers
          /\ LastDroppers' = LastDroppers
        BY <2>1 DEF TypeOK, Lockers, LastDroppers, Locking
    <2>5. strong_count > 0 /\ strong_count' = strong_count + 1 /\ LastDroppers = {}
        <3>1. strong_count > 0
            BY <1>20, Constants DEF CloneTooMany, TypeOK
        <3>2. strong_count # USIZE_MAX
            BY <2>3, Constants, Sizes DEF Living, Limits, TypeOK
        <3>. QED
            BY <1>20, <3>1, <3>2, Empty DEF CloneTooMany, Add1
    <2>8. CountsExact'
        BY <1>20, <2>3, <2>4, <2>5, Sizes DEF CloneTooMany, memory, Living, CountsExact, TypeOK
    <2>9. Borrowed'
        BY <1>20, <2>1, <2>3, <2>4, Empty
           DEF CloneTooMany, Goto, Add1, memory, TypeOK, Living, Borrowed, ArcBorrowers,
               WeakBorrowers
    <2>10. LifeEnds'
        <3>1. ref_count > 0
            BY <2>4, <2>5, Constants DEF Living, CountsExact, TypeOK
        <3>2. \A u \in Threads : pc[u] # "free" /\ pc'[u] # "free"
            BY <2>1, <3>1, Empty DEF TypeOK
        <3>3. \A u \in Threads : /\ pc'[u] = "inner_free" <=> pc[u] = "inner_free"
                                 /\ pc'[u] = "drop_data" <=> pc[u] = "drop_data"
            BY <2>1 DEF TypeOK
        <3>. QED
            BY <1>20, <2>4, <2>5, <3>1, <3>2, <3>3
               DEF CloneTooMany, memory, Living, LifeEnds, TypeOK
    <2>11. Limits'
        BY <1>20, <2>1, <2>3, <2>4, Constants, Sizes, Empty
           DEF CloneTooMany, Goto, Add1, memory, TypeOK, Living, Limits, CountsExact, Lockers,
               Locking
    <2>12. UniqueAccess'
        BY <1>20, <2>1, <2>3, <2>4, Empty
           DEF CloneTooMany, Goto, Add1, memory, TypeOK, Living, UniqueAccess
    <2>. QED
        BY <2>8, <2>9, <2>10, <2>11, <2>12 DEF Living
<1>21. CASE Downgrade(t)
    BY <1>21, Quiet
       DEF Downgrade, Goto, See, memory, TypeOK, Living, Borrowed, ArcBorrowers, WeakBorrowers
<1>22. CASE Upgrade(t)
    BY <1>22, Quiet
       DEF Upgrade, Goto, See, memory, TypeOK, Living, Borrowed, ArcBorrowers, WeakBorrowers
<1>23. CASE GetMut(t)
    <2>1. pc[t] = "idle" /\ pc' = [pc EXCEPT ![t] = "mut_load"]
        BY <1>23 DEF GetMut, Goto, TakeArc
    <2>2. pc[t] = "idle" /\ pc'[t] = "mut_load" /\ pc' = [pc EXCEPT ![t] = pc'[t]]
        BY <2>1 DEF TypeOK
    <2>3. /\ Cardinality(Takers') = Cardinality(Takers) + 1
          /\ Cardinality(Aborting') = Cardinality(Aborting)
        BY <2>2, Moves, Sizes DEF Taking, Locking
    <2>4. /\ Lockers' = Lockers \cup {t}
          /\ LastDroppers' = LastDroppers
        BY <2>1 DEF TypeOK, Lockers, LastDroppers, Locking
    <2>8. CountsExact'
        BY <1>23, <2>1, <2>3, <2>4, Constants, Sizes, Empty
           DEF GetMut, Goto, TakeArc, memory, TypeOK, Living, CountsExact, Lockers, Locking,
               LastDroppers
    <2>9. Borrowed'
        BY <1>23, <2>1, <2>3, <2>4, Empty
           DEF GetMut, Goto, TakeArc, memory, TypeOK, Living, Borrowed, ArcBorrowers,
               WeakBorrowers
    <2>10. LifeEnds'
        BY <1>23, <2>1, <2>3, <2>4, Empty
           DEF GetMut, Goto, TakeArc, memory, TypeOK, Living, LifeEnds
    <2>11. Limits'
        BY <1>23, <2>1, <2>3, <2>4, Empty
           DEF GetMut, Goto, TakeArc, memory, TypeOK, Living, Limits
    <2>12. UniqueAccess'
        BY <1>23, <2>1, <2>3, <2>4, Empty
           DEF GetMut, Goto, TakeArc, memory, TypeOK, Living, UniqueAccess
    <2>. QED
        BY <2>8, <2>9, <2>10, <2>11, <2>12 DEF Living
<1>24. CASE IntoInner(t)
    <2>1. pc[t] = "idle" /\ pc' = [pc EXCEPT ![t] = IF ref_count = 1 THEN "inner_load" ELSE "drop_arc"]
        BY <1>24 DEF IntoInner, Goto, TakeArc
    <2>2. pc[t] = "idle" /\ pc'[t] = (IF ref_count = 1 THEN "inner_load" ELSE "drop_arc") /\ pc' = [pc EXCEPT ![t] = pc'[t]]
        BY <2>1 DEF TypeOK
    <2>3. /\ Cardinality(Takers') = Cardinality(Takers) + 1
          /\ Cardinality(Aborting') = Cardinality(Aborting)
        BY <2>2, Moves, Sizes DEF Taking, Locking
    <2>4. /\ Lockers' = IF ref_count = 1 THEN Lockers \cup {t} ELSE Lockers
          /\ LastDroppers' = LastDroppers
        BY <2>1 DEF TypeOK, Lockers, LastDroppers, Locking
    <2>8. CountsExact'
        BY <1>24, <2>1, <2>3, <2>4, Constants, Sizes, Empty
           DEF IntoInner, Goto, TakeArc, memory, TypeOK, Living, CountsExact, Lockers, Locking,
               LastDroppers
    <2>9. Borrowed'
        BY <1>24, <2>1, <2>3, <2>4, Empty
           DEF IntoInner, Goto, TakeArc, memory, TypeOK, Living, Borrowed, ArcBorrowers,
               WeakBorrowers
    <2>10. LifeEnds'
        BY <1>24, <2>1, <2>3, <2>4, Empty
           DEF IntoInner, Goto, TakeArc, memory, TypeOK, Living, LifeEnds
    <2>11. Limits'
        BY <1>24, <2>1, <2>3, <2>4, Empty
           DEF IntoInner, Goto, TakeArc, memory, TypeOK, Living, Limits
    <2>12. UniqueAccess'
        BY <1>24, <2>1, <2>3, <2>4, Empty
           DEF IntoInner, Goto, TakeArc, memory, TypeOK, Living, UniqueAccess
    <2>. QED
        BY <2>8, <2>9, <2>10, <2>11, <2>12 DEF Living
<1>25. CASE DropArc(t)
    <2>1. pc[t] = "idle" /\ pc' = [pc EXCEPT ![t] = IF strong_count = 1 THEN "drop_data" ELSE "idle"]
        BY <1>25 DEF DropArc, Goto, TakeArc, SubStrong, Sub1
    <2>2. pc[t] = "idle" /\ pc'[t] = (IF strong_count = 1 THEN "drop_data" ELSE "idle") /\ pc' = [pc EXCEPT ![t] = pc'[t]]
        BY <2>1 DEF TypeOK
    <2>3. /\ Cardinality(Takers') = Cardinality(Takers)
          /\ Cardinality(Aborting') = Cardinality(Aborting)
        BY <2>2, Moves, Sizes DEF Taking, Locking
    <2>4. /\ Lockers' = Lockers
          /\ LastDroppers' = IF strong_count = 1 THEN LastDroppers \cup {t} ELSE LastDroppers
        BY <2>1 DEF TypeOK, Lockers, LastDroppers, Locking
    <2>5. strong_count > 0 /\ strong_count' = strong_count - 1 /\ LastDroppers = {}
        <3>1. strong_count > 0
            BY <1>25, <2>1, Sizes, Empty
               DEF DropArc, TakeArc, Living, CountsExact, TypeOK, Takers, Taking
        <3>. QED
            BY <1>25, <3>1, Empty DEF DropArc, SubStrong, Sub1, TypeOK
    <2>6. ref_count > 0 /\ ref_count' = ref_count /\ weaks' = weaks /\ data' = data
        BY <1>25, <2>5, Constants DEF DropArc, memory, Living, CountsExact, TypeOK
    <2>7. strong_count = 1 => Lockers = {} /\ arcs' = 0
        BY <1>25, <2>1, <2>3, <2>5, Sizes
           DEF DropArc, TakeArc, Living, CountsExact, TypeOK, Lockers, Takers, Taking, Locking
    <2>8. CountsExact'
        BY <1>25, <2>3, <2>4, <2>5, <2>6, <2>7, Sizes
           DEF DropArc, TakeArc, memory, Living, CountsExact, TypeOK
    <2>9. Borrowed'
        BY <1>25, <2>1, <2>3, <2>4, Empty
           DEF DropArc, Goto, TakeArc, SubStrong, Sub1, memory, TypeOK, Living, Borrowed,
               ArcBorrowers, WeakBorrowers
    <2>10. LifeEnds'
        <3>1. \A u \in Threads : pc[u] # "free" /\ pc'[u] # "free"
            BY <2>1, <2>6, Empty DEF TypeOK
        <3>2. \A u \in Threads : pc[u] # "drop_data" /\ (pc'[u] = "drop_data" <=> u = t /\ strong_count = 1)
            BY <2>1, <2>5 DEF TypeOK, LastDroppers
        <3>3. \A u \in Threads : pc'[u] = "inner_free" <=> pc[u] = "inner_free"
            BY <2>1 DEF TypeOK
        <3>4. strong_count = 1 => \A u \in Threads : pc[u] # "inner_free"
            BY <2>7 DEF Lockers, Locking
        <3>. QED
            BY <2>4, <2>5, <2>6, <3>1, <3>2, <3>3, <3>4 DEF Living, LifeEnds, TypeOK
    <2>11. Limits'
        BY <1>25, <2>1, <2>3, <2>4, Constants, Sizes, Empty
           DEF DropArc, Goto, TakeArc, SubStrong, Sub1, memory, TypeOK, Living, Limits,
               CountsExact, Lockers, Locking
    <2>12. UniqueAccess'
        BY <1>25, <2>1, <2>3, <2>4, Empty
           DEF DropArc, Goto, TakeArc, SubStrong, Sub1, memory, TypeOK, Living, UniqueAccess
    <2>. QED
        BY <2>8, <2>9, <2>10, <2>11, <2>12 DEF Living
<1>26. CASE DropWeak(t)
    <2>1. pc[t] = "idle" /\ pc' = [pc EXCEPT ![t] = IF ref_count = 1 THEN "free" ELSE "idle"]
        BY <1>26 DEF DropWeak, Goto, TakeWeak, SubRef, Sub1
    <2>2. pc[t] = "idle" /\ pc'[t] = (IF ref_count = 1 THEN "free" ELSE "idle") /\ pc' = [pc EXCEPT ![t] = pc'[t]]
        BY <2>1 DEF TypeOK
    <2>3. /\ Cardinality(Takers') = Cardinality(Takers)
          /\ Cardinality(Aborting') = Cardinality(Aborting)
        BY <2>2, Moves, Sizes DEF Taking, Locking
    <2>4. /\ Lockers' = Lockers
          /\ LastDroppers' = LastDroppers
        BY <2>1 DEF TypeOK, Lockers, LastDroppers, Locking
    <2>5. Lockers = {} /\ weaks > 0 /\ weaks' = weaks - 1 /\ ref_count > 0 /\ ref_count' = ref_count - 1
        BY <1>26 DEF DropWeak, TakeWeak, SubRef, Sub1, Living, CountsExact, TypeOK
    <2>6. UNCHANGED <<arcs, strong_count, data, allocated>>
        BY <1>26 DEF DropWeak, memory
    <2>7. ref_count = 1 => /\ weaks' = 0 /\ strong_count = 0 /\ arcs = 0 /\ LastDroppers = {}
                            /\ \A u \in Threads : pc[u] = "idle"
        <3>1. ref_count = 1 => weaks = 1 /\ strong_count = 0 /\ LastDroppers = {}
            BY <2>5 DEF Living, CountsExact, TypeOK
        <3>2. weaks = 1 => \A u \in Threads : pc[u] # "upgrade"
            BY <1>26 DEF DropWeak, TakeWeak, WeakBorrowers
        <3>. QED
            BY <2>5, <3>1, <3>2, Empty DEF LastDroppers, TypeOK
    <2>8. CountsExact'
        BY <2>3, <2>4, <2>5, <2>6 DEF Living, CountsExact, TypeOK
    <2>9. Borrowed'
        BY <1>26, <2>1, <2>3, <2>4, Empty
           DEF DropWeak, Goto, TakeWeak, SubRef, Sub1, memory, TypeOK, Living, Borrowed,
               ArcBorrowers, WeakBorrowers
    <2>10. LifeEnds'
        <3>1. \A u \in Threads \ {t} : pc'[u] = pc[u]
            BY <2>1 DEF TypeOK
        <3>2. pc[t] = "idle" /\ pc'[t] = IF ref_count = 1 THEN "free" ELSE "idle"
            BY <2>2
        <3>3. \A u \in Threads : pc[u] # "free"
            BY <2>5, Empty DEF TypeOK
        <3>4. \A u \in Threads : /\ pc'[u] = "inner_free" <=> pc[u] = "inner_free"
                                 /\ pc'[u] = "drop_data" <=> pc[u] = "drop_data"
            BY <3>1, <3>2
        <3>. QED
            BY <2>4, <2>5, <2>6, <2>7, <3>1, <3>2, <3>3, <3>4 DEF Living, LifeEnds, TypeOK
    <2>11. Limits'
        BY <1>26, <2>1, <2>3, <2>4, Constants, Sizes, Empty
           DEF DropWeak, Goto, TakeWeak, SubRef, Sub1, memory, TypeOK, Living, Limits,
               CountsExact, Lockers, Locking
    <2>12. UniqueAccess'
        BY <1>26, <2>1, <2>3, <2>4, Empty
           DEF DropWeak, Goto, TakeWeak, SubRef, Sub1, memory, TypeOK, Living, UniqueAccess
    <2>. QED
        BY <2>8, <2>9, <2>10, <2>11, <2>12 DEF Living
<1>. QED
    BY <1>1, <1>2, <1>3, <1>4, <1>5, <1>6, <1>7, <1>8, <1>9, <1>10, <1>11, <1>12, <1>13, <1>14, <1>15, <1>16, <1>17, <1>18, <1>19, <1>20, <1>21, <1>22, <1>23, <1>24, <1>25, <1>26
       DEF Step, Client

\* The last thread inside frees the allocation, and nothing is left.
LEMMA FreeEnds ==
    ASSUME TypeOK, allocated, Living, NEW t \in Threads, Free(t)
    PROVE  Gone'
<1>1. /\ pc[t] \in {"free", "inner_free"}
      /\ pc' = [pc EXCEPT ![t] = "idle"]
      /\ UNCHANGED <<arcs, weaks, data>>
    BY DEF Free, Goto
<1>2. arcs = 0 /\ weaks = 0 /\ \A u \in Threads \ {t} : pc[u] = "idle"
    BY <1>1 DEF Living, UniqueAccess, LifeEnds
<1>3. data # "alive"
    <2>1. CASE pc[t] = "inner_free"
        BY <1>2, <2>1 DEF Living, LifeEnds
    <2>2. CASE pc[t] = "free"
        <3>1. ref_count = 0
            BY <2>2 DEF Living, LifeEnds
        <3>2. Lockers = {}
            BY <3>1, Constants DEF Living, CountsExact
        <3>3. strong_count = 0
            BY <3>1, <3>2 DEF Living, CountsExact, TypeOK
        <3>. QED
            BY <1>2, <2>2, <3>3 DEF Living, LifeEnds
    <2>. QED
        BY <1>1, <2>1, <2>2
<1>. QED
    BY <1>1, <1>2, <1>3 DEF Gone, TypeOK

----------------------------------------------------------------------------
\* The invariant holds in every state of every behaviour.
LEMMA Invariance == Spec => []IInv
<1>1. Init => IInv
    <2> SUFFICES ASSUME Init PROVE IInv
        OBVIOUS
    <2> USE DEF Init
    <2>1. TypeOK
        <3>1. 0 \in 0..USIZE_MAX /\ 1 \in 0..USIZE_MAX
            BY Constants
        <3>. QED
            BY <3>1 DEF TypeOK
    <2>2. /\ Takers = {}
          /\ Lockers = {}
          /\ Aborting = {}
          /\ LastDroppers = {}
          /\ ArcBorrowers = {}
          /\ WeakBorrowers = {}
        BY
           DEF Takers, Lockers, Aborting, LastDroppers, ArcBorrowers, WeakBorrowers, Taking,
               Locking
    <2>3. Cardinality({}) = 0
        BY FS_EmptySet
    <2>4. CountsExact
        BY <2>2, <2>3 DEF CountsExact
    <2>5. Borrowed
        BY <2>2 DEF Borrowed
    <2>6. LifeEnds
        BY <2>2 DEF LifeEnds
    <2>7. Limits
        BY <2>2, <2>3, Constants DEF Limits
    <2>8. UniqueAccess
        BY DEF UniqueAccess
    <2>. QED
        BY <2>1, <2>4, <2>5, <2>6, <2>7, <2>8 DEF IInv, Living
<1>2. IInv /\ [Next]_vars => IInv'
    <2> SUFFICES ASSUME IInv, [Next]_vars PROVE IInv'
        OBVIOUS
    <2>1. TypeOK /\ TypeOK'
        BY TypeInduction DEF IInv
    <2>2. CASE UNCHANGED vars
        BY <2>2 DEF vars, IInv, TypeOK, Living, Gone, CountsExact, Borrowed, LifeEnds, Limits,
                    UniqueAccess, Takers, Lockers, Aborting, LastDroppers, ArcBorrowers, WeakBorrowers
    <2>3. ASSUME NEW t \in Threads, Step(t) \/ Client(t) PROVE IInv'
        <3>1. allocated /\ Living
            BY <2>3, Alive DEF IInv
        <3>2. CASE Free(t)
            <4>1. Gone'
                BY <2>1, <3>1, <3>2, FreeEnds
            <4>2. ~allocated'
                BY <3>2 DEF Free
            <4>. QED
                BY <2>1, <4>1, <4>2 DEF IInv
        <3>3. CASE ~Free(t)
            <4>1. Living'
                BY <2>1, <2>3, <3>1, <3>3, LivingInduction
            <4>2. allocated'
                BY <2>3, <3>1, <3>3
                   DEF Step, Client, Abort, DowngradeSpin, DowngradePanic, DowngradeCasOk,
                       DowngradeCasFail, UpgradeFails, UpgradeCasOk, UpgradeCasFail, MutLoad,
                       MutStore, MutStoreNone, MutEnd, InnerLoad, InnerStore, InnerRead,
                       DropSelf, DropData, DropLastArc, Clone, CloneTooMany, Downgrade, Upgrade,
                       GetMut, IntoInner, DropArc, DropWeak, memory
            <4>. QED
                BY <2>1, <4>1, <4>2 DEF IInv
        <3>. QED
            BY <3>2, <3>3
    <2>. QED
        BY <2>2, <2>3 DEF Next
<1>. QED
    BY <1>1, <1>2, PTL DEF Spec

\* The counters of ArcInner stay in the range of usize, and every thread is at a
\* line of arc.rs.
THEOREM TypeCorrect == Spec => []TypeOK
<1>1. IInv => TypeOK
    BY DEF IInv
<1>. QED
    BY <1>1, Invariance, PTL

\* strong_count and ref_count are exactly the numbers of handles and never wrap, whatever
\* clones, upgrades, downgrades and drops come together.
THEOREM CountersExact == Spec => []CountsExact
<1>1. IInv => CountsExact
    BY DEF IInv, Living, CountsExact
<1>. QED
    BY <1>1, Invariance, PTL

\* The data outlive every Arc and the allocation every handle; both end once.
THEOREM MemorySafe == Spec => []NoUseAfterFree
<1>1. IInv => NoUseAfterFree
    <2> SUFFICES ASSUME IInv PROVE NoUseAfterFree
        OBVIOUS
    <2>1. CASE ~allocated
        BY <2>1 DEF IInv, Gone, NoUseAfterFree
    <2>2. CASE allocated
        <3>1. TypeOK /\ Living
            BY <2>2 DEF IInv
        <3>2. ASSUME data # "alive", NEW t \in Threads
              PROVE  arcs = 0 /\ pc[t] \in {"idle", "upgrade", "inner_free", "drop_weak", "free"}
            <4>1. CASE \E u \in Threads : pc[u] = "inner_free"
                BY <4>1, <3>1 DEF Living, UniqueAccess
            <4>2. CASE \A u \in Threads : pc[u] # "inner_free"
                <5>1. strong_count = 0 /\ pc[t] # "drop_data"
                    BY <3>1, <3>2, <4>2 DEF Living, LifeEnds, TypeOK
                <5>. QED
                    BY <2>2, <3>1, <5>1, Empty
            <4>. QED
                BY <4>1, <4>2
        <3>3. \E t \in Threads : TRUE
            BY ArcAssumption
        <3>. QED
            BY <2>2, <3>2, <3>3 DEF NoUseAfterFree
    <2>. QED
        BY <2>1, <2>2
<1>. QED
    BY <1>1, Invariance, PTL

\* get_mut() and into_inner() give the data to the only handle there is.
THEOREM GetMutExclusive == Spec => []UniqueAccess
<1>1. IInv => UniqueAccess
    BY DEF IInv, Living, Gone, UniqueAccess
<1>. QED
    BY <1>1, Invariance, PTL

\* When the last handle is gone and every call has returned, the memory was given back.
THEOREM LeakFree == Spec => []NothingLeaks
<1>1. IInv => NothingLeaks
    <2> SUFFICES ASSUME IInv, arcs = 0, weaks = 0, \A t \in Threads : pc[t] = "idle", allocated
                 PROVE  FALSE
        BY DEF NothingLeaks
    <2>1. Takers = {} /\ Aborting = {} /\ Lockers = {} /\ LastDroppers = {}
        BY DEF Takers, Aborting, Lockers, LastDroppers, Taking, Locking
    <2>2. strong_count = 0
        BY <2>1, FS_EmptySet DEF IInv, Living, CountsExact
    <2>3. ref_count = 0
        BY <2>1, <2>2 DEF IInv, Living, CountsExact
    <2>. QED
        BY <2>3 DEF IInv, Living, LifeEnds
<1>. QED
    BY <1>1, Invariance, PTL
=============================================================================
