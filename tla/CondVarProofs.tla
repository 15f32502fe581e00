---------------------------- MODULE CondVarProofs ----------------------------
(***************************************************************************)
(* Proofs about CondVar for every finite set of threads, word size and     *)
(* number of calls.                                                        *)
(***************************************************************************)
EXTENDS CondVar, Integers, FiniteSetTheorems, TLAPS

Labels ==
    {"idle", "held", "unwind", "unlock_dead", "dead", "add", "unlock", "sleep", "sub", "relock",
     "wake_one", "load", "wake_all"}

\* Both words of the CondVar are AtomicU32 values, and a thread stands at a line of the code.
TypeOK ==
    /\ counter \in 0..(Modulus - 1)
    /\ waiting \in 0..(Modulus - 1)
    /\ sleepers \in SUBSET Threads
    /\ holders \in SUBSET Threads
    /\ poisoned \in BOOLEAN
    /\ pc \in [Threads -> Labels]
    /\ state \in [Threads -> 0..(Modulus - 1)]
    /\ calls \in [Threads -> Nat]
    /\ since \in [Threads -> Nat]
    /\ woken \in [Threads -> Nat]

\* Where the futex returns to, and when nothing has been noted about a thread.
Placement ==
    /\ \A t \in sleepers : pc[t] = "sub"
    /\ \A t \in Threads : pc[t] \notin {"add", "unlock", "sleep", "sub"}
                            => since[t] = 0 /\ woken[t] = 0

\* A thread on its way to the futex: its `state` is as many notifications old as were noted.
StateIsOld ==
    \A t \in Threads :
        (pc[t] \in {"add", "unlock", "sleep"} /\ since[t] < Modulus)
            => counter = IF state[t] + since[t] < Modulus THEN state[t] + since[t]
                                                         ELSE state[t] + since[t] - Modulus

\* The guard that a user, wait() or a dying thread is about to use is its own.
GuardOwned ==
    /\ \A t, u \in holders : t = u
    /\ \A t \in Threads : pc[t] \in {"held", "add", "unlock", "unwind", "unlock_dead"} => t \in holders

\* The inductive invariant.
IInv ==
    TypeOK /\ Placement /\ StateIsOld /\ GuardOwned /\ WaitingCounted /\ NoLostNotification

----------------------------------------------------------------------------
\* fetch_add(1) and fetch_sub(1) on a word.
LEMMA Wrap ==
    ASSUME NEW M \in Nat \ {0}, NEW c \in 0..(M - 1)
    PROVE  /\ (c + 1) % M = IF c + 1 = M THEN 0 ELSE c + 1
           /\ (c + M - 1) % M = IF c = 0 THEN M - 1 ELSE c - 1
<1>1. \A q \in {0, 1}, r \in 0..(M - 1) : (M * q + r) % M = r
    BY Z3
<1>2. CASE c + 1 = M
    BY <1>1, <1>2, c + 1 = M * 1 + 0
<1>3. CASE c + 1 # M
    BY <1>1, <1>3, c + 1 = M * 0 + (c + 1)
<1>4. CASE c = 0
    BY <1>1, <1>4, c + M - 1 = M * 0 + (M - 1)
<1>5. CASE c # 0
    BY <1>1, <1>5, c + M - 1 = M * 1 + (c - 1)
<1>. QED
    BY <1>2, <1>3, <1>4, <1>5

\* How the number of threads of a set changes when one enters or leaves it.
LEMMA Counting ==
    ASSUME NEW S \in SUBSET Threads, NEW t \in Threads
    PROVE  /\ IsFiniteSet(S)
           /\ Cardinality(S) \in Nat /\ Cardinality(S) < Modulus
           /\ Cardinality(S) = 0 => S = {}
           /\ Cardinality(S \cup {t}) = IF t \in S THEN Cardinality(S) ELSE Cardinality(S) + 1
           /\ Cardinality(S \ {t}) = IF t \in S THEN Cardinality(S) - 1 ELSE Cardinality(S)
<1>1. IsFiniteSet(Threads)
    BY CondVarAssumption
<1>2. IsFiniteSet(S) /\ Cardinality(S) <= Cardinality(Threads)
    BY <1>1, FS_Subset
<1>3. Cardinality(S) \in Nat /\ Cardinality(Threads) \in Nat
    BY <1>1, <1>2, FS_CardinalityType
<1>4. Cardinality(S) < Modulus
    BY <1>2, <1>3, CondVarAssumption
<1>5. Cardinality(S) = 0 => S = {}
    BY <1>2, FS_EmptySet
<1>6. Cardinality(S \cup {t}) = IF t \in S THEN Cardinality(S) ELSE Cardinality(S) + 1
    BY <1>2, FS_AddElement
<1>7. Cardinality(S \ {t}) = IF t \in S THEN Cardinality(S) - 1 ELSE Cardinality(S)
    BY <1>2, FS_RemoveElement
<1>. QED
    BY <1>2, <1>3, <1>4, <1>5, <1>6, <1>7

\* wake_one() wakes exactly one of the sleepers, if there is one.
LEMMA WakeOneWakesOne ==
    ASSUME NEW S \in SUBSET Threads, NEW T \in FutexWakeOne(S)
    PROVE  /\ T \subseteq S
           /\ Cardinality(S \ T) \in Nat
           /\ S # {} => Cardinality(S \ T) = 1
<1>1. CASE S = {}
    <2>1. T = {} /\ S \ T = {}
        BY <1>1 DEF FutexWakeOne
    <2>. QED
        BY <1>1, <2>1, FS_EmptySet
<1>2. CASE S # {}
    <2>1. PICK t \in S : T = S \ {t}
        BY <1>2 DEF FutexWakeOne
    <2>2. S \ T = {t}
        BY <2>1
    <2>. QED
        BY <2>1, <2>2, FS_Singleton
<1>. QED
    BY <1>1, <1>2

\* Both notifications leave every thread's history a natural number.
LEMMA CountWokenType ==
    ASSUME TypeOK, CountWoken, sleepers' \subseteq sleepers
    PROVE  woken' \in [Threads -> Nat]
<1> DEFINE Gone == sleepers \ sleepers'
<1>1. Gone \in SUBSET Threads
    BY DEF TypeOK
<1>2. \A t \in Threads : Cardinality(Gone) \in Nat
    <2> HIDE DEF Gone
    <2>. QED
        BY <1>1, Counting
<1>. QED
    BY <1>2 DEF TypeOK, CountWoken

----------------------------------------------------------------------------
\* Types, places and the ownership of the guard are preserved by every step.
LEMMA TypeInduction ==
    TypeOK /\ Placement /\ GuardOwned /\ [Next]_vars => TypeOK' /\ Placement' /\ GuardOwned'
<1> SUFFICES ASSUME TypeOK, Placement, GuardOwned, [Next]_vars
             PROVE  TypeOK' /\ Placement' /\ GuardOwned'
    OBVIOUS
<1> USE CondVarAssumption
    DEF TypeOK, Placement, GuardOwned, Labels, mutexVars, history, Goto, Outside
<1>1. CASE UNCHANGED vars
    BY <1>1 DEF vars
<1>2. /\ (counter + 1) % Modulus \in 0..(Modulus - 1)
      /\ (waiting + 1) % Modulus \in 0..(Modulus - 1)
      /\ (waiting + Modulus - 1) % Modulus \in 0..(Modulus - 1)
    BY Wrap
<1>3. ASSUME NEW t \in Threads, Step(t) PROVE TypeOK' /\ Placement' /\ GuardOwned'
    <2>1. CASE WaitAdd(t)
        BY <1>2, <2>1 DEF WaitAdd
    <2>2. CASE WaitUnlock(t)
        BY <2>2 DEF WaitUnlock, Mutex!Release
    <2>3. CASE WaitSleep(t)
        BY <2>3 DEF WaitSleep, FutexWait
    <2>4. CASE WaitSub(t)
        BY <1>2, <2>4 DEF WaitSub
    <2>5. CASE WaitRelock(t)
        BY <2>5 DEF WaitRelock, Mutex!Acquire
    <2>6. CASE WakeOne(t)
        <3>1. sleepers' \subseteq sleepers
            BY <2>6, WakeOneWakesOne DEF WakeOne
        <3>2. woken' \in [Threads -> Nat]
            BY <2>6, <3>1, CountWokenType DEF WakeOne
        <3>. QED
            BY <2>6, <3>1, <3>2 DEF WakeOne, CountWoken, Blocking
    <2>7. CASE LoadWaiting(t)
        BY <2>7 DEF LoadWaiting
    <2>8. CASE WakeAll(t)
        <3>1. sleepers' \subseteq sleepers
            BY <2>8 DEF WakeAll, FutexWakeAll
        <3>2. woken' \in [Threads -> Nat]
            BY <2>8, <3>1, CountWokenType DEF WakeAll
        <3>. QED
            BY <2>8, <3>1, <3>2 DEF WakeAll, CountWoken, Blocking
    <2>9. CASE PoisonMutex(t)
        BY <2>9 DEF PoisonMutex, Mutex!Poison
    <2>10. CASE Die(t)
        BY <2>10 DEF Die, Mutex!Release
    <2>. QED
        BY <1>3, <2>1, <2>2, <2>3, <2>4, <2>5, <2>6, <2>7, <2>8, <2>9, <2>10 DEF Step
<1>4. ASSUME NEW t \in Threads, Client(t) PROVE TypeOK' /\ Placement' /\ GuardOwned'
    <2>1. CASE Lock(t)
        BY <2>1 DEF Lock, Mutex!Acquire
    <2>2. CASE Unlock(t)
        BY <2>2 DEF Unlock, Mutex!Release
    <2>3. CASE Panic(t)
        BY <2>3 DEF Panic
    <2>4. CASE WaitLoad(t)
        BY <2>4 DEF WaitLoad, Call
    <2>5. CASE NotifyOne(t)
        BY <1>2, <2>5 DEF NotifyOne, Call, Notify, Blocking
    <2>6. CASE NotifyAll(t)
        BY <1>2, <2>6 DEF NotifyAll, Call, Notify, Blocking
    <2>7. CASE SpuriousWake(t)
        BY <2>7 DEF SpuriousWake
    <2>. QED
        BY <1>4, <2>1, <2>2, <2>3, <2>4, <2>5, <2>6, <2>7 DEF Client
<1>5. CASE ClearPoison
    BY <1>5 DEF ClearPoison, Mutex!ClearPoison
<1>. QED
    BY <1>1, <1>3, <1>4, <1>5 DEF Next

\* `state` ages by one with each notification, until the counter has made a full turn.
LEMMA StateInduction == TypeOK /\ Placement /\ StateIsOld /\ [Next]_vars => StateIsOld'
<1> SUFFICES ASSUME TypeOK, Placement, StateIsOld, [Next]_vars PROVE StateIsOld'
    OBVIOUS
<1> USE CondVarAssumption DEF TypeOK, StateIsOld, Labels, mutexVars, history, Goto, Outside
<1>1. ASSUME UNCHANGED <<counter, state, since>>,
             \A t \in Threads : pc'[t] \in {"add", "unlock", "sleep"} => pc[t] \in {"add", "unlock", "sleep"}
      PROVE  StateIsOld'
    BY <1>1
<1>2. CASE UNCHANGED vars
    BY <1>1, <1>2 DEF vars
<1>3. ASSUME NEW t \in Threads, Step(t) PROVE StateIsOld'
    <2>1. CASE WaitAdd(t) \/ WaitUnlock(t) \/ WaitSleep(t) \/ WaitRelock(t)
        BY <1>1, <2>1 DEF WaitAdd, WaitUnlock, WaitSleep, WaitRelock
    <2>2. CASE WaitSub(t)
        BY <2>2 DEF WaitSub
    <2>3. CASE WakeOne(t) \/ LoadWaiting(t) \/ WakeAll(t)
        BY <1>1, <2>3 DEF WakeOne, LoadWaiting, WakeAll
    <2>4. CASE PoisonMutex(t) \/ Die(t)
        BY <1>1, <2>4 DEF PoisonMutex, Die
    <2>. QED
        BY <1>3, <2>1, <2>2, <2>3, <2>4 DEF Step
<1>4. ASSUME NEW t \in Threads, NEW to \in {"wake_one", "load"},
             Goto(t, Outside(t), to), Notify, state' = state
      PROVE  StateIsOld'
    <2>1. counter' = IF counter + 1 = Modulus THEN 0 ELSE counter + 1
        BY <1>4, Wrap DEF Notify
    <2>2. ASSUME NEW u \in Threads, pc'[u] \in {"add", "unlock", "sleep"}, since'[u] < Modulus
          PROVE  counter' = IF state'[u] + since'[u] < Modulus THEN state'[u] + since'[u]
                                                               ELSE state'[u] + since'[u] - Modulus
        <3>1. pc[u] \in {"add", "unlock", "sleep"}
            BY <1>4, <2>2
        <3>2. since'[u] = since[u] + 1
            BY <1>4, <3>1 DEF Notify, Blocking
        <3>. QED
            BY <1>4, <2>1, <2>2, <3>1, <3>2
    <2>. QED
        BY <2>2
<1>5. ASSUME NEW t \in Threads, Client(t) PROVE StateIsOld'
    <2>1. CASE Lock(t) \/ Unlock(t) \/ Panic(t)
        BY <1>1, <2>1 DEF Lock, Unlock, Panic
    <2>2. CASE WaitLoad(t)
        <3>1. since[t] = 0
            BY <2>2 DEF WaitLoad, Call, Placement
        <3>. QED
            BY <2>2, <3>1 DEF WaitLoad, Call
    <2>3. CASE NotifyOne(t) \/ NotifyAll(t)
        BY <1>4, <2>3 DEF NotifyOne, NotifyAll, Call
    <2>4. CASE SpuriousWake(t)
        BY <1>1, <2>4 DEF SpuriousWake
    <2>. QED
        BY <1>5, <2>1, <2>2, <2>3, <2>4 DEF Client
<1>6. CASE ClearPoison
    BY <1>1, <1>6 DEF ClearPoison
<1>. QED
    BY <1>2, <1>3, <1>5, <1>6 DEF Next

\* `waiting` follows the threads that enter and leave wait().
LEMMA CountedInduction == TypeOK /\ Placement /\ WaitingCounted /\ [Next]_vars => WaitingCounted'
<1> SUFFICES ASSUME TypeOK, Placement, WaitingCounted, [Next]_vars PROVE WaitingCounted'
    OBVIOUS
<1> USE CondVarAssumption DEF mutexVars, history, Goto, Outside
<1>1. Waiting \in SUBSET Threads
    BY DEF Waiting
<1>2. ASSUME Waiting' = Waiting, waiting' = waiting PROVE WaitingCounted'
    BY <1>2 DEF WaitingCounted
<1>3. CASE UNCHANGED vars
    BY <1>2, <1>3 DEF vars, Waiting
<1>4. ASSUME NEW t \in Threads, WaitAdd(t) PROVE WaitingCounted'
    <2>1. t \notin Waiting /\ Waiting' = Waiting \cup {t} /\ waiting' = (waiting + 1) % Modulus
        BY <1>4 DEF WaitAdd, Waiting, TypeOK
    <2>2. Cardinality(Waiting \cup {t}) = waiting + 1
        BY <1>1, <2>1, Counting DEF WaitingCounted
    <2>3. waiting + 1 < Modulus
        <3>1. Waiting \cup {t} \in SUBSET Threads
            BY <1>1
        <3>2. Cardinality(Waiting \cup {t}) < Modulus
            BY <3>1, Counting
        <3>. QED
            BY <2>2, <3>2
    <2>4. waiting' = waiting + 1
        BY <2>1, <2>3, Wrap DEF TypeOK
    <2>. QED
        BY <2>1, <2>2, <2>4 DEF WaitingCounted
<1>5. ASSUME NEW t \in Threads, WaitSub(t) PROVE WaitingCounted'
    <2>1. t \in Waiting /\ Waiting' = Waiting \ {t} /\ waiting' = (waiting + Modulus - 1) % Modulus
        BY <1>5 DEF WaitSub, Waiting, TypeOK
    <2>2. Cardinality(Waiting \ {t}) = waiting - 1
        BY <1>1, <2>1, Counting DEF WaitingCounted
    <2>3. waiting # 0
        BY <1>1, <2>1, Counting DEF WaitingCounted
    <2>4. waiting' = waiting - 1
        BY <2>1, <2>3, Wrap DEF TypeOK
    <2>. QED
        BY <2>1, <2>2, <2>4 DEF WaitingCounted
<1>6. ASSUME NEW t \in Threads, Step(t) PROVE WaitingCounted'
    <2>1. CASE WaitUnlock(t) \/ WaitSleep(t) \/ WaitRelock(t)
        BY <1>2, <2>1 DEF WaitUnlock, WaitSleep, WaitRelock, Waiting, TypeOK
    <2>2. CASE WakeOne(t) \/ LoadWaiting(t) \/ WakeAll(t)
        BY <1>2, <2>2 DEF WakeOne, LoadWaiting, WakeAll, Waiting, TypeOK
    <2>3. CASE PoisonMutex(t) \/ Die(t)
        BY <1>2, <2>3 DEF PoisonMutex, Die, Waiting, TypeOK
    <2>. QED
        BY <1>4, <1>5, <1>6, <2>1, <2>2, <2>3 DEF Step
<1>7. ASSUME NEW t \in Threads, Client(t) PROVE WaitingCounted'
    <2>1. CASE Lock(t) \/ Unlock(t) \/ Panic(t)
        BY <1>2, <2>1 DEF Lock, Unlock, Panic, Waiting, TypeOK
    <2>2. CASE WaitLoad(t) \/ NotifyOne(t) \/ NotifyAll(t)
        BY <1>2, <2>2 DEF WaitLoad, NotifyOne, NotifyAll, Call, Waiting, TypeOK
    <2>3. CASE SpuriousWake(t)
        BY <1>2, <2>3 DEF SpuriousWake, Waiting
    <2>. QED
        BY <1>7, <2>1, <2>2, <2>3 DEF Client
<1>8. CASE ClearPoison
    BY <1>2, <1>8 DEF ClearPoison, Waiting
<1>. QED
    BY <1>3, <1>6, <1>7, <1>8 DEF Next

\* Each step keeps the balance between the notifications a sleeper has missed and the wake-ups
\* that were made or are still due.
LEMMA NotificationInduction ==
    ASSUME TypeOK, TypeOK', Placement, StateIsOld, WaitingCounted, NoLostNotification, [Next]_vars
    PROVE  NoLostNotification'
<1> USE CondVarAssumption DEF mutexVars, history, Goto, Outside
<1>1. Notifying \in SUBSET Threads /\ Notifying' \in SUBSET Threads
    BY DEF Notifying
<1>2. Cardinality(Notifying) \in Nat /\ Cardinality(Notifying') \in Nat
    <2>1. \A S \in SUBSET Threads : Cardinality(S) \in Nat
        BY FS_Subset, FS_CardinalityType
    <2>. QED
        BY <1>1, <2>1
<1>3. ASSUME UNCHANGED <<since, woken>>, sleepers' \subseteq sleepers, Notifying' = Notifying
      PROVE  NoLostNotification'
    BY <1>3 DEF NoLostNotification
<1>4. CASE UNCHANGED vars
    BY <1>3, <1>4 DEF vars, Notifying
<1>5. ASSUME NEW t \in Threads, WaitSleep(t) PROVE NoLostNotification'
    <2>1. Notifying' = Notifying
        BY <1>5 DEF WaitSleep, Notifying, TypeOK
    <2>2. CASE sleepers' = sleepers
        BY <1>3, <1>5, <2>1, <2>2 DEF WaitSleep
    <2>3. CASE sleepers' = sleepers \cup {t} /\ counter = state[t]
        <3>1. since[t] < Modulus => since[t] = 0
            <4>1. pc[t] = "sleep"
                BY <1>5 DEF WaitSleep
            <4>2. /\ since[t] \in Nat
                  /\ Modulus \in Nat
                  /\ state[t] \in 0..(Modulus - 1)
                BY DEF TypeOK
            <4>3. since[t] < Modulus
                    => state[t] = IF state[t] + since[t] < Modulus THEN state[t] + since[t]
                                                                  ELSE state[t] + since[t] - Modulus
                BY <2>3, <4>1 DEF StateIsOld
            <4>. QED
                BY <4>2, <4>3
        <3>. QED
            BY <1>2, <1>5, <2>1, <2>3, <3>1 DEF WaitSleep, NoLostNotification, TypeOK
    <2>. QED
        BY <1>5, <2>2, <2>3 DEF WaitSleep, FutexWait
<1>6. ASSUME NEW t \in Threads, WaitSub(t) PROVE NoLostNotification'
    <2>1. Notifying' = Notifying
        BY <1>6 DEF WaitSub, Notifying, TypeOK
    <2>. QED
        BY <1>6, <2>1 DEF WaitSub, NoLostNotification, TypeOK
<1>7. ASSUME NEW t \in Threads, NEW to \in {"wake_one", "load"},
             Goto(t, Outside(t), to), Notify, UNCHANGED <<sleepers, woken>>
      PROVE  NoLostNotification'
    <2>1. t \notin Notifying /\ Notifying' = Notifying \cup {t}
        BY <1>7 DEF Notifying, TypeOK
    <2>2. Cardinality(Notifying') = Cardinality(Notifying) + 1
        BY <1>1, <2>1, Counting
    <2>3. \A u \in sleepers : since'[u] = since[u] + 1
        BY <1>7 DEF Notify, Blocking, TypeOK
    <2>. QED
        BY <1>2, <1>7, <2>2, <2>3 DEF NoLostNotification, TypeOK
<1>8. ASSUME NEW t \in Threads, WakeOne(t) PROVE NoLostNotification'
    <2>1. t \in Notifying /\ Notifying' = Notifying \ {t}
        BY <1>8 DEF WakeOne, Notifying, TypeOK
    <2>2. Cardinality(Notifying') = Cardinality(Notifying) - 1
        BY <1>1, <2>1, Counting
    <2>3. CASE sleepers = {}
        BY <1>8, <2>3 DEF WakeOne, FutexWakeOne, NoLostNotification
    <2>4. CASE sleepers # {}
        <3>1. sleepers' \subseteq sleepers /\ Cardinality(sleepers \ sleepers') = 1
            BY <1>8, <2>4, WakeOneWakesOne DEF WakeOne, TypeOK
        <3>2. \A u \in sleepers : woken'[u] = woken[u] + 1
            BY <1>8, <3>1 DEF WakeOne, CountWoken, Blocking, TypeOK
        <3>. QED
            BY <1>2, <1>8, <2>2, <3>1, <3>2 DEF WakeOne, NoLostNotification, TypeOK
    <2>. QED
        BY <2>3, <2>4
<1>9. ASSUME NEW t \in Threads, LoadWaiting(t) PROVE NoLostNotification'
    <2>1. CASE waiting = 0
        <3>1. Waiting \in SUBSET Threads /\ Cardinality(Waiting) = 0
            BY <2>1 DEF Waiting, WaitingCounted
        <3>2. Waiting = {}
            BY <1>9, <3>1, Counting
        <3>3. sleepers = {}
            BY <3>2 DEF Waiting, Placement, TypeOK
        <3>. QED
            BY <1>9, <3>3 DEF LoadWaiting, NoLostNotification
    <2>2. CASE waiting # 0
        <3>1. Notifying' = Notifying
            BY <1>9, <2>2 DEF LoadWaiting, Notifying, TypeOK
        <3>. QED
            BY <1>3, <1>9, <3>1 DEF LoadWaiting
    <2>. QED
        BY <2>1, <2>2
<1>10. ASSUME NEW t \in Threads, Step(t) PROVE NoLostNotification'
    <2>1. CASE WaitAdd(t) \/ WaitUnlock(t) \/ WaitRelock(t)
        BY <1>3, <2>1 DEF WaitAdd, WaitUnlock, WaitRelock, Notifying, TypeOK
    <2>2. CASE PoisonMutex(t) \/ Die(t)
        BY <1>3, <2>2 DEF PoisonMutex, Die, Notifying, TypeOK
    <2>3. CASE WakeAll(t)
        BY <2>3 DEF WakeAll, FutexWakeAll, NoLostNotification
    <2>. QED
        BY <1>5, <1>6, <1>8, <1>9, <1>10, <2>1, <2>2, <2>3 DEF Step
<1>11. ASSUME NEW t \in Threads, Client(t) PROVE NoLostNotification'
    <2>1. CASE Lock(t) \/ Unlock(t) \/ Panic(t)
        BY <1>3, <2>1 DEF Lock, Unlock, Panic, Notifying, TypeOK
    <2>2. CASE WaitLoad(t)
        BY <1>3, <2>2 DEF WaitLoad, Call, Notifying, TypeOK
    <2>3. CASE NotifyOne(t) \/ NotifyAll(t)
        BY <1>7, <2>3 DEF NotifyOne, NotifyAll, Call
    <2>4. CASE SpuriousWake(t)
        BY <1>3, <2>4 DEF SpuriousWake, Notifying
    <2>. QED
        BY <1>11, <2>1, <2>2, <2>3, <2>4 DEF Client
<1>12. CASE ClearPoison
    BY <1>3, <1>12 DEF ClearPoison, Notifying
<1>. QED
    BY <1>4, <1>10, <1>11, <1>12 DEF Next

----------------------------------------------------------------------------
\* The inductive invariant holds in every state of CondVar.
THEOREM Invariance == Spec => []IInv
<1>1. Init => IInv
    <2> SUFFICES ASSUME Init PROVE IInv
        OBVIOUS
    <2> USE CondVarAssumption DEF Init, Mutex!Init
    <2>1. TypeOK
        <3>1. 0 \in 0..(Modulus - 1)
            OBVIOUS
        <3>2. pc \in [Threads -> Labels] /\ state \in [Threads -> 0..(Modulus - 1)]
            BY <3>1 DEF Labels
        <3>. QED
            BY <3>1, <3>2 DEF TypeOK
    <2>2. Placement /\ StateIsOld /\ GuardOwned /\ NoLostNotification
        BY DEF Placement, StateIsOld, GuardOwned, NoLostNotification
    <2>3. Waiting = {}
        BY DEF Waiting
    <2>4. WaitingCounted
        BY <2>3, FS_EmptySet DEF WaitingCounted
    <2>. QED
        BY <2>1, <2>2, <2>4 DEF IInv
<1>2. IInv /\ [Next]_vars => IInv'
    BY TypeInduction, StateInduction, CountedInduction, NotificationInduction DEF IInv
<1>. QED
    BY <1>1, <1>2, PTL DEF Spec

\* Type correctness: both words stay AtomicU32 values however often the counter wraps.
THEOREM TypeCorrect == Spec => []TypeOK
<1>1. IInv => TypeOK
    BY DEF IInv
<1>. QED
    BY Invariance, <1>1, PTL

\* notify_all() may rely on `waiting`: it is exactly the number of threads inside wait().
THEOREM WaitingExact == Spec => []WaitingCounted
<1>1. IInv => WaitingCounted
    BY DEF IInv
<1>. QED
    BY Invariance, <1>1, PTL

\* No notification is lost on a thread that sleeps in wait(), short of a full turn of the
\* counter.
THEOREM NotificationsKept == Spec => []NoLostNotification
<1>1. IInv => NoLostNotification
    BY DEF IInv
<1>. QED
    BY Invariance, <1>1, PTL

\* Whoever is about to use the guard of the mutex owns it, alone: wait() unlocks a mutex that
\* its caller holds, and comes back with the guard of a mutex that is locked for it.
THEOREM GuardSafe == Spec => []GuardOwned
<1>1. IInv => GuardOwned
    BY DEF IInv
<1>. QED
    BY Invariance, <1>1, PTL
=============================================================================
