---------------------------- MODULE MutexV1Proofs ----------------------------
(***************************************************************************)
(* Proofs about MutexV1 for every set of threads, spin limit and number of *)
(* calls.                                                                  *)
(***************************************************************************)
EXTENDS MutexV1, TLAPS

\* What the others need to be inductive: a thread owns a guard only between
\* operations, it spins only below the limit, and it unparks a thread only after it
\* has taken one out of the queue.
Placement ==
    /\ \A t \in Threads : guard[t] # "none" => pc[t] = "idle"
    /\ \A t \in Threads : pc[t] \in {"spin", "cas"} => spin_counter[t] < SpinLimit
    /\ \A t \in Threads : pc[t] = "unpark" => thread_to_unpark[t] \in Threads

\* The inductive invariant.
IInv == TypeOK /\ Placement /\ OwnerInState /\ QueueExclusive /\ ParkedIsReachable

\* Types are preserved by every step.
LEMMA TypeInduction == TypeOK /\ Placement /\ [Next]_vars => TypeOK'
<1> SUFFICES ASSUME TypeOK, Placement, [Next]_vars PROVE TypeOK'
    OBVIOUS
<1> USE MutexV1Assumption DEF TypeOK, Placement, queueVars, bounds
<1>1. CASE UNCHANGED vars
    BY <1>1 DEF vars
<1>2. ASSUME NEW t \in Threads, Step(t) PROVE TypeOK'
    <2>1. CASE SpinLoad(t)
        <3>1. spin_counter[t] \in 0..SpinLimit
            OBVIOUS
        <3>2. CASE state = NoThread
            BY <2>1, <3>2 DEF SpinLoad, Goto
        <3>3. CASE state # NoThread
            <4>1. spin_counter[t] + 1 \in 0..SpinLimit
                BY <2>1, <3>1, <3>3 DEF SpinLoad, Goto
            <4>2. /\ \/ pc' = [pc EXCEPT ![t] = "spin"]
                     \/ pc' = [pc EXCEPT ![t] = "enqueue"]
                  /\ spin_counter' = [spin_counter EXCEPT ![t] = @ + 1]
                  /\ UNCHANGED <<state, queue_is_accessed, queue, thread_to_unpark, poisoned, token,
                                 guard, calls, spurious>>
                BY <2>1, <3>3 DEF SpinLoad, Goto
            <4>3. spin_counter' \in [Threads -> 0..SpinLimit]
                BY <4>1, <4>2
            <4>4. pc' \in [Threads -> {"idle", "spin", "cas", "finish", "enqueue", "push", "park",
                                       "store", "dequeue", "pop", "unpark"}]
                BY <4>2
            <4>. QED
                BY <4>2, <4>3, <4>4
        <3>. QED
            BY <3>2, <3>3
    <2>2. CASE CasOk(t)
        BY <2>2 DEF CasOk, Goto
    <2>3. CASE CasFail(t)
        BY <2>3 DEF CasFail, Goto
    <2>4. CASE FinishLock(t)
        BY <2>4 DEF FinishLock, Goto
    <2>5. CASE AcquireQueue(t)
        BY <2>5 DEF AcquireQueue, Goto
    <2>6. CASE Push(t)
        <3>1. Append(queue, t) \in Seq(Threads)
            OBVIOUS
        <3>. QED
            BY <2>6, <3>1 DEF Push, Goto
    <2>7. CASE Park(t)
        BY <2>7 DEF Park, Goto
    <2>8. CASE DropGuard(t)
        BY <2>8 DEF DropGuard, Goto
    <2>9. CASE Store(t)
        BY <2>9 DEF Store, Goto
    <2>10. CASE Pop(t)
        <3>1. CASE queue = <<>>
            BY <2>10, <3>1 DEF Pop, Goto
        <3>2. CASE queue # <<>>
            <4>1. Head(queue) \in Threads /\ Tail(queue) \in Seq(Threads)
                BY <3>2
            <4>2. /\ pc' = [pc EXCEPT ![t] = "unpark"]
                  /\ thread_to_unpark' = [thread_to_unpark EXCEPT ![t] = Head(queue)]
                  /\ queue' = Tail(queue)
                  /\ queue_is_accessed' = FALSE
                  /\ UNCHANGED <<state, poisoned, token, spin_counter, guard, calls, spurious>>
                BY <2>10, <3>2 DEF Pop, Goto
            <4>3. thread_to_unpark' \in [Threads -> Threads \cup {NoThread}]
                BY <4>1, <4>2
            <4>. QED
                BY <4>1, <4>2, <4>3
        <3>. QED
            BY <3>1, <3>2
    <2>11. CASE Unpark(t)
        BY <2>11 DEF Unpark, Goto
    <2>. QED
        BY <1>2, <2>1, <2>2, <2>3, <2>4, <2>5, <2>6, <2>7, <2>8, <2>9, <2>10, <2>11 DEF Step
<1>3. ASSUME NEW t \in Threads, Client(t) PROVE TypeOK'
    <2>1. CASE Reenter(t)
        BY <2>1 DEF Reenter, Call, Goto
    <2>2. CASE Lock(t)
        BY <2>2 DEF Lock, Call, Goto
    <2>3. CASE TryLock(t)
        <3>1. calls[t] < MaxCalls => calls[t] + 1 \in 0..MaxCalls
            OBVIOUS
        <3>2. CASE Call(t, "finish") /\ state = NoThread /\ state' = t
            BY <2>3, <3>1, <3>2 DEF TryLock, Call, Goto
        <3>3. CASE Call(t, "idle") /\ UNCHANGED state
            BY <2>3, <3>1, <3>3 DEF TryLock, Call, Goto
        <3>. QED
            BY <2>3, <3>2, <3>3 DEF TryLock
    <2>4. CASE ClearPoison(t)
        BY <2>4 DEF ClearPoison, Goto
    <2>5. CASE SpuriousPark(t)
        BY <2>5 DEF SpuriousPark, Goto
    <2>. QED
        BY <1>3, <2>1, <2>2, <2>3, <2>4, <2>5 DEF Client
<1>. QED
    BY <1>1, <1>2, <1>3 DEF Next

\* Guards and locals stay where they belong.
LEMMA PlacementInduction == TypeOK /\ Placement /\ OwnerInState /\ [Next]_vars => Placement'
<1> SUFFICES ASSUME TypeOK, Placement, OwnerInState, [Next]_vars PROVE Placement'
    OBVIOUS
<1>4. /\ DOMAIN pc = Threads /\ pc = [u \in Threads |-> pc[u]]
      /\ spin_counter \in [Threads -> Nat]
      /\ thread_to_unpark = [u \in Threads |-> thread_to_unpark[u]]
      /\ guard = [u \in Threads |-> guard[u]]
    BY MutexV1Assumption DEF TypeOK
<1> USE MutexV1Assumption, <1>4 DEF Placement, queueVars, bounds
<1>1. CASE UNCHANGED vars
    BY <1>1 DEF vars
<1>2. ASSUME NEW t \in Threads, Step(t) PROVE Placement'
    <2>1. CASE SpinLoad(t)
        <3>1. CASE state = NoThread
            BY <2>1, <3>1 DEF SpinLoad, Goto
        <3>2. CASE state # NoThread
            <4>1. /\ pc[t] = "spin"
                  /\ pc' = [pc EXCEPT ![t] =
                              IF spin_counter[t] + 1 < SpinLimit THEN "spin" ELSE "enqueue"]
                  /\ spin_counter' = [spin_counter EXCEPT ![t] = @ + 1]
                  /\ UNCHANGED <<thread_to_unpark, guard>>
                BY <2>1, <3>2 DEF SpinLoad, Goto
            <4>2. \A u \in Threads : pc'[u] \in {"spin", "cas"} => spin_counter'[u] < SpinLimit
                BY <4>1
            <4>. QED
                BY <4>1, <4>2
        <3>. QED
            BY <3>1, <3>2
    <2>2. CASE CasOk(t)
        BY <2>2 DEF CasOk, Goto
    <2>3. CASE CasFail(t)
        BY <2>3 DEF CasFail, Goto
    <2>4. CASE FinishLock(t)
        BY <2>4 DEF FinishLock, Goto
    <2>5. CASE AcquireQueue(t)
        BY <2>5 DEF AcquireQueue, Goto
    <2>6. CASE Push(t)
        BY <2>6 DEF Push, Goto
    <2>7. CASE Park(t)
        BY <2>7 DEF Park, Goto
    <2>8. CASE DropGuard(t)
        BY <2>8 DEF DropGuard, Goto
    <2>9. CASE Store(t)
        BY <2>9 DEF Store, Goto
    <2>10. CASE Pop(t)
        <3>1. CASE queue = <<>>
            BY <2>10, <3>1 DEF Pop, Goto
        <3>2. CASE queue # <<>>
            <4>1. Head(queue) \in Threads
                BY <3>2 DEF TypeOK
            <4>. QED
                BY <2>10, <3>2, <4>1 DEF Pop, Goto
        <3>. QED
            BY <3>1, <3>2
    <2>11. CASE Unpark(t)
        BY <2>11 DEF Unpark, Goto
    <2>. QED
        BY <1>2, <2>1, <2>2, <2>3, <2>4, <2>5, <2>6, <2>7, <2>8, <2>9, <2>10, <2>11 DEF Step
<1>3. ASSUME NEW t \in Threads, Client(t) PROVE Placement'
    <2>1. CASE Reenter(t)
        BY <2>1 DEF Reenter, Call, Goto
    <2>2. CASE Lock(t)
        <3>1. /\ pc' = [pc EXCEPT ![t] = "spin"]
              /\ pc[t] = "idle"
              /\ spin_counter' = [spin_counter EXCEPT ![t] = 0]
              /\ UNCHANGED <<thread_to_unpark, guard>>
            BY <2>2 DEF Lock, Call, Goto
        <3>2. guard[t] = "none"
            BY <2>2 DEF Lock, OwnerInState, Owns
        <3>. QED
            BY <3>1, <3>2
    <2>3. CASE TryLock(t)
        <3>1. /\ \/ pc' = [pc EXCEPT ![t] = "finish"]
                 \/ pc' = [pc EXCEPT ![t] = "idle"]
              /\ UNCHANGED <<spin_counter, thread_to_unpark, guard>>
            BY <2>3 DEF TryLock, Call, Goto
        <3>2. guard[t] = "none"
            BY <2>3 DEF TryLock, OwnerInState, Owns
        <3>. QED
            BY <3>1, <3>2
    <2>4. CASE ClearPoison(t)
        BY <2>4 DEF ClearPoison, Goto
    <2>5. CASE SpuriousPark(t)
        BY <2>5 DEF SpuriousPark, Goto
    <2>. QED
        BY <1>3, <2>1, <2>2, <2>3, <2>4, <2>5 DEF Client
<1>. QED
    BY <1>1, <1>2, <1>3 DEF Next

\* The word names the one owner through every step.
LEMMA OwnerInduction == TypeOK /\ Placement /\ OwnerInState /\ [Next]_vars => OwnerInState'
<1> SUFFICES ASSUME TypeOK, Placement, OwnerInState, [Next]_vars PROVE OwnerInState'
    OBVIOUS
<1> USE MutexV1Assumption DEF TypeOK, Placement, OwnerInState, Owns, queueVars, bounds
<1>1. CASE UNCHANGED vars
    BY <1>1 DEF vars
<1>2. ASSUME NEW t \in Threads, Step(t) PROVE OwnerInState'
    <2>1. CASE SpinLoad(t)
        BY <2>1 DEF SpinLoad, Goto
    <2>2. CASE CasOk(t)
        BY <2>2 DEF CasOk, Goto
    <2>3. CASE CasFail(t)
        BY <2>3 DEF CasFail, Goto
    <2>4. CASE FinishLock(t)
        BY <2>4 DEF FinishLock, Goto
    <2>5. CASE AcquireQueue(t)
        BY <2>5 DEF AcquireQueue, Goto
    <2>6. CASE Push(t)
        BY <2>6 DEF Push, Goto
    <2>7. CASE Park(t)
        BY <2>7 DEF Park, Goto
    <2>8. CASE DropGuard(t)
        BY <2>8 DEF DropGuard, Goto
    <2>9. CASE Store(t)
        BY <2>9 DEF Store, Goto
    <2>10. CASE Pop(t)
        BY <2>10 DEF Pop, Goto
    <2>11. CASE Unpark(t)
        BY <2>11 DEF Unpark, Goto
    <2>. QED
        BY <1>2, <2>1, <2>2, <2>3, <2>4, <2>5, <2>6, <2>7, <2>8, <2>9, <2>10, <2>11 DEF Step
<1>3. ASSUME NEW t \in Threads, Client(t) PROVE OwnerInState'
    <2>1. CASE Reenter(t)
        BY <2>1 DEF Reenter, Call, Goto
    <2>2. CASE Lock(t)
        BY <2>2 DEF Lock, Call, Goto
    <2>3. CASE TryLock(t)
        BY <2>3 DEF TryLock, Call, Goto
    <2>4. CASE ClearPoison(t)
        BY <2>4 DEF ClearPoison, Goto
    <2>5. CASE SpuriousPark(t)
        BY <2>5 DEF SpuriousPark, Goto
    <2>. QED
        BY <1>3, <2>1, <2>2, <2>3, <2>4, <2>5 DEF Client
<1>. QED
    BY <1>1, <1>2, <1>3 DEF Next

\* The spinning lock of the queue stays exclusive.
LEMMA QueueInduction == TypeOK /\ QueueExclusive /\ [Next]_vars => QueueExclusive'
<1> SUFFICES ASSUME TypeOK, QueueExclusive, [Next]_vars PROVE QueueExclusive'
    OBVIOUS
<1> USE DEF TypeOK, QueueExclusive, AccessesQueue, queueVars, bounds
<1>1. CASE UNCHANGED vars
    BY <1>1 DEF vars
<1>2. ASSUME NEW t \in Threads, Step(t) PROVE QueueExclusive'
    <2>1. CASE SpinLoad(t)
        BY <2>1 DEF SpinLoad, Goto
    <2>2. CASE CasOk(t)
        BY <2>2 DEF CasOk, Goto
    <2>3. CASE CasFail(t)
        BY <2>3 DEF CasFail, Goto
    <2>4. CASE FinishLock(t)
        BY <2>4 DEF FinishLock, Goto
    <2>5. CASE AcquireQueue(t)
        BY <2>5 DEF AcquireQueue, Goto
    <2>6. CASE Push(t)
        BY <2>6 DEF Push, Goto
    <2>7. CASE Park(t)
        BY <2>7 DEF Park, Goto
    <2>8. CASE DropGuard(t)
        BY <2>8 DEF DropGuard, Goto
    <2>9. CASE Store(t)
        BY <2>9 DEF Store, Goto
    <2>10. CASE Pop(t)
        BY <2>10 DEF Pop, Goto
    <2>11. CASE Unpark(t)
        BY <2>11 DEF Unpark, Goto
    <2>. QED
        BY <1>2, <2>1, <2>2, <2>3, <2>4, <2>5, <2>6, <2>7, <2>8, <2>9, <2>10, <2>11 DEF Step
<1>3. ASSUME NEW t \in Threads, Client(t) PROVE QueueExclusive'
    <2>1. CASE Reenter(t)
        BY <2>1 DEF Reenter, Call, Goto
    <2>2. CASE Lock(t)
        BY <2>2 DEF Lock, Call, Goto
    <2>3. CASE TryLock(t)
        BY <2>3 DEF TryLock, Call, Goto
    <2>4. CASE ClearPoison(t)
        BY <2>4 DEF ClearPoison, Goto
    <2>5. CASE SpuriousPark(t)
        BY <2>5 DEF SpuriousPark, Goto
    <2>. QED
        BY <1>3, <2>1, <2>2, <2>3, <2>4, <2>5 DEF Client
<1>. QED
    BY <1>1, <1>2, <1>3 DEF Next

\* A parked thread stays within reach of an unlocking one.
LEMMA ParkedInduction == TypeOK /\ Placement /\ ParkedIsReachable /\ [Next]_vars => ParkedIsReachable'
<1> SUFFICES ASSUME TypeOK, Placement, ParkedIsReachable, [Next]_vars PROVE ParkedIsReachable'
    OBVIOUS
<1> USE DEF queueVars, bounds
\* A step that parks nobody and leaves the queue and the tokens alone.
<1>4. ASSUME \A u \in Threads : pc'[u] = "park" => pc[u] = "park",
             \A u \in Threads : pc[u] = "unpark" => pc'[u] = "unpark",
             UNCHANGED <<token, queue, thread_to_unpark>>
      PROVE  ParkedIsReachable'
    BY <1>4, Zenon DEF ParkedIsReachable
<1>1. CASE UNCHANGED vars
    BY <1>1, <1>4 DEF vars
<1>2. ASSUME NEW t \in Threads, Step(t) PROVE ParkedIsReachable'
    <2>1. CASE SpinLoad(t)
        BY <2>1, <1>4 DEF SpinLoad, Goto, TypeOK
    <2>2. CASE CasOk(t)
        BY <2>2, <1>4 DEF CasOk, Goto, TypeOK
    <2>3. CASE CasFail(t)
        BY <2>3, <1>4 DEF CasFail, Goto, TypeOK
    <2>4. CASE FinishLock(t)
        BY <2>4, <1>4 DEF FinishLock, Goto, TypeOK
    <2>5. CASE AcquireQueue(t)
        BY <2>5, <1>4 DEF AcquireQueue, Goto, TypeOK
    <2>6. CASE Push(t)
        <3>1. /\ pc' = [pc EXCEPT ![t] = "park"]
              /\ pc[t] = "push"
              /\ queue' = Append(queue, t)
              /\ UNCHANGED <<token, thread_to_unpark>>
            BY <2>6 DEF Push, Goto
        <3>7. queue \in Seq(Threads)
            BY DEF TypeOK
        <3>2. /\ Len(queue) \in Nat
              /\ Len(queue') = Len(queue) + 1
              /\ queue'[Len(queue) + 1] = t
              /\ \A i \in 1..Len(queue) : queue'[i] = queue[i]
            BY <3>1, <3>7
        <3>3. \E i \in 1..Len(queue') : queue'[i] = t
            BY <3>2
        <3>4. ASSUME NEW u \in Threads, \E i \in 1..Len(queue) : queue[i] = u
              PROVE  \E i \in 1..Len(queue') : queue'[i] = u
            BY <3>2, <3>4
        <3>5. \A u \in Threads : pc[u] = "unpark" => pc'[u] = "unpark"
            BY <3>1 DEF TypeOK
        <3>6. \A u \in Threads : pc'[u] = "park" => u = t \/ pc[u] = "park"
            BY <3>1 DEF TypeOK
        <3> SUFFICES ASSUME NEW u \in Threads, pc'[u] = "park"
                     PROVE  \/ u \in token'
                            \/ \E i \in 1..Len(queue') : queue'[i] = u
                            \/ \E v \in Threads : pc'[v] = "unpark" /\ thread_to_unpark'[v] = u
            BY DEF ParkedIsReachable
        <3>8. CASE u = t
            BY <3>3, <3>8
        <3>9. CASE pc[u] = "park"
            <4>1. CASE u \in token
                BY <3>1, <4>1
            <4>2. CASE \E i \in 1..Len(queue) : queue[i] = u
                BY <3>4, <4>2
            <4>3. ASSUME NEW v \in Threads, pc[v] = "unpark", thread_to_unpark[v] = u
                  PROVE  pc'[v] = "unpark" /\ thread_to_unpark'[v] = u
                BY <3>1, <3>5, <4>3
            <4>. QED
                BY <3>9, <4>1, <4>2, <4>3 DEF ParkedIsReachable
        <3>. QED
            BY <3>6, <3>8, <3>9
    <2>7. CASE Park(t)
        BY <2>7 DEF Park, Goto, TypeOK, Placement, ParkedIsReachable
    <2>8. CASE DropGuard(t)
        BY <2>8, <1>4 DEF DropGuard, Goto, TypeOK
    <2>9. CASE Store(t)
        BY <2>9, <1>4 DEF Store, Goto, TypeOK
    <2>10. CASE Pop(t)
        <3>1. CASE queue = <<>>
            BY <2>10, <3>1, <1>4 DEF Pop, Goto, TypeOK
        <3>2. CASE queue # <<>>
            <4> SUFFICES ASSUME NEW u \in Threads, pc'[u] = "park"
                         PROVE  \/ u \in token'
                                \/ \E i \in 1..Len(queue') : queue'[i] = u
                                \/ \E v \in Threads : pc'[v] = "unpark" /\ thread_to_unpark'[v] = u
                BY DEF ParkedIsReachable
            <4>1. /\ token' = token
                  /\ queue' = Tail(queue)
                  /\ pc' = [pc EXCEPT ![t] = "unpark"]
                  /\ thread_to_unpark' = [thread_to_unpark EXCEPT ![t] = queue[1]]
                  /\ pc[t] = "pop"
                BY <2>10, <3>2 DEF Pop, Goto
            <4>2. pc[u] = "park"
                BY <4>1 DEF TypeOK
            <4>3. CASE u \in token
                BY <4>1, <4>3
            <4>4. ASSUME NEW i \in 1..Len(queue), queue[i] = u
                  PROVE  \/ \E j \in 1..Len(queue') : queue'[j] = u
                         \/ \E v \in Threads : pc'[v] = "unpark" /\ thread_to_unpark'[v] = u
                <5>1. CASE i = 1
                    BY <4>1, <4>4, <5>1 DEF TypeOK
                <5>2. CASE i # 1
                    <6>1. i - 1 \in 1..Len(Tail(queue)) /\ Tail(queue)[i - 1] = u
                        BY <3>2, <4>4, <5>2 DEF TypeOK
                    <6>. QED
                        BY <4>1, <6>1
                <5>. QED
                    BY <5>1, <5>2
            <4>5. ASSUME NEW v \in Threads, pc[v] = "unpark", thread_to_unpark[v] = u
                  PROVE  pc'[v] = "unpark" /\ thread_to_unpark'[v] = u
                BY <4>1, <4>5 DEF TypeOK
            <4>. QED
                BY <4>2, <4>3, <4>4, <4>5 DEF ParkedIsReachable
        <3>. QED
            BY <3>1, <3>2
    <2>11. CASE Unpark(t)
        BY <2>11 DEF Unpark, Goto, TypeOK, Placement, ParkedIsReachable
    <2>. QED
        BY <1>2, <2>1, <2>2, <2>3, <2>4, <2>5, <2>6, <2>7, <2>8, <2>9, <2>10, <2>11 DEF Step
<1>3. ASSUME NEW t \in Threads, Client(t) PROVE ParkedIsReachable'
    <2>1. CASE Reenter(t)
        BY <2>1, <1>4 DEF Reenter, Call, Goto, TypeOK
    <2>2. CASE Lock(t)
        BY <2>2, <1>4 DEF Lock, Call, Goto, TypeOK
    <2>3. CASE TryLock(t)
        BY <2>3, <1>4 DEF TryLock, Call, Goto, TypeOK
    <2>4. CASE ClearPoison(t)
        BY <2>4, <1>4 DEF ClearPoison, Goto, TypeOK
    <2>5. CASE SpuriousPark(t)
        BY <2>5 DEF SpuriousPark, Goto, TypeOK, Placement, ParkedIsReachable
    <2>. QED
        BY <1>3, <2>1, <2>2, <2>3, <2>4, <2>5 DEF Client
<1>. QED
    BY <1>1, <1>2, <1>3 DEF Next

----------------------------------------------------------------------------
\* The inductive invariant holds initially and is preserved.
LEMMA Invariance == Spec => []IInv
<1>1. Init => IInv
    <2> SUFFICES ASSUME Init PROVE IInv
        OBVIOUS
    <2> USE MutexV1Assumption DEF Init
    <2>1. TypeOK
        <3>1. 0 \in 0..SpinLimit /\ 0 \in 0..MaxCalls /\ 0 \in 0..MaxSpurious
            OBVIOUS
        <3>2. queue \in Seq(Threads)
            OBVIOUS
        <3>3. /\ spin_counter \in [Threads -> 0..SpinLimit]
              /\ thread_to_unpark \in [Threads -> Threads \cup {NoThread}]
              /\ calls \in [Threads -> 0..MaxCalls]
            BY <3>1
        <3>. QED
            BY <3>1, <3>2, <3>3 DEF TypeOK
    <2>2. Placement
        BY DEF Placement
    <2>3. OwnerInState
        BY DEF OwnerInState, Owns
    <2>4. QueueExclusive
        BY DEF QueueExclusive, AccessesQueue
    <2>5. ParkedIsReachable
        BY DEF ParkedIsReachable
    <2>. QED
        BY <2>1, <2>2, <2>3, <2>4, <2>5 DEF IInv
<1>2. IInv /\ [Next]_vars => IInv'
    BY TypeInduction, PlacementInduction, OwnerInduction, QueueInduction, ParkedInduction DEF IInv
<1>. QED
    BY <1>1, <1>2, PTL DEF Spec

\* Type correctness: in particular the spin loop of lock() stops at its limit.
THEOREM TypeCorrect == Spec => []TypeOK
<1>1. IInv => TypeOK
    BY DEF IInv
<1>. QED
    BY Invariance, <1>1, PTL

\* The word names exactly the thread that is inside, so the mutex is exclusive and
\* its reentrancy test is exact.
THEOREM OwnerExact == Spec => []OwnerInState
<1>1. IInv => OwnerInState
    BY DEF IInv
<1>. QED
    BY Invariance, <1>1, PTL

\* No two threads reach the VecDeque at the same time.
THEOREM QueueLockExclusive == Spec => []QueueExclusive
<1>1. IInv => QueueExclusive
    BY DEF IInv
<1>. QED
    BY Invariance, <1>1, PTL

\* A thread in park() is never forgotten by the queue.  (That somebody still comes to
\* unlock is another matter, and the code does not keep it.)
THEOREM ParkedReachable == Spec => []ParkedIsReachable
<1>1. IInv => ParkedIsReachable
    BY DEF IInv
<1>. QED
    BY Invariance, <1>1, PTL

----------------------------------------------------------------------------
\* The threads inside the mutex are the holders of the abstract mutex: each step of
\* the code is a step of AbstractMutex or leaves its variables alone.
LEMMA StepRefinement == IInv /\ [Next]_vars => [Abstract!Next]_<<Owners, poisoned>>
<1> SUFFICES ASSUME IInv, [Next]_vars
             PROVE  [Abstract!Next]_<<Owners, poisoned>>
    OBVIOUS
<1> USE MutexV1Assumption DEF IInv, TypeOK, Placement, Owners, Owns, queueVars, bounds
<1>1. CASE UNCHANGED vars
    BY <1>1 DEF vars
<1>2. ASSUME NEW t \in Threads, Step(t)
      PROVE  [Abstract!Next]_<<Owners, poisoned>>
    <2>1. CASE SpinLoad(t)
        BY <2>1 DEF SpinLoad, Goto
    <2>2. CASE CasOk(t)
        <3>1. Owners = {} /\ Owners' = {t}
            BY <2>2 DEF CasOk, Goto, OwnerInState
        <3>. QED
            BY <2>2, <3>1 DEF CasOk, Abstract!Next, Abstract!Acquire
    <2>3. CASE CasFail(t)
        BY <2>3 DEF CasFail, Goto
    <2>4. CASE FinishLock(t)
        BY <2>4 DEF FinishLock, Goto
    <2>5. CASE AcquireQueue(t)
        BY <2>5 DEF AcquireQueue, Goto
    <2>6. CASE Push(t)
        BY <2>6 DEF Push, Goto
    <2>7. CASE Park(t)
        BY <2>7 DEF Park, Goto
    <2>8. CASE DropGuard(t)
        <3>1. Owners = {t} /\ Owners' = {t}
            BY <2>8 DEF DropGuard, Goto, OwnerInState
        <3>. QED
            BY <2>8, <3>1 DEF DropGuard, Abstract!Next, Abstract!Poison
    <2>9. CASE Store(t)
        <3>1. Owners = {t} /\ Owners' = {}
            BY <2>9 DEF Store, Goto, OwnerInState
        <3>. QED
            BY <2>9, <3>1 DEF Store, Abstract!Next, Abstract!Release
    <2>10. CASE Pop(t)
        BY <2>10 DEF Pop, Goto
    <2>11. CASE Unpark(t)
        BY <2>11 DEF Unpark, Goto
    <2>. QED
        BY <1>2, <2>1, <2>2, <2>3, <2>4, <2>5, <2>6, <2>7, <2>8, <2>9, <2>10, <2>11 DEF Step
<1>3. ASSUME NEW t \in Threads, Client(t)
      PROVE  [Abstract!Next]_<<Owners, poisoned>>
    <2>1. CASE Reenter(t)
        BY <2>1 DEF Reenter, Call, Goto
    <2>2. CASE Lock(t)
        BY <2>2 DEF Lock, Call, Goto
    <2>3. CASE TryLock(t)
        <3>1. CASE pc'[t] = "finish"
            <4>1. Owners = {} /\ Owners' = {t}
                BY <2>3, <3>1 DEF TryLock, Call, Goto, OwnerInState
            <4>. QED
                BY <2>3, <4>1 DEF TryLock, Abstract!Next, Abstract!Acquire
        <3>2. CASE pc'[t] # "finish"
            BY <2>3, <3>2 DEF TryLock, Call, Goto
        <3>. QED
            BY <3>1, <3>2
    <2>4. CASE ClearPoison(t)
        <3>1. Owners' = Owners
            BY <2>4 DEF ClearPoison, Goto
        <3>. QED
            BY <2>4, <3>1 DEF ClearPoison, Abstract!Next, Abstract!ClearPoison
    <2>5. CASE SpuriousPark(t)
        BY <2>5 DEF SpuriousPark, Goto
    <2>. QED
        BY <1>3, <2>1, <2>2, <2>3, <2>4, <2>5 DEF Client
<1>. QED
    BY <1>1, <1>2, <1>3 DEF Next

\* The parking mutex implements the abstract mutex: one thread inside at a time, and
\* poisoned only by the thread inside.
THEOREM Refinement == Spec => ImplementsMutex
<1>1. Init => Abstract!Init
    BY DEF Init, Abstract!Init, Owners, Owns
<1>2. IInv /\ [Next]_vars => [Abstract!Next]_Abstract!absVars
    BY StepRefinement DEF Abstract!absVars
<1>. QED
    BY <1>1, <1>2, Invariance, PTL DEF Spec, ImplementsMutex, Abstract!Spec
=============================================================================
