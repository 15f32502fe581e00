--------------------------- MODULE SemaphoreProofs ---------------------------
(***************************************************************************)
(* Proofs about Semaphore for every finite set of threads, word size,      *)
(* initial count and number of calls.                                      *)
(***************************************************************************)
EXTENDS Semaphore, Integers, FiniteSetTheorems, TLAPS

\* What the others need to be inductive: a sleeping thread stands at the top of the
\* loop of wait(), a thread goes to sleep only after it has read 0, and it tries to
\* take a permit only after it has read more than 0.
Placement ==
    /\ \A t \in sleepers : pc[t] = "load"
    /\ \A t \in Threads : pc[t] = "sleep" => loaded[t] = 0
    /\ \A t \in Threads : pc[t] \in {"cas", "try_cas"} => loaded[t] > 0

\* The first half of PermitsExact, the half that is inductive.
NotOverdrawn == taken + count <= InitialCount + signals

\* The inductive invariant.
IInv == /\ TypeOK
        /\ Placement
        /\ PermitsConserved
        /\ NotOverdrawn
        /\ WaitersCounted
        /\ NoLostSignal

----------------------------------------------------------------------------
\* Division with remainder, as the provers need it for the AtomicU32 words.
LEMMA Quotient ==
    ASSUME NEW M \in Nat \ {0}, NEW x \in Nat
    PROVE  /\ x % M \in 0..(M - 1)
           /\ x \div M \in Nat
           /\ x = M * (x \div M) + (x % M)
    BY SMT

\* A remainder is what is left over a multiple of the modulus.
LEMMA Remainder ==
    ASSUME NEW M \in Nat \ {0}, NEW q \in Nat, NEW r \in 0..(M - 1)
    PROVE  (M * q + r) % M = r
    BY Z3

\* Adding the modulus does not change a remainder.
LEMMA AddModulus ==
    ASSUME NEW M \in Nat \ {0}, NEW x \in Nat
    PROVE  (x + M) % M = x % M
<1> DEFINE q == x \div M
           r == x % M
<1>1. q \in Nat /\ r \in 0..(M - 1) /\ x = M * q + r
    BY Quotient, Zenon
<1> HIDE DEF q, r
<1>2. q + 1 \in Nat /\ x + M = M * (q + 1) + r
    BY <1>1, Z3
<1>3. (M * (q + 1) + r) % M = r
    BY <1>1, <1>2, Remainder
<1>. QED
    BY <1>2, <1>3 DEF r

\* The successor of a number modulo M is determined by the number modulo M.
LEMMA SuccessorModulus ==
    ASSUME NEW M \in Nat \ {0}, NEW x \in Nat
    PROVE  (x + 1) % M = IF (x % M) + 1 = M THEN 0 ELSE (x % M) + 1
<1> DEFINE q == x \div M
           r == x % M
<1>1. q \in Nat /\ r \in 0..(M - 1) /\ x = M * q + r
    BY Quotient, Zenon
<1> HIDE DEF q, r
<1>2. CASE r + 1 = M
    <2>1. q + 1 \in Nat /\ 0 \in 0..(M - 1) /\ x + 1 = M * (q + 1) + 0
        BY <1>1, <1>2, Z3
    <2>2. (M * (q + 1) + 0) % M = 0
        BY <2>1, Remainder
    <2>. QED
        BY <2>1, <2>2, <1>2 DEF r
<1>3. CASE r + 1 # M
    <2>1. x + 1 = M * q + (r + 1)
        BY <1>1, Z3
    <2>2. (M * q + (r + 1)) % M = r + 1
        BY <1>1, <1>3, Remainder
    <2>. QED
        BY <2>1, <2>2, <1>3 DEF r
<1>. QED
    BY <1>2, <1>3

\* Two numbers less than the modulus apart have the same remainder only when equal.
LEMMA SameRemainder ==
    ASSUME NEW M \in Nat \ {0}, NEW x \in Nat, NEW d \in 0..(M - 1), (x + d) % M = x % M
    PROVE  d = 0
<1> DEFINE q == x \div M
           r == x % M
<1>1. q \in Nat /\ r \in 0..(M - 1) /\ x = M * q + r
    BY Quotient, Zenon
<1>2. (x + d) % M = r
    OBVIOUS
<1> HIDE DEF q, r
<1>3. CASE r + d < M
    <2>1. r + d \in 0..(M - 1)
        BY <1>1, <1>3
    <2>2. x + d = M * q + (r + d)
        BY <1>1, Z3
    <2>3. (M * q + (r + d)) % M = r + d
        BY <1>1, <2>1, Remainder
    <2>. QED
        BY <1>1, <1>2, <2>2, <2>3
<1>4. CASE r + d >= M
    <2>1. r + d - M \in 0..(M - 1) /\ q + 1 \in Nat
        BY <1>1, <1>4
    <2>2. x + d = M * (q + 1) + (r + d - M)
        BY <1>1, Z3
    <2>3. (M * (q + 1) + (r + d - M)) % M = r + d - M
        BY <2>1, Remainder
    <2>. QED
        BY <1>1, <1>2, <2>2, <2>3
<1>. QED
    BY <1>1, <1>3, <1>4

\* How the number of threads of a set changes when one enters or leaves it.
LEMMA Counting ==
    ASSUME NEW S \in SUBSET Threads, NEW t \in Threads
    PROVE  /\ Cardinality(S) \in 0..Cardinality(Threads)
           /\ Cardinality(S) = 0 => S = {}
           /\ Cardinality(S \cup {t}) = IF t \in S THEN Cardinality(S) ELSE Cardinality(S) + 1
           /\ Cardinality(S \ {t}) = IF t \in S THEN Cardinality(S) - 1 ELSE Cardinality(S)
<1>1. IsFiniteSet(Threads)
    BY SemaphoreAssumption
<1>2. IsFiniteSet(S) /\ Cardinality(S) <= Cardinality(Threads)
    BY <1>1, FS_Subset
<1>3. Cardinality(S) \in Nat /\ Cardinality(Threads) \in Nat
    BY <1>1, <1>2, FS_CardinalityType
<1>4. Cardinality(S) = 0 => S = {}
    BY <1>2, FS_EmptySet
<1>5. Cardinality(S \cup {t}) = IF t \in S THEN Cardinality(S) ELSE Cardinality(S) + 1
    BY <1>2, FS_AddElement
<1>6. Cardinality(S \ {t}) = IF t \in S THEN Cardinality(S) - 1 ELSE Cardinality(S)
    BY <1>2, FS_RemoveElement
<1>. QED
    BY <1>2, <1>3, <1>4, <1>5, <1>6

----------------------------------------------------------------------------
\* The tests for zero keep the subtraction of a successful compare_exchange from
\* wrapping: one permit leaves `count`, and there was one.
LEMMA TakesOne ==
    ASSUME TypeOK, Placement, NEW t \in Threads, pc[t] \in {"cas", "try_cas"}, TakePermit(t)
    PROVE  /\ count > 0
           /\ count' = count - 1
           /\ count' \in 0..(Modulus - 1)
           /\ taken' = taken + 1
           /\ loaded' = [loaded EXCEPT ![t] = 0]
<1>1. count = loaded[t] /\ count \in 1..(Modulus - 1)
    BY DEF TakePermit, Placement, TypeOK
<1>2. count' = (count - 1 + Modulus) % Modulus
    BY <1>1, SemaphoreAssumption DEF TakePermit
<1>3. (count - 1 + Modulus) % Modulus = (count - 1) % Modulus
    BY <1>1, AddModulus, SemaphoreAssumption
<1>4. count' = count - 1
    <2> DEFINE rest == count - 1
    <2>1. rest \in Nat /\ rest \in 0..(Modulus - 1)
        BY <1>1, SemaphoreAssumption
    <2> HIDE DEF rest
    <2>2. rest % Modulus = rest
        BY <2>1, SemaphoreAssumption
    <2>. QED
        BY <1>2, <1>3, <2>2 DEF rest
<1>5. taken' = taken + 1 /\ loaded' = [loaded EXCEPT ![t] = 0]
    BY DEF TakePermit, Forget
<1>. QED
    BY <1>1, <1>4, <1>5, SemaphoreAssumption

\* Types and the places of the locals are preserved by every step.
LEMMA TypeInduction == TypeOK /\ Placement /\ [Next]_vars => TypeOK' /\ Placement'
<1> SUFFICES ASSUME TypeOK, Placement, [Next]_vars PROVE TypeOK' /\ Placement'
    OBVIOUS
<1> USE SemaphoreAssumption DEF TypeOK, Placement, history
<1>1. CASE UNCHANGED vars
    BY <1>1 DEF vars
<1>2. ASSUME NEW t \in Threads, Step(t) PROVE TypeOK' /\ Placement'
    <2>1. CASE WaitLoad(t)
        BY <2>1 DEF WaitLoad, Goto
    <2>2. CASE WaitSleep(t)
        BY <2>2 DEF WaitSleep, Goto, FutexWait
    <2>3. CASE WaitCasOk(t)
        BY <2>3, TakesOne DEF WaitCasOk, Goto
    <2>4. CASE WaitCasFail(t)
        BY <2>4 DEF WaitCasFail, Forget, Goto
    <2>5. CASE WaitLeave(t)
        BY <2>5 DEF WaitLeave, Goto
    <2>6. CASE Deadline(t)
        BY <2>6 DEF Deadline, Goto
    <2>7. CASE TryLoad(t)
        BY <2>7 DEF TryLoad, TryFailed, Goto
    <2>8. CASE TryCasOk(t)
        BY <2>8, TakesOne DEF TryCasOk, Goto
    <2>9. CASE TryCasFail(t)
        BY <2>9 DEF TryCasFail, TryFailed, Forget, Goto
    <2>10. CASE SignalLoad(t)
        BY <2>10 DEF SignalLoad, Goto
    <2>11. CASE SignalWake(t)
        BY <2>11 DEF SignalWake, Goto, FutexWakeOne
    <2>. QED
        BY <1>2, <2>1, <2>2, <2>3, <2>4, <2>5, <2>6, <2>7, <2>8, <2>9, <2>10, <2>11 DEF Step
<1>3. ASSUME NEW t \in Threads, Client(t) PROVE TypeOK' /\ Placement'
    <2>1. CASE WaitEnter(t)
        BY <2>1 DEF WaitEnter, Call, Goto
    <2>2. CASE TryWait(t)
        BY <2>2 DEF TryWait, Call, Goto
    <2>3. CASE TryWaitDuration(t)
        BY <2>3 DEF TryWaitDuration, Call, Goto
    <2>4. CASE Signal(t)
        BY <2>4 DEF Signal, Call, Goto
    <2>5. CASE SpuriousWake(t)
        BY <2>5 DEF SpuriousWake
    <2>. QED
        BY <1>3, <2>1, <2>2, <2>3, <2>4, <2>5 DEF Client
<1>. QED
    BY <1>1, <1>2, <1>3 DEF Next

\* Racing compare_exchanges neither forge nor lose a permit.
LEMMA ConservedInduction ==
    TypeOK /\ Placement /\ PermitsConserved /\ [Next]_vars => PermitsConserved'
<1> SUFFICES ASSUME TypeOK, Placement, PermitsConserved, [Next]_vars PROVE PermitsConserved'
    OBVIOUS
<1> USE SemaphoreAssumption DEF TypeOK, history
<1>1. ASSUME UNCHANGED <<count, taken, signals>> PROVE PermitsConserved'
    BY <1>1 DEF PermitsConserved
<1>2. ASSUME NEW t \in Threads, pc[t] \in {"cas", "try_cas"}, TakePermit(t), signals' = signals
      PROVE  PermitsConserved'
    <2>1. taken' + count' = taken + count
        BY <1>2, TakesOne
    <2>. QED
        BY <1>2, <2>1 DEF PermitsConserved
<1>3. ASSUME NEW t \in Threads, Signal(t) PROVE PermitsConserved'
    <2>1. /\ count' = (count + 1) % Modulus
          /\ taken' = taken
          /\ signals' = signals + 1
        BY <1>3 DEF Signal
    <2> DEFINE left  == taken + count
               right == InitialCount + signals
    <2>2. left \in Nat /\ right \in Nat /\ left % Modulus = right % Modulus
        BY DEF PermitsConserved
    <2> HIDE DEF left, right
    <2>3. (left + 1) % Modulus = (right + 1) % Modulus
        <3>1. (left + 1) % Modulus = IF (left % Modulus) + 1 = Modulus THEN 0 ELSE (left % Modulus) + 1
            BY <2>2, SuccessorModulus, Zenon
        <3>2. (right + 1) % Modulus = IF (right % Modulus) + 1 = Modulus THEN 0 ELSE (right % Modulus) + 1
            BY <2>2, SuccessorModulus, Zenon
        <3>. QED
            BY <2>2, <3>1, <3>2, Zenon
    <2> USE DEF left, right
    <2>4. right + 1 = InitialCount + signals'
        BY <2>1
    <2>5. (taken' + count') % Modulus = (left + 1) % Modulus
        <3>1. CASE count + 1 = Modulus
            <4>1. count' = 0
                BY <2>1, <3>1
            <4>2. left + 1 = taken + Modulus /\ taken \in Nat
                BY <3>1
            <4>3. (taken + Modulus) % Modulus = taken % Modulus
                BY <4>2, AddModulus
            <4>4. taken' + count' = taken
                BY <2>1, <4>1
            <4>. QED
                BY <4>2, <4>3, <4>4
        <3>2. CASE count + 1 # Modulus
            <4>1. count + 1 \in 0..(Modulus - 1)
                BY <3>2
            <4>2. count' = count + 1
                BY <2>1, <4>1
            <4>3. taken' + count' = left + 1
                BY <2>1, <4>2
            <4>. QED
                BY <4>3
        <3>. QED
            BY <3>1, <3>2
    <2>. QED
        BY <2>3, <2>4, <2>5 DEF PermitsConserved
<1>4. CASE UNCHANGED vars
    BY <1>1, <1>4 DEF vars
<1>5. ASSUME NEW t \in Threads, Step(t) PROVE PermitsConserved'
    <2>1. CASE WaitCasOk(t)
        BY <1>2, <2>1 DEF WaitCasOk, Goto
    <2>2. CASE TryCasOk(t)
        BY <1>2, <2>2 DEF TryCasOk, Goto
    <2>3. CASE ~WaitCasOk(t) /\ ~TryCasOk(t)
        BY <1>1, <1>5, <2>3
        DEF Step, WaitLoad, WaitSleep, WaitCasFail, WaitLeave, Deadline, TryLoad, TryCasFail,
            SignalLoad, SignalWake
    <2>. QED
        BY <2>1, <2>2, <2>3
<1>6. ASSUME NEW t \in Threads, Client(t) PROVE PermitsConserved'
    BY <1>1, <1>3, <1>6 DEF Client, WaitEnter, TryWait, TryWaitDuration, SpuriousWake
<1>. QED
    BY <1>4, <1>5, <1>6 DEF Next

\* No thread takes a permit that was not given: a wrap only ever lowers `count`.
LEMMA OverdrawnInduction ==
    TypeOK /\ Placement /\ NotOverdrawn /\ [Next]_vars => NotOverdrawn'
<1> SUFFICES ASSUME TypeOK, Placement, NotOverdrawn, [Next]_vars PROVE NotOverdrawn'
    OBVIOUS
<1> USE SemaphoreAssumption DEF TypeOK, history
<1>1. ASSUME UNCHANGED <<count, taken, signals>> PROVE NotOverdrawn'
    BY <1>1 DEF NotOverdrawn
<1>2. ASSUME NEW t \in Threads, pc[t] \in {"cas", "try_cas"}, TakePermit(t), signals' = signals
      PROVE  NotOverdrawn'
    BY <1>2, TakesOne DEF NotOverdrawn
<1>3. ASSUME NEW t \in Threads, Signal(t) PROVE NotOverdrawn'
    <2>1. count' \in Nat /\ count' <= count + 1
        <3>1. count' = (count + 1) % Modulus
            BY <1>3 DEF Signal
        <3>2. CASE count + 1 = Modulus
            BY <3>1, <3>2
        <3>3. CASE count + 1 # Modulus
            BY <3>1, <3>3
        <3>. QED
            BY <3>2, <3>3
    <2>. QED
        BY <1>3, <2>1 DEF Signal, NotOverdrawn
<1>4. CASE UNCHANGED vars
    BY <1>1, <1>4 DEF vars
<1>5. ASSUME NEW t \in Threads, Step(t) PROVE NotOverdrawn'
    <2>1. CASE WaitCasOk(t)
        BY <1>2, <2>1 DEF WaitCasOk, Goto
    <2>2. CASE TryCasOk(t)
        BY <1>2, <2>2 DEF TryCasOk, Goto
    <2>3. CASE ~WaitCasOk(t) /\ ~TryCasOk(t)
        BY <1>1, <1>5, <2>3
        DEF Step, WaitLoad, WaitSleep, WaitCasFail, WaitLeave, Deadline, TryLoad, TryCasFail,
            SignalLoad, SignalWake
    <2>. QED
        BY <2>1, <2>2, <2>3
<1>6. ASSUME NEW t \in Threads, Client(t) PROVE NotOverdrawn'
    BY <1>1, <1>3, <1>6 DEF Client, WaitEnter, TryWait, TryWaitDuration, SpuriousWake
<1>. QED
    BY <1>4, <1>5, <1>6 DEF Next

\* num_waiting follows the threads that enter and leave wait().
LEMMA CountedInduction ==
    TypeOK /\ Placement /\ WaitersCounted /\ [Next]_vars => WaitersCounted'
<1> SUFFICES ASSUME TypeOK, Placement, WaitersCounted, [Next]_vars PROVE WaitersCounted'
    OBVIOUS
<1> USE SemaphoreAssumption
<1>1. Waiting \in SUBSET Threads
    BY DEF Waiting
<1>2. ASSUME Waiting' = Waiting, num_waiting' = num_waiting PROVE WaitersCounted'
    BY <1>2 DEF WaitersCounted
<1>3. CASE UNCHANGED vars
    BY <1>2, <1>3 DEF vars, Waiting
<1>4. ASSUME NEW t \in Threads, WaitEnter(t) PROVE WaitersCounted'
    <2>1. t \notin Waiting /\ Waiting' = Waiting \cup {t} /\ num_waiting' = (num_waiting + 1) % Modulus
        BY <1>4 DEF WaitEnter, Call, Goto, Waiting, TypeOK
    <2>2. /\ Cardinality(Waiting \cup {t}) = num_waiting + 1
          /\ Cardinality(Waiting \cup {t}) \in 0..Cardinality(Threads)
        <3>1. Waiting \cup {t} \in SUBSET Threads
            BY <1>1
        <3>. QED
            BY <1>1, <2>1, <3>1, Counting DEF WaitersCounted
    <2>3. num_waiting + 1 \in 0..(Modulus - 1)
        <3>1. Cardinality(Threads) \in Nat
            BY FS_CardinalityType
        <3>. QED
            BY <2>2, <3>1 DEF TypeOK
    <2>. QED
        BY <2>1, <2>2, <2>3 DEF WaitersCounted
<1>5. ASSUME NEW t \in Threads, WaitLeave(t) PROVE WaitersCounted'
    <2>1. t \in Waiting /\ Waiting' = Waiting \ {t} /\ num_waiting' = (num_waiting + Modulus - 1) % Modulus
        BY <1>5 DEF WaitLeave, Goto, Waiting, TypeOK
    <2>2. /\ Cardinality(Waiting \ {t}) = num_waiting - 1
          /\ Cardinality(Waiting \ {t}) \in Nat
        <3>1. Waiting \ {t} \in SUBSET Threads
            BY <1>1
        <3>. QED
            BY <1>1, <2>1, <3>1, Counting DEF WaitersCounted
    <2>3. num_waiting - 1 \in 0..(Modulus - 1)
        BY <2>2 DEF TypeOK
    <2>4. num_waiting' = num_waiting - 1
        BY <2>1, <2>3 DEF TypeOK
    <2>. QED
        BY <2>1, <2>2, <2>4 DEF WaitersCounted
<1>6. ASSUME NEW t \in Threads, Step(t) PROVE WaitersCounted'
    <2> USE <1>2 DEF Waiting, Goto, TypeOK
    <2>1. CASE WaitLoad(t)
        BY <2>1 DEF WaitLoad
    <2>2. CASE WaitSleep(t)
        BY <2>2 DEF WaitSleep
    <2>3. CASE WaitCasOk(t)
        BY <2>3 DEF WaitCasOk
    <2>4. CASE WaitCasFail(t)
        BY <2>4 DEF WaitCasFail
    <2>5. CASE WaitLeave(t)
        BY <2>5, <1>5
    <2>6. CASE Deadline(t)
        BY <2>6 DEF Deadline
    <2>7. CASE TryLoad(t)
        BY <2>7 DEF TryLoad, TryFailed
    <2>8. CASE TryCasOk(t)
        BY <2>8 DEF TryCasOk
    <2>9. CASE TryCasFail(t)
        BY <2>9 DEF TryCasFail, TryFailed
    <2>10. CASE SignalLoad(t)
        BY <2>10 DEF SignalLoad
    <2>11. CASE SignalWake(t)
        BY <2>11 DEF SignalWake
    <2>. QED
        BY <1>6, <2>1, <2>2, <2>3, <2>4, <2>5, <2>6, <2>7, <2>8, <2>9, <2>10, <2>11 DEF Step
<1>7. ASSUME NEW t \in Threads, Client(t) PROVE WaitersCounted'
    <2> USE <1>2 DEF Waiting, Call, Goto, TypeOK
    <2>1. CASE WaitEnter(t)
        BY <2>1, <1>4
    <2>2. CASE TryWait(t)
        BY <2>2 DEF TryWait
    <2>3. CASE TryWaitDuration(t)
        BY <2>3 DEF TryWaitDuration
    <2>4. CASE Signal(t)
        BY <2>4 DEF Signal
    <2>5. CASE SpuriousWake(t)
        BY <2>5 DEF SpuriousWake
    <2>. QED
        BY <1>7, <2>1, <2>2, <2>3, <2>4, <2>5 DEF Client
<1>. QED
    BY <1>3, <1>6, <1>7 DEF Next

\* While threads sleep, no permit is left without somebody on the way to it.
LEMMA SignalInduction ==
    TypeOK /\ Placement /\ WaitersCounted /\ NoLostSignal /\ [Next]_vars => NoLostSignal'
<1> SUFFICES ASSUME TypeOK, Placement, WaitersCounted, NoLostSignal, [Next]_vars
             PROVE  NoLostSignal'
    OBVIOUS
<1> USE SemaphoreAssumption
<1>1. /\ Signalling \in SUBSET Threads
      /\ Looking \in SUBSET Threads
      /\ Waiting \in SUBSET Threads
    BY DEF Signalling, Looking, Waiting
<1>2. /\ Cardinality(Signalling) \in Nat
      /\ Cardinality(Looking) \in Nat
      /\ count \in Nat
    <2>1. /\ IsFiniteSet(Signalling)
          /\ IsFiniteSet(Looking)
        BY <1>1, FS_Subset
    <2>. QED
        BY <2>1, FS_CardinalityType DEF TypeOK
\* A step that moves nobody in or out of the two sets and adds no permit.
<1>3. ASSUME sleepers' = sleepers, Signalling' = Signalling, Looking' = Looking,
             count' \in Nat, count' <= count
      PROVE  NoLostSignal'
    BY <1>2, <1>3 DEF NoLostSignal
<1>4. CASE UNCHANGED vars
    BY <1>2, <1>3, <1>4 DEF vars, Signalling, Looking
<1>5. ASSUME NEW t \in Threads, WaitSleep(t) PROVE NoLostSignal'
    <2>1. CASE sleepers' = sleepers
        BY <1>2, <1>3, <1>5, <2>1 DEF WaitSleep, Goto, Signalling, Looking, TypeOK
    <2>2. CASE sleepers' # sleepers
        <3>1. count' = 0
            BY <1>5, <2>2 DEF WaitSleep, Goto, FutexWait, Placement
        <3>2. /\ Signalling' = Signalling
              /\ Looking' = Looking \ {t}
              /\ t \in Looking
            BY <1>5, <2>2 DEF WaitSleep, Goto, FutexWait, Signalling, Looking, TypeOK
        <3>3. Cardinality(Looking \ {t}) \in Nat
            BY <1>1, <1>2, <3>2, Counting
        <3>. QED
            BY <1>2, <3>1, <3>2, <3>3 DEF NoLostSignal
    <2>. QED
        BY <2>1, <2>2
<1>6. ASSUME NEW t \in Threads, WaitCasOk(t) PROVE NoLostSignal'
    <2>1. /\ Signalling' = Signalling
          /\ Looking' = Looking \ {t}
          /\ t \in Looking
          /\ count' = count - 1
          /\ sleepers' = sleepers
        BY <1>6, TakesOne DEF WaitCasOk, Goto, Signalling, Looking, TypeOK
    <2>2. Cardinality(Looking \ {t}) = Cardinality(Looking) - 1
        BY <1>1, <2>1, Counting
    <2>. QED
        BY <1>2, <2>1, <2>2 DEF NoLostSignal
<1>7. ASSUME NEW t \in Threads, WaitEnter(t) PROVE NoLostSignal'
    <2>1. /\ Signalling' = Signalling
          /\ Looking' = Looking \cup {t}
          /\ t \notin Looking
          /\ count' = count
          /\ sleepers' = sleepers
        BY <1>7 DEF WaitEnter, Call, Goto, Signalling, Looking, TypeOK
    <2>2. Cardinality(Looking \cup {t}) = Cardinality(Looking) + 1
        BY <1>1, <2>1, Counting
    <2>. QED
        BY <1>2, <2>1, <2>2 DEF NoLostSignal
<1>8. ASSUME NEW t \in Threads, Signal(t) PROVE NoLostSignal'
    <2>1. /\ Signalling' = Signalling \cup {t}
          /\ t \notin Signalling
          /\ Looking' = Looking
          /\ count' = (count + 1) % Modulus
          /\ sleepers' = sleepers
        BY <1>8 DEF Signal, Call, Goto, Signalling, Looking, TypeOK
    <2>2. Cardinality(Signalling \cup {t}) = Cardinality(Signalling) + 1
        BY <1>1, <2>1, Counting
    <2>3. count' \in Nat /\ count' <= count + 1
        <3>1. CASE count + 1 = Modulus
            BY <2>1, <3>1, <1>2
        <3>2. CASE count + 1 # Modulus
            BY <2>1, <3>2 DEF TypeOK
        <3>. QED
            BY <3>1, <3>2
    <2>. QED
        BY <1>2, <2>1, <2>2, <2>3 DEF NoLostSignal
<1>9. ASSUME NEW t \in Threads, SignalLoad(t) PROVE NoLostSignal'
    <2>1. CASE num_waiting > 0
        BY <1>2, <1>3, <1>9, <2>1 DEF SignalLoad, Goto, Signalling, Looking, TypeOK
    <2>2. CASE ~(num_waiting > 0)
        <3>1. Cardinality(Waiting) = 0
            BY <2>2 DEF WaitersCounted, TypeOK
        <3>2. Waiting = {}
            BY <1>1, <3>1, Counting
        <3>3. sleepers = {}
            BY <3>2 DEF Waiting, Placement, TypeOK
        <3>. QED
            BY <1>9, <3>3 DEF SignalLoad, NoLostSignal
    <2>. QED
        BY <2>1, <2>2
<1>10. ASSUME NEW t \in Threads, SignalWake(t) PROVE NoLostSignal'
    <2>1. CASE sleepers = {}
        BY <1>10, <2>1 DEF SignalWake, FutexWakeOne, NoLostSignal
    <2>2. CASE sleepers # {}
        <3>1. PICK u \in sleepers : sleepers' = sleepers \ {u}
            BY <1>10, <2>2 DEF SignalWake, FutexWakeOne
        <3>2. /\ Signalling' = Signalling \ {t}
              /\ t \in Signalling
              /\ Looking' = Looking \cup {u}
              /\ u \notin Looking
              /\ u \in Threads
              /\ count' = count
            BY <1>10, <3>1 DEF SignalWake, Goto, Signalling, Looking, TypeOK, Placement
        <3>3. /\ Cardinality(Signalling \ {t}) = Cardinality(Signalling) - 1
              /\ Cardinality(Looking \cup {u}) = Cardinality(Looking) + 1
            BY <1>1, <3>2, Counting
        <3>. QED
            BY <1>2, <2>2, <3>2, <3>3 DEF NoLostSignal
    <2>. QED
        BY <2>1, <2>2
<1>11. ASSUME NEW t \in Threads, SpuriousWake(t) PROVE NoLostSignal'
    <2>1. /\ Signalling' = Signalling
          /\ Looking' = Looking \cup {t}
          /\ t \notin Looking
          /\ count' = count
          /\ sleepers # {}
        BY <1>11 DEF SpuriousWake, Signalling, Looking, TypeOK, Placement
    <2>2. Cardinality(Looking \cup {t}) = Cardinality(Looking) + 1
        BY <1>1, <2>1, Counting
    <2>. QED
        BY <1>2, <2>1, <2>2 DEF NoLostSignal
<1>12. ASSUME NEW t \in Threads, Step(t) PROVE NoLostSignal'
    <2> USE <1>2, <1>3 DEF Signalling, Looking, Goto, TypeOK
    <2>1. CASE WaitLoad(t)
        BY <2>1 DEF WaitLoad
    <2>2. CASE WaitCasFail(t)
        BY <2>2 DEF WaitCasFail
    <2>3. CASE WaitLeave(t)
        BY <2>3 DEF WaitLeave
    <2>4. CASE Deadline(t)
        BY <2>4 DEF Deadline
    <2>5. CASE TryLoad(t)
        BY <2>5 DEF TryLoad, TryFailed
    <2>6. CASE TryCasOk(t)
        BY <2>6, TakesOne DEF TryCasOk
    <2>7. CASE TryCasFail(t)
        BY <2>7 DEF TryCasFail, TryFailed
    <2>. QED
        BY <1>12, <2>1, <2>2, <2>3, <2>4, <2>5, <2>6, <2>7, <1>5, <1>6, <1>9, <1>10 DEF Step
<1>13. ASSUME NEW t \in Threads, Client(t) PROVE NoLostSignal'
    <2> USE <1>2, <1>3 DEF Signalling, Looking, Call, Goto, TypeOK
    <2>1. CASE TryWait(t)
        BY <2>1 DEF TryWait
    <2>2. CASE TryWaitDuration(t)
        BY <2>2 DEF TryWaitDuration
    <2>. QED
        BY <1>13, <2>1, <2>2, <1>7, <1>8, <1>11 DEF Client
<1>. QED
    BY <1>4, <1>12, <1>13 DEF Next

----------------------------------------------------------------------------
\* The inductive invariant holds initially and is preserved.
LEMMA Invariance == Spec => []IInv
<1>1. Init => IInv
    <2> SUFFICES ASSUME Init PROVE IInv
        OBVIOUS
    <2> USE SemaphoreAssumption DEF Init
    <2>1. TypeOK /\ Placement
        <3>1. 0 \in 0..(Modulus - 1) /\ 0 \in 0..MaxCalls
            OBVIOUS
        <3>. QED
            BY <3>1 DEF TypeOK, Placement
    <2>2. PermitsConserved /\ NotOverdrawn
        <3>1. taken + count = InitialCount + signals
            OBVIOUS
        <3>. QED
            BY <3>1 DEF PermitsConserved, NotOverdrawn
    <2>3. WaitersCounted
        <3>1. Waiting = {}
            BY DEF Waiting
        <3>. QED
            BY <3>1, FS_EmptySet DEF WaitersCounted
    <2>4. NoLostSignal
        BY DEF NoLostSignal
    <2>. QED
        BY <2>1, <2>2, <2>3, <2>4 DEF IInv
<1>2. IInv /\ [Next]_vars => IInv'
    BY TypeInduction, ConservedInduction, OverdrawnInduction, CountedInduction,
       SignalInduction DEF IInv
<1>. QED
    BY <1>1, <1>2, PTL DEF Spec

\* Type correctness: both words stay AtomicU32 values, whatever is called how often.
THEOREM TypeCorrect == Spec => []TypeOK
<1>1. IInv => TypeOK
    BY DEF IInv
<1>. QED
    BY Invariance, <1>1, PTL

\* Permits are conserved modulo the word size.
THEOREM Conservation == Spec => []PermitsConserved
<1>1. IInv => PermitsConserved
    BY DEF IInv
<1>. QED
    BY Invariance, <1>1, PTL

\* No more permits are taken than were given, and none is lost as long as fewer than
\* Modulus of them are given and not taken: the wrap of fetch_add is the only loss.
THEOREM ExactShortOfWrap == Spec => []PermitsExact
<1>1. IInv => PermitsExact
    <2> SUFFICES ASSUME IInv, InitialCount + signals < taken + Modulus
                 PROVE  taken + count = InitialCount + signals
        BY DEF PermitsExact, IInv, NotOverdrawn
    <2> USE SemaphoreAssumption DEF IInv, TypeOK
    <2> DEFINE left == taken + count
               lost == InitialCount + signals - left
    <2>1. left \in Nat /\ lost \in 0..(Modulus - 1) /\ left + lost = InitialCount + signals
        BY DEF NotOverdrawn
    <2>2. (left + lost) % Modulus = left % Modulus
        BY <2>1 DEF PermitsConserved
    <2> HIDE DEF lost
    <2>3. lost = 0
        BY <2>1, <2>2, SameRemainder
    <2>. QED
        BY <2>1, <2>3
<1>. QED
    BY Invariance, <1>1, PTL

\* num_waiting counts the threads inside wait() exactly.
THEOREM CounterExact == Spec => []WaitersCounted
<1>1. IInv => WaitersCounted
    BY DEF IInv
<1>. QED
    BY Invariance, <1>1, PTL

\* No signal() is lost on the way to a sleeping thread.
THEOREM SignalsKept == Spec => []NoLostSignal
<1>1. IInv => NoLostSignal
    BY DEF IInv
<1>. QED
    BY Invariance, <1>1, PTL
=============================================================================
