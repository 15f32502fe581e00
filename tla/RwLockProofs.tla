---------------------------- MODULE RwLockProofs ----------------------------
(***************************************************************************)
(* Proofs about RwLock for every finite set of threads, every odd MAX and  *)
(* every number of calls.                                                  *)
(***************************************************************************)
EXTENDS RwLock, FiniteSetTheorems, TLAPS

\* `state + 2` in read() does not wrap: the build checks it, or there are too few
\* threads to fill the word with readers.
NoOverflow == OverflowChecks \/ 2 * Cardinality(Threads) < MAX - 1

\* What the others need to be inductive: a thread tries a compare_exchange only with
\* a value that has passed the tests of its operation.
Placement ==
    /\ \A t \in Threads : pc[t] \in {"read_cas", "try_read_cas"} => ~IsOdd(seen[t])
    /\ \A t \in Threads : pc[t] = "try_read_cas" => seen[t] # MAX - 1
    /\ \A t \in Threads : pc[t] \in {"write_cas", "try_write_cas"} => seen[t] <= 1
    /\ \A t \in Threads : pc[t] = "write_flag" => ~IsOdd(seen[t])
    /\ \A t \in Threads : pc[t] = "read_wait" => IsOdd(seen[t])

\* The threads inside write() and those that own the lock for writing.
WriterSide == {t \in Threads : InWrite(t) \/ t \in Writers}

\* The low bit is only set while some thread is one of them.
OddAnnounced == IsOdd(state) => WriterSide # {}

\* The inductive invariant, of every build and every number of threads.
IInv == /\ TypeOK
        /\ Placement
        /\ AcquiredMatchesGuard
        /\ WaitingWritersCounted
        /\ OddAnnounced
        /\ NoReaderForgotten

\* What is inductive besides, as long as `state + 2` does not wrap.
ExactInv == IInv /\ StateMatchesGuards

\* Types are preserved by every step.
LEMMA TypeInduction == TypeOK /\ Placement /\ [Next]_vars => TypeOK'
<1> SUFFICES ASSUME TypeOK, Placement, [Next]_vars PROVE TypeOK'
    OBVIOUS
<1> USE RwLockAssumption DEF TypeOK, waitVars, userVars
<1>1. CASE UNCHANGED vars
    BY <1>1 DEF vars
<1>2. ASSUME NEW t \in Threads, Step(t) PROVE TypeOK'
    <2>1. CASE ReadWaitMax(t)
        BY <2>1 DEF ReadWaitMax, Goto, FutexWait
    <2>2. CASE ReadWait(t)
        BY <2>2 DEF ReadWait, Goto, FutexWait
    <2>3. CASE ReadLoad(t)
        BY <2>3 DEF ReadLoad, Goto, See
    <2>4. CASE ReadOverflow(t)
        BY <2>4 DEF ReadOverflow, Goto
    <2>5. CASE ReadCasOk(t)
        BY <2>5 DEF ReadCasOk, Goto, EnterRead
    <2>6. CASE ReadCasFail(t)
        BY <2>6 DEF ReadCasFail, Goto, See, ReadLoop
    <2>7. CASE TryReadCas(t)
        BY <2>7 DEF TryReadCas, Goto, EnterRead
    <2>8. CASE WriteCas(t)
        BY <2>8 DEF WriteCas, Goto, See, WriteLoop
    <2>9. CASE WriteFlag(t)
        <3>1. CASE state = seen[t] /\ pc[t] = "write_flag" /\ state' = seen[t] + 1
            <4>1. seen[t] \in 0..MAX /\ seen[t] % 2 # 1
                BY <3>1 DEF Placement, IsOdd
            <4>2. state' \in 0..MAX
                BY <3>1, <4>1
            <4>. QED
                BY <2>9, <3>1, <4>2 DEF WriteFlag, Goto
        <3>2. CASE state # seen[t]
            BY <2>9, <3>2 DEF WriteFlag, Goto, See, WriteLoop
        <3>. QED
            BY <2>9, <3>1, <3>2 DEF WriteFlag, Goto
    <2>10. CASE WriteEnter(t)
        BY <2>10 DEF WriteEnter, Goto
    <2>11. CASE WriteLoad(t)
        BY <2>11 DEF WriteLoad, Goto
    <2>12. CASE WriteWait(t)
        BY <2>12 DEF WriteWait, Goto, FutexWait
    <2>13. CASE WriteLeave(t)
        BY <2>13 DEF WriteLeave, Goto, WriteLoop
    <2>14. CASE TryWriteCas(t)
        BY <2>14 DEF TryWriteCas, Goto
    <2>15. CASE Finish(t)
        BY <2>15 DEF Finish, Goto
    <2>16. CASE DropRead(t)
        BY <2>16 DEF DropRead, Goto
    <2>17. CASE DropWrite(t)
        BY <2>17 DEF DropWrite, Goto
    <2>18. CASE Store(t)
        BY <2>18 DEF Store, Goto
    <2>19. CASE LoadWaiting(t)
        BY <2>19 DEF LoadWaiting, Goto
    <2>20. CASE WakeWriter(t)
        BY <2>20 DEF WakeWriter, Goto, FutexWakeOne
    <2>21. CASE WakeReaders(t)
        BY <2>21 DEF WakeReaders, Goto, FutexWakeAll
    <2>. QED
        BY <1>2, <2>1, <2>2, <2>3, <2>4, <2>5, <2>6, <2>7, <2>8, <2>9, <2>10, <2>11, <2>12,
           <2>13, <2>14, <2>15, <2>16, <2>17, <2>18, <2>19, <2>20, <2>21 DEF Step
<1>3. ASSUME NEW t \in Threads, Client(t) PROVE TypeOK'
    <2>1. CASE Reenter(t)
        BY <2>1 DEF Reenter, Call, Goto
    <2>2. CASE Read(t)
        BY <2>2 DEF Read, Call, Goto, See, ReadLoop
    <2>3. CASE TryRead(t)
        BY <2>3 DEF TryRead, Call, Goto, See
    <2>4. CASE Write(t)
        BY <2>4 DEF Write, Call, Goto, See, WriteLoop
    <2>5. CASE TryWrite(t)
        BY <2>5 DEF TryWrite, Call, Goto, See
    <2>6. CASE ClearPoison(t)
        BY <2>6 DEF ClearPoison, Goto
    <2>7. CASE SpuriousWake(t)
        BY <2>7 DEF SpuriousWake
    <2>. QED
        BY <1>3, <2>1, <2>2, <2>3, <2>4, <2>5, <2>6, <2>7 DEF Client
<1>. QED
    BY <1>1, <1>2, <1>3 DEF Next

\* The locals keep the values their places ask for.
LEMMA PlacementInduction == TypeOK /\ Placement /\ [Next]_vars => Placement'
<1> SUFFICES ASSUME TypeOK, Placement, [Next]_vars PROVE Placement'
    OBVIOUS
<1> USE RwLockAssumption DEF TypeOK, Placement, waitVars, userVars, IsOdd
<1>1. CASE UNCHANGED vars
    BY <1>1 DEF vars
<1>2. ASSUME NEW t \in Threads, Step(t) PROVE Placement'
    <2>1. CASE ReadWaitMax(t)
        BY <2>1 DEF ReadWaitMax, Goto, FutexWait
    <2>2. CASE ReadWait(t)
        BY <2>2 DEF ReadWait, Goto, FutexWait
    <2>3. CASE ReadLoad(t)
        BY <2>3 DEF ReadLoad, Goto, See
    <2>4. CASE ReadOverflow(t)
        BY <2>4 DEF ReadOverflow, Goto
    <2>5. CASE ReadCasOk(t)
        BY <2>5 DEF ReadCasOk, Goto, EnterRead
    <2>6. CASE ReadCasFail(t)
        BY <2>6 DEF ReadCasFail, Goto, See, ReadLoop
    <2>7. CASE TryReadCas(t)
        BY <2>7 DEF TryReadCas, Goto, EnterRead
    <2>8. CASE WriteCas(t)
        BY <2>8 DEF WriteCas, Goto, See, WriteLoop
    <2>9. CASE WriteFlag(t)
        BY <2>9 DEF WriteFlag, Goto, See, WriteLoop
    <2>10. CASE WriteEnter(t)
        BY <2>10 DEF WriteEnter, Goto
    <2>11. CASE WriteLoad(t)
        BY <2>11 DEF WriteLoad, Goto
    <2>12. CASE WriteWait(t)
        BY <2>12 DEF WriteWait, Goto, FutexWait
    <2>13. CASE WriteLeave(t)
        BY <2>13 DEF WriteLeave, Goto, WriteLoop
    <2>14. CASE TryWriteCas(t)
        BY <2>14 DEF TryWriteCas, Goto
    <2>15. CASE Finish(t)
        BY <2>15 DEF Finish, Goto
    <2>16. CASE DropRead(t)
        BY <2>16 DEF DropRead, Goto
    <2>17. CASE DropWrite(t)
        BY <2>17 DEF DropWrite, Goto
    <2>18. CASE Store(t)
        BY <2>18 DEF Store, Goto
    <2>19. CASE LoadWaiting(t)
        BY <2>19 DEF LoadWaiting, Goto
    <2>20. CASE WakeWriter(t)
        BY <2>20 DEF WakeWriter, Goto, FutexWakeOne
    <2>21. CASE WakeReaders(t)
        BY <2>21 DEF WakeReaders, Goto, FutexWakeAll
    <2>. QED
        BY <1>2, <2>1, <2>2, <2>3, <2>4, <2>5, <2>6, <2>7, <2>8, <2>9, <2>10, <2>11, <2>12,
           <2>13, <2>14, <2>15, <2>16, <2>17, <2>18, <2>19, <2>20, <2>21 DEF Step
<1>3. ASSUME NEW t \in Threads, Client(t) PROVE Placement'
    <2>1. CASE Reenter(t)
        BY <2>1 DEF Reenter, Call, Goto
    <2>2. CASE Read(t)
        BY <2>2 DEF Read, Call, Goto, See, ReadLoop
    <2>3. CASE TryRead(t)
        BY <2>3 DEF TryRead, Call, Goto, See
    <2>4. CASE Write(t)
        BY <2>4 DEF Write, Call, Goto, See, WriteLoop
    <2>5. CASE TryWrite(t)
        BY <2>5 DEF TryWrite, Call, Goto, See
    <2>6. CASE ClearPoison(t)
        BY <2>6 DEF ClearPoison, Goto
    <2>7. CASE SpuriousWake(t)
        BY <2>7 DEF SpuriousWake
    <2>. QED
        BY <1>3, <2>1, <2>2, <2>3, <2>4, <2>5, <2>6, <2>7 DEF Client
<1>. QED
    BY <1>1, <1>2, <1>3 DEF Next

\* The thread-local flag and the guards stay together.
LEMMA AcquiredInduction == TypeOK /\ AcquiredMatchesGuard /\ [Next]_vars => AcquiredMatchesGuard'
<1> SUFFICES ASSUME TypeOK, AcquiredMatchesGuard, [Next]_vars PROVE AcquiredMatchesGuard'
    OBVIOUS
<1> USE RwLockAssumption DEF TypeOK, AcquiredMatchesGuard, waitVars, userVars
<1>1. CASE UNCHANGED vars
    BY <1>1 DEF vars
<1>2. ASSUME NEW t \in Threads, Step(t) PROVE AcquiredMatchesGuard'
    <2>1. CASE ReadWaitMax(t)
        BY <2>1 DEF ReadWaitMax, Goto, FutexWait
    <2>2. CASE ReadWait(t)
        BY <2>2 DEF ReadWait, Goto, FutexWait
    <2>3. CASE ReadLoad(t)
        BY <2>3 DEF ReadLoad, Goto, See
    <2>4. CASE ReadOverflow(t)
        BY <2>4 DEF ReadOverflow, Goto
    <2>5. CASE ReadCasOk(t)
        BY <2>5 DEF ReadCasOk, Goto, EnterRead
    <2>6. CASE ReadCasFail(t)
        BY <2>6 DEF ReadCasFail, Goto, See, ReadLoop
    <2>7. CASE TryReadCas(t)
        BY <2>7 DEF TryReadCas, Goto, EnterRead
    <2>8. CASE WriteCas(t)
        BY <2>8 DEF WriteCas, Goto, See, WriteLoop
    <2>9. CASE WriteFlag(t)
        BY <2>9 DEF WriteFlag, Goto, See, WriteLoop
    <2>10. CASE WriteEnter(t)
        BY <2>10 DEF WriteEnter, Goto
    <2>11. CASE WriteLoad(t)
        BY <2>11 DEF WriteLoad, Goto
    <2>12. CASE WriteWait(t)
        BY <2>12 DEF WriteWait, Goto, FutexWait
    <2>13. CASE WriteLeave(t)
        BY <2>13 DEF WriteLeave, Goto, WriteLoop
    <2>14. CASE TryWriteCas(t)
        BY <2>14 DEF TryWriteCas, Goto
    <2>15. CASE Finish(t)
        BY <2>15 DEF Finish, Goto
    <2>16. CASE DropRead(t)
        BY <2>16 DEF DropRead, Goto
    <2>17. CASE DropWrite(t)
        BY <2>17 DEF DropWrite, Goto
    <2>18. CASE Store(t)
        BY <2>18 DEF Store, Goto
    <2>19. CASE LoadWaiting(t)
        BY <2>19 DEF LoadWaiting, Goto
    <2>20. CASE WakeWriter(t)
        BY <2>20 DEF WakeWriter, Goto, FutexWakeOne
    <2>21. CASE WakeReaders(t)
        BY <2>21 DEF WakeReaders, Goto, FutexWakeAll
    <2>. QED
        BY <1>2, <2>1, <2>2, <2>3, <2>4, <2>5, <2>6, <2>7, <2>8, <2>9, <2>10, <2>11, <2>12,
           <2>13, <2>14, <2>15, <2>16, <2>17, <2>18, <2>19, <2>20, <2>21 DEF Step
<1>3. ASSUME NEW t \in Threads, Client(t) PROVE AcquiredMatchesGuard'
    <2>1. CASE Reenter(t)
        BY <2>1 DEF Reenter, Call, Goto
    <2>2. CASE Read(t)
        BY <2>2 DEF Read, Call, Goto, See, ReadLoop
    <2>3. CASE TryRead(t)
        BY <2>3 DEF TryRead, Call, Goto, See
    <2>4. CASE Write(t)
        BY <2>4 DEF Write, Call, Goto, See, WriteLoop
    <2>5. CASE TryWrite(t)
        BY <2>5 DEF TryWrite, Call, Goto, See
    <2>6. CASE ClearPoison(t)
        BY <2>6 DEF ClearPoison, Goto
    <2>7. CASE SpuriousWake(t)
        BY <2>7 DEF SpuriousWake
    <2>. QED
        BY <1>3, <2>1, <2>2, <2>3, <2>4, <2>5, <2>6, <2>7 DEF Client
<1>. QED
    BY <1>1, <1>2, <1>3 DEF Next

\* How the number of threads of a set changes when one enters or leaves it.
LEMMA Counting ==
    ASSUME NEW S \in SUBSET Threads, NEW t \in Threads
    PROVE  /\ Cardinality(S) \in 0..Cardinality(Threads)
           /\ Cardinality(S) = 0 <=> S = {}
           /\ Cardinality(S \cup {t}) = IF t \in S THEN Cardinality(S) ELSE Cardinality(S) + 1
           /\ Cardinality(S \ {t}) = IF t \in S THEN Cardinality(S) - 1 ELSE Cardinality(S)
<1>1. IsFiniteSet(Threads)
    BY RwLockAssumption
<1>2. IsFiniteSet(S) /\ Cardinality(S) <= Cardinality(Threads)
    BY <1>1, FS_Subset
<1>3. Cardinality(S) \in Nat /\ Cardinality(Threads) \in Nat
    BY <1>1, <1>2, FS_CardinalityType
<1>4. Cardinality(S) = 0 <=> S = {}
    BY <1>2, FS_EmptySet
<1>5. Cardinality(S \cup {t}) = IF t \in S THEN Cardinality(S) ELSE Cardinality(S) + 1
    BY <1>2, FS_AddElement
<1>6. Cardinality(S \ {t}) = IF t \in S THEN Cardinality(S) - 1 ELSE Cardinality(S)
    BY <1>2, FS_RemoveElement
<1>. QED
    BY <1>2, <1>3, <1>4, <1>5, <1>6

\* What fetch_add and fetch_sub compute while they do not wrap.
LEMMA Words ==
    /\ \A x \in 0..(MAX - 1) : (x + 1) % (MAX + 1) = x + 1
    /\ \A x \in 1..MAX : (x + MAX) % (MAX + 1) = x - 1
    /\ \A x \in 0..(MAX - 2) : (x + 2) % (MAX + 1) = x + 2
    /\ \A x \in 2..MAX : (x + MAX - 1) % (MAX + 1) = x - 2
    BY RwLockAssumption, SMT

\* waiting_writers follows the WaitingWriterGuards.
LEMMA WaitingInduction == TypeOK /\ WaitingWritersCounted /\ [Next]_vars => WaitingWritersCounted'
<1> SUFFICES ASSUME TypeOK, WaitingWritersCounted, [Next]_vars PROVE WaitingWritersCounted'
    OBVIOUS
<1> USE DEF waitVars, userVars
<1>4. WaitingWriters \in SUBSET Threads
    BY DEF WaitingWriters
<1>5. Cardinality(WaitingWriters) \in Nat /\ Cardinality(Threads) \in Nat
    BY <1>4, FS_Subset, FS_CardinalityType, RwLockAssumption
\* A step that creates and drops no WaitingWriterGuard.
<1>6. ASSUME WaitingWriters' = WaitingWriters, waiting_writers' = waiting_writers
      PROVE  WaitingWritersCounted'
    BY <1>6 DEF WaitingWritersCounted
<1>1. CASE UNCHANGED vars
    BY <1>1, <1>6 DEF vars, WaitingWriters
<1>2. ASSUME NEW t \in Threads, Step(t) PROVE WaitingWritersCounted'
    <2>1. CASE ReadWaitMax(t)
        BY <2>1, <1>6 DEF ReadWaitMax, Goto, FutexWait, TypeOK, WaitingWriters
    <2>2. CASE ReadWait(t)
        BY <2>2, <1>6 DEF ReadWait, Goto, FutexWait, TypeOK, WaitingWriters
    <2>3. CASE ReadLoad(t)
        BY <2>3, <1>6 DEF ReadLoad, Goto, See, TypeOK, WaitingWriters
    <2>4. CASE ReadOverflow(t)
        BY <2>4, <1>6 DEF ReadOverflow, Goto, TypeOK, WaitingWriters
    <2>5. CASE ReadCasOk(t)
        BY <2>5, <1>6 DEF ReadCasOk, Goto, EnterRead, TypeOK, WaitingWriters
    <2>6. CASE ReadCasFail(t)
        BY <2>6, <1>6 DEF ReadCasFail, Goto, See, ReadLoop, TypeOK, WaitingWriters
    <2>7. CASE TryReadCas(t)
        BY <2>7, <1>6 DEF TryReadCas, Goto, EnterRead, TypeOK, WaitingWriters
    <2>8. CASE WriteCas(t)
        BY <2>8, <1>6 DEF WriteCas, Goto, See, WriteLoop, TypeOK, WaitingWriters
    <2>9. CASE WriteFlag(t)
        BY <2>9, <1>6 DEF WriteFlag, Goto, See, WriteLoop, TypeOK, WaitingWriters
    <2>10. CASE WriteEnter(t)
        <3>1. /\ t \notin WaitingWriters
              /\ WaitingWriters' = WaitingWriters \cup {t}
              /\ waiting_writers' = (waiting_writers + 1) % (MAX + 1)
            BY <2>10 DEF WriteEnter, Goto, TypeOK, WaitingWriters
        <3>2. Cardinality(WaitingWriters \cup {t}) = waiting_writers + 1
            BY <1>4, <3>1, Counting DEF WaitingWritersCounted
        <3>3. waiting_writers + 1 \in 0..MAX
            <4>1. WaitingWriters \cup {t} \in SUBSET Threads
                BY <1>4
            <4>2. Cardinality(WaitingWriters \cup {t}) <= Cardinality(Threads)
                BY <4>1, FS_Subset, RwLockAssumption
            <4>. QED
                BY <3>2, <4>2, <1>5, RwLockAssumption DEF TypeOK
        <3>4. waiting_writers' = waiting_writers + 1
            BY <3>1, <3>3, Words, RwLockAssumption DEF TypeOK
        <3>. QED
            BY <3>1, <3>2, <3>4 DEF WaitingWritersCounted
    <2>11. CASE WriteLoad(t)
        BY <2>11, <1>6 DEF WriteLoad, Goto, TypeOK, WaitingWriters
    <2>12. CASE WriteWait(t)
        BY <2>12, <1>6 DEF WriteWait, Goto, FutexWait, TypeOK, WaitingWriters
    <2>13. CASE WriteLeave(t)
        <3>1. /\ t \in WaitingWriters
              /\ WaitingWriters' = WaitingWriters \ {t}
              /\ waiting_writers' = (waiting_writers + MAX) % (MAX + 1)
            BY <2>13 DEF WriteLeave, Goto, WriteLoop, TypeOK, WaitingWriters
        <3>2. Cardinality(WaitingWriters \ {t}) = waiting_writers - 1
            BY <1>4, <3>1, Counting DEF WaitingWritersCounted
        <3>3. waiting_writers \in 1..MAX
            <4>1. WaitingWriters # {}
                BY <3>1
            <4>2. Cardinality(WaitingWriters) # 0
                BY <4>1, <1>4, Counting
            <4>. QED
                BY <4>2, <1>5 DEF TypeOK, WaitingWritersCounted
        <3>4. waiting_writers' = waiting_writers - 1
            BY <3>1, <3>3, Words
        <3>. QED
            BY <3>1, <3>2, <3>4 DEF WaitingWritersCounted
    <2>14. CASE TryWriteCas(t)
        BY <2>14, <1>6 DEF TryWriteCas, Goto, TypeOK, WaitingWriters
    <2>15. CASE Finish(t)
        BY <2>15, <1>6 DEF Finish, Goto, TypeOK, WaitingWriters
    <2>16. CASE DropRead(t)
        BY <2>16, <1>6 DEF DropRead, Goto, TypeOK, WaitingWriters
    <2>17. CASE DropWrite(t)
        BY <2>17, <1>6 DEF DropWrite, Goto, TypeOK, WaitingWriters
    <2>18. CASE Store(t)
        BY <2>18, <1>6 DEF Store, Goto, TypeOK, WaitingWriters
    <2>19. CASE LoadWaiting(t)
        BY <2>19, <1>6 DEF LoadWaiting, Goto, TypeOK, WaitingWriters
    <2>20. CASE WakeWriter(t)
        BY <2>20, <1>6 DEF WakeWriter, Goto, FutexWakeOne, TypeOK, WaitingWriters
    <2>21. CASE WakeReaders(t)
        BY <2>21, <1>6 DEF WakeReaders, Goto, FutexWakeAll, TypeOK, WaitingWriters
    <2>. QED
        BY <1>2, <2>1, <2>2, <2>3, <2>4, <2>5, <2>6, <2>7, <2>8, <2>9, <2>10, <2>11, <2>12,
           <2>13, <2>14, <2>15, <2>16, <2>17, <2>18, <2>19, <2>20, <2>21 DEF Step
<1>3. ASSUME NEW t \in Threads, Client(t) PROVE WaitingWritersCounted'
    <2>1. CASE Reenter(t)
        BY <2>1, <1>6 DEF Reenter, Call, Goto, TypeOK, WaitingWriters
    <2>2. CASE Read(t)
        BY <2>2, <1>6 DEF Read, Call, Goto, See, ReadLoop, TypeOK, WaitingWriters
    <2>3. CASE TryRead(t)
        BY <2>3, <1>6 DEF TryRead, Call, Goto, See, TypeOK, WaitingWriters
    <2>4. CASE Write(t)
        BY <2>4, <1>6 DEF Write, Call, Goto, See, WriteLoop, TypeOK, WaitingWriters
    <2>5. CASE TryWrite(t)
        BY <2>5, <1>6 DEF TryWrite, Call, Goto, See, TypeOK, WaitingWriters
    <2>6. CASE ClearPoison(t)
        BY <2>6, <1>6 DEF ClearPoison, Goto, TypeOK, WaitingWriters
    <2>7. CASE SpuriousWake(t)
        BY <2>7, <1>6 DEF SpuriousWake, TypeOK, WaitingWriters
    <2>. QED
        BY <1>3, <2>1, <2>2, <2>3, <2>4, <2>5, <2>6, <2>7 DEF Client
<1>. QED
    BY <1>1, <1>2, <1>3 DEF Next

----------------------------------------------------------------------------
\* The threads on the writers' path do not leave it but through a drop, and that only
\* through the choice of whom to wake.
LEMMA WritersStay ==
    ASSUME TypeOK, AcquiredMatchesGuard, NEW t \in Threads, Step(t) \/ Client(t)
    PROVE  /\ ~Store(t) => WriterSide \subseteq WriterSide'
           /\ ~LoadWaiting(t) /\ ~WakeReaders(t) => ReaderWakers \subseteq ReaderWakers'
<1> USE DEF TypeOK, AcquiredMatchesGuard, WriterSide, ReaderWakers, InWrite, WaitingWriters,
            Writers, waitVars, userVars
<1>1. CASE Step(t)
    <2>1. CASE ReadWaitMax(t)
        BY <2>1 DEF ReadWaitMax, Goto, FutexWait
    <2>2. CASE ReadWait(t)
        BY <2>2 DEF ReadWait, Goto, FutexWait
    <2>3. CASE ReadLoad(t)
        BY <2>3 DEF ReadLoad, Goto, See
    <2>4. CASE ReadOverflow(t)
        BY <2>4 DEF ReadOverflow, Goto
    <2>5. CASE ReadCasOk(t)
        BY <2>5 DEF ReadCasOk, Goto, EnterRead
    <2>6. CASE ReadCasFail(t)
        BY <2>6 DEF ReadCasFail, Goto, See, ReadLoop
    <2>7. CASE TryReadCas(t)
        BY <2>7 DEF TryReadCas, Goto, EnterRead
    <2>8. CASE WriteCas(t)
        BY <2>8 DEF WriteCas, Goto, See, WriteLoop
    <2>9. CASE WriteFlag(t)
        BY <2>9 DEF WriteFlag, Goto, See, WriteLoop
    <2>10. CASE WriteEnter(t)
        BY <2>10 DEF WriteEnter, Goto
    <2>11. CASE WriteLoad(t)
        BY <2>11 DEF WriteLoad, Goto
    <2>12. CASE WriteWait(t)
        BY <2>12 DEF WriteWait, Goto, FutexWait
    <2>13. CASE WriteLeave(t)
        BY <2>13 DEF WriteLeave, Goto, WriteLoop
    <2>14. CASE TryWriteCas(t)
        BY <2>14 DEF TryWriteCas, Goto
    <2>15. CASE Finish(t)
        BY <2>15 DEF Finish, Goto
    <2>16. CASE DropRead(t)
        BY <2>16 DEF DropRead, Goto
    <2>17. CASE DropWrite(t)
        BY <2>17 DEF DropWrite, Goto
    <2>18. CASE Store(t)
        BY <2>18 DEF Store, Goto
    <2>19. CASE LoadWaiting(t)
        BY <2>19 DEF LoadWaiting, Goto
    <2>20. CASE WakeWriter(t)
        BY <2>20 DEF WakeWriter, Goto, FutexWakeOne
    <2>21. CASE WakeReaders(t)
        BY <2>21 DEF WakeReaders, Goto, FutexWakeAll
    <2>. QED
        BY <1>1, <2>1, <2>2, <2>3, <2>4, <2>5, <2>6, <2>7, <2>8, <2>9, <2>10, <2>11, <2>12,
           <2>13, <2>14, <2>15, <2>16, <2>17, <2>18, <2>19, <2>20, <2>21 DEF Step
<1>2. CASE Client(t)
    <2>1. CASE Reenter(t)
        BY <2>1 DEF Reenter, Call, Goto
    <2>2. CASE Read(t)
        BY <2>2 DEF Read, Call, Goto, See, ReadLoop
    <2>3. CASE TryRead(t)
        BY <2>3 DEF TryRead, Call, Goto, See
    <2>4. CASE Write(t)
        BY <2>4 DEF Write, Call, Goto, See, WriteLoop
    <2>5. CASE TryWrite(t)
        BY <2>5 DEF TryWrite, Call, Goto, See
    <2>6. CASE ClearPoison(t)
        BY <2>6 DEF ClearPoison, Goto
    <2>7. CASE SpuriousWake(t)
        BY <2>7 DEF SpuriousWake
    <2>. QED
        BY <1>2, <2>1, <2>2, <2>3, <2>4, <2>5, <2>6, <2>7 DEF Client
<1>. QED
    BY <1>1, <1>2

\* MAX + 1 is even, so neither `+ 2` nor `- 2` changes the low bit, wrapping or not.
LEMMA LowBit ==
    ASSUME NEW s \in 0..MAX
    PROVE  /\ ~IsOdd(s) => ~IsOdd((s + 2) % (MAX + 1))
           /\ IsOdd((s + MAX - 1) % (MAX + 1)) => IsOdd(s)
<1> USE RwLockAssumption DEF IsOdd
<1>1. s <= MAX - 2 => (s + 2) % (MAX + 1) = s + 2
    BY Words
<1>2. s = MAX - 1 => (s + 2) % (MAX + 1) = 0
    OBVIOUS
<1>3. s >= 2 => (s + MAX - 1) % (MAX + 1) = s - 2
    BY Words
<1>4. s = 0 => (s + MAX - 1) % (MAX + 1) = MAX - 1
    OBVIOUS
<1>. QED
    BY <1>1, <1>2, <1>3, <1>4

\* The low bit has somebody on the writers' path behind it.
LEMMA OddInduction ==
    TypeOK /\ Placement /\ AcquiredMatchesGuard /\ OddAnnounced /\ [Next]_vars => OddAnnounced'
<1> SUFFICES ASSUME TypeOK, Placement, AcquiredMatchesGuard, OddAnnounced, [Next]_vars,
                    IsOdd(state')
             PROVE  WriterSide' # {}
    BY DEF OddAnnounced
<1>1. CASE UNCHANGED vars
    BY <1>1 DEF vars, OddAnnounced, WriterSide, InWrite, WaitingWriters, Writers
<1>2. ASSUME NEW t \in Threads, Step(t) \/ Client(t) PROVE WriterSide' # {}
    <2>1. CASE Store(t)
        BY <2>1 DEF Store, IsOdd
    <2>2. CASE IsOdd(state) /\ ~Store(t)
        BY <1>2, <2>2, WritersStay DEF OddAnnounced
    <2>3. CASE ~IsOdd(state)
        <3>1. CASE state' = state
            BY <2>3, <3>1
        <3>2. CASE ReadCasOk(t) \/ TryReadCas(t)
            BY <2>3, <3>2, LowBit DEF ReadCasOk, TryReadCas, EnterRead, TypeOK
        <3>3. CASE DropRead(t)
            BY <2>3, <3>3, LowBit DEF DropRead, TypeOK
        <3>4. CASE WriteCas(t) \/ WriteFlag(t) \/ TryWriteCas(t)
            <4>1. CASE state' # state
                <5>1. pc'[t] \in {"finish_write", "write_enter"}
                    BY <3>4, <4>1 DEF WriteCas, WriteFlag, TryWriteCas, Goto, TypeOK
                <5>. QED
                    BY <5>1 DEF WriterSide, InWrite, Writers
            <4>. QED
                BY <3>1, <4>1
        <3>. QED
            BY <1>2, <2>1, <3>1, <3>2, <3>3, <3>4
            DEF Step, Client, ReadWaitMax, ReadWait, ReadLoad, ReadOverflow, ReadCasFail,
                WriteEnter, WriteLoad, WriteWait, WriteLeave, Finish, DropWrite, LoadWaiting,
                WakeWriter, WakeReaders, Reenter, Read, TryRead, Write, TryWrite, ClearPoison,
                SpuriousWake
    <2>. QED
        BY <2>1, <2>2, <2>3
<1>. QED
    BY <1>1, <1>2 DEF Next

\* A reader only falls asleep over an odd `state`.
LEMMA SleepsOnOdd ==
    ASSUME TypeOK, Placement, NEW t \in Threads, Step(t) \/ Client(t), stateSleepers' # {}
    PROVE  stateSleepers # {} \/ IsOdd(state)
<1>1. CASE ReadWaitMax(t)
    BY <1>1, RwLockAssumption DEF ReadWaitMax, FutexWait, IsOdd
<1>2. CASE ReadWait(t)
    BY <1>2 DEF ReadWait, Goto, FutexWait, Placement
<1>3. CASE stateSleepers' \subseteq stateSleepers
    BY <1>3
<1>. QED
    BY <1>1, <1>2, <1>3
    DEF Step, Client, ReadLoad, ReadOverflow, ReadCasOk, ReadCasFail, TryReadCas, WriteCas,
        WriteFlag, WriteEnter, WriteLoad, WriteWait, WriteLeave, TryWriteCas, Finish, DropRead,
        DropWrite, Store, LoadWaiting, WakeWriter, WakeReaders, FutexWakeAll, Reenter, Read,
        TryRead, Write, TryWrite, ClearPoison, SpuriousWake, waitVars

\* The writer that leaves last passes the readers on to another or wakes them all.
LEMMA ForgottenInduction ==
    /\ TypeOK /\ Placement /\ AcquiredMatchesGuard /\ WaitingWritersCounted
    /\ OddAnnounced /\ NoReaderForgotten /\ [Next]_vars
    => NoReaderForgotten'
<1> SUFFICES ASSUME TypeOK, Placement, AcquiredMatchesGuard, WaitingWritersCounted,
                    OddAnnounced, NoReaderForgotten, [Next]_vars, stateSleepers' # {}
             PROVE  ReaderWakers' # {}
    BY DEF NoReaderForgotten
<1>1. CASE UNCHANGED vars
    BY <1>1 DEF vars, NoReaderForgotten, ReaderWakers, InWrite, WaitingWriters, Writers
<1>2. ASSUME NEW t \in Threads, Step(t) \/ Client(t) PROVE ReaderWakers' # {}
    <2>1. ReaderWakers # {}
        <3>1. WriterSide \subseteq ReaderWakers
            BY DEF WriterSide, ReaderWakers
        <3>. QED
            BY <1>2, <3>1, SleepsOnOdd DEF NoReaderForgotten, OddAnnounced
    <2>2. CASE WakeReaders(t)
        BY <2>2 DEF WakeReaders, FutexWakeAll
    <2>3. CASE LoadWaiting(t)
        <3>1. CASE waiting_writers = 0
            BY <2>3, <3>1 DEF LoadWaiting, Goto, ReaderWakers, TypeOK
        <3>2. CASE waiting_writers # 0
            <4>1. PICK u \in WaitingWriters : TRUE
                <5>1. WaitingWriters \in SUBSET Threads
                    BY DEF WaitingWriters
                <5>. QED
                    BY <3>2, <5>1, Counting DEF WaitingWritersCounted
            <4>2. u \in Threads /\ u # t /\ pc'[u] = pc[u]
                BY <2>3, <4>1 DEF LoadWaiting, Goto, WaitingWriters, TypeOK
            <4>. QED
                BY <4>1, <4>2 DEF ReaderWakers, InWrite, WaitingWriters
        <3>. QED
            BY <3>1, <3>2
    <2>4. CASE ~WakeReaders(t) /\ ~LoadWaiting(t)
        BY <1>2, <2>1, <2>4, WritersStay
    <2>. QED
        BY <2>2, <2>3, <2>4
<1>. QED
    BY <1>1, <1>2 DEF Next

----------------------------------------------------------------------------
\* What a step does to the lock as a whole.  Every step of the code is one of these.
Quiet == UNCHANGED <<state, Readers, Writers, poisoned>>

BeginsRead(t) ==
    /\ Writers = {} /\ Writers' = {}
    /\ t \notin Readers /\ Readers' = Readers \cup {t}
    /\ ~IsOdd(state) /\ state' = state + 2
    /\ poisoned' = poisoned

EndsRead(t) ==
    /\ Writers = {} /\ Writers' = {}
    /\ t \in Readers /\ Readers' = Readers \ {t}
    /\ state' = state - 2
    /\ poisoned' = poisoned

BeginsWrite(t) ==
    /\ Writers = {} /\ Writers' = {t}
    /\ Readers = {} /\ Readers' = {}
    /\ state <= 1 /\ state' = MAX
    /\ poisoned' = poisoned

DropsWrite(t) ==
    /\ Writers = {t} /\ Writers' = {t}
    /\ Readers' = Readers
    /\ state' = state
    /\ poisoned' \in {poisoned, TRUE}

EndsWrite(t) ==
    /\ Writers = {t} /\ Writers' = {}
    /\ Readers = {} /\ Readers' = {}
    /\ state' = 0
    /\ poisoned' = poisoned

AsksReaders ==
    /\ Writers = {} /\ Writers' = {}
    /\ Readers' = Readers
    /\ ~IsOdd(state) /\ state' = state + 1
    /\ poisoned' = poisoned

ClearsPoison ==
    /\ UNCHANGED <<state, Readers, Writers>>
    /\ poisoned' = FALSE

Effect(t) ==
    \/ Quiet \/ AsksReaders \/ ClearsPoison
    \/ BeginsRead(t) \/ EndsRead(t) \/ BeginsWrite(t) \/ DropsWrite(t) \/ EndsWrite(t)

\* Each step has one of the effects above.
LEMMA Effects ==
    ASSUME NoOverflow, TypeOK, Placement, AcquiredMatchesGuard, StateMatchesGuards,
           NEW t \in Threads, Step(t) \/ Client(t)
    PROVE  Effect(t)
<1>1. Readers \in SUBSET Threads /\ Writers \in SUBSET Threads
    BY DEF Readers, Writers
<1>2. Cardinality(Readers) \in Nat /\ Cardinality(Threads) \in Nat
    BY <1>1, FS_Subset, FS_CardinalityType, RwLockAssumption
<1>3. ASSUME Step(t) PROVE Effect(t)
    <2>1. CASE ReadWaitMax(t)
        BY <2>1 DEF ReadWaitMax, Goto, FutexWait, TypeOK, AcquiredMatchesGuard, Readers, Writers, Quiet, Effect, waitVars, userVars
    <2>2. CASE ReadWait(t)
        BY <2>2 DEF ReadWait, Goto, FutexWait, TypeOK, AcquiredMatchesGuard, Readers, Writers, Quiet, Effect, waitVars, userVars
    <2>3. CASE ReadLoad(t)
        BY <2>3 DEF ReadLoad, Goto, See, TypeOK, AcquiredMatchesGuard, Readers, Writers, Quiet, Effect, waitVars, userVars
    <2>4. CASE ReadOverflow(t)
        BY <2>4 DEF ReadOverflow, Goto, TypeOK, AcquiredMatchesGuard, Readers, Writers, Quiet, Effect, waitVars, userVars
    <2>5. CASE ReadCasOk(t)
        <3>1. /\ state = seen[t]
              /\ state' = (seen[t] + 2) % (MAX + 1)
              /\ ~IsOdd(state)
              /\ poisoned' = poisoned
            BY <2>5 DEF ReadCasOk, EnterRead, Goto, Placement, userVars
        <3>2. Writers = {}
            BY <3>1, RwLockAssumption DEF StateMatchesGuards, IsOdd
        <3>3. /\ t \notin Readers
              /\ Readers' = Readers \cup {t}
              /\ Writers' = Writers
            BY <2>5 DEF ReadCasOk, Goto, TypeOK, AcquiredMatchesGuard, Readers, Writers, userVars
        <3>4. seen[t] # MAX - 1
            <4>1. CASE OverflowChecks
                BY <2>5, <4>1, RwLockAssumption DEF ReadCasOk, EnterRead, TypeOK
            <4>2. CASE 2 * Cardinality(Threads) < MAX - 1
                <5>1. state - 2 * Cardinality(Readers) \in {0, 1}
                    BY <3>2 DEF StateMatchesGuards
                <5>2. Cardinality(Readers) \in 0..Cardinality(Threads)
                    BY <1>1, Counting
                <5>. QED
                    BY <3>1, <4>2, <5>1, <5>2, <1>2, RwLockAssumption DEF TypeOK, IsOdd
            <4>. QED
                BY <4>1, <4>2 DEF NoOverflow
        <3>5. seen[t] \in 0..(MAX - 2)
            BY <3>1, <3>4, RwLockAssumption DEF TypeOK, IsOdd
        <3>6. state' = state + 2
            BY <3>1, <3>5, Words
        <3>. QED
            BY <3>1, <3>2, <3>3, <3>6 DEF Effect, BeginsRead
    <2>6. CASE ReadCasFail(t)
        BY <2>6 DEF ReadCasFail, Goto, See, ReadLoop, TypeOK, AcquiredMatchesGuard, Readers, Writers, Quiet, Effect, waitVars, userVars
    <2>7. CASE TryReadCas(t)
        <3>1. CASE pc'[t] = "finish_read"
            <4>1. /\ state = seen[t]
                  /\ state' = (seen[t] + 2) % (MAX + 1)
                  /\ ~IsOdd(state)
                  /\ poisoned' = poisoned
                BY <2>7, <3>1 DEF TryReadCas, EnterRead, Goto, Placement, TypeOK, userVars
            <4>2. Writers = {}
                BY <4>1, RwLockAssumption DEF StateMatchesGuards, IsOdd
            <4>3. /\ t \notin Readers
                  /\ Readers' = Readers \cup {t}
                  /\ Writers' = Writers
                BY <2>7, <3>1 DEF TryReadCas, Goto, TypeOK, AcquiredMatchesGuard, Readers, Writers, userVars
            <4>4. seen[t] # MAX - 1
                BY <2>7, <4>1, <3>1 DEF TryReadCas, Goto, Placement
            <4>5. seen[t] \in 0..(MAX - 2)
                BY <4>1, <4>4, RwLockAssumption DEF TypeOK, IsOdd
            <4>6. state' = state + 2
                BY <4>1, <4>5, Words
            <4>. QED
                BY <4>1, <4>2, <4>3, <4>6 DEF Effect, BeginsRead
        <3>2. CASE pc'[t] # "finish_read"
            <4>1. UNCHANGED <<state, poisoned, guard>> /\ pc' = [pc EXCEPT ![t] = "idle"] /\ pc[t] = "try_read_cas"
                BY <2>7, <3>2 DEF TryReadCas, Goto, TypeOK, userVars
            <4>. QED
                BY <4>1 DEF Effect, Quiet, Readers, Writers, TypeOK
        <3>. QED
            BY <3>1, <3>2
    <2>8. CASE WriteCas(t)
        <3>1. CASE state = seen[t]
            <4>1. state = seen[t] /\ seen[t] <= 1 /\ state' = MAX /\ poisoned' = poisoned
                BY <2>8, <3>1 DEF WriteCas, Goto, Placement, TypeOK, userVars
            <4>2. Writers = {}
                BY <4>1, RwLockAssumption DEF StateMatchesGuards
            <4>3. Readers = {}
                <5>1. state - 2 * Cardinality(Readers) \in {0, 1}
                    BY <4>2 DEF StateMatchesGuards
                <5>2. Cardinality(Readers) = 0
                    BY <4>1, <5>1, <1>2 DEF TypeOK
                <5>. QED
                    BY <5>2, <1>1, Counting
            <4>4. Readers' = Readers /\ Writers' = Writers \cup {t}
                BY <2>8, <3>1 DEF WriteCas, Goto, TypeOK, AcquiredMatchesGuard, Readers, Writers, userVars
            <4>. QED
                BY <4>1, <4>2, <4>3, <4>4 DEF Effect, BeginsWrite
        <3>2. CASE state # seen[t]
            BY <2>8, <3>2 DEF WriteCas, Goto, WriteLoop, TypeOK, AcquiredMatchesGuard, Readers, Writers, Quiet, Effect, waitVars, userVars
        <3>. QED
            BY <3>1, <3>2
    <2>9. CASE WriteFlag(t)
        <3>1. CASE state = seen[t]
            <4>1. ~IsOdd(state) /\ state' = state + 1 /\ poisoned' = poisoned
                BY <2>9, <3>1 DEF WriteFlag, Goto, Placement, userVars
            <4>2. Writers = {}
                BY <4>1, RwLockAssumption DEF StateMatchesGuards, IsOdd
            <4>3. Readers' = Readers /\ Writers' = Writers
                BY <2>9, <3>1 DEF WriteFlag, Goto, TypeOK, Readers, Writers, userVars
            <4>. QED
                BY <4>1, <4>2, <4>3 DEF Effect, AsksReaders
        <3>2. CASE state # seen[t]
            BY <2>9, <3>2 DEF WriteFlag, Goto, WriteLoop, TypeOK, AcquiredMatchesGuard, Readers, Writers, Quiet, Effect, waitVars, userVars
        <3>. QED
            BY <3>1, <3>2
    <2>10. CASE WriteEnter(t)
        BY <2>10 DEF WriteEnter, Goto, TypeOK, AcquiredMatchesGuard, Readers, Writers, Quiet, Effect, waitVars, userVars
    <2>11. CASE WriteLoad(t)
        BY <2>11 DEF WriteLoad, Goto, TypeOK, AcquiredMatchesGuard, Readers, Writers, Quiet, Effect, waitVars, userVars
    <2>12. CASE WriteWait(t)
        BY <2>12 DEF WriteWait, Goto, FutexWait, TypeOK, AcquiredMatchesGuard, Readers, Writers, Quiet, Effect, waitVars, userVars
    <2>13. CASE WriteLeave(t)
        BY <2>13 DEF WriteLeave, Goto, WriteLoop, TypeOK, AcquiredMatchesGuard, Readers, Writers, Quiet, Effect, waitVars, userVars
    <2>14. CASE TryWriteCas(t)
        <3>1. CASE state = seen[t]
            <4>1. state = seen[t] /\ seen[t] <= 1 /\ state' = MAX /\ poisoned' = poisoned
                BY <2>14, <3>1 DEF TryWriteCas, Goto, Placement, TypeOK, userVars
            <4>2. Writers = {}
                BY <4>1, RwLockAssumption DEF StateMatchesGuards
            <4>3. Readers = {}
                <5>1. state - 2 * Cardinality(Readers) \in {0, 1}
                    BY <4>2 DEF StateMatchesGuards
                <5>2. Cardinality(Readers) = 0
                    BY <4>1, <5>1, <1>2 DEF TypeOK
                <5>. QED
                    BY <5>2, <1>1, Counting
            <4>4. Readers' = Readers /\ Writers' = Writers \cup {t}
                BY <2>14, <3>1 DEF TryWriteCas, Goto, TypeOK, AcquiredMatchesGuard, Readers, Writers, userVars
            <4>. QED
                BY <4>1, <4>2, <4>3, <4>4 DEF Effect, BeginsWrite
        <3>2. CASE state # seen[t]
            BY <2>14, <3>2 DEF TryWriteCas, Goto, TypeOK, AcquiredMatchesGuard, Readers, Writers, Quiet, Effect, waitVars, userVars
        <3>. QED
            BY <3>1, <3>2
    <2>15. CASE Finish(t)
        BY <2>15 DEF Finish, Goto, TypeOK, AcquiredMatchesGuard, Readers, Writers, Quiet, Effect, waitVars, userVars
    <2>16. CASE DropRead(t)
        <3>1. /\ t \in Readers
              /\ Readers' = Readers \ {t}
              /\ Writers' = Writers
              /\ state' = (state + MAX - 1) % (MAX + 1)
              /\ poisoned' = poisoned
            BY <2>16 DEF DropRead, Goto, TypeOK, AcquiredMatchesGuard, Readers, Writers
        <3>2. Writers = {}
            BY <3>1 DEF StateMatchesGuards
        <3>3. Cardinality(Readers) # 0
            BY <3>1, <1>1, Counting
        <3>4. state \in 2..MAX
            BY <3>2, <3>3, <1>2 DEF StateMatchesGuards, TypeOK
        <3>5. state' = state - 2
            BY <3>1, <3>4, Words
        <3>. QED
            BY <3>1, <3>2, <3>5 DEF Effect, EndsRead
    <2>17. CASE DropWrite(t)
        <3>1. t \in Writers /\ Writers' = Writers /\ Readers' = Readers
            BY <2>17 DEF DropWrite, Goto, TypeOK, AcquiredMatchesGuard, Readers, Writers
        <3>2. Writers = {t}
            BY <3>1 DEF StateMatchesGuards
        <3>3. state' = state /\ poisoned' \in {poisoned, TRUE}
            BY <2>17 DEF DropWrite, TypeOK
        <3>. QED
            BY <3>1, <3>2, <3>3 DEF Effect, DropsWrite
    <2>18. CASE Store(t)
        <3>1. t \in Writers /\ Writers' = Writers \ {t} /\ Readers' = Readers
            BY <2>18 DEF Store, Goto, TypeOK, AcquiredMatchesGuard, Readers, Writers, userVars
        <3>2. Writers = {t} /\ Readers = {}
            BY <3>1 DEF StateMatchesGuards
        <3>3. state' = 0 /\ poisoned' = poisoned
            BY <2>18 DEF Store, userVars
        <3>. QED
            BY <3>1, <3>2, <3>3 DEF Effect, EndsWrite
    <2>19. CASE LoadWaiting(t)
        BY <2>19 DEF LoadWaiting, Goto, TypeOK, AcquiredMatchesGuard, Readers, Writers, Quiet, Effect, waitVars, userVars
    <2>20. CASE WakeWriter(t)
        BY <2>20 DEF WakeWriter, Goto, FutexWakeOne, TypeOK, AcquiredMatchesGuard, Readers, Writers, Quiet, Effect, waitVars, userVars
    <2>21. CASE WakeReaders(t)
        BY <2>21 DEF WakeReaders, Goto, FutexWakeAll, TypeOK, AcquiredMatchesGuard, Readers, Writers, Quiet, Effect, waitVars, userVars
    <2>. QED
        BY <1>3, <2>1, <2>2, <2>3, <2>4, <2>5, <2>6, <2>7, <2>8, <2>9, <2>10, <2>11, <2>12,
           <2>13, <2>14, <2>15, <2>16, <2>17, <2>18, <2>19, <2>20, <2>21 DEF Step
<1>4. ASSUME Client(t) PROVE Effect(t)
    <2>1. CASE Reenter(t)
        BY <2>1 DEF Reenter, Call, Goto, TypeOK, AcquiredMatchesGuard, Readers, Writers, Quiet, Effect, waitVars, userVars
    <2>2. CASE Read(t)
        BY <2>2 DEF Read, Call, Goto, See, ReadLoop, TypeOK, AcquiredMatchesGuard, Readers, Writers, Quiet, Effect, waitVars, userVars
    <2>3. CASE TryRead(t)
        BY <2>3 DEF TryRead, Call, Goto, See, TypeOK, AcquiredMatchesGuard, Readers, Writers, Quiet, Effect, waitVars, userVars
    <2>4. CASE Write(t)
        BY <2>4 DEF Write, Call, Goto, See, WriteLoop, TypeOK, AcquiredMatchesGuard, Readers, Writers, Quiet, Effect, waitVars, userVars
    <2>5. CASE TryWrite(t)
        BY <2>5 DEF TryWrite, Call, Goto, See, TypeOK, AcquiredMatchesGuard, Readers, Writers, Quiet, Effect, waitVars, userVars
    <2>6. CASE ClearPoison(t)
        <3>1. UNCHANGED <<state, Readers, Writers>> /\ poisoned' = FALSE
            BY <2>6 DEF ClearPoison, Goto, TypeOK, Readers, Writers
        <3>. QED
            BY <3>1 DEF Effect, ClearsPoison
    <2>7. CASE SpuriousWake(t)
        BY <2>7 DEF SpuriousWake, TypeOK, AcquiredMatchesGuard, Readers, Writers, Quiet, Effect, waitVars, userVars
    <2>. QED
        BY <1>4, <2>1, <2>2, <2>3, <2>4, <2>5, <2>6, <2>7 DEF Client
<1>. QED
    BY <1>3, <1>4

\* `state` goes on telling who is inside.
LEMMA StateInduction ==
    ASSUME NoOverflow, TypeOK, TypeOK', Placement, AcquiredMatchesGuard, StateMatchesGuards,
           [Next]_vars
    PROVE  StateMatchesGuards'
<1>1. Readers \in SUBSET Threads
    BY DEF Readers
<1>2. Cardinality(Readers) \in Nat
    BY <1>1, FS_Subset, FS_CardinalityType, RwLockAssumption
<1>3. CASE UNCHANGED vars
    BY <1>3 DEF vars, StateMatchesGuards, Readers, Writers
<1>4. ASSUME NEW t \in Threads, Step(t) \/ Client(t)
      PROVE  StateMatchesGuards'
    <2>1. CASE Quiet \/ ClearsPoison
        BY <2>1 DEF Quiet, ClearsPoison, StateMatchesGuards
    <2>2. CASE AsksReaders
        BY <2>2, <1>2 DEF AsksReaders, StateMatchesGuards, TypeOK, IsOdd
    <2>3. CASE BeginsRead(t)
        <3>1. Cardinality(Readers \cup {t}) = Cardinality(Readers) + 1
            BY <2>3, <1>1, Counting DEF BeginsRead
        <3>. QED
            BY <2>3, <3>1, <1>2 DEF BeginsRead, StateMatchesGuards, TypeOK
    <2>4. CASE EndsRead(t)
        <3>1. Cardinality(Readers \ {t}) = Cardinality(Readers) - 1
            BY <2>4, <1>1, Counting DEF EndsRead
        <3>. QED
            BY <2>4, <3>1, <1>2 DEF EndsRead, StateMatchesGuards, TypeOK
    <2>5. CASE BeginsWrite(t)
        BY <2>5 DEF BeginsWrite, StateMatchesGuards
    <2>6. CASE DropsWrite(t)
        BY <2>6 DEF DropsWrite, StateMatchesGuards
    <2>7. CASE EndsWrite(t)
        BY <2>7, FS_EmptySet DEF EndsWrite, StateMatchesGuards
    <2>. QED
        BY <1>4, <2>1, <2>2, <2>3, <2>4, <2>5, <2>6, <2>7, Effects DEF Effect
<1>. QED
    BY <1>3, <1>4 DEF Next

----------------------------------------------------------------------------
\* The inductive invariant holds initially and is preserved.
LEMMA Invariance == Spec => []IInv
<1>1. Init => IInv
    <2> SUFFICES ASSUME Init PROVE IInv
        OBVIOUS
    <2> USE RwLockAssumption DEF Init
    <2>1. TypeOK
        <3>1. 0 \in 0..MAX /\ 0 \in 0..MaxCalls
            OBVIOUS
        <3>. QED
            BY <3>1 DEF TypeOK
    <2>2. Placement
        BY DEF Placement
    <2>3. AcquiredMatchesGuard
        BY DEF AcquiredMatchesGuard
    <2>4. WaitingWritersCounted
        <3>1. WaitingWriters = {}
            BY DEF WaitingWriters
        <3>. QED
            BY <3>1, FS_EmptySet DEF WaitingWritersCounted
    <2>5. OddAnnounced /\ NoReaderForgotten
        BY DEF OddAnnounced, NoReaderForgotten, IsOdd
    <2>. QED
        BY <2>1, <2>2, <2>3, <2>4, <2>5 DEF IInv
<1>2. IInv /\ [Next]_vars => IInv'
    BY TypeInduction, PlacementInduction, AcquiredInduction, WaitingInduction, OddInduction,
       ForgottenInduction DEF IInv
<1>. QED
    BY <1>1, <1>2, PTL DEF Spec

\* So is the one that counts the readers, while they fit in the word.
LEMMA ExactInvariance == NoOverflow => (Spec => []ExactInv)
<1> SUFFICES ASSUME NoOverflow PROVE Spec => []ExactInv
    OBVIOUS
<1>1. Init => StateMatchesGuards
    <2> SUFFICES ASSUME Init PROVE StateMatchesGuards
        OBVIOUS
    <2>1. Readers = {} /\ Writers = {}
        BY DEF Init, Readers, Writers
    <2>. QED
        BY <2>1, FS_EmptySet DEF Init, StateMatchesGuards
<1>2. IInv /\ IInv' /\ StateMatchesGuards /\ [Next]_vars => StateMatchesGuards'
    BY StateInduction DEF IInv
<1>. QED
    BY <1>1, <1>2, Invariance, PTL DEF Spec, ExactInv

\* Type correctness: the three words stay u32 values, and no local is out of range.
THEOREM TypeCorrect == Spec => []TypeOK
<1>1. IInv => TypeOK
    BY DEF IInv
<1>. QED
    BY Invariance, <1>1, PTL

\* Readers exclude writers, writers exclude everybody, and `state` counts the readers,
\* whatever the interleaving of the four operations and the two drops.
THEOREM ReadersWriters == NoOverflow => (Spec => []StateMatchesGuards)
<1>1. ExactInv => StateMatchesGuards
    BY DEF ExactInv
<1>. QED
    BY ExactInvariance, <1>1, PTL

\* The thread-local set tells exactly who owns a guard.
THEOREM ReentrancyCheckExact == Spec => []AcquiredMatchesGuard
<1>1. IInv => AcquiredMatchesGuard
    BY DEF IInv
<1>. QED
    BY Invariance, <1>1, PTL

\* waiting_writers counts the live WaitingWriterGuards.
THEOREM WaitingExact == Spec => []WaitingWritersCounted
<1>1. IInv => WaitingWritersCounted
    BY DEF IInv
<1>. QED
    BY Invariance, <1>1, PTL

\* No reader sleeps on a lock that no writer holds, awaits or is leaving: the drop of a
\* write guard wakes all the readers or leaves them to a writer that is still there.
THEOREM ReadersReached == Spec => []NoReaderForgotten
<1>1. IInv => NoReaderForgotten
    BY DEF IInv
<1>. QED
    BY Invariance, <1>1, PTL

\* No reader overtakes a writer that has set the low bit.
THEOREM WritersFirst == NoOverflow => (Spec => WriterFirst)
<1> SUFFICES ASSUME NoOverflow PROVE Spec => WriterFirst
    OBVIOUS
<1>1. ExactInv /\ [Next]_vars =>
        [IsOdd(state) /\ Writers = {} => IsOdd(state') /\ Readers' \subseteq Readers]_vars
    <2> SUFFICES ASSUME ExactInv, Next, IsOdd(state), Writers = {}
                 PROVE  IsOdd(state') /\ Readers' \subseteq Readers
        OBVIOUS
    <2>1. PICK t \in Threads : Step(t) \/ Client(t)
        BY DEF Next
    <2>2. Effect(t)
        BY <2>1, Effects DEF ExactInv, IInv
    <2>3. CASE BeginsWrite(t)
        BY <2>3, RwLockAssumption DEF BeginsWrite, IsOdd
    <2>4. CASE EndsRead(t)
        BY <2>4 DEF EndsRead, IsOdd, ExactInv, IInv, TypeOK
    <2>5. CASE Quiet \/ ClearsPoison
        BY <2>5 DEF Quiet, ClearsPoison
    <2>. QED
        BY <2>2, <2>3, <2>4, <2>5
        DEF Effect, AsksReaders, BeginsRead, DropsWrite, EndsWrite
<1>. QED
    BY <1>1, ExactInvariance, PTL DEF Spec, WriterFirst

\* The lock implements the abstract read-write lock.
THEOREM Refinement == NoOverflow => (Spec => ImplementsRwLock)
<1> SUFFICES ASSUME NoOverflow PROVE Spec => ImplementsRwLock
    OBVIOUS
<1>1. Init => Abstract!Init
    BY DEF Init, Abstract!Init, Readers, Writers
<1>2. ExactInv /\ [Next]_vars => [Abstract!Next]_Abstract!absVars
    <2> SUFFICES ASSUME ExactInv, [Next]_vars PROVE [Abstract!Next]_<<Readers, Writers, poisoned>>
        BY DEF Abstract!absVars
    <2>1. CASE UNCHANGED vars
        BY <2>1 DEF vars, Readers, Writers
    <2>2. ASSUME NEW t \in Threads, Effect(t)
          PROVE  [Abstract!Next]_<<Readers, Writers, poisoned>>
        <3>1. CASE Quiet \/ AsksReaders
            BY <3>1 DEF Quiet, AsksReaders
        <3>2. CASE ClearsPoison
            BY <3>2 DEF ClearsPoison, Abstract!Next, Abstract!ClearPoison
        <3>3. CASE BeginsRead(t)
            BY <3>3 DEF BeginsRead, Abstract!Next, Abstract!BeginRead
        <3>4. CASE EndsRead(t)
            BY <3>4 DEF EndsRead, Abstract!Next, Abstract!EndRead
        <3>5. CASE BeginsWrite(t)
            BY <3>5 DEF BeginsWrite, Abstract!Next, Abstract!BeginWrite
        <3>6. CASE DropsWrite(t)
            BY <3>6 DEF DropsWrite, Abstract!Next, Abstract!Poison
        <3>7. CASE EndsWrite(t)
            BY <3>7 DEF EndsWrite, Abstract!Next, Abstract!EndWrite
        <3>. QED
            BY <2>2, <3>1, <3>2, <3>3, <3>4, <3>5, <3>6, <3>7 DEF Effect
    <2>. QED
        BY <2>1, <2>2, Effects DEF Next, ExactInv, IInv
<1>. QED
    BY <1>1, <1>2, ExactInvariance, PTL DEF Spec, ImplementsRwLock, Abstract!Spec
=============================================================================
