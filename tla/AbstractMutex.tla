---------------------------- MODULE AbstractMutex ----------------------------
(***************************************************************************)
(* What a lock of the library promises its users, whatever it is made of:  *)
(* at most one thread is between acquiring and releasing, and the lock is  *)
(* poisoned only by the thread that holds it.  SpinLock, MutexV1 and       *)
(* MutexV2 are each shown to implement this specification.                 *)
(***************************************************************************)
CONSTANT Threads

VARIABLES holders,   \* the threads that have acquired and not yet released
          poisoned   \* some holder released the lock while it was panicking

absVars == <<holders, poisoned>>

Init ==
    /\ holders = {}
    /\ poisoned = FALSE

\* A thread enters; nobody else is inside.
Acquire(t) ==
    /\ holders = {}
    /\ holders' = {t}
    /\ UNCHANGED poisoned

\* The thread inside leaves.
Release(t) ==
    /\ holders = {t}
    /\ holders' = {}
    /\ UNCHANGED poisoned

\* The thread inside is unwinding and sets the flag.  What is told to those that enter
\* later is left out.
Poison(t) ==
    /\ holders = {t}
    /\ poisoned' = TRUE
    /\ UNCHANGED holders

\* clear_poison() asks for no lock: anyone may call it at any time.
ClearPoison ==
    /\ poisoned' = FALSE
    /\ UNCHANGED holders

Next ==
    \/ \E t \in Threads : Acquire(t) \/ Release(t) \/ Poison(t)
    \/ ClearPoison

Spec == Init /\ [][Next]_absVars
=============================================================================
