----------------------------- MODULE AtomicWait -----------------------------
(***************************************************************************)
(* The crate `atomic_wait` (external to the repository), as the code under *)
(* src/ uses it: a futex on one atomic variable.                           *)
(*                                                                         *)
(*   wait(&a, v)    compares a with v and goes to sleep on a, atomically,  *)
(*                  when they are equal; otherwise it returns at once.     *)
(*                  It may also return with no wake-up.                    *)
(*   wake_one(&a)   wakes one of the threads asleep on a, if there is one. *)
(*   wake_all(&a)   wakes all of them.                                     *)
(*                                                                         *)
(* The threads asleep on an atomic variable are a set `sleepers` of the    *)
(* module that uses the operators below.  A thread in that set takes no    *)
(* step until something removes it; its pc already stands where the code   *)
(* goes on when wait() returns.                                            *)
(***************************************************************************)

\* What wait(&a, expected) may leave as the set of sleepers when thread t calls it.
FutexWait(sleepers, t, value, expected) ==
    IF value = expected THEN {sleepers \cup {t}, sleepers} ELSE {sleepers}

\* What wake_one(&a) may leave as the set of sleepers.
FutexWakeOne(sleepers) ==
    IF sleepers = {} THEN {{}} ELSE {sleepers \ {t} : t \in sleepers}

\* What wake_all(&a) leaves as the set of sleepers.
FutexWakeAll(sleepers) == {{}}
=============================================================================
