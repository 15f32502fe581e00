--------------------------- MODULE AbstractRwLock ---------------------------
(***************************************************************************)
(* What a read-write lock promises its users: any number of readers or one *)
(* writer inside, and poisoned only by the writer inside.                  *)
(***************************************************************************)
CONSTANT Threads

VARIABLES readers,   \* the threads reading
          writers,   \* the threads writing: at most one
          poisoned

absVars == <<readers, writers, poisoned>>

Init ==
    /\ readers = {}
    /\ writers = {}
    /\ poisoned = FALSE

BeginRead(t) ==
    /\ writers = {}
    /\ t \notin readers
    /\ readers' = readers \cup {t}
    /\ UNCHANGED <<writers, poisoned>>

EndRead(t) ==
    /\ t \in readers
    /\ readers' = readers \ {t}
    /\ UNCHANGED <<writers, poisoned>>

BeginWrite(t) ==
    /\ readers = {}
    /\ writers = {}
    /\ writers' = {t}
    /\ UNCHANGED <<readers, poisoned>>

\* The writer is unwinding.
Poison(t) ==
    /\ writers = {t}
    /\ poisoned' = TRUE
    /\ UNCHANGED <<readers, writers>>

EndWrite(t) ==
    /\ writers = {t}
    /\ writers' = {}
    /\ UNCHANGED <<readers, poisoned>>

\* clear_poison() asks for no lock.
ClearPoison ==
    /\ poisoned' = FALSE
    /\ UNCHANGED <<readers, writers>>

Next ==
    \/ \E t \in Threads :
          BeginRead(t) \/ EndRead(t) \/ BeginWrite(t) \/ Poison(t) \/ EndWrite(t)
    \/ ClearPoison

Spec == Init /\ [][Next]_absVars
=============================================================================
