------------------------------ MODULE MCRwLock ------------------------------
(***************************************************************************)
(* RwLock for TLC.  The threads are interchangeable: no action and no      *)
(* property names one of them.                                             *)
(***************************************************************************)
EXTENDS RwLock, TLC

Symmetry == Permutations(Threads)
=============================================================================
