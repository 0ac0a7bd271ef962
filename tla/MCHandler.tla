----------------------------- MODULE MCHandler -----------------------------
(***************************************************************************)
(* Handler for TLC.  Semaphore addresses are only compared for equality,   *)
(* so states that differ by renaming them are the same.                    *)
(***************************************************************************)
EXTENDS Handler

SemSymmetry == Permutations(Sem)
=============================================================================
