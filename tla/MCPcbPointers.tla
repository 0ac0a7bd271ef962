--------------------------- MODULE MCPcbPointers ---------------------------
(***************************************************************************)
(* PcbPointers for TLC.  Semaphore addresses are only compared for         *)
(* equality, so states that differ by renaming them are the same.          *)
(***************************************************************************)
EXTENDS PcbPointers

SemSymmetry == Permutations(Sem)

\* allocPcb never returned the last PCB of the pool: it is still zeroed
LastNeverUsed == mem[p_sib(MAXPROC - 1)].next = NULL

\* bound: from the first use of the last PCB on, no process has a priority
\* above 1 and one semaphore at a time has waiters
FullPoolBound ==
    LastNeverUsed \/ (Cardinality(semd_h) <= 1 /\ \A p \in Proc : priority[p] <= 1)

MCPtrSpec == PtrInit /\ [][PtrNext /\ FullPoolBound']_ptrVars
=============================================================================
