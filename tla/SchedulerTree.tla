--------------------------- MODULE SchedulerTree ---------------------------
(***************************************************************************)
(* The scheduler implements ProcessTree.  terminate_proc frees its         *)
(* processes one by one; seen from outside they are gone when it starts,   *)
(* so a PCB that hangs below an active call of recursive_remove_proc no    *)
(* longer counts as live.                                                  *)
(***************************************************************************)
EXTENDS Scheduler

\* The PCBs still reachable, through lists of children, from an active call.
Doomed ==
    {q \in Proc : \A S \in SUBSET Proc :
        (Range(frames) \subseteq S /\ \A p \in S : Range(p_child[p]) \subseteq S) => q \in S}

liveProcs == Proc \ (Range(pcbFree) \cup Doomed)

\* Only the parent of a live process is shown: a PCB that is free, or about to
\* be, may still hold the p_parent that outChild left in it.
Tree == INSTANCE ProcessTree WITH
    Process <- Proc,
    NoProcess <- NULL,
    live <- liveProcs,
    parent <- [p \in Proc |-> IF p \in liveProcs THEN p_parent[p] ELSE NULL]

\* Every step of the scheduler is a step of the process tree or leaves it as
\* it is: whatever the queues the offspring is on, a kill removes exactly the
\* offspring and a created process is a child of its creator.
ImplementsProcessTree == Tree!Spec
=============================================================================
