---------------------------- MODULE ProcessTree ----------------------------
(***************************************************************************)
(* What the process management of scheduler.h promises, without queues,    *)
(* priorities or semaphores: a bounded set of live processes in a forest.  *)
(* create_process adds a child of the caller, or fails when every PCB is   *)
(* taken; terminate_proc "Terminates the given process [...] and all its   *)
(* offspring" (scheduler.h:88), at once.                                   *)
(***************************************************************************)
CONSTANTS
    Process,
    NoProcess   \* not in Process

VARIABLES
    live,       \* the processes that exist
    parent      \* the parent of each live process, if it has one

vars == <<live, parent>>

\* The processes below p, itself included: the least set that has p and, with
\* a process, its children.
Offspring(p) ==
    {q \in live : \A S \in SUBSET live :
        (p \in S /\ \A c \in live : parent[c] \in S => c \in S) => q \in S}

Init ==
    /\ live = {}
    /\ parent = [p \in Process |-> NoProcess]

\* A starting process has no parent.
Start(p) ==
    /\ p \notin live
    /\ live' = live \cup {p}
    /\ UNCHANGED parent

Create(p, creator) ==
    /\ creator \in live /\ p \notin live
    /\ live' = live \cup {p}
    /\ parent' = [parent EXCEPT ![p] = creator]

Terminate(p) ==
    /\ p \in live
    /\ live' = live \ Offspring(p)
    /\ parent' = [q \in Process |-> IF q \in Offspring(p) THEN NoProcess ELSE parent[q]]

Next ==
    \/ \E p \in Process : Start(p) \/ Terminate(p)
    \/ \E p, creator \in Process : Create(p, creator)

Spec == Init /\ [][Next]_vars
=============================================================================
