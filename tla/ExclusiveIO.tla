---------------------------- MODULE ExclusiveIO ----------------------------
(***************************************************************************)
(* The kernel under programs that use devices the way those of             *)
(* p2test_bikaya_v0.1.c do: a mutex per device, so that WAITIO is never    *)
(* called on a device in use (print() and term_mut), and only live         *)
(* processes are killed, not while they or their offspring wait for one.   *)
(***************************************************************************)
EXTENDS Nucleus

\* p and the processes below it
Family(p) ==
    {q \in Proc : \A S \in SUBSET Proc :
        (p \in S /\ \A r \in S : Range(p_child[r]) \subseteq S) => q \in S}

WaitingForDevice == UNION {Queued(d) : d \in Dev}

ExclusiveNext ==
    /\ NucleusNext
    /\ \A d \in Dev : wait_io(d) => semval[d] = 1
    /\ \A p \in Proc : terminate_proc(p) => p \notin Free /\ Family(p) \cap WaitingForDevice = {}

ExclusiveSpec ==
    /\ NucleusInit /\ [][ExclusiveNext]_nucleusVars
    /\ WF_nucleusVars(terminating /\ UNCHANGED devVars)
    /\ DeviceFairness

-----------------------------------------------------------------------------

\* w_for_res, dev_w_list and the queue of a device tell the same story: the
\* process they name is the only one blocked there, and its own command is
\* the one being executed.
OneWaiter ==
    \A d \in Dev :
        /\ s_procQ[d] = IF w_for_res[d] = NULL THEN <<>> ELSE <<w_for_res[d]>>
        /\ \A p \in Proc : dev_w_list[p] = d <=> p = w_for_res[d]
        /\ Queued(d) \subseteq issued

\* terminate_proc never panics, and never frees a PCB that is still linked:
\* whatever devices a process has used, the pointer to w_for_res that would
\* mislead recursive_remove_proc (scheduler.c:295) is gone when the process
\* runs again.
KillsSucceed == pc \notin {"TreeBroken", "NotFound", "corrupt"}

\* Every WAITIO returns, however often processes are created, preempted and
\* killed meanwhile, with the status of the command whether it ended well or
\* not.  A terminal is the exception: one whose command ends in an error is not
\* served (interrupts.c:48-53, against print() in p2test_bikaya_v0.1.c:169-170,
\* which tests for such a status) and keeps its caller; it must not keep those
\* that wait for other devices.
IoReturns ==
    \A d \in Dev, p \in Proc :
        p \in Queued(d) ~> p \notin Queued(d) \/ (d \in Term /\ dev_status[d] = "error")
=============================================================================
