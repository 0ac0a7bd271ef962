------------------------------ MODULE Nucleus ------------------------------
(***************************************************************************)
(* The kernel with its external devices: WAITIO (wait_io) and the device   *)
(* interrupts (done_io), over the processes and semaphores of Scheduler.   *)
(*                                                                         *)
(* A device d is its waiting list: semval[d] is w_for_cmd_sem, the queue   *)
(* of key d holds the processes blocked on it, the one whose command is    *)
(* being executed included, and w_for_res[d] names the latter.             *)
(*                                                                         *)
(* The devices themselves belong to the machine.  consume_interrupts       *)
(* serves all pending interrupts in one run of the handler; here each is   *)
(* a step, as when the next one arrives just after the handler returns.    *)
(* Devices driven without WAITIO are left out.                             *)
(***************************************************************************)
EXTENDS Scheduler

CONSTANT Term       \* the devices that are terminals

ASSUME TermAssumption == Term \subseteq Dev

VARIABLES
    dev_status,     \* of each device: "ready", "busy", "done" or "error"
    issued          \* history: the last WAITIO command of these PCBs was sent

devVars == <<dev_status, issued>>
nucleusVars == <<vars, devVars>>

NucleusInit ==
    /\ Init
    /\ dev_status = [d \in Dev |-> "ready"]
    /\ issued = {}

\* a command starts the device
send_command(d) == dev_status' = [dev_status EXCEPT ![d] = "busy"]

\* Mutant: p_semkey is not set.
insertBlockedFifo_NoKey(k, p) ==
    /\ semd_h' = semd_h \cup {k}
    /\ s_procQ' = [s_procQ EXCEPT ![k] = Append(Waiters(k), p)]
    /\ UNCHANGED p_semkey

\* As insertBlocked, but at the tail.
insertBlockedFifo(k, p) ==
    /\ semd_h' = semd_h \cup {k}
    /\ s_procQ' = [s_procQ EXCEPT ![k] = Append(Waiters(k), p)]
    /\ p_semkey' = [p_semkey EXCEPT ![p] = k]

\* WAITIO.  Without a free descriptor the process is linked nowhere: wait_io
\* does not look at what insertBlocked and insertBlockedFifo return.
wait_io(d) ==
    /\ InSyscall
    /\ run_first_ready
    /\ \/ /\ semval[d] <= 0
          /\ IF FreeSemd(d) THEN insertBlocked(d, running_proc)
             ELSE UNCHANGED <<semd_h, s_procQ, p_semkey>>
          /\ issued' = issued \ {running_proc}
          /\ UNCHANGED <<semval, dev_w_list, w_for_res, dev_status>>
       \/ /\ semval[d] > 0
          /\ semval' = [semval EXCEPT ![d] = @ - 1]
          /\ IF FreeSemd(d) THEN insertBlockedFifo(d, running_proc)
             ELSE UNCHANGED <<semd_h, s_procQ, p_semkey>>
          /\ send_command(d)
          /\ w_for_res' = [w_for_res EXCEPT ![d] = running_proc]
          /\ dev_w_list' = [dev_w_list EXCEPT ![running_proc] = d]
          /\ issued' = issued \cup {running_proc}
    /\ UNCHANGED <<pc, pcbFree, priority, original_priority, treeVars, frames>>

\* The device ends its command, well or not, and raises its interrupt.
device_ends(d) ==
    /\ dev_status[d] = "busy"
    /\ dev_status' \in {[dev_status EXCEPT ![d] = s] : s \in {"done", "error"}}
    /\ UNCHANGED <<vars, issued>>

\* Mutant: only a command that ended well is served.
Served_DoneOnly(d) == dev_status[d] = "done"

\* The test of consume_interrupts on device d: a terminal is served only in
\* status TERM_ST_DONE, another device whatever its status.
Served(d) == dev_status[d] = "done" \/ (dev_status[d] = "error" /\ d \notin Term)

\* Mutant: w_for_cmd_sem is not released.
next_command_KeepsSem(d, left, list) ==
    /\ dev_status' = [dev_status EXCEPT ![d] = IF left = <<>> THEN "ready" ELSE "busy"]
    /\ w_for_res' = [w_for_res EXCEPT ![d] = IF left = <<>> THEN NULL ELSE Head(left)]
    /\ IF left = <<>> THEN dev_w_list' = list /\ UNCHANGED issued
       ELSE /\ dev_w_list' = [list EXCEPT ![Head(left)] = d]
            /\ issued' = issued \cup {Head(left)}
    /\ UNCHANGED semval

\* Mutant: w_for_res is not reset.
next_command_KeepsWaiter(d, left, list) ==
    /\ left = <<>>
    /\ dev_status' = [dev_status EXCEPT ![d] = "ready"]
    /\ dev_w_list' = list
    /\ semval' = [semval EXCEPT ![d] = @ + 1]
    /\ UNCHANGED <<w_for_res, issued>>

\* Mutant: the PCB that is done keeps its pointer to w_for_res.
next_command_KeepsPointer(d, left, list) ==
    /\ left = <<>>
    /\ dev_status' = [dev_status EXCEPT ![d] = "ready"]
    /\ w_for_res' = [w_for_res EXCEPT ![d] = NULL]
    /\ semval' = [semval EXCEPT ![d] = @ + 1]
    /\ UNCHANGED <<dev_w_list, issued>>

\* The second half of done_io: the first of those left waiting has its command
\* sent, or the device is acknowledged and released.
next_command(d, left, list) ==
    \/ /\ left # <<>>
       /\ send_command(d)
       /\ w_for_res' = [w_for_res EXCEPT ![d] = Head(left)]
       /\ dev_w_list' = [list EXCEPT ![Head(left)] = d]
       /\ issued' = issued \cup {Head(left)}
       /\ UNCHANGED semval
    \/ /\ left = <<>>
       /\ dev_status' = [dev_status EXCEPT ![d] = "ready"]
       /\ w_for_res' = [w_for_res EXCEPT ![d] = NULL]
       /\ dev_w_list' = list
       /\ semval' = [semval EXCEPT ![d] = @ + 1]
       /\ UNCHANGED issued

\* The interrupt of d.  The head of its queue is removed, and scheduled if it
\* is the process that waited for the result.  With w_for_res[d] = NULL, which
\* only a device driven without WAITIO could meet, done_io logs and returns.
done_io(d) ==
    /\ pc = "user" /\ Served(d) /\ w_for_res[d] # NULL
    /\ LET waiting   == Waiters(d)
           done_proc == IF waiting = <<>> THEN NULL ELSE Head(waiting)
           left      == IF waiting = <<>> THEN <<>> ELSE Tail(waiting)
       IN  /\ IF waiting = <<>> THEN UNCHANGED <<p_semkey, semd_h, s_procQ>>
              ELSE unlinkBlocked(d, done_proc)
           /\ IF done_proc = w_for_res[d]
              THEN /\ schedule_proc(done_proc, priority)
                   /\ next_command(d, left, [dev_w_list EXCEPT ![done_proc] = NULL])
              ELSE /\ UNCHANGED <<ready_queue, running_proc, priority>>
                   /\ next_command(d, left, dev_w_list)
    /\ UNCHANGED <<pc, pcbFree, original_priority, treeVars, frames>>

DeviceStep ==
    \/ \E d \in Dev : wait_io(d)
    \/ \E d \in Dev : device_ends(d)
    \/ \E d \in Dev : done_io(d)

NucleusNext ==
    \/ Next /\ UNCHANGED devVars
    \/ DeviceStep

\* The processor goes on with terminate_proc; a device ends every command; a
\* pending interrupt is taken as soon as a process or the idle one runs, so
\* it is not postponed for ever by system calls in between.
DeviceFairness ==
    \A d \in Dev :
        /\ WF_nucleusVars(device_ends(d))
        /\ SF_nucleusVars(done_io(d))

NucleusSpec ==
    /\ NucleusInit /\ [][NucleusNext]_nucleusVars
    /\ WF_nucleusVars(terminating /\ UNCHANGED devVars)
    /\ DeviceFairness

-----------------------------------------------------------------------------
(* Properties *)

\* The types of the state with devices.
NucleusTypeOK ==
    /\ TypeOK
    /\ dev_status \in [Dev -> {"ready", "busy", "done", "error"}]
    /\ issued \subseteq Proc

\* The software's view of a device agrees with the device: w_for_cmd_sem is 1
\* exactly when it is idle, and then no one waits for it.  In particular no
\* command is ever written to a busy device, whoever is killed or overtakes.
DeviceAgrees ==
    pc # "corrupt" => \A d \in Dev :
        /\ semval[d] = IF dev_status[d] = "ready" THEN 1 ELSE 0
        /\ w_for_res[d] = NULL <=> dev_status[d] = "ready"
        /\ dev_status[d] = "ready" => Queued(d) = {}

\* Up to the one case where a PCB is freed while it is still linked, the PCB
\* lists stay sound with devices too: a process that done_io drops is in no
\* list, never in two.
LinkedUntilCorrupt == pc # "corrupt" => LinkedOnce

\* "else the process was terminated in the meanwhile" (interrupts.c:99): when
\* the head of the queue is not the process that waited for the result, the
\* latter is no longer in the queue.
ElseMeansTerminated ==
    [][\A d \in Dev : done_io(d) /\ Waiters(d) # <<>> /\ Head(Waiters(d)) # w_for_res[d]
                         => w_for_res[d] \notin Queued(d)]_nucleusVars

\* A process leaves the queue of a device to run again, or because it is
\* killed: done_io never drops one that waits for its turn.  "when the device
\* is done with the first command, sends the cmd for the first proc in the
\* sem queue" (scheduler.h:18).
NoWaiterDropped ==
    [][\A d \in Dev : \A p \in Queued(d) :
          done_io(d) => p \in Queued(d)' \/ p \in Ready' \/ p = running_proc']_nucleusVars

\* A device interrupt, also one for an error, is served in the end: "it is
\* done with the current command or it has raised some error"
\* (interrupts.c:5).
ErrorServed == \A d \in Dev : dev_status[d] = "error" ~> dev_status[d] # "error"
=============================================================================
