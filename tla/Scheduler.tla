----------------------------- MODULE Scheduler -----------------------------
(***************************************************************************)
(* The process layer of the kernel: the PCB pool, the process tree, the    *)
(* ready queue, the semaphores with their descriptor pool (ASL), and the   *)
(* operations of scheduler.c on them.                                      *)
(*                                                                         *)
(* The kernel runs with interrupts off, so a system call or an interrupt   *)
(* handler is one step.  The exception is terminate_proc, whose recursion  *)
(* is stepped through: "frames" holds the PCBs of its active calls, the    *)
(* innermost first, and no other action is enabled until it returns.       *)
(*                                                                         *)
(* Devices belong to module Nucleus; this module has the two fields that   *)
(* recursive_remove_proc reads, dev_w_list and w_for_res.                  *)
(***************************************************************************)
EXTENDS ProcQueue, FiniteSets

CONSTANTS
    MAXPROC,     \* size of pcbFree_table and of semd_table (const.h:11)
    Sem,         \* addresses the processes use as semaphores
    Dev,         \* device waiting lists; stands for &w_for_cmd_sem too
    Priorities,  \* priorities a process may be created with
    MAXSEM,      \* bound: no V on a semaphore that holds this value
    MAXPRIO,     \* bound: no aging of a process that has this priority
    NULL

Proc == 0 .. MAXPROC - 1    \* indices of pcbFree_table
idle_proc == MAXPROC        \* get_proc_index(&idle_proc)
Pcb == Proc \cup {idle_proc}
Key == Sem \cup Dev

ASSUME MaxProcAssumption == MAXPROC \in Nat \ {0}
ASSUME PriorityAssumption == Priorities \subseteq Nat
ASSUME BoundAssumption == MAXSEM \in Nat /\ MAXPRIO \in Nat
ASSUME KeyAssumption == NULL \notin Pcb \cup Key /\ Sem \cap Dev = {}

VARIABLES
    pc,                 \* where the kernel is, or how it stopped
    pcbFree,            \* pcbFree_h, first to last
    ready_queue,
    running_proc,
    priority,
    original_priority,
    p_semkey,
    dev_w_list,         \* the w_for_res the PCB points to, by its device
    p_parent,
    p_child,            \* the children, eldest first (p_child and p_sib)
    semd_h,             \* keys with a descriptor on the ASL
    s_procQ,            \* queue of each key's descriptor
    semval,             \* *semaddr
    w_for_res,          \* of each device waiting list
    frames              \* PCBs of the active recursive_remove_proc calls

pcbVars  == <<priority, original_priority, p_semkey, dev_w_list>>
treeVars == <<p_parent, p_child>>
semVars  == <<semd_h, s_procQ, semval>>
vars == <<pc, pcbFree, ready_queue, running_proc, pcbVars, treeVars, semVars,
          w_for_res, frames>>

(***************************************************************************)
(* Kernel locations.  adderrbuf prints and calls PANIC: each of its calls  *)
(* is a location the kernel never leaves.                                  *)
(***************************************************************************)
Panics == {"TooManyProcs",   \* get_free_pcb_else_panic
           "NoReadyProc",    \* launch
           "TreeBroken",     \* outChild
           "NotFound",       \* recursive_remove_proc
           "NoFreeSemd"}     \* p
Locations == {"init", "user", "remove", "children", "corrupt"} \cup Panics

InSyscall == pc = "user" /\ running_proc # idle_proc

-----------------------------------------------------------------------------
(* Dispatching *)

\* Mutant: set_running_proc without its test for NULL.
run_first_ready_Null ==
    /\ running_proc' = IF ready_queue = <<>> THEN NULL ELSE Head(ready_queue)
    /\ ready_queue' = IF ready_queue = <<>> THEN <<>> ELSE Tail(ready_queue)

\* set_running_proc(removeProcQ(&ready_queue)): NULL selects the idle process
run_first_ready ==
    /\ running_proc' = IF ready_queue = <<>> THEN idle_proc ELSE Head(ready_queue)
    /\ ready_queue' = IF ready_queue = <<>> THEN <<>> ELSE Tail(ready_queue)

\* Mutant: the process goes back with the priority it has aged to.
stop_running_proc_KeepsPriority(ready, prio) ==
    /\ ready_queue' = IF running_proc = idle_proc THEN ready
                      ELSE insertProcQ(ready, running_proc, prio)
    /\ priority' = prio

\* stop_running_proc, with the ready queue and priorities it starts from
stop_running_proc(ready, prio) ==
    LET reset == [prio EXCEPT ![running_proc] = original_priority[running_proc]]
    IN  IF running_proc = idle_proc
        THEN ready_queue' = ready /\ priority' = prio
        ELSE ready_queue' = insertProcQ(ready, running_proc, reset) /\ priority' = reset

\* Mutant: the process that loses the CPU is not stopped.
schedule_proc_NoStop(p, prio) ==
    /\ priority' = prio
    /\ IF prio[p] > prio[running_proc] \/ running_proc = idle_proc
       THEN running_proc' = p /\ UNCHANGED ready_queue
       ELSE ready_queue' = insertProcQ(ready_queue, p, prio) /\ UNCHANGED running_proc

\* Mutant: the insertion without its "else".
schedule_proc_Both(p, prio) ==
    IF prio[p] > prio[running_proc] \/ running_proc = idle_proc
    THEN /\ stop_running_proc(insertProcQ(ready_queue, p, prio), prio)
         /\ running_proc' = p
    ELSE /\ ready_queue' = insertProcQ(ready_queue, p, prio)
         /\ priority' = prio
         /\ UNCHANGED running_proc

\* Mutant: only the idle process is preempted.
schedule_proc_Queues(p, prio) ==
    IF running_proc = idle_proc
    THEN stop_running_proc(ready_queue, prio) /\ running_proc' = p
    ELSE /\ ready_queue' = insertProcQ(ready_queue, p, prio)
         /\ priority' = prio
         /\ UNCHANGED running_proc

schedule_proc(p, prio) ==
    IF prio[p] > prio[running_proc] \/ running_proc = idle_proc
    THEN stop_running_proc(ready_queue, prio) /\ running_proc' = p
    ELSE /\ ready_queue' = insertProcQ(ready_queue, p, prio)
         /\ priority' = prio
         /\ UNCHANGED running_proc

-----------------------------------------------------------------------------
(* The ASL.  A key has a descriptor when it is in semd_h; the pool has     *)
(* MAXPROC descriptors.                                                    *)

FreeSemd(k) == k \in semd_h \/ Cardinality(semd_h) < MAXPROC

\* the processes queued on k: getSemd(k)->s_procQ, if there is a descriptor
Waiters(k) == IF k \in semd_h THEN s_procQ[k] ELSE <<>>

insertBlocked(k, p) ==
    /\ semd_h' = semd_h \cup {k}
    /\ s_procQ' = [s_procQ EXCEPT ![k] = insertProcQ(Waiters(k), p, priority)]
    /\ p_semkey' = [p_semkey EXCEPT ![p] = k]

\* Mutant: p_semkey is not reset.
unlinkBlocked_KeepsKey(k, p) ==
    LET rest == outProcQ(s_procQ[k], p)
    IN  /\ s_procQ' = [s_procQ EXCEPT ![k] = rest]
        /\ semd_h' = IF rest = <<>> THEN semd_h \ {k} ELSE semd_h
        /\ UNCHANGED p_semkey

\* Mutant: the descriptor is never freed.
unlinkBlocked_KeepsSemd(k, p) ==
    /\ s_procQ' = [s_procQ EXCEPT ![k] = outProcQ(@, p)]
    /\ p_semkey' = [p_semkey EXCEPT ![p] = NULL]
    /\ UNCHANGED semd_h

\* unlinks p from the queue of k and frees the descriptor if that empties it:
\* outBlocked, and removeBlocked when p is the head
unlinkBlocked(k, p) ==
    LET rest == outProcQ(s_procQ[k], p)
    IN  /\ s_procQ' = [s_procQ EXCEPT ![k] = rest]
        /\ semd_h' = IF rest = <<>> THEN semd_h \ {k} ELSE semd_h
        /\ p_semkey' = [p_semkey EXCEPT ![p] = NULL]

-----------------------------------------------------------------------------
(* Initialization *)

Init ==
    /\ pc = "init"
    /\ pcbFree = [i \in 1 .. MAXPROC |-> i - 1]
    /\ ready_queue = <<>>
    /\ running_proc = NULL
    /\ priority = [p \in Pcb |-> 0]
    /\ original_priority = [p \in Pcb |-> 0]
    /\ p_semkey = [p \in Proc |-> NULL]
    /\ dev_w_list = [p \in Proc |-> NULL]
    /\ p_parent = [p \in Proc |-> NULL]
    /\ p_child = [p \in Proc |-> <<>>]
    /\ semd_h = {}
    /\ s_procQ = [k \in Key |-> <<>>]
    /\ \E value \in [Sem -> 0 .. MAXSEM] :
          semval = [k \in Key |-> IF k \in Dev THEN 1 ELSE value[k]]
    /\ w_for_res = [d \in Dev |-> NULL]
    /\ frames = <<>>

\* allocPcb, and the priorities its callers then give the PCB.  It resets
\* every field but dev_w_list.
allocPcb(p, prio) ==
    /\ pcbFree # <<>> /\ p = Head(pcbFree)
    /\ pcbFree' = Tail(pcbFree)
    /\ original_priority' = [original_priority EXCEPT ![p] = prio]
    /\ p_semkey' = [p_semkey EXCEPT ![p] = NULL]
    /\ UNCHANGED dev_w_list

\* one iteration of the loop of init_scheduler
init_proc(prio) ==
    /\ pc = "init"
    /\ \/ \E p \in Proc :
             /\ allocPcb(p, prio)
             /\ priority' = [priority EXCEPT ![p] = prio]
             /\ p_parent' = [p_parent EXCEPT ![p] = NULL]
             /\ p_child' = [p_child EXCEPT ![p] = <<>>]
             /\ ready_queue' = insertProcQ(ready_queue, p, priority')
             /\ UNCHANGED pc
       \/ /\ pcbFree = <<>>
          /\ pc' = "TooManyProcs"
          /\ UNCHANGED <<pcbFree, pcbVars, treeVars, ready_queue>>
    /\ UNCHANGED <<running_proc, semVars, w_for_res, frames>>

launch ==
    /\ pc = "init"
    /\ IF ready_queue = <<>>
       THEN pc' = "NoReadyProc" /\ UNCHANGED <<ready_queue, running_proc>>
       ELSE pc' = "user" /\ run_first_ready
    /\ UNCHANGED <<pcbFree, pcbVars, treeVars, semVars, w_for_res, frames>>

-----------------------------------------------------------------------------
(* System calls and the interval timer *)

\* With no free PCB the call returns -1 and changes nothing.
create_process(prio) ==
    /\ InSyscall
    /\ \/ \E p \in Proc :
             /\ allocPcb(p, prio)
             /\ p_parent' = [p_parent EXCEPT ![p] = running_proc]
             /\ p_child' = [p_child EXCEPT ![p] = <<>>, ![running_proc] = Append(@, p)]
             /\ schedule_proc(p, [priority EXCEPT ![p] = prio])
       \/ /\ pcbFree = <<>>
          /\ UNCHANGED <<pcbFree, pcbVars, treeVars, ready_queue, running_proc>>
    /\ UNCHANGED <<pc, semVars, w_for_res, frames>>

\* Mutant: the value does not go up again when the process blocks.
passeren_KeepsDecrement(k) ==
    /\ InSyscall
    /\ semval' = [semval EXCEPT ![k] = @ - 1]
    /\ \/ /\ semval[k] > 0
          /\ UNCHANGED <<pc, ready_queue, running_proc, p_semkey, semd_h, s_procQ>>
       \/ /\ semval[k] <= 0 /\ FreeSemd(k)
          /\ insertBlocked(k, running_proc)
          /\ run_first_ready
          /\ UNCHANGED pc
    /\ UNCHANGED <<pcbFree, priority, original_priority, dev_w_list, treeVars,
                   w_for_res, frames>>

\* p(): the value goes down and, if the process blocks, up again
passeren(k) ==
    /\ InSyscall
    /\ \/ /\ semval[k] > 0
          /\ semval' = [semval EXCEPT ![k] = @ - 1]
          /\ UNCHANGED <<pc, ready_queue, running_proc, p_semkey, semd_h, s_procQ>>
       \/ /\ semval[k] <= 0
          /\ IF FreeSemd(k)
             THEN /\ insertBlocked(k, running_proc)
                  /\ run_first_ready
                  /\ UNCHANGED <<pc, semval>>
             ELSE /\ semval' = [semval EXCEPT ![k] = @ - 1]
                  /\ pc' = "NoFreeSemd"
                  /\ UNCHANGED <<ready_queue, running_proc, p_semkey, semd_h, s_procQ>>
    /\ UNCHANGED <<pcbFree, priority, original_priority, dev_w_list, treeVars,
                   w_for_res, frames>>

\* PRIORITY_INC_PER_TIME_SLICE for every process of a set
MayAge(procs) == \A p \in procs : priority[p] < MAXPRIO

\* Mutant: nobody ages.
aged_Nobody(procs) == priority

aged(procs) == [p \in Pcb |-> IF p \in procs THEN priority[p] + 1 ELSE priority[p]]

\* Mutant: every waiter gets its original priority back.
wakeup_priorities_All(woken, left) ==
    [p \in Pcb |-> IF p \in left \cup {woken} THEN original_priority[p] ELSE priority[p]]

\* the first waiter gets its original priority back, those left behind age
wakeup_priorities(woken, left) == [aged(left) EXCEPT ![woken] = original_priority[woken]]

\* v(): the first waiter is scheduled; the value goes up only without a waiter
verhogen(k) ==
    /\ InSyscall
    /\ \/ /\ Waiters(k) = <<>> /\ semval[k] < MAXSEM
          /\ semval' = [semval EXCEPT ![k] = @ + 1]
          /\ UNCHANGED <<ready_queue, running_proc, priority, p_semkey, semd_h, s_procQ>>
       \/ /\ Waiters(k) # <<>>
          /\ LET woken == Head(Waiters(k))
                 left  == Range(Tail(Waiters(k)))
             IN  /\ MayAge(left)
                 /\ unlinkBlocked(k, woken)
                 /\ schedule_proc(woken, wakeup_priorities(woken, left))
          /\ UNCHANGED semval
    /\ UNCHANGED <<pc, pcbFree, original_priority, dev_w_list, treeVars, w_for_res, frames>>

\* every ready process ages by one; the first of them takes the CPU if its
\* priority is now at least that of the running process
time_slice_callback ==
    /\ pc = "user"
    /\ MayAge(Range(ready_queue))
    /\ LET prio == aged(Range(ready_queue))
           preempt == /\ ready_queue # <<>>
                      /\ prio[running_proc] <= prio[Head(ready_queue)]
       IN  \/ /\ preempt
              /\ stop_running_proc(Tail(ready_queue), prio)
              /\ running_proc' = Head(ready_queue)
           \/ /\ ~preempt
              /\ priority' = prio
              /\ UNCHANGED <<ready_queue, running_proc>>
    /\ UNCHANGED <<pc, pcbFree, original_priority, p_semkey, dev_w_list, treeVars,
                   semVars, w_for_res, frames>>

-----------------------------------------------------------------------------
(* Termination.  terminate_proc enters, recursive_remove_proc and its loop *)
(* over removeChild alternate, terminate_return chooses who runs next.     *)

\* freePcb
freePcb(p) == pcbFree' = <<p>> \o pcbFree

\* Mutant: p stays in its parent's list.
outChild_KeepsChild(p) ==
    /\ p_parent' = [p_parent EXCEPT ![p] = NULL]
    /\ UNCHANGED p_child

\* outChild(p), called when p_parent[p] # NULL.  For the eldest child it is
\* removeChild(parent); for another the unlinked PCB keeps its p_parent.
\* A p that left its parent's list earlier, free by now, is unlinked from
\* nothing here; the code writes through its stale p_sib (pcb.c:190), which
\* only module PcbPointers has.
outChild(p) ==
    LET parent == p_parent[p]
    IN  /\ p_child' = [p_child EXCEPT ![parent] = outProcQ(@, p)]
        /\ p_parent' = IF Head(p_child[parent]) = p
                       THEN [p_parent EXCEPT ![p] = NULL] ELSE p_parent

\* The entry, up to the first call of recursive_remove_proc.  p is the
\* running process or any PCB whose address the caller knows.
terminate_proc(p) ==
    /\ InSyscall
    /\ \/ /\ p_parent[p] # NULL
          /\ p_child[p_parent[p]] = <<>>
          /\ pc' = "TreeBroken"
          /\ UNCHANGED <<treeVars, ready_queue, frames>>
       \/ /\ IF p_parent[p] = NULL THEN UNCHANGED treeVars
             ELSE p_child[p_parent[p]] # <<>> /\ outChild(p)
          /\ ready_queue' = insertProcQ(ready_queue, running_proc, priority)
          /\ frames' = <<p>>
          /\ pc' = "remove"
    /\ UNCHANGED <<pcbFree, running_proc, pcbVars, semVars, w_for_res>>

\* recursive_remove_proc up to its loop, for the innermost frame: find the PCB
\* by its semaphore, by its device, or in the ready queue, and free it.
\* A PCB with p_semkey = NULL is linked in no semaphore queue, so the second
\* branch frees one that is still linked somewhere else.
recursive_remove_proc ==
    /\ pc = "remove"
    /\ LET p == Head(frames)
           k == p_semkey[p]
       IN  \/ /\ k # NULL /\ p \in Range(Waiters(k))
              /\ unlinkBlocked(k, p)
              /\ freePcb(p)
              /\ pc' = "children"
              /\ UNCHANGED <<ready_queue, w_for_res>>
           \/ /\ k = NULL /\ dev_w_list[p] = NULL /\ p \in Range(ready_queue)
              /\ ready_queue' = outProcQ(ready_queue, p)
              /\ freePcb(p)
              /\ pc' = "children"
              /\ UNCHANGED <<p_semkey, semd_h, s_procQ, w_for_res>>
           \/ /\ IF k = NULL THEN p \notin Range(ready_queue) \/ dev_w_list[p] # NULL
                              ELSE p \notin Range(Waiters(k))
              /\ IF k = NULL /\ dev_w_list[p] # NULL
                 THEN /\ w_for_res' = [w_for_res EXCEPT ![dev_w_list[p]] = NULL]
                      /\ freePcb(p)
                      /\ pc' = "corrupt"
                 ELSE pc' = "NotFound" /\ UNCHANGED <<pcbFree, w_for_res>>
              /\ UNCHANGED <<ready_queue, p_semkey, semd_h, s_procQ>>
    /\ UNCHANGED <<running_proc, priority, original_priority, dev_w_list, treeVars,
                   semval, frames>>

\* removeChild(p), then the recursive call on that child
remove_child ==
    /\ pc = "children" /\ p_child[Head(frames)] # <<>>
    /\ LET p == Head(frames)
           child == Head(p_child[p])
       IN  /\ p_child' = [p_child EXCEPT ![p] = Tail(@)]
           /\ p_parent' = [p_parent EXCEPT ![child] = NULL]
           /\ frames' = <<child>> \o frames
    /\ pc' = "remove"
    /\ UNCHANGED <<pcbFree, ready_queue, running_proc, pcbVars, semVars, w_for_res>>

\* an inner recursive_remove_proc returns 0 to the loop of its caller
remove_return ==
    /\ pc = "children" /\ p_child[Head(frames)] = <<>> /\ Len(frames) > 1
    /\ frames' = Tail(frames)
    /\ UNCHANGED <<pc, pcbFree, ready_queue, running_proc, pcbVars, treeVars, semVars,
                   w_for_res>>

\* the outermost one returns: terminate_proc takes the running process back
\* from the ready queue or, if it was removed, dispatches another
terminate_return ==
    /\ pc = "children" /\ p_child[Head(frames)] = <<>> /\ Len(frames) = 1
    /\ frames' = <<>>
    /\ pc' = "user"
    /\ IF running_proc \in Range(ready_queue)
       THEN ready_queue' = outProcQ(ready_queue, running_proc) /\ UNCHANGED running_proc
       ELSE run_first_ready
    /\ UNCHANGED <<pcbFree, pcbVars, treeVars, semVars, w_for_res>>

\* PANIC stops the machine; after "corrupt" the sequences no longer describe
\* the linked lists
halted ==
    /\ pc \in Panics \cup {"corrupt"}
    /\ UNCHANGED vars

terminating ==
    \/ recursive_remove_proc
    \/ remove_child
    \/ remove_return
    \/ terminate_return

starting ==
    \/ \E prio \in Priorities : init_proc(prio)
    \/ launch

semaphore_call == \E k \in Sem : passeren(k) \/ verhogen(k)

process_call ==
    \/ \E prio \in Priorities : create_process(prio)
    \/ \E p \in Proc : terminate_proc(p)

Next ==
    \/ starting
    \/ semaphore_call
    \/ process_call
    \/ time_slice_callback
    \/ terminating
    \/ halted

\* No interrupt is taken during terminate_proc: the processor goes on with it.
Spec == Init /\ [][Next]_vars /\ WF_vars(terminating)

-----------------------------------------------------------------------------
(* Properties *)

Free    == Range(pcbFree)
Ready   == Range(ready_queue)
Queued(k) == Range(s_procQ[k])
Blocked == UNION {Queued(k) : k \in Key}
Killing == pc \in {"remove", "children"}

\* The types of the state.
TypeOK ==
    /\ pc \in Locations
    /\ pcbFree \in Seq(Proc) /\ ready_queue \in Seq(Proc) /\ frames \in Seq(Proc)
    /\ running_proc \in Pcb \cup {NULL}
    /\ pc \notin {"init", "TooManyProcs", "NoReadyProc"} => running_proc # NULL
    /\ priority \in [Pcb -> Nat] /\ original_priority \in [Pcb -> Nat]
    /\ p_semkey \in [Proc -> Key \cup {NULL}]
    /\ dev_w_list \in [Proc -> Dev \cup {NULL}]
    /\ p_parent \in [Proc -> Proc \cup {NULL}]
    /\ p_child \in [Proc -> Seq(Proc)]
    /\ semd_h \subseteq Key
    /\ s_procQ \in [Key -> Seq(Proc)]
    /\ semval \in [Key -> Int]
    /\ w_for_res \in [Dev -> Proc \cup {NULL}]

\* A PCB is linked in one list at a time, whatever was created, blocked,
\* woken or killed: its single p_next is never shared by the free list, the
\* ready queue and the semaphore queues (pcb.h:11).
LinkedOnce ==
    /\ NoDuplicates(pcbFree) /\ NoDuplicates(ready_queue)
    /\ \A k \in Key : NoDuplicates(s_procQ[k])
    /\ Free \cap Ready = {} /\ Free \cap Blocked = {} /\ Ready \cap Blocked = {}
    /\ \A k, l \in Key : k # l => Queued(k) \cap Queued(l) = {}

\* Between system calls no process is lost: the PCBs that are in no list are
\* exactly the running one.  During terminate_proc there is none, since the
\* running process is kept in the ready queue (scheduler.c:152).
NoProcessLost ==
    LET unlinked == Proc \ (Free \cup Ready \cup Blocked)
    IN  /\ pc \in {"init", "user"} => unlinked = {running_proc} \cap Proc
        /\ Killing => unlinked = {}

\* p_semkey names the queue a PCB is linked in, and the ASL holds a
\* descriptor exactly for the keys with a waiter: outBlocked finds what
\* recursive_remove_proc looks for (scheduler.c:292).
SemkeyNamesQueue ==
    /\ \A p \in Proc, k \in Key : p_semkey[p] = k <=> p \in Queued(k)
    /\ semd_h = {k \in Key : s_procQ[k] # <<>>}

\* Whenever a process is on the CPU none of higher priority is ready, and the
\* idle process runs only when no one is: create_process, v, p, the timer and
\* terminate_proc each dispatch through a path of their own.
HighestPriorityRuns ==
    pc = "user" => \A q \in Ready : /\ running_proc # idle_proc
                                    /\ priority[running_proc] >= priority[q]

\* Every queue stays in decreasing order of priority, although the priorities
\* of queued processes change in place (scheduler.c:212, 226; pcb.h:73).
QueuesSorted ==
    /\ Sorted(ready_queue, priority)
    /\ \A k \in Key : Sorted(s_procQ[k], priority)

\* A process waits only at a semaphore whose value is 0: killing a waiter,
\* or handing a V over to one, never leaves a unit behind nor loses one.
WaitersOnlyAtZero ==
    \A k \in Sem : semval[k] >= 0 /\ (s_procQ[k] # <<>> => semval[k] = 0)

\* p never runs out of semaphore descriptors: MAXPROC of them are enough
\* (scheduler.c:193-195).
SemdAlwaysFound == pc # "NoFreeSemd"

\* The process tree between system calls: the children of a live process are
\* live and name it as parent, a live process with a parent is in that
\* parent's list, free PCBs have no children.
TreeConsistent ==
    /\ \A p \in Proc : NoDuplicates(p_child[p])
    /\ \A p, c \in Proc : c \in Range(p_child[p]) => p_parent[c] = p /\ c \notin Free
    /\ pc \in {"init", "user"} =>
          \A p \in Proc \ Free :
              p_parent[p] # NULL => p_parent[p] \notin Free /\ p \in Range(p_child[p_parent[p]])
    /\ \A p \in Free \ Range(frames) : p_child[p] = <<>>

\* terminate_proc on a live process never ends in one of its panics, however
\* its offspring is spread over the CPU, the ready queue and the semaphores;
\* they are reached only with the address of a PCB that is already free.
\* frames = <<p>>: the recursion never fails below the outermost call.
KillOfLiveSucceeds ==
    [][/\ \A p \in Proc : terminate_proc(p) /\ pc' = "TreeBroken" => p \in Free
       /\ recursive_remove_proc /\ pc' \in {"NotFound", "corrupt"}
             => Len(frames) = 1 /\ Head(frames) \in Free]_vars

\* Processes of equal priority take turns: one that enters the ready queue
\* goes behind those of its priority (pcb.c:67, strict comparison).
EqualsTakeTurns ==
    [][\A p \in Ready' \ Ready, q \in Ready :
         (pc = "user" /\ q \in Ready' /\ priority'[q] = priority'[p]) =>
            \E i, j \in DOMAIN ready_queue' :
               i < j /\ ready_queue'[i] = q /\ ready_queue'[j] = p]_vars

\* Aging is not undone by newcomers: a ready process that has aged to the
\* highest priority a process can be created with, or beyond, stays in front of
\* those that enter the queue later.  All that stop_running_proc and v queue
\* fall back to their original priority first (scheduler.c:207, 273).  One
\* does not: wait_io takes the CPU from its caller without stop_running_proc
\* (interrupts.c:68) and done_io schedules it with the priority it had
\* (interrupts.c:95), so a process back from a device overtakes if it had aged
\* further itself.
AgedNotOvertaken ==
    [][\A p \in Ready' \ Ready, q \in Ready \cap Ready' :
         (pc = "user" /\ pc' = "user" /\ \A o \in Priorities : priority[q] >= o) =>
            \/ \E i, j \in DOMAIN ready_queue' :
                  i < j /\ ready_queue'[i] = q /\ ready_queue'[j] = p
            \/ \E d \in Dev : p \in Queued(d) /\ priority[p] > priority[q]]_vars

\* The priority of a waiting process only grows while it waits: it is reset
\* to the original only by leaving the queue (scheduler.c:207, 273).
WaitingNeverDemotes ==
    [][/\ \A p \in Ready \cap Ready' : p # running_proc => priority'[p] >= priority[p]
       /\ \A k \in Key : \A p \in Queued(k) :
             p \in Queued(k)' => priority'[p] >= priority[p]]_vars
=============================================================================
