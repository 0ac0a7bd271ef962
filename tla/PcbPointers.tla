---------------------------- MODULE PcbPointers ----------------------------
(***************************************************************************)
(* The pointers behind the sequences of Scheduler: the list_heads of pcb.c *)
(* and asl.c, and what each function does to them.  Every step is a step   *)
(* of Scheduler with the pointer operations of the functions it stands     *)
(* for; they look at pointers, keys and priorities only.  The properties   *)
(* say that the pointers read as the sequences.                            *)
(***************************************************************************)
EXTENDS Scheduler, ListX

VARIABLES
    mem,        \* list_heads of pcbFree_table, semd_table and the sentinels
    s_key       \* of each descriptor

ptrVars == <<vars, mem, s_key>>

\* Addresses.  container_of is Owner: each address names the structure it is in.
Semd == 0 .. MAXPROC - 1
pcbFree_h   == <<"pcbFree_h", 0>>
ready_h     == <<"ready_queue", 0>>
semdFree_h  == <<"semdFree_h", 0>>
asl_h       == <<"semd_h", 0>>
p_next(p)   == <<"p_next", p>>
child_of(p) == <<"p_child", p>>
p_sib(p)    == <<"p_sib", p>>
s_next(i)   == <<"s_next", i>>
procQ(i)    == <<"s_procQ", i>>
Owner(address) == address[2]

Address == {pcbFree_h, ready_h, semdFree_h, asl_h}
           \cup {p_next(p) : p \in Proc} \cup {child_of(p) : p \in Proc} \cup {p_sib(p) : p \in Proc}
           \cup {s_next(i) : i \in Semd} \cup {procQ(i) : i \in Semd}

\* no list_head is at NULL
ASSUME PtrAssumption == NULL \notin Address

\* the structures on a list, first to last
on(m, head) == LET list == entries(m, head, MAXPROC)
               IN  [i \in DOMAIN list |-> Owner(list[i])]

-----------------------------------------------------------------------------
(* pcb.c: queues *)

freePcb_ptr(m, p) == list_add(m, p_next(p), pcbFree_h)

allocPcb_ptr(m) ==
    LET first == m[pcbFree_h].next
        p     == Owner(first)
        reset == [list_del(m, first) EXCEPT ![child_of(p)] = [next |-> NULL, prev |-> NULL]]
    IN  INIT_LIST_HEAD(INIT_LIST_HEAD(reset, p_next(p)), p_sib(p))

\* Mutant: behind the first PCB of lower priority.
insertProcQ_ptr_After(m, head, p, prio) ==
    LET queue == on(m, head)
        at    == SelectInSeq(queue, LAMBDA t : prio[p] > prio[t])
    IN  IF at = 0 THEN list_add_tail(m, p_next(p), head)
        ELSE list_add(m, p_next(p), p_next(queue[at]))

\* in front of the first PCB of lower priority, at its prev
insertProcQ_ptr(m, head, p, prio) ==
    LET queue == on(m, head)
        at    == SelectInSeq(queue, LAMBDA t : prio[p] > prio[t])
    IN  IF at = 0 THEN list_add_tail(m, p_next(p), head)
        ELSE LET target == p_next(queue[at])
             IN  list_add_between(m, p_next(p), m[target].prev, target)

removeProcQ_ptr(m, head) == IF list_empty(m, head) THEN m ELSE list_del(m, m[head].next)

outProcQ_ptr(m, head, p) == IF p \in Range(on(m, head)) THEN list_del(m, p_next(p)) ELSE m

-----------------------------------------------------------------------------
(* pcb.c: tree.  The eldest child hangs from p_child of its parent, and is *)
(* the sentinel of the list of its siblings.                               *)

emptyChild(m, p) == m[child_of(p)].next = NULL
eldest(m, p) == Owner(m[child_of(p)].next)

insertChild(m, prnt, p) ==
    IF emptyChild(m, prnt)
    THEN INIT_LIST_HEAD([m EXCEPT ![child_of(prnt)].next = child_of(p),
                                  ![child_of(p)].prev = child_of(prnt)], p_sib(p))
    ELSE [list_add_tail(m, p_sib(p), p_sib(eldest(m, prnt))) EXCEPT ![child_of(p)].next = NULL]

\* Mutant: the next sibling does not become the eldest.
removeChild_DropsAll(m, p) == [m EXCEPT ![child_of(p)].next = NULL]

removeChild(m, p) ==
    LET first == eldest(m, p)
        freed == [m EXCEPT ![child_of(first)].prev = NULL]
    IN  IF emptyChild(m, p) THEN m
        ELSE IF list_empty(freed, p_sib(first)) THEN [freed EXCEPT ![child_of(p)].next = NULL]
        ELSE LET second == Owner(freed[p_sib(first)].next)
             IN  list_del([freed EXCEPT ![child_of(p)].next = child_of(second),
                                        ![child_of(second)].prev = child_of(p)], p_sib(first))

\* called with p_parent[p] # NULL
outChild_ptr(m, p) ==
    LET parent == p_parent[p]
    IN  IF emptyChild(m, parent) THEN m
        ELSE IF eldest(m, parent) = p THEN removeChild(m, parent)
        ELSE list_del(m, p_sib(p))

-----------------------------------------------------------------------------
(* asl.c *)

\* the descriptor of k, or NULL
getSemd(m, k) ==
    LET at == SelectInSeq(on(m, asl_h), LAMBDA i : s_key[i] = k)
    IN  IF at = 0 THEN NULL ELSE on(m, asl_h)[at]

\* retrieve_free_semd for k: the descriptor, and the heap with it on the ASL
free_semd(m) == Owner(m[semdFree_h].next)
retrieve_free_semd(m) ==
    LET first == m[semdFree_h].next
    IN  INIT_LIST_HEAD(list_add(list_del(m, first), first, asl_h), procQ(Owner(first)))

insertBlocked_ptr(m, k, p) ==
    IF getSemd(m, k) # NULL
    THEN /\ mem' = removeProcQ_ptr(insertProcQ_ptr(m, procQ(getSemd(m, k)), p, priority), ready_h)
         /\ UNCHANGED s_key
    ELSE IF list_empty(m, semdFree_h) THEN UNCHANGED <<mem, s_key>>
    ELSE LET i == free_semd(m)
         IN  /\ mem' = removeProcQ_ptr(insertProcQ_ptr(retrieve_free_semd(m), procQ(i), p, priority),
                                       ready_h)
             /\ s_key' = [s_key EXCEPT ![i] = k]

\* Mutant: the first descriptor of the ASL is taken for the empty one.
freeSemdIfEmpty_First(m, i) ==
    LET first == m[asl_h].next
    IN  IF list_empty(m, procQ(i)) THEN list_add(list_del(m, first), first, semdFree_h) ELSE m

freeSemdIfEmpty(m, i) ==
    IF list_empty(m, procQ(i)) THEN list_add(list_del(m, s_next(i)), s_next(i), semdFree_h) ELSE m

removeBlocked(m, k) ==
    LET i == getSemd(m, k)
    IN  IF i = NULL THEN m
        ELSE IF list_empty(m, procQ(i)) THEN m
        ELSE freeSemdIfEmpty(removeProcQ_ptr(m, procQ(i)), i)

outBlocked(m, p) ==
    LET i == getSemd(m, p_semkey[p])
    IN  IF i = NULL THEN m ELSE freeSemdIfEmpty(outProcQ_ptr(m, procQ(i), p), i)

-----------------------------------------------------------------------------
(* Initialization: initPcbs, initASL, init_scheduler                       *)

zeroed == [a \in Address |-> [next |-> NULL, prev |-> NULL]]

initPcbs(m) ==
    LET freed[i \in 0 .. MAXPROC] ==
            IF i = 0 THEN INIT_LIST_HEAD(m, pcbFree_h) ELSE freePcb_ptr(freed[i - 1], MAXPROC - i)
    IN  freed[MAXPROC]

initASL(m) ==
    LET added[i \in 0 .. MAXPROC] ==
            IF i = 0 THEN INIT_LIST_HEAD(INIT_LIST_HEAD(m, asl_h), semdFree_h)
            ELSE list_add(INIT_LIST_HEAD(INIT_LIST_HEAD(added[i - 1], s_next(i - 1)), procQ(i - 1)),
                          s_next(i - 1), semdFree_h)
    IN  added[MAXPROC]

PtrInit ==
    /\ Init
    /\ mem = INIT_LIST_HEAD(initASL(initPcbs(zeroed)), ready_h)
    /\ s_key = [i \in Semd |-> NULL]

-----------------------------------------------------------------------------
(* The steps of Scheduler, on the pointers                                 *)

stop_running_proc_ptr(m, prio) ==
    IF running_proc = idle_proc THEN m
    ELSE insertProcQ_ptr(m, ready_h, running_proc,
                         [prio EXCEPT ![running_proc] = original_priority[running_proc]])

schedule_proc_ptr(m, p, prio) ==
    IF prio[p] > prio[running_proc] \/ running_proc = idle_proc
    THEN stop_running_proc_ptr(m, prio)
    ELSE insertProcQ_ptr(m, ready_h, p, prio)

init_proc_ptr(prio) ==
    /\ init_proc(prio)
    /\ mem' = IF list_empty(mem, pcbFree_h) THEN mem
              ELSE insertProcQ_ptr(allocPcb_ptr(mem), ready_h, Owner(mem[pcbFree_h].next), priority')
    /\ UNCHANGED s_key

launch_ptr ==
    /\ launch
    /\ mem' = removeProcQ_ptr(mem, ready_h)
    /\ UNCHANGED s_key

create_process_ptr(prio) ==
    /\ create_process(prio)
    /\ LET p == Owner(mem[pcbFree_h].next)
       IN  mem' = IF list_empty(mem, pcbFree_h) THEN mem
                  ELSE schedule_proc_ptr(insertChild(allocPcb_ptr(mem), running_proc, p), p,
                                         [priority EXCEPT ![p] = prio])
    /\ UNCHANGED s_key

passeren_ptr(k) ==
    /\ passeren(k)
    /\ IF semval[k] > 0 THEN UNCHANGED <<mem, s_key>> ELSE insertBlocked_ptr(mem, k, running_proc)

verhogen_ptr(k) ==
    /\ verhogen(k)
    /\ LET i     == getSemd(mem, k)
           queue == on(mem, procQ(i))
       IN  mem' = IF i = NULL THEN mem
                  ELSE schedule_proc_ptr(removeBlocked(mem, k), Head(queue),
                                         wakeup_priorities(Head(queue), Range(Tail(queue))))
    /\ UNCHANGED s_key

time_slice_ptr ==
    /\ time_slice_callback
    /\ LET ready == on(mem, ready_h)
           prio  == aged(Range(ready))
       IN  mem' = IF ready # <<>> /\ prio[running_proc] <= prio[Head(ready)]
                  THEN stop_running_proc_ptr(removeProcQ_ptr(mem, ready_h), prio) ELSE mem
    /\ UNCHANGED s_key

\* p_sib of a PCB that is free already may be stale: its list_del comes before
\* recursive_remove_proc finds out
terminate_proc_ptr(p) ==
    /\ terminate_proc(p)
    /\ mem' = IF p_parent[p] = NULL
              THEN insertProcQ_ptr(mem, ready_h, running_proc, priority)
              ELSE IF emptyChild(mem, p_parent[p]) THEN mem
              ELSE insertProcQ_ptr(outChild_ptr(mem, p), ready_h, running_proc, priority)
    /\ UNCHANGED s_key

recursive_remove_ptr ==
    /\ recursive_remove_proc
    /\ LET p       == Head(frames)
           removed == IF p_semkey[p] # NULL THEN outBlocked(mem, p)
                      ELSE IF dev_w_list[p] # NULL THEN mem
                      ELSE outProcQ_ptr(mem, ready_h, p)
       IN  mem' = IF pc' = "NotFound" THEN removed ELSE freePcb_ptr(removed, p)
    /\ UNCHANGED s_key

remove_child_ptr ==
    /\ remove_child
    /\ mem' = removeChild(mem, Head(frames))
    /\ UNCHANGED s_key

terminate_return_ptr ==
    /\ terminate_return
    /\ mem' = IF running_proc \in Range(on(mem, ready_h)) THEN outProcQ_ptr(mem, ready_h, running_proc)
              ELSE removeProcQ_ptr(mem, ready_h)
    /\ UNCHANGED s_key

no_pointers == (remove_return \/ halted) /\ UNCHANGED <<mem, s_key>>

PtrNext ==
    \/ \E prio \in Priorities : init_proc_ptr(prio) \/ create_process_ptr(prio)
    \/ \E k \in Sem : passeren_ptr(k) \/ verhogen_ptr(k)
    \/ \E p \in Proc : terminate_proc_ptr(p)
    \/ launch_ptr
    \/ time_slice_ptr
    \/ recursive_remove_ptr
    \/ remove_child_ptr
    \/ terminate_return_ptr
    \/ no_pointers

PtrSpec == PtrInit /\ [][PtrNext]_ptrVars

-----------------------------------------------------------------------------
(* Properties *)

\* The free list and the ready queue, walked through p_next, are the queues
\* that Scheduler keeps, in the same order, and intact both ways.  list_del
\* leaves the pointers of the unlinked PCB as they were (listx.h:158): they
\* must never be followed before the PCB is linked again.
QueuesAgree ==
    /\ on(mem, pcbFree_h) = pcbFree /\ Circular(mem, pcbFree_h, MAXPROC)
    /\ on(mem, ready_h) = ready_queue /\ Circular(mem, ready_h, MAXPROC)

\* Every semaphore descriptor is on the ASL or on the free list; the ones on
\* the ASL have different keys, and hold the waiters of their key in order.
\* s_next is one link for both lists, and freeSemdIfEmpty moves it after each
\* removal (asl.c:86).
SemdsAgree ==
    LET active == on(mem, asl_h)
        free   == on(mem, semdFree_h)
    IN  /\ NoDuplicates(active \o free) /\ Range(active \o free) = Semd
        /\ Circular(mem, asl_h, MAXPROC) /\ Circular(mem, semdFree_h, MAXPROC)
        /\ Len(active) = Cardinality(semd_h)
        /\ \A i \in Range(active) : /\ s_key[i] \in semd_h
                                    /\ on(mem, procQ(i)) = s_procQ[s_key[i]]
                                    /\ Circular(mem, procQ(i), MAXPROC)
        /\ \A k \in semd_h : getSemd(mem, k) # NULL

\* The children of p that the pointers lead to: the eldest and its siblings.
childrenOf(p) ==
    IF emptyChild(mem, p) THEN <<>> ELSE <<eldest(mem, p)>> \o on(mem, p_sib(eldest(mem, p)))

\* The eldest child is the sentinel of its siblings and hands that role on when
\* it leaves (pcb.c:116-118): the pointers still read as the children of each
\* process.  Only a kill of a PCB that is free already may touch the siblings
\* it once had, and that kill ends in a panic.
TreeAgrees ==
    pc \in Panics \/ (pc = "remove" /\ Head(frames) \in Free) \/
    \A p \in Proc :
        /\ childrenOf(p) = p_child[p]
        /\ p_child[p] # <<>> => /\ Circular(mem, p_sib(eldest(mem, p)), MAXPROC)
                               /\ mem[child_of(eldest(mem, p))].prev = child_of(p)
=============================================================================
