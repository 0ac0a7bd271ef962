----------------------- MODULE SchedulerOrder_proofs -----------------------
(***************************************************************************)
(* Proofs about the priorities of module Scheduler: the order of every     *)
(* queue, who runs, and what a step may do to those that wait.             *)
(***************************************************************************)
EXTENDS Scheduler_proofs

\* No ready process has a higher priority than the one dispatched, and the
\* idle process is dispatched only when none is ready.
RunsFirst ==
    \A q \in Ready : running_proc # idle_proc /\ priority[running_proc] >= priority[q]

\* The queues that are kept in order of priority.  Those of devices are left
\* out: WAITIO puts the process whose command it sends at the tail.
SemsSorted ==
    /\ Sorted(ready_queue, priority)
    /\ \A k \in Sem : Sorted(s_procQ[k], priority)

\* The inductive invariant of the order.  A kill returns to the process it
\* left running without looking at priorities (scheduler.c:155), so RunsFirst
\* has to hold all through it; a process that loses the CPU falls back to its
\* original priority, so that one must never be the higher.
OrderInv ==
    /\ LinkInv
    /\ SemsSorted
    /\ pc = "user" \/ Killing => RunsFirst
    /\ \A p \in Pcb : original_priority[p] <= priority[p]
    /\ \A p \in Proc \ Free : original_priority[p] \in Priorities

-----------------------------------------------------------------------------
(* The operations on queues, and the order of priority. *)

\* A queue stays in order when the priorities of its members change together.
LEMMA SortedTransfer ==
    ASSUME NEW S, NEW q \in Seq(S), NEW old, NEW new, Sorted(q, old),
           \A s, t \in Range(q) : old[s] >= old[t] => new[s] >= new[t]
    PROVE  Sorted(q, new)
<1>1. \A i \in DOMAIN q : q[i] \in Range(q)
  BY DEF Range
<1>. QED BY <1>1 DEF Sorted

\* Nothing outside the queue counts for its order.
LEMMA SortedSame ==
    ASSUME NEW S, NEW q \in Seq(S), NEW old, NEW new, Sorted(q, old),
           \A s \in Range(q) : new[s] = old[s]
    PROVE  Sorted(q, new)
<1>1. \A s, t \in Range(q) : old[s] >= old[t] => new[s] >= new[t]
  OBVIOUS
<1>. QED BY <1>1, SortedTransfer, Zenon

\* Aging the whole queue, or nobody in it, keeps the order.
LEMMA SortedAged ==
    ASSUME NEW q \in Seq(Proc), Sorted(q, priority), priority \in [Pcb -> Nat], NEW procs,
           Range(q) \subseteq procs \/ Range(q) \cap procs = {}
    PROVE  Sorted(q, aged(procs))
<1>1. \A s \in Range(q) : s \in Pcb /\ priority[s] \in Nat
  BY RangeOfSeq, ProcFacts
<1>2. \A s, t \in Range(q) : priority[s] >= priority[t] => aged(procs)[s] >= aged(procs)[t]
  BY <1>1 DEF aged
<1>. QED BY <1>2, SortedTransfer, Zenon

\* stop_running_proc: the queue stays in order, and the process that leaves
\* the CPU may only lose priority.
LEMMA StopOrder ==
    ASSUME NEW ready \in Seq(Proc), NEW prio \in [Pcb -> Nat],
           original_priority \in [Pcb -> Nat], running_proc \in Pcb,
           stop_running_proc(ready, prio),
           running_proc \notin Range(ready), Sorted(ready, prio),
           original_priority[running_proc] <= prio[running_proc]
    PROVE  /\ Sorted(ready_queue', priority')
           /\ \A t \in Pcb \ {running_proc} : priority'[t] = prio[t]
           /\ original_priority[running_proc] <= priority'[running_proc]
           /\ priority'[running_proc] <= prio[running_proc]
<1>1. CASE running_proc = idle_proc
  <2>1. ready_queue' = ready /\ priority' = prio
    BY <1>1 DEF stop_running_proc
  <2>. QED BY <2>1
<1>2. CASE running_proc # idle_proc
  <2>. DEFINE reset == [prio EXCEPT ![running_proc] = original_priority[running_proc]]
  <2>1. running_proc \in Proc
    BY <1>2, ProcFacts
  <2>2. ready_queue' = insertProcQ(ready, running_proc, reset) /\ priority' = reset
    BY <1>2 DEF stop_running_proc
  <2>3. /\ reset \in [Pcb -> Nat]
        /\ reset[running_proc] = original_priority[running_proc]
        /\ \A t \in Pcb \ {running_proc} : reset[t] = prio[t]
    OBVIOUS
  <2>. HIDE DEF reset
  <2>4. \A t \in Range(ready) : t \in Pcb \ {running_proc}
    BY RangeOfSeq, ProcFacts
  <2>5. Sorted(ready, reset)
    <3>1. \A t \in Range(ready) : reset[t] = prio[t]
      BY <2>3, <2>4
    <3>. QED BY <3>1, SortedSame, Zenon
  <2>6. \A t \in Proc : reset[t] \in Int
    BY <2>3, ProcFacts
  <2>7. Sorted(insertProcQ(ready, running_proc, reset), reset)
    BY <2>1, <2>5, <2>6, InsertProcQ
  <2>8. /\ Sorted(ready_queue', priority')
        /\ \A t \in Pcb \ {running_proc} : priority'[t] = prio[t]
    BY <2>2, <2>3, <2>7
  <2>9. priority'[running_proc] = original_priority[running_proc]
    BY <2>2, <2>3
  <2>10. original_priority[running_proc] \in Nat /\ prio[running_proc] \in Nat
    OBVIOUS
  <2>. QED BY <2>8, <2>9, <2>10
<1>. QED BY <1>1, <1>2

\* schedule_proc: of p and the running process the one that is first runs,
\* and it goes before everyone in the queue.
LEMMA ScheduleOrder ==
    ASSUME NEW p \in Proc, NEW prio \in [Pcb -> Nat],
           ready_queue \in Seq(Proc), original_priority \in [Pcb -> Nat],
           running_proc \in Pcb, schedule_proc(p, prio),
           p \notin Range(ready_queue), running_proc \notin Range(ready_queue),
           p # running_proc, Sorted(ready_queue, prio),
           original_priority[running_proc] <= prio[running_proc],
           \A q \in Range(ready_queue) :
              running_proc # idle_proc /\ prio[running_proc] >= prio[q]
    PROVE  /\ Sorted(ready_queue', priority')
           /\ \A q \in Range(ready_queue') :
                 running_proc' # idle_proc /\ priority'[running_proc'] >= priority'[q]
           /\ \A t \in Pcb \ {running_proc} : priority'[t] = prio[t]
           /\ original_priority[running_proc] <= priority'[running_proc]
<1>0. /\ p \in Pcb /\ p # idle_proc
      /\ \A q \in Range(ready_queue) : q \in Proc /\ q \in Pcb
      /\ \A t \in Pcb : prio[t] \in Nat
  BY RangeOfSeq, ProcFacts
<1>1. CASE prio[p] > prio[running_proc] \/ running_proc = idle_proc
  <2>1. stop_running_proc(ready_queue, prio) /\ running_proc' = p
    BY <1>1 DEF schedule_proc
  <2>2. /\ Sorted(ready_queue', priority')
        /\ \A t \in Pcb \ {running_proc} : priority'[t] = prio[t]
        /\ original_priority[running_proc] <= priority'[running_proc]
        /\ priority'[running_proc] <= prio[running_proc]
    BY <2>1, StopOrder
  <2>3. /\ Range(ready_queue') = Range(ready_queue) \cup OnCpu
        /\ priority' \in [Pcb -> Nat]
    BY <2>1, StopRunningProc
  <2>4. ASSUME NEW q \in Range(ready_queue') PROVE priority'[p] >= priority'[q]
    <3>1. priority'[p] = prio[p]
      BY <1>0, <2>2
    <3>2. CASE q \in Range(ready_queue)
      <4>1. /\ priority'[q] = prio[q] /\ q \in Pcb
            /\ running_proc # idle_proc /\ prio[running_proc] >= prio[q]
        BY <1>0, <2>2, <3>2
      <4>2. prio[p] > prio[running_proc]
        BY <1>1, <4>1
      <4>. QED BY <1>0, <3>1, <4>1, <4>2
    <3>3. CASE q = running_proc /\ q # idle_proc
      <4>1. prio[p] > prio[running_proc] /\ priority'[q] \in Nat
        BY <1>1, <2>3, <3>3
      <4>. QED BY <1>0, <2>2, <3>1, <3>3, <4>1
    <3>. QED BY <2>3, <2>4, <3>2, <3>3, ProcFacts DEF OnCpu
  <2>. QED BY <1>0, <2>1, <2>2, <2>4
<1>2. CASE ~(prio[p] > prio[running_proc] \/ running_proc = idle_proc)
  <2>1. /\ ready_queue' = insertProcQ(ready_queue, p, prio)
        /\ priority' = prio /\ running_proc' = running_proc
    BY <1>2 DEF schedule_proc
  <2>2. \A t \in Proc : prio[t] \in Int
    BY ProcFacts
  <2>3. /\ Range(ready_queue') = Range(ready_queue) \cup {p}
        /\ Sorted(ready_queue', priority')
    BY <2>1, <2>2, InsertProcQ
  <2>4. prio[running_proc] >= prio[p] /\ running_proc # idle_proc
    BY <1>0, <1>2
  <2>. QED BY <2>1, <2>3, <2>4
<1>. QED BY <1>1, <1>2

-----------------------------------------------------------------------------
(* Every action preserves OrderInv. *)

\* A PCB in a semaphore queue is neither free nor ready nor on the CPU.
LEMMA QueuedElsewhere ==
    ASSUME LinkInv, NEW k \in Key, NEW t \in Queued(k)
    PROVE  /\ t \in Proc /\ t \in Pcb /\ p_semkey[t] = k
           /\ t \notin Free /\ t \notin Ready
           /\ pc = "user" => t # running_proc
<1>1. t \in Proc /\ p_semkey[t] = k
  BY RangeOfSeq DEF LinkInv, TypeOK, Queued, SemkeyNamesQueue
<1>2. t \notin Unkeyed
  BY <1>1, ProcFacts DEF Unkeyed
<1>3. Free \cup Ready \subseteq Unkeyed /\ (pc = "user" => OnCpu \subseteq Unkeyed)
  BY DEF LinkInv
<1>. QED BY <1>1, <1>2, <1>3, ProcFacts DEF OnCpu

\* Steps that change no semaphore queue, nor the priority of a PCB in one.
LEMMA SemQueuesSorted ==
    ASSUME LinkInv, SemsSorted, s_procQ' = s_procQ,
           \A k \in Key : \A t \in Queued(k) : priority'[t] = priority[t]
    PROVE  \A k \in Sem : Sorted(s_procQ'[k], priority')
<1>. SUFFICES ASSUME NEW k \in Sem PROVE Sorted(s_procQ[k], priority')
  OBVIOUS
<1>1. k \in Key /\ s_procQ[k] \in Seq(Proc) /\ Sorted(s_procQ[k], priority)
  BY ProcFacts DEF LinkInv, TypeOK, SemsSorted
<1>2. \A t \in Range(s_procQ[k]) : priority'[t] = priority[t]
  BY <1>1 DEF Queued
<1>. QED BY <1>1, <1>2, SortedSame, Zenon

\* The priorities that allocPcb gives, for a PCB that was free.
LEMMA AllocOrder ==
    ASSUME OrderInv, NEW p \in Proc, NEW prio \in Priorities, allocPcb(p, prio)
    PROVE  /\ p \in Free /\ p \notin Ready /\ p \in Pcb /\ p # idle_proc
           /\ pc = "user" => p # running_proc
           /\ \A k \in Key : p \notin Queued(k)
           /\ original_priority'[p] = prio
           /\ \A t \in Pcb \ {p} : original_priority'[t] = original_priority[t]
           /\ \A t \in Proc \ Free' : original_priority'[t] \in Priorities
<1>1. LinkInv /\ prio \in Nat
  BY PriorityAssumption DEF OrderInv
<1>2. p \in Free /\ Free' = Free \ {p}
  BY <1>1, AllocPcb
<1>3. p \in Pcb /\ p # idle_proc /\ original_priority \in [Pcb -> Nat]
  BY <1>1, ProcFacts DEF LinkInv, TypeOK
<1>4. original_priority' = [original_priority EXCEPT ![p] = prio]
  BY DEF allocPcb
<1>5. p \notin Ready /\ (pc = "user" => p # running_proc) /\ \A k \in Key : p \notin Queued(k)
  BY <1>1, <1>2, QueuedElsewhere DEF LinkInv, OnCpu
<1>6. \A t \in Proc \ Free' : original_priority'[t] \in Priorities
  BY <1>2, <1>3, <1>4, ProcFacts DEF OrderInv
<1>. QED BY <1>2, <1>3, <1>4, <1>5, <1>6

LEMMA InitProcOrder ==
    ASSUME OrderInv, LinkInv', NEW prio \in Priorities, init_proc(prio) PROVE OrderInv'
<1>0. pc = "init" /\ s_procQ' = s_procQ /\ LinkInv
  BY DEF init_proc, semVars, OrderInv
<1>1. ASSUME NEW p \in Proc, allocPcb(p, prio),
             priority' = [priority EXCEPT ![p] = prio],
             ready_queue' = insertProcQ(ready_queue, p, priority'),
             UNCHANGED pc
      PROVE  OrderInv'
  <2>1. /\ p \notin Ready /\ p \in Pcb
        /\ \A k \in Key : p \notin Queued(k)
        /\ original_priority'[p] = prio
        /\ \A t \in Pcb \ {p} : original_priority'[t] = original_priority[t]
        /\ \A t \in Proc \ Free' : original_priority'[t] \in Priorities
    BY <1>1, AllocOrder
  <2>2. /\ prio \in Nat /\ priority \in [Pcb -> Nat] /\ priority'[p] = prio
        /\ \A t \in Pcb \ {p} : priority'[t] = priority[t]
        /\ \A t \in Proc : priority'[t] \in Int
    <3>1. prio \in Nat /\ priority \in [Pcb -> Nat]
      BY <1>0, PriorityAssumption DEF LinkInv, TypeOK
    <3>. QED BY <1>1, <2>1, <3>1, ProcFacts
  <2>3. ready_queue \in Seq(Proc) /\ Sorted(ready_queue, priority)
    BY <1>0 DEF LinkInv, TypeOK, OrderInv, SemsSorted
  <2>4. \A t \in Range(ready_queue) : priority'[t] = priority[t]
    BY <2>1, <2>2, <2>3, RangeOfSeq, ProcFacts DEF Ready
  <2>5. Sorted(ready_queue, priority')
    BY <2>3, <2>4, SortedSame, Zenon
  <2>6. Sorted(ready_queue', priority')
    BY <1>1, <2>2, <2>3, <2>5, InsertProcQ
  <2>7. \A k \in Key : \A t \in Queued(k) : priority'[t] = priority[t]
    BY <1>0, <2>1, <2>2, QueuedElsewhere
  <2>8. \A k \in Sem : Sorted(s_procQ'[k], priority')
    BY <1>0, <2>7, SemQueuesSorted DEF OrderInv
  <2>9. \A t \in Pcb : original_priority'[t] <= priority'[t]
    BY <2>1, <2>2 DEF OrderInv
  <2>. QED BY <1>0, <1>1, <2>1, <2>6, <2>8, <2>9 DEF OrderInv, SemsSorted, Killing
<1>2. ASSUME pc' = "TooManyProcs",
             UNCHANGED <<pcbFree, pcbVars, treeVars, ready_queue>>
      PROVE  OrderInv'
  BY <1>0, <1>2 DEF OrderInv, SemsSorted, Killing, pcbVars, Free
<1>. QED BY <1>1, <1>2 DEF init_proc

LEMMA LaunchOrder == ASSUME OrderInv, LinkInv', launch PROVE OrderInv'
<1>0. /\ UNCHANGED <<pcbFree, pcbVars, treeVars, semVars, w_for_res, frames>>
      /\ \/ pc' = "NoReadyProc" /\ UNCHANGED <<ready_queue, running_proc>>
         \/ pc' = "user" /\ run_first_ready
  BY Zenon DEF launch
<1>1. /\ ready_queue \in Seq(Proc) /\ priority \in [Pcb -> Nat]
      /\ Sorted(ready_queue, priority)
  BY DEF OrderInv, LinkInv, TypeOK, SemsSorted
<1>2. CASE pc' = "NoReadyProc" /\ UNCHANGED <<ready_queue, running_proc>>
  BY <1>0, <1>2 DEF OrderInv, SemsSorted, Killing, pcbVars, semVars, Free
<1>3. CASE pc' = "user" /\ run_first_ready
  <2>1. /\ Sorted(ready_queue', priority)
        /\ \A q \in Range(ready_queue') :
              running_proc' # idle_proc /\ priority[running_proc'] >= priority[q]
    BY <1>1, <1>3, RunFirstReady
  <2>. QED BY <1>0, <2>1 DEF OrderInv, SemsSorted, RunsFirst, Ready, Free, pcbVars, semVars
<1>. QED BY <1>0, <1>2, <1>3

\* What the actions of a running process start from.
LEMMA UserOrder ==
    ASSUME OrderInv, pc = "user"
    PROVE  /\ LinkInv /\ running_proc \in Pcb
           /\ ready_queue \in Seq(Proc) /\ NoDuplicates(ready_queue)
           /\ priority \in [Pcb -> Nat] /\ original_priority \in [Pcb -> Nat]
           /\ Sorted(ready_queue, priority) /\ running_proc \notin Range(ready_queue)
           /\ \A q \in Range(ready_queue) :
                 /\ q \in Proc /\ q \in Pcb /\ q # running_proc
                 /\ running_proc # idle_proc /\ priority[running_proc] >= priority[q]
           /\ original_priority[running_proc] <= priority[running_proc]
<1>1. LinkInv /\ running_proc \in Pcb /\ OnCpu \cap (Free \cup Ready) = {}
  BY UserShare DEF OrderInv
<1>2. /\ ready_queue \in Seq(Proc) /\ NoDuplicates(ready_queue)
      /\ priority \in [Pcb -> Nat] /\ original_priority \in [Pcb -> Nat]
      /\ Sorted(ready_queue, priority)
  BY <1>1 DEF OrderInv, LinkInv, TypeOK, SemsSorted
<1>3. \A q \in Range(ready_queue) : q \in Proc
  BY <1>2, RangeOfSeq
<1>4. running_proc \notin Range(ready_queue)
  BY <1>1, <1>3 DEF OnCpu, Ready
<1>. QED BY <1>1, <1>2, <1>3, <1>4, ProcFacts DEF OrderInv, RunsFirst, Ready

LEMMA CreateProcessOrder ==
    ASSUME OrderInv, LinkInv', NEW prio \in Priorities, create_process(prio)
    PROVE  OrderInv'
<1>0. pc = "user" /\ pc' = pc /\ s_procQ' = s_procQ
  BY DEF create_process, InSyscall, semVars
<1>1. ASSUME NEW p \in Proc, allocPcb(p, prio), schedule_proc(p, [priority EXCEPT ![p] = prio])
      PROVE  OrderInv'
  <2>. DEFINE new == [priority EXCEPT ![p] = prio]
  <2>1. /\ p \notin Ready /\ p \in Pcb /\ p # running_proc
        /\ \A k \in Key : p \notin Queued(k)
        /\ original_priority'[p] = prio
        /\ \A t \in Pcb \ {p} : original_priority'[t] = original_priority[t]
        /\ \A t \in Proc \ Free' : original_priority'[t] \in Priorities
    BY <1>0, <1>1, AllocOrder
  <2>2. /\ LinkInv /\ running_proc \in Pcb /\ ready_queue \in Seq(Proc)
        /\ priority \in [Pcb -> Nat] /\ original_priority \in [Pcb -> Nat]
        /\ Sorted(ready_queue, priority) /\ running_proc \notin Range(ready_queue)
        /\ original_priority[running_proc] <= priority[running_proc]
        /\ \A q \in Range(ready_queue) :
              q \in Pcb /\ running_proc # idle_proc /\ priority[running_proc] >= priority[q]
    BY <1>0, UserOrder
  <2>3. /\ new \in [Pcb -> Nat] /\ new[p] = prio
        /\ \A t \in Pcb \ {p} : new[t] = priority[t]
    BY <2>1, <2>2, PriorityAssumption
  <2>4. schedule_proc(p, new)
    BY <1>1
  <2>. HIDE DEF new
  <2>5. \A t \in Range(ready_queue) : new[t] = priority[t]
    BY <2>1, <2>2, <2>3 DEF Ready
  <2>6. Sorted(ready_queue, new)
    BY <2>2, <2>5, SortedSame, Zenon
  <2>7. /\ Sorted(ready_queue', priority')
        /\ \A q \in Range(ready_queue') :
              running_proc' # idle_proc /\ priority'[running_proc'] >= priority'[q]
        /\ \A t \in Pcb \ {running_proc} : priority'[t] = new[t]
        /\ original_priority[running_proc] <= priority'[running_proc]
    <3>1. /\ p \notin Range(ready_queue)
          /\ original_priority[running_proc] <= new[running_proc]
          /\ \A q \in Range(ready_queue) :
                running_proc # idle_proc /\ new[running_proc] >= new[q]
      BY <2>1, <2>2, <2>3, <2>5 DEF Ready
    <3>. QED BY <2>1, <2>2, <2>3, <2>4, <2>6, <3>1, ScheduleOrder
  <2>8. \A k \in Key : \A t \in Queued(k) : priority'[t] = priority[t]
    BY <1>0, <2>1, <2>2, <2>3, <2>7, QueuedElsewhere
  <2>9. \A k \in Sem : Sorted(s_procQ'[k], priority')
    BY <1>0, <2>2, <2>8, SemQueuesSorted DEF OrderInv
  <2>10. \A t \in Pcb : original_priority'[t] <= priority'[t]
    <3>1. \A t \in Pcb \ {p, running_proc} : original_priority'[t] <= priority'[t]
      BY <2>1, <2>3, <2>7 DEF OrderInv
    <3>2. original_priority'[p] <= priority'[p]
      BY <2>1, <2>3, <2>7, PriorityAssumption
    <3>3. original_priority'[running_proc] <= priority'[running_proc]
      BY <2>1, <2>2, <2>7
    <3>. QED BY <3>1, <3>2, <3>3
  <2>. QED BY <2>1, <2>7, <2>9, <2>10 DEF OrderInv, SemsSorted, RunsFirst, Ready
<1>2. ASSUME UNCHANGED <<pcbFree, pcbVars, treeVars, ready_queue, running_proc>>
      PROVE  OrderInv'
  BY <1>0, <1>2 DEF OrderInv, SemsSorted, RunsFirst, Ready, Free, Killing, pcbVars
<1>. QED BY <1>1, <1>2 DEF create_process

\* insertBlocked puts the PCB where its priority belongs.
LEMMA InsertBlockedOrder ==
    ASSUME LinkInv, SemsSorted, NEW k \in Key, NEW p \in Proc, insertBlocked(k, p)
    PROVE  \A l \in Sem : Sorted(s_procQ'[l], priority)
<1>1. /\ Waiters(k) = s_procQ[k]
      /\ s_procQ \in [Key -> Seq(Proc)] /\ \A t \in Proc : priority[t] \in Int
  <2>1. Waiters(k) = s_procQ[k]
    BY WaitersQueue
  <2>2. s_procQ \in [Key -> Seq(Proc)] /\ priority \in [Pcb -> Nat]
    BY DEF LinkInv, TypeOK
  <2>. QED BY <2>1, <2>2, ProcFacts
<1>2. \A l \in Sem : l \in Key /\ Sorted(s_procQ[l], priority)
  BY ProcFacts DEF SemsSorted
<1>. DEFINE r == insertProcQ(s_procQ[k], p, priority)
<1>3. k \in Sem => Sorted(r, priority)
  BY <1>1, <1>2, InsertProcQ
<1>4. s_procQ' = [s_procQ EXCEPT ![k] = r]
  BY <1>1 DEF insertBlocked
<1>. HIDE DEF r
<1>. QED BY <1>1, <1>2, <1>3, <1>4

LEMMA PasserenOrder ==
    ASSUME OrderInv, LinkInv', NEW k \in Sem, passeren(k) PROVE OrderInv'
<1>0. /\ pc = "user" /\ running_proc \in Proc /\ k \in Key
      /\ UNCHANGED <<pcbFree, priority, original_priority>>
      /\ pc' = pc \/ pc' = "NoFreeSemd"
  BY ProcFacts, UserShare DEF passeren, InSyscall, OrderInv
<1>1. CASE UNCHANGED <<ready_queue, running_proc, p_semkey, semd_h, s_procQ>>
  BY <1>0, <1>1 DEF OrderInv, SemsSorted, RunsFirst, Ready, Free, Killing
<1>2. CASE insertBlocked(k, running_proc) /\ run_first_ready
  <2>1. /\ LinkInv /\ ready_queue \in Seq(Proc) /\ priority \in [Pcb -> Nat]
        /\ Sorted(ready_queue, priority)
    BY <1>0, UserOrder
  <2>2. \A l \in Sem : Sorted(s_procQ'[l], priority)
    BY <1>0, <1>2, <2>1, InsertBlockedOrder DEF OrderInv
  <2>3. /\ Sorted(ready_queue', priority)
        /\ \A q \in Range(ready_queue') :
              running_proc' # idle_proc /\ priority[running_proc'] >= priority[q]
    BY <1>2, <2>1, RunFirstReady
  <2>. QED BY <1>0, <2>2, <2>3 DEF OrderInv, SemsSorted, RunsFirst, Ready, Free
<1>. QED BY <1>1, <1>2 DEF passeren

\* The priorities of v: those left behind age together, the first waiter falls
\* back to its original priority, no one else is touched.
LEMMA WakeupPriorities ==
    ASSUME OrderInv, NEW k \in Key, s_procQ[k] # <<>>, NEW woken, woken = Head(s_procQ[k]),
           NEW prio, prio = wakeup_priorities(woken, Range(Tail(s_procQ[k])))
    PROVE  /\ woken \in Queued(k) /\ prio \in [Pcb -> Nat]
           /\ Range(Tail(s_procQ[k])) = Queued(k) \ {woken}
           /\ prio[woken] = original_priority[woken]
           /\ \A t \in Queued(k) \ {woken} : prio[t] = priority[t] + 1
           /\ \A t \in Pcb \ Queued(k) : prio[t] = priority[t]
<1>1. /\ LinkInv /\ s_procQ[k] \in Seq(Proc) /\ NoDuplicates(s_procQ[k])
      /\ priority \in [Pcb -> Nat] /\ original_priority \in [Pcb -> Nat]
  BY DEF OrderInv, LinkInv, TypeOK
<1>2. \A t \in Proc : priority[t] \in Int
  BY <1>1, ProcFacts
<1>3. woken \in Queued(k) /\ Range(Tail(s_procQ[k])) = Queued(k) \ {woken}
  BY <1>1, <1>2, RemoveProcQ DEF Queued
<1>4. \A t \in Queued(k) : t \in Pcb
  BY <1>1, QueuedElsewhere
<1>5. /\ aged(Queued(k) \ {woken}) \in [Pcb -> Nat]
      /\ prio = [aged(Queued(k) \ {woken}) EXCEPT ![woken] = original_priority[woken]]
  BY <1>1, <1>3, AgedType DEF wakeup_priorities
<1>. QED BY <1>1, <1>3, <1>4, <1>5 DEF aged

LEMMA VerhogenOrder ==
    ASSUME OrderInv, LinkInv', NEW k \in Sem, verhogen(k) PROVE OrderInv'
<1>0. /\ pc = "user" /\ pc' = pc /\ k \in Key
      /\ UNCHANGED <<pcbFree, original_priority>>
  BY ProcFacts DEF verhogen, InSyscall
<1>1. /\ LinkInv /\ running_proc \in Pcb /\ ready_queue \in Seq(Proc)
      /\ priority \in [Pcb -> Nat] /\ original_priority \in [Pcb -> Nat]
      /\ Sorted(ready_queue, priority) /\ running_proc \notin Range(ready_queue)
      /\ original_priority[running_proc] <= priority[running_proc]
      /\ \A q \in Range(ready_queue) :
            q \in Pcb /\ running_proc # idle_proc /\ priority[running_proc] >= priority[q]
  BY <1>0, UserOrder
<1>2. CASE UNCHANGED <<ready_queue, running_proc, priority, p_semkey, semd_h, s_procQ>>
  BY <1>0, <1>2 DEF OrderInv, SemsSorted, RunsFirst, Ready, Free, Killing
<1>3. ASSUME NEW woken, NEW prio,
             woken = Head(Waiters(k)), Waiters(k) # <<>>,
             unlinkBlocked(k, woken),
             prio = wakeup_priorities(woken, Range(Tail(Waiters(k)))),
             schedule_proc(woken, prio)
      PROVE  OrderInv'
  <2>1. Waiters(k) = s_procQ[k] /\ NoDuplicates(s_procQ[k])
    BY <1>0, <1>1, WaitersQueue
  <2>2. /\ woken \in Queued(k) /\ prio \in [Pcb -> Nat]
        /\ prio[woken] = original_priority[woken]
        /\ \A t \in Queued(k) \ {woken} : prio[t] = priority[t] + 1
        /\ \A t \in Pcb \ Queued(k) : prio[t] = priority[t]
    BY <1>0, <1>3, <2>1, WakeupPriorities
  <2>3. /\ \A l \in Key : \A t \in Queued(l) :
              /\ t \in Proc /\ t \in Pcb /\ t # running_proc /\ t \notin Ready
              /\ p_semkey[t] = l
        /\ \A t \in Queued(k) : prio[t] >= original_priority[t]
    <3>1. \A l \in Key : \A t \in Queued(l) :
             /\ t \in Proc /\ t \in Pcb /\ t # running_proc /\ t \notin Ready
             /\ p_semkey[t] = l
      BY <1>0, <1>1, QueuedElsewhere
    <3>2. ASSUME NEW t \in Queued(k) PROVE prio[t] >= original_priority[t]
      <4>1. t \in Pcb /\ original_priority[t] <= priority[t]
        BY <1>0, <3>1 DEF OrderInv
      <4>2. priority[t] \in Nat /\ original_priority[t] \in Nat
        BY <1>1, <4>1
      <4>. QED BY <2>2, <4>1, <4>2
    <3>. QED BY <3>1, <3>2
  <2>4. \A t \in Range(ready_queue) : prio[t] = priority[t]
    BY <1>0, <1>1, <2>2, <2>3 DEF Ready
  <2>5. prio[running_proc] = priority[running_proc]
    BY <1>0, <1>1, <2>2, <2>3
  <2>6. Sorted(ready_queue, prio)
    BY <1>1, <2>4, SortedSame, Zenon
  <2>7. /\ Sorted(ready_queue', priority')
        /\ \A q \in Range(ready_queue') :
              running_proc' # idle_proc /\ priority'[running_proc'] >= priority'[q]
        /\ \A t \in Pcb \ {running_proc} : priority'[t] = prio[t]
        /\ original_priority[running_proc] <= priority'[running_proc]
    <3>1. /\ woken \in Proc /\ woken \notin Range(ready_queue) /\ woken # running_proc
          /\ original_priority[running_proc] <= prio[running_proc]
          /\ \A q \in Range(ready_queue) :
                running_proc # idle_proc /\ prio[running_proc] >= prio[q]
      BY <1>0, <1>1, <2>2, <2>3, <2>4, <2>5 DEF Ready
    <3>. QED BY <1>1, <1>3, <2>2, <2>6, <3>1, ScheduleOrder
  <2>8. /\ NoDuplicates(s_procQ'[k]) /\ Range(s_procQ'[k]) = Queued(k) \ {woken}
        /\ s_procQ'[k] \in Seq(Proc) /\ Sorted(s_procQ'[k], priority)
        /\ \A l \in Key \ {k} : s_procQ'[l] = s_procQ[l]
    <3>1. TypeOK /\ woken \in Proc /\ Sorted(s_procQ[k], priority)
      BY <1>0, <1>1, <2>2, <2>3 DEF LinkInv, OrderInv, SemsSorted
    <3>. QED BY <1>0, <1>3, <2>1, <3>1, UnlinkBlocked
  <2>9. Sorted(s_procQ'[k], priority')
    <3>1. \A t \in Range(s_procQ'[k]) : priority'[t] = priority[t] + 1 /\ priority[t] \in Nat
      BY <1>0, <1>1, <2>2, <2>3, <2>7, <2>8
    <3>2. \A s, t \in Range(s_procQ'[k]) :
             priority[s] >= priority[t] => priority'[s] >= priority'[t]
      BY <3>1
    <3>. QED BY <2>8, <3>2, SortedTransfer, Zenon
  <2>10. ASSUME NEW l \in Sem \ {k} PROVE Sorted(s_procQ'[l], priority')
    <3>1. l \in Key /\ s_procQ[l] \in Seq(Proc) /\ Sorted(s_procQ[l], priority)
      BY <1>1, ProcFacts DEF LinkInv, TypeOK, OrderInv, SemsSorted
    <3>2. \A t \in Queued(l) : t \notin Queued(k)
      BY <1>0, <2>3, <3>1
    <3>3. \A t \in Range(s_procQ[l]) : priority'[t] = priority[t]
      BY <2>2, <2>3, <2>7, <3>1, <3>2 DEF Queued
    <3>4. Sorted(s_procQ[l], priority')
      BY <3>1, <3>3, SortedSame, Zenon
    <3>. QED BY <2>8, <3>1, <3>4
  <2>11. \A t \in Pcb : original_priority'[t] <= priority'[t]
    <3>1. \A t \in Pcb : original_priority[t] <= prio[t]
      <4>1. \A t \in Pcb : original_priority[t] <= priority[t]
        BY DEF OrderInv
      <4>. QED BY <1>1, <2>2, <2>3, <4>1
    <3>. QED BY <1>0, <2>7, <3>1
  <2>12. \A l \in Sem : Sorted(s_procQ'[l], priority')
    BY <2>9, <2>10
  <2>13. \A t \in Proc \ Free' : original_priority'[t] \in Priorities
    BY <1>0 DEF OrderInv, Free
  <2>. QED BY <2>7, <2>11, <2>12, <2>13 DEF OrderInv, SemsSorted, RunsFirst, Ready
<1>. QED BY <1>2, <1>3 DEF verhogen

LEMMA TimeSliceOrder == ASSUME OrderInv, LinkInv', time_slice_callback PROVE OrderInv'
<1>0. /\ pc = "user" /\ pc' = pc
      /\ UNCHANGED <<pcbFree, original_priority, s_procQ>>
  BY DEF time_slice_callback, semVars
<1>1. /\ LinkInv /\ running_proc \in Pcb /\ ready_queue \in Seq(Proc)
      /\ NoDuplicates(ready_queue)
      /\ priority \in [Pcb -> Nat] /\ original_priority \in [Pcb -> Nat]
      /\ Sorted(ready_queue, priority) /\ running_proc \notin Range(ready_queue)
      /\ original_priority[running_proc] <= priority[running_proc]
      /\ \A q \in Range(ready_queue) :
            q \in Pcb /\ q # idle_proc /\ running_proc # idle_proc
  BY <1>0, UserOrder, ProcFacts
<1>. DEFINE prio == aged(Range(ready_queue))
<1>2. prio \in [Pcb -> Nat]
  BY <1>1, AgedType
<1>3. /\ \A t \in Range(ready_queue) : prio[t] = priority[t] + 1
      /\ \A t \in Pcb \ Range(ready_queue) : prio[t] = priority[t]
  BY <1>1 DEF aged
<1>4. Sorted(ready_queue, prio)
  BY <1>1, SortedAged
<1>5. \A t \in Proc : prio[t] \in Int
  BY <1>2, ProcFacts
<1>6. \/ /\ ready_queue # <<>> /\ prio[running_proc] <= prio[Head(ready_queue)]
         /\ stop_running_proc(Tail(ready_queue), prio)
         /\ running_proc' = Head(ready_queue)
      \/ /\ ~(ready_queue # <<>> /\ prio[running_proc] <= prio[Head(ready_queue)])
         /\ priority' = prio /\ UNCHANGED <<ready_queue, running_proc>>
  BY DEF time_slice_callback
<1>. HIDE DEF prio
<1>7. ready_queue # <<>> =>
         /\ Head(ready_queue) \in Range(ready_queue)
         /\ Tail(ready_queue) \in Seq(Proc)
         /\ Range(Tail(ready_queue)) = Range(ready_queue) \ {Head(ready_queue)}
         /\ Sorted(Tail(ready_queue), prio)
         /\ \A q \in Range(ready_queue) : prio[Head(ready_queue)] >= prio[q]
  BY <1>1, <1>4, <1>5, RemoveProcQ
<1>8. \A t \in Pcb : original_priority[t] <= priority[t]
  BY DEF OrderInv
<1>9. \A t \in Pcb : original_priority[t] <= prio[t]
  BY <1>1, <1>3, <1>8
<1>10. /\ Sorted(ready_queue', priority')
       /\ \A q \in Range(ready_queue') :
             running_proc' # idle_proc /\ priority'[running_proc'] >= priority'[q]
       /\ \A t \in Pcb \ ({running_proc} \cup Range(ready_queue)) : priority'[t] = priority[t]
       /\ \A t \in Pcb : original_priority[t] <= priority'[t]
  <2>1. CASE /\ ready_queue # <<>> /\ prio[running_proc] <= prio[Head(ready_queue)]
             /\ stop_running_proc(Tail(ready_queue), prio)
             /\ running_proc' = Head(ready_queue)
    <3>. DEFINE head == Head(ready_queue)
    <3>1. head \in Pcb /\ head # idle_proc /\ head # running_proc
      BY <1>1, <1>7, <2>1
    <3>2. /\ Sorted(ready_queue', priority')
          /\ \A t \in Pcb \ {running_proc} : priority'[t] = prio[t]
          /\ original_priority[running_proc] <= priority'[running_proc]
          /\ priority'[running_proc] <= prio[running_proc]
      <4>1. running_proc \notin Range(Tail(ready_queue))
        BY <1>1, <1>7, <2>1
      <4>. QED BY <1>1, <1>2, <1>7, <1>9, <2>1, <4>1, StopOrder
    <3>3. /\ Range(ready_queue') = Range(Tail(ready_queue)) \cup OnCpu
          /\ priority' \in [Pcb -> Nat]
      BY <1>1, <1>2, <1>7, <2>1, StopRunningProc
    <3>4. ASSUME NEW q \in Range(ready_queue') PROVE priority'[head] >= priority'[q]
      <4>1. priority'[head] = prio[head] /\ prio[head] \in Nat
        BY <1>2, <3>1, <3>2
      <4>2. CASE q = running_proc
        <5>1. priority'[q] <= prio[running_proc] /\ prio[running_proc] <= prio[head]
          BY <2>1, <3>2, <4>2
        <5>. QED BY <1>1, <1>2, <3>3, <4>1, <4>2, <5>1
      <4>3. CASE q # running_proc
        <5>1. q \in Range(ready_queue)
          BY <1>7, <2>1, <3>3, <3>4, <4>3 DEF OnCpu
        <5>2. priority'[q] = prio[q] /\ prio[head] >= prio[q]
          BY <1>1, <1>7, <2>1, <3>2, <4>3, <5>1
        <5>. QED BY <4>1, <5>2
      <4>. QED BY <4>2, <4>3
    <3>5. \A t \in Pcb : original_priority[t] <= priority'[t]
      BY <1>9, <3>2
    <3>. HIDE DEF head
    <3>6. \A q \in Range(ready_queue') :
             running_proc' # idle_proc /\ priority'[running_proc'] >= priority'[q]
      BY <2>1, <3>1, <3>4 DEF head
    <3>. QED BY <1>3, <3>2, <3>5, <3>6
  <2>2. CASE /\ ~(ready_queue # <<>> /\ prio[running_proc] <= prio[Head(ready_queue)])
             /\ priority' = prio /\ UNCHANGED <<ready_queue, running_proc>>
    <3>1. ASSUME NEW q \in Range(ready_queue) PROVE prio[running_proc] >= prio[q]
      <4>1. ready_queue # <<>>
        BY <1>1, <3>1 DEF Range
      <4>2. /\ prio[running_proc] \in Nat /\ prio[q] \in Nat
            /\ prio[Head(ready_queue)] \in Nat
            /\ prio[Head(ready_queue)] >= prio[q]
        BY <1>1, <1>2, <1>7, <3>1, <4>1
      <4>. QED BY <2>2, <4>1, <4>2
    <3>. QED BY <1>1, <1>3, <1>4, <1>9, <2>2, <3>1
  <2>. QED BY <1>6, <2>1, <2>2
<1>11. \A k \in Sem : Sorted(s_procQ'[k], priority')
  <2>1. \A k \in Key : \A t \in Queued(k) : priority'[t] = priority[t]
    BY <1>0, <1>1, <1>10, QueuedElsewhere DEF Ready
  <2>. QED BY <1>0, <1>1, <2>1, SemQueuesSorted DEF OrderInv
<1>12. \A t \in Proc \ Free' : original_priority'[t] \in Priorities
  BY <1>0 DEF OrderInv, Free
<1>. QED BY <1>0, <1>10, <1>11, <1>12 DEF OrderInv, SemsSorted, RunsFirst, Ready

LEMMA TerminateProcOrder ==
    ASSUME OrderInv, LinkInv', NEW p \in Proc, terminate_proc(p) PROVE OrderInv'
<1>0. /\ pc = "user" /\ running_proc \in Proc
      /\ UNCHANGED <<pcbFree, running_proc, priority, original_priority, s_procQ>>
  BY UserShare DEF terminate_proc, InSyscall, OrderInv, pcbVars, semVars
<1>1. CASE pc' = "TreeBroken" /\ UNCHANGED ready_queue
  BY <1>0, <1>1 DEF OrderInv, SemsSorted, Killing, Free
<1>2. CASE ready_queue' = insertProcQ(ready_queue, running_proc, priority)
  <2>1. /\ ready_queue \in Seq(Proc) /\ priority \in [Pcb -> Nat]
        /\ Sorted(ready_queue, priority)
        /\ \A q \in Range(ready_queue) : priority[running_proc] >= priority[q]
    BY <1>0, UserOrder
  <2>2. \A t \in Proc : priority[t] \in Int
    BY <2>1, ProcFacts
  <2>3. /\ Range(ready_queue') = Range(ready_queue) \cup {running_proc}
        /\ Sorted(ready_queue', priority)
    BY <1>0, <1>2, <2>1, <2>2, InsertProcQ
  <2>4. \A q \in Range(ready_queue') : priority[running_proc] >= priority[q]
    BY <1>0, <2>1, <2>2, <2>3
  <2>. QED BY <1>0, <2>3, <2>4, ProcFacts DEF OrderInv, SemsSorted, RunsFirst, Ready, Free
<1>. QED BY <1>1, <1>2 DEF terminate_proc

LEMMA RecursiveRemoveOrder ==
    ASSUME OrderInv, LinkInv', recursive_remove_proc PROVE OrderInv'
<1>. DEFINE p == Head(frames)
            k == p_semkey[p]
<1>0. /\ Killing /\ LinkInv
      /\ UNCHANGED <<running_proc, priority, original_priority>>
  BY DEF recursive_remove_proc, Killing, OrderInv
<1>1. /\ p \in Proc /\ k \in Key \cup {NULL} /\ TypeOK
      /\ ready_queue \in Seq(Proc) /\ NoDuplicates(ready_queue)
      /\ \A t \in Proc : priority[t] \in Int
  <2>1. p \in Proc
    BY <1>0, FrameFacts
  <2>. HIDE DEF p
  <2>2. TypeOK /\ NoDuplicates(ready_queue)
    BY <1>0 DEF LinkInv
  <2>. QED BY <2>1, <2>2, ProcFacts DEF TypeOK
<1>2. Sorted(ready_queue, priority) /\ \A l \in Sem : Sorted(s_procQ[l], priority)
  BY DEF OrderInv, SemsSorted
<1>3. Free' = Free \cup {p} \/ pcbFree' = pcbFree
  <2>1. pcbFree \in Seq(Proc)
    BY <1>1 DEF TypeOK
  <2>2. Range(<<p>> \o pcbFree) = Range(pcbFree) \cup {p}
    BY <1>1, <2>1, PushProperties
  <2>3. freePcb(p) => Free' = Free \cup {p}
    BY <2>2 DEF freePcb, Free
  <2>. QED BY <2>3 DEF recursive_remove_proc
<1>4. CASE /\ k # NULL /\ unlinkBlocked(k, p) /\ UNCHANGED ready_queue
  <2>1. k \in Key
    BY <1>1, <1>4
  <2>. HIDE DEF p, k
  <2>2. /\ Sorted(s_procQ[k], priority) => Sorted(s_procQ'[k], priority)
        /\ \A l \in Key \ {k} : s_procQ'[l] = s_procQ[l]
    BY <1>1, <1>4, <2>1, UnlinkBlocked
  <2>3. \A l \in Sem : Sorted(s_procQ'[l], priority)
    BY <1>2, <2>2, ProcFacts
  <2>. QED BY <1>0, <1>2, <1>3, <1>4, <2>3 DEF OrderInv, SemsSorted, RunsFirst, Ready, Free
<1>5. CASE ready_queue' = outProcQ(ready_queue, p) /\ UNCHANGED s_procQ
  <2>. HIDE DEF p, k
  <2>1. /\ Range(ready_queue') = Range(ready_queue) \ {p}
        /\ Sorted(ready_queue', priority)
    BY <1>1, <1>2, <1>5, OutProcQ
  <2>. QED BY <1>0, <1>2, <1>3, <1>5, <2>1 DEF OrderInv, SemsSorted, RunsFirst, Ready, Free
<1>6. CASE UNCHANGED <<ready_queue, s_procQ>>
  <2>. HIDE DEF p, k
  <2>. QED BY <1>0, <1>3, <1>6 DEF OrderInv, SemsSorted, RunsFirst, Ready, Free
<1>. QED BY <1>4, <1>5, <1>6 DEF recursive_remove_proc

\* The running process comes back to the CPU, or the head of the queue does.
LEMMA TerminateReturnOrder ==
    ASSUME OrderInv, LinkInv', terminate_return PROVE OrderInv'
<1>0. /\ Killing
      /\ UNCHANGED <<pcbFree, priority, original_priority, s_procQ>>
  BY DEF terminate_return, Killing, pcbVars, semVars
<1>1. /\ ready_queue \in Seq(Proc) /\ NoDuplicates(ready_queue)
      /\ Sorted(ready_queue, priority) /\ priority \in [Pcb -> Nat]
  BY DEF OrderInv, LinkInv, TypeOK, SemsSorted
<1>2. /\ Sorted(ready_queue', priority)
      /\ \A q \in Range(ready_queue') :
            running_proc' # idle_proc /\ priority[running_proc'] >= priority[q]
  <2>1. CASE ready_queue' = outProcQ(ready_queue, running_proc) /\ UNCHANGED running_proc
    <3>1. \A t \in Proc : priority[t] \in Int
      BY <1>1, ProcFacts
    <3>2. /\ Range(ready_queue') = Range(ready_queue) \ {running_proc}
          /\ Sorted(ready_queue', priority)
      BY <1>1, <2>1, <3>1, OutProcQ
    <3>. QED BY <1>0, <2>1, <3>2 DEF OrderInv, RunsFirst, Ready
  <2>2. CASE run_first_ready
    BY <1>1, <2>2, RunFirstReady
  <2>. QED BY <2>1, <2>2 DEF terminate_return
<1>. QED BY <1>0, <1>2 DEF OrderInv, SemsSorted, RunsFirst, Ready, Free

\* Every step preserves OrderInv.
LEMMA OrderInvNext == OrderInv /\ LinkInv' /\ [Next]_vars => OrderInv'
<1>. SUFFICES ASSUME OrderInv, LinkInv', [Next]_vars PROVE OrderInv'
  OBVIOUS
<1>1. LinkInv'
  OBVIOUS
<1>2. ASSUME remove_child \/ remove_return \/ UNCHANGED vars PROVE OrderInv'
  <2>1. /\ UNCHANGED <<pcbFree, ready_queue, running_proc, priority, original_priority, s_procQ>>
        /\ pc' = "user" \/ Killing' => pc = "user" \/ Killing
    BY <1>2 DEF remove_child, remove_return, vars, pcbVars, semVars, Killing
  <2>. QED BY <1>1, <2>1 DEF OrderInv, SemsSorted, RunsFirst, Ready, Free
<1>3. CASE Next
  BY <1>1, <1>2, <1>3, InitProcOrder, LaunchOrder, CreateProcessOrder, PasserenOrder,
     VerhogenOrder, TimeSliceOrder, TerminateProcOrder, RecursiveRemoveOrder,
     TerminateReturnOrder
  DEF Next, starting, semaphore_call, process_call, terminating, halted
<1>. QED BY <1>2, <1>3

\* All priorities start at 0, and all queues but the free list are empty.
LEMMA OrderInvInit == Init => OrderInv
<1>. SUFFICES ASSUME Init PROVE OrderInv
  OBVIOUS
<1>1. LinkInv /\ Free = Proc
  <2>1. \A p \in Proc : p + 1 \in 1 .. MAXPROC /\ (p + 1) - 1 = p
    BY MaxProcAssumption DEF Proc
  <2>2. Proc \subseteq Free
    BY <2>1 DEF Init, Free, Range
  <2>3. LinkInv
    BY QueueInvInit DEF QueueInv
  <2>. QED BY <2>2, <2>3, RangeOfSeq DEF Free, LinkInv, TypeOK
<1>2. SemsSorted
  <2>1. Sorted(<<>>, priority)
    BY DEF Sorted
  <2>. QED BY <2>1, ProcFacts DEF Init, SemsSorted
<1>3. \A p \in Pcb : original_priority[p] = 0 /\ priority[p] = 0
  BY DEF Init
<1>4. pc # "user" /\ ~Killing
  BY DEF Init, Killing
<1>. QED BY <1>1, <1>2, <1>3, <1>4 DEF OrderInv

-----------------------------------------------------------------------------
(* The theorems about the order. *)

\* OrderInv holds in every reachable state.
THEOREM OrderInvariant == Spec => []OrderInv
<1>1. QueueInv => LinkInv
  BY DEF QueueInv
<1>. QED BY <1>1, OrderInvInit, OrderInvNext, QueuesInvariant, PTL DEF Spec

\* The queues of devices stay empty where there is no WAITIO.
DevicesUnused == \A d \in Dev : s_procQ[d] = <<>>

LEMMA DevicesUnusedNext ==
    QueueInv /\ QueueInv' /\ DevicesUnused /\ [Next]_vars => DevicesUnused'
<1>. SUFFICES ASSUME QueueInv, QueueInv', DevicesUnused, [Next]_vars, NEW d \in Dev
              PROVE  s_procQ'[d] = <<>>
  BY DEF DevicesUnused
<1>1. LinkInv /\ LinkInv' /\ pc' # "corrupt" /\ d \in Key
  BY ProcFacts DEF QueueInv
<1>2. Queued(d)' \subseteq Queued(d)
  BY <1>1, NextKeepsDevice DEF DeviceKept
<1>3. Range(s_procQ'[d]) = {}
  <2>1. Range(<<>>) = {}
    BY DEF Range
  <2>. QED BY <1>2, <2>1 DEF Queued, DevicesUnused
<1>4. s_procQ'[d] \in Seq(Proc)
  BY <1>1 DEF LinkInv, TypeOK
<1>. QED BY <1>3, <1>4, FirstAndRest

\* The ready queue and every semaphore queue stay in decreasing order of
\* priority, while their members age in place and come and go (pcb.h:73).
THEOREM QueuesStaySorted == Spec => []QueuesSorted
<1>1. OrderInv /\ DevicesUnused => QueuesSorted
  <2>1. Sorted(<<>>, priority)
    BY DEF Sorted
  <2>. QED BY <2>1 DEF OrderInv, SemsSorted, QueuesSorted, DevicesUnused, Key
<1>2. Init => DevicesUnused
  BY ProcFacts DEF Init, DevicesUnused
<1>. QED BY <1>1, <1>2, QueuesInvariant, OrderInvariant, DevicesUnusedNext, PTL DEF Spec

\* Whatever call or interrupt dispatched it, the process on the CPU has the
\* highest priority of all that could run.
THEOREM HighestRuns == Spec => []HighestPriorityRuns
<1>1. OrderInv => HighestPriorityRuns
  BY DEF OrderInv, RunsFirst, HighestPriorityRuns
<1>. QED BY <1>1, OrderInvariant, PTL

-----------------------------------------------------------------------------
(* What a step may do to the processes that wait. *)

\* v, seen from the ready queue and the CPU: the first waiter is none of them
\* and falls back to its original priority, the others keep theirs.
LEMMA VerhogenWakes ==
    ASSUME OrderInv, pc = "user", NEW k \in Key, Waiters(k) # <<>>,
           NEW woken, woken = Head(Waiters(k)),
           NEW prio, prio = wakeup_priorities(woken, Range(Tail(Waiters(k))))
    PROVE  /\ woken \in Proc /\ woken \in Queued(k)
           /\ woken \notin Ready /\ woken # running_proc
           /\ prio \in [Pcb -> Nat] /\ prio[woken] = original_priority[woken]
           /\ \A t \in Ready \cup {running_proc} : prio[t] = priority[t]
           /\ \A t \in Pcb \ {woken} : prio[t] >= priority[t]
<1>1. LinkInv /\ Waiters(k) = s_procQ[k]
  BY WaitersQueue DEF OrderInv
<1>2. /\ woken \in Queued(k) /\ prio \in [Pcb -> Nat]
      /\ prio[woken] = original_priority[woken]
      /\ \A t \in Queued(k) \ {woken} : prio[t] = priority[t] + 1
      /\ \A t \in Pcb \ Queued(k) : prio[t] = priority[t]
  BY <1>1, WakeupPriorities
<1>3. \A t \in Queued(k) : t \in Proc /\ t # running_proc /\ t \notin Ready
  BY <1>1, QueuedElsewhere
<1>4. running_proc \in Pcb /\ Ready \subseteq Pcb /\ \A t \in Pcb : priority[t] \in Nat
  BY UserOrder DEF Ready
<1>. QED BY <1>2, <1>3, <1>4

\* Where a PCB that enters the ready queue goes: to its place in a queue that
\* is in order.
QueuedInOrder(p) ==
    \E base \in Seq(Proc) :
        /\ Sorted(base, priority')
        /\ ready_queue' = insertProcQ(base, p, priority')

\* Without devices it has its original priority then, unless a kill starts.
Enters(p) == QueuedInOrder(p) /\ (pc' = "user" => priority'[p] = original_priority'[p])

\* The process that loses the CPU enters the queue.
LEMMA StopEnters ==
    ASSUME NEW ready \in Seq(Proc), NEW prio \in [Pcb -> Nat],
           original_priority \in [Pcb -> Nat], running_proc \in Pcb,
           stop_running_proc(ready, prio),
           running_proc \notin Range(ready), Sorted(ready, prio),
           original_priority[running_proc] <= prio[running_proc],
           original_priority'[running_proc] = original_priority[running_proc],
           NEW p \in Proc, p \in Range(ready_queue'), p \notin Range(ready)
    PROVE  p = running_proc /\ QueuedInOrder(p) /\ priority'[p] = original_priority'[p]
<1>1. Range(ready_queue') = Range(ready) \cup OnCpu
  BY StopRunningProc
<1>2. p = running_proc /\ running_proc # idle_proc
  BY <1>1, ProcFacts DEF OnCpu
<1>. DEFINE reset == [prio EXCEPT ![running_proc] = original_priority[running_proc]]
<1>3. ready_queue' = insertProcQ(ready, running_proc, reset) /\ priority' = reset
  BY <1>2 DEF stop_running_proc
<1>4. reset[running_proc] = original_priority[running_proc]
  OBVIOUS
<1>. HIDE DEF reset
<1>5. \A t \in Pcb \ {running_proc} : priority'[t] = prio[t]
  BY StopOrder
<1>6. \A t \in Range(ready) : priority'[t] = prio[t]
  BY <1>5, RangeOfSeq, ProcFacts
<1>7. Sorted(ready, priority')
  BY <1>6, SortedSame, Zenon
<1>. QED BY <1>2, <1>3, <1>4, <1>7 DEF QueuedInOrder

\* insertProcQ adds the PCB and no other.
LEMMA InsertedRange ==
    ASSUME NEW q \in Seq(Proc), NEW p \in Proc, NEW prio \in [Pcb -> Nat]
    PROVE  Range(insertProcQ(q, p, prio)) = Range(q) \cup {p}
<1>1. \A s \in Proc : prio[s] \in Int
  BY ProcFacts
<1>. QED BY <1>1, InsertProcQ

\* schedule_proc: p enters the queue, or the process it takes the CPU from.
LEMMA ScheduleEnters ==
    ASSUME OrderInv, pc = "user", NEW p \in Proc, NEW prio \in [Pcb -> Nat],
           p \notin Ready, p # running_proc,
           \A t \in Ready \cup {running_proc} : prio[t] = priority[t],
           schedule_proc(p, prio),
           original_priority'[running_proc] = original_priority[running_proc],
           NEW t \in Proc, t \in Ready', t \notin Ready
    PROVE  /\ QueuedInOrder(t)
           /\ priority'[t] = original_priority'[t] \/ (t = p /\ priority'[t] = prio[t])
<1>1. /\ running_proc \in Pcb /\ ready_queue \in Seq(Proc)
      /\ original_priority \in [Pcb -> Nat]
      /\ Sorted(ready_queue, priority) /\ running_proc \notin Range(ready_queue)
      /\ original_priority[running_proc] <= prio[running_proc]
  BY UserOrder
<1>2. Sorted(ready_queue, prio)
  BY <1>1, SortedSame, Zenon DEF Ready
<1>3. CASE stop_running_proc(ready_queue, prio)
  BY <1>1, <1>2, <1>3, StopEnters DEF Ready
<1>4. CASE ready_queue' = insertProcQ(ready_queue, p, prio) /\ priority' = prio
  <2>1. Range(insertProcQ(ready_queue, p, prio)) = Range(ready_queue) \cup {p}
    BY <1>1, InsertedRange
  <2>2. t = p
    BY <1>4, <2>1 DEF Ready
  <2>3. QueuedInOrder(t)
    BY <1>1, <1>2, <1>4, <2>2 DEF QueuedInOrder
  <2>. QED BY <1>4, <2>2, <2>3
<1>. QED BY <1>3, <1>4 DEF schedule_proc

\* Every way into the ready queue while processes run.
LEMMA EntersReady ==
    ASSUME OrderInv, pc = "user", [Next]_vars, NEW p \in Proc, p \in Ready', p \notin Ready
    PROVE  Enters(p)
<1>0. /\ LinkInv /\ running_proc \in Pcb
      /\ ready_queue \in Seq(Proc) /\ NoDuplicates(ready_queue)
      /\ priority \in [Pcb -> Nat] /\ original_priority \in [Pcb -> Nat]
      /\ Sorted(ready_queue, priority) /\ running_proc \notin Range(ready_queue)
      /\ original_priority[running_proc] <= priority[running_proc]
  BY UserOrder
<1>1. ready_queue' # ready_queue
  BY DEF Ready
<1>2. ASSUME NEW prio \in Priorities, create_process(prio) PROVE Enters(p)
  <2>1. PICK q \in Proc : allocPcb(q, prio) /\ schedule_proc(q, [priority EXCEPT ![q] = prio])
    BY <1>1, <1>2 DEF create_process
  <2>. DEFINE new == [priority EXCEPT ![q] = prio]
  <2>2. /\ q \notin Ready /\ q \in Pcb /\ q # running_proc
        /\ original_priority'[q] = prio
        /\ \A t \in Pcb \ {q} : original_priority'[t] = original_priority[t]
    BY <2>1, AllocOrder
  <2>3. /\ new \in [Pcb -> Nat] /\ new[q] = prio
        /\ \A t \in Pcb \ {q} : new[t] = priority[t]
    BY <1>0, <2>2, PriorityAssumption
  <2>4. schedule_proc(q, new)
    BY <2>1
  <2>. HIDE DEF new
  <2>5. \A t \in Ready \cup {running_proc} : new[t] = priority[t]
    <3>1. \A t \in Ready : t \in Pcb
      BY <1>0, RangeOfSeq, ProcFacts DEF Ready
    <3>. QED BY <1>0, <2>2, <2>3, <3>1
  <2>6. /\ new[q] = original_priority'[q]
        /\ original_priority'[running_proc] = original_priority[running_proc]
    BY <1>0, <2>2, <2>3
  <2>. QED BY <2>2, <2>3, <2>4, <2>5, <2>6, ScheduleEnters DEF Enters
<1>3. ASSUME NEW k \in Sem, passeren(k) PROVE Enters(p)
  <2>1. run_first_ready
    BY <1>1, <1>3 DEF passeren
  <2>2. Range(ready_queue') \subseteq Range(ready_queue)
    BY <1>0, <2>1, RunFirstReady
  <2>. QED BY <2>2 DEF Ready
<1>4. ASSUME NEW k \in Sem, verhogen(k) PROVE Enters(p)
  <2>. DEFINE woken == Head(Waiters(k))
              prio == wakeup_priorities(woken, Range(Tail(Waiters(k))))
  <2>1. /\ Waiters(k) # <<>> /\ schedule_proc(woken, prio)
        /\ original_priority' = original_priority
    BY <1>1, <1>4 DEF verhogen
  <2>2. k \in Key
    BY ProcFacts
  <2>3. /\ woken \in Proc /\ woken \notin Ready /\ woken # running_proc
        /\ prio \in [Pcb -> Nat] /\ prio[woken] = original_priority[woken]
        /\ \A t \in Ready \cup {running_proc} : prio[t] = priority[t]
    BY <2>1, <2>2, VerhogenWakes
  <2>. HIDE DEF woken, prio
  <2>. QED BY <2>1, <2>3, ScheduleEnters DEF Enters
<1>5. ASSUME time_slice_callback PROVE Enters(p)
  <2>. DEFINE prio == aged(Range(ready_queue))
  <2>1. /\ ready_queue # <<>> /\ stop_running_proc(Tail(ready_queue), prio)
        /\ original_priority' = original_priority
    BY <1>1, <1>5 DEF time_slice_callback
  <2>2. /\ prio \in [Pcb -> Nat] /\ Sorted(ready_queue, prio)
        /\ prio[running_proc] = priority[running_proc]
    BY <1>0, AgedType, SortedAged DEF aged
  <2>. HIDE DEF prio
  <2>3. \A t \in Proc : prio[t] \in Int
    BY <2>2, ProcFacts
  <2>4. /\ Tail(ready_queue) \in Seq(Proc) /\ Sorted(Tail(ready_queue), prio)
        /\ Range(Tail(ready_queue)) \subseteq Range(ready_queue)
    BY <1>0, <2>1, <2>2, <2>3, RemoveProcQ
  <2>5. p \notin Range(Tail(ready_queue)) /\ running_proc \notin Range(Tail(ready_queue))
    BY <1>0, <2>4 DEF Ready
  <2>. QED BY <1>0, <2>1, <2>2, <2>4, <2>5, StopEnters DEF Ready, Enters
<1>6. ASSUME NEW q \in Proc, terminate_proc(q) PROVE Enters(p)
  <2>1. /\ ready_queue' = insertProcQ(ready_queue, running_proc, priority)
        /\ pc' = "remove" /\ priority' = priority /\ running_proc \in Proc
    BY <1>0, <1>1, <1>6, ProcFacts DEF terminate_proc, pcbVars, InSyscall
  <2>2. \A t \in Proc : priority[t] \in Int
    BY <1>0, ProcFacts
  <2>3. Range(insertProcQ(ready_queue, running_proc, priority))
           = Range(ready_queue) \cup {running_proc}
    <3>1. ready_queue \in Seq(Proc) /\ running_proc \in Proc
      BY <1>0, <2>1
    <3>. QED BY <2>2, <3>1, InsertProcQ
  <2>4. p = running_proc
    BY <2>1, <2>3 DEF Ready
  <2>. QED BY <1>0, <2>1, <2>4 DEF Enters, QueuedInOrder, OrderInv, SemsSorted
<1>7. ~(starting \/ terminating \/ halted \/ UNCHANGED vars)
  BY <1>1 DEF starting, init_proc, launch, terminating, recursive_remove_proc, remove_child,
              remove_return, terminate_return, halted, vars
<1>. QED BY <1>2, <1>3, <1>4, <1>5, <1>6, <1>7 DEF Next, semaphore_call, process_call

\* Who may lose priority in a step: the running process, a PCB that is being
\* allocated, and the waiter that a V takes out of its queue.
LEMMA LosesPriority ==
    ASSUME OrderInv, [Next]_vars, NEW t \in Pcb
    PROVE  \/ priority'[t] >= priority[t]
           \/ pc = "user" /\ t = running_proc
           \/ t \in Free
           \/ \E k \in Key : t \in Queued(k) /\ t \notin Queued(k)'
<1>0. LinkInv /\ priority \in [Pcb -> Nat] /\ priority[t] \in Nat
  BY DEF OrderInv, LinkInv, TypeOK
<1>. SUFFICES ASSUME ~(pc = "user" /\ t = running_proc), t \notin Free,
                     \A k \in Key : t \in Queued(k) => t \in Queued(k)'
              PROVE  priority'[t] >= priority[t]
  OBVIOUS
<1>1. CASE priority' = priority
  BY <1>0, <1>1
<1>2. ASSUME NEW prio \in Priorities, NEW q \in Proc, allocPcb(q, prio),
             \/ priority' = [priority EXCEPT ![q] = prio]
             \/ pc = "user" /\ schedule_proc(q, [priority EXCEPT ![q] = prio])
      PROVE  priority'[t] >= priority[t]
  <2>1. q \in Free /\ q \in Pcb /\ t # q
    BY <1>2, AllocOrder
  <2>. DEFINE new == [priority EXCEPT ![q] = prio]
  <2>2. new[t] = priority[t] /\ new \in [Pcb -> Nat]
    BY <1>0, <2>1, PriorityAssumption
  <2>. HIDE DEF new
  <2>3. CASE priority' = new
    BY <1>0, <2>2, <2>3
  <2>4. CASE pc = "user" /\ schedule_proc(q, new)
    <3>1. stop_running_proc(ready_queue, new) \/ priority' = new
      BY <2>4 DEF schedule_proc
    <3>2. CASE stop_running_proc(ready_queue, new)
      BY <1>0, <2>2, <2>4, <3>2 DEF stop_running_proc
    <3>. QED BY <2>3, <3>1, <3>2
  <2>. QED BY <1>2, <2>3, <2>4 DEF new
<1>3. ASSUME NEW prio \in Priorities, init_proc(prio) \/ create_process(prio)
      PROVE  priority'[t] >= priority[t]
  <2>1. CASE init_proc(prio)
    BY <1>1, <1>2, <2>1 DEF init_proc, pcbVars
  <2>2. CASE create_process(prio)
    <3>1. ASSUME NEW q \in Proc, allocPcb(q, prio),
                 schedule_proc(q, [priority EXCEPT ![q] = prio])
          PROVE  priority'[t] >= priority[t]
      <4>1. pc = "user"
        BY <2>2 DEF create_process, InSyscall
      <4>. QED BY <1>2, <3>1, <4>1
    <3>. QED BY <1>1, <2>2, <3>1 DEF create_process, pcbVars
  <2>. QED BY <1>3, <2>1, <2>2
<1>4. ASSUME NEW k \in Sem, verhogen(k) PROVE priority'[t] >= priority[t]
  <2>. DEFINE woken == Head(Waiters(k))
              prio == wakeup_priorities(woken, Range(Tail(Waiters(k))))
  <2>1. \/ priority' = priority
        \/ Waiters(k) # <<>> /\ schedule_proc(woken, prio) /\ unlinkBlocked(k, woken)
    BY <1>4 DEF verhogen
  <2>2. CASE Waiters(k) # <<>> /\ schedule_proc(woken, prio) /\ unlinkBlocked(k, woken)
    <3>1. k \in Key /\ pc = "user"
      BY <1>4, ProcFacts DEF verhogen, InSyscall
    <3>2. /\ woken \in Proc /\ woken \in Queued(k) /\ prio \in [Pcb -> Nat]
          /\ \A s \in Pcb \ {woken} : prio[s] >= priority[s]
      BY <2>2, <3>1, VerhogenWakes
    <3>. HIDE DEF woken, prio
    <3>3. woken \notin Queued(k)'
      <4>1. NoDuplicates(s_procQ[k]) /\ TypeOK
        BY <1>0, <3>1 DEF LinkInv
      <4>2. Range(s_procQ'[k]) = Queued(k) \ {woken}
        BY <2>2, <3>1, <3>2, <4>1, UnlinkBlocked
      <4>. QED BY <4>2 DEF Queued
    <3>4. t # woken
      BY <3>1, <3>2, <3>3
    <3>5. prio[t] >= priority[t]
      BY <3>2, <3>4
    <3>6. stop_running_proc(ready_queue, prio) \/ priority' = prio
      BY <2>2 DEF schedule_proc
    <3>. QED BY <3>1, <3>2, <3>5, <3>6 DEF stop_running_proc
  <2>. QED BY <1>1, <2>1, <2>2
<1>5. ASSUME time_slice_callback PROVE priority'[t] >= priority[t]
  <2>. DEFINE prio == aged(Range(ready_queue))
  <2>1. prio \in [Pcb -> Nat] /\ prio[t] >= priority[t]
    BY <1>0, AgedType DEF aged
  <2>2. /\ pc = "user"
        /\ stop_running_proc(Tail(ready_queue), prio) \/ priority' = prio
    BY <1>5 DEF time_slice_callback
  <2>. HIDE DEF prio
  <2>. QED BY <2>1, <2>2 DEF stop_running_proc
<1>6. ASSUME NEW k \in Sem, passeren(k) PROVE priority' = priority
  BY <1>6 DEF passeren
<1>7. ASSUME NEW p \in Proc, terminate_proc(p) PROVE priority' = priority
  BY <1>7 DEF terminate_proc, pcbVars
<1>8. ASSUME launch \/ terminating \/ halted \/ UNCHANGED vars PROVE priority' = priority
  BY <1>8 DEF launch, terminating, recursive_remove_proc, remove_child, remove_return,
              terminate_return, halted, vars, pcbVars
<1>. QED BY <1>1, <1>3, <1>4, <1>5, <1>6, <1>7, <1>8
         DEF Next, starting, semaphore_call, process_call

\* The priority of a process that waits, for the CPU or at a semaphore, is
\* never taken back: what it has gained by aging it loses only by being
\* dispatched and stopped again, or woken.
THEOREM NeverDemoted == Spec => WaitingNeverDemotes
<1>1. ASSUME OrderInv, [Next]_vars
      PROVE  /\ \A p \in Ready \cap Ready' : p # running_proc => priority'[p] >= priority[p]
             /\ \A k \in Key : \A p \in Queued(k) :
                   p \in Queued(k)' => priority'[p] >= priority[p]
  <2>1. LinkInv /\ Free \cap Ready = {} /\ \A p \in Ready : p \in Proc /\ p \in Pcb
    BY <1>1, RangeOfSeq, ProcFacts DEF OrderInv, LinkInv, TypeOK, Ready
  <2>2. \A k \in Key : \A p \in Queued(k) :
           /\ p \in Pcb /\ p \notin Free /\ p \notin Ready
           /\ p_semkey[p] = k /\ (pc = "user" => p # running_proc)
    BY <2>1, QueuedElsewhere
  <2>3. ASSUME NEW p \in Ready, p # running_proc PROVE priority'[p] >= priority[p]
    BY <1>1, <2>1, <2>2, <2>3, LosesPriority
  <2>4. ASSUME NEW k \in Key, NEW p \in Queued(k), p \in Queued(k)'
        PROVE  priority'[p] >= priority[p]
    <3>1. \A l \in Key : p \in Queued(l) => l = k
      BY <2>2
    <3>. QED BY <1>1, <2>2, <2>4, <3>1, LosesPriority
  <2>. QED BY <2>3, <2>4
<1>. QED BY <1>1, OrderInvariant, PTL DEF Spec, WaitingNeverDemotes

\* One that enters the ready queue goes behind everyone whose priority is, after
\* the step, at least its own.
LEMMA EntersBehind ==
    ASSUME OrderInv, OrderInv', NEW p \in Proc, p \notin Ready, QueuedInOrder(p),
           NEW q \in Ready, q \in Ready', priority'[q] >= priority'[p]
    PROVE  \E i, j \in DOMAIN ready_queue' :
              i < j /\ ready_queue'[i] = q /\ ready_queue'[j] = p
<1>1. PICK base \in Seq(Proc) :
         /\ Sorted(base, priority')
         /\ ready_queue' = insertProcQ(base, p, priority')
  BY DEF QueuedInOrder
<1>2. \A t \in Proc : priority'[t] \in Int
  BY ProcFacts DEF OrderInv, LinkInv, TypeOK
<1>3. Range(insertProcQ(base, p, priority')) = Range(base) \cup {p}
  BY <1>2, InsertProcQ
<1>4. q \in Range(base)
  BY <1>1, <1>3 DEF Ready
<1>5. LET r == insertProcQ(base, p, priority')
      IN  \E i, j \in DOMAIN r : i < j /\ r[i] = q /\ r[j] = p
  BY <1>1, <1>2, <1>4, InsertBehind
<1>. QED BY <1>1, <1>5

\* Processes of equal priority take turns, whatever brings one of them into
\* the ready queue.
THEOREM TakeTurns == Spec => EqualsTakeTurns
<1>1. ASSUME OrderInv, OrderInv', [Next]_vars
      PROVE  \A p \in Ready' \ Ready, q \in Ready :
                (pc = "user" /\ q \in Ready' /\ priority'[q] = priority'[p]) =>
                   \E i, j \in DOMAIN ready_queue' :
                      i < j /\ ready_queue'[i] = q /\ ready_queue'[j] = p
  <2>1. SUFFICES ASSUME NEW p \in Ready' \ Ready, NEW q \in Ready, pc = "user",
                        q \in Ready', priority'[q] = priority'[p]
                 PROVE  \E i, j \in DOMAIN ready_queue' :
                           i < j /\ ready_queue'[i] = q /\ ready_queue'[j] = p
    OBVIOUS
  <2>2. p \in Proc /\ priority'[p] \in Nat
    BY <1>1, RangeOfSeq, ProcFacts DEF OrderInv, LinkInv, TypeOK, Ready
  <2>3. Enters(p)
    BY <1>1, <2>1, <2>2, EntersReady
  <2>4. priority'[q] >= priority'[p]
    BY <2>1, <2>2
  <2>. QED BY <1>1, <2>1, <2>2, <2>3, <2>4, EntersBehind DEF Enters
<1>. QED BY <1>1, OrderInvariant, PTL DEF Spec, EqualsTakeTurns

\* A newcomer at its original priority does not overtake a ready process that
\* has aged to every priority that can be asked for.
LEMMA OriginalBehind ==
    ASSUME OrderInv, OrderInv', NEW p \in Proc, p \in Ready', p \notin Ready, QueuedInOrder(p),
           priority'[p] = original_priority'[p],
           NEW q \in Ready, q \in Ready', \A o \in Priorities : priority[q] >= o,
           priority'[q] >= priority[q]
    PROVE  \E i, j \in DOMAIN ready_queue' :
              i < j /\ ready_queue'[i] = q /\ ready_queue'[j] = p
<1>1. /\ q \in Pcb /\ p \in Pcb
      /\ priority[q] \in Nat /\ priority'[q] \in Nat /\ priority'[p] \in Nat
  BY RangeOfSeq, ProcFacts DEF OrderInv, LinkInv, TypeOK, Ready
<1>2. priority'[p] \in Priorities
  BY DEF OrderInv, LinkInv
<1>3. priority'[q] >= priority'[p]
  BY <1>1, <1>2
<1>. QED BY <1>3, EntersBehind

\* Without devices a process that has aged to every priority that can be asked
\* for has only those before it that were there when it entered, until a kill.
LEMMA SchedulerNotOvertakes ==
    ASSUME OrderInv, OrderInv', [Next]_vars, pc = "user", pc' = "user",
           NEW p \in Ready' \ Ready, NEW q \in Ready \cap Ready',
           \A o \in Priorities : priority[q] >= o
    PROVE  \E i, j \in DOMAIN ready_queue' :
              i < j /\ ready_queue'[i] = q /\ ready_queue'[j] = p
<1>1. p \in Proc /\ q \in Proc /\ q \in Pcb
  BY RangeOfSeq, ProcFacts DEF OrderInv, LinkInv, TypeOK, Ready
<1>2. QueuedInOrder(p) /\ priority'[p] = original_priority'[p]
  BY <1>1, EntersReady DEF Enters
<1>3. LinkInv /\ q \notin Free /\ q # running_proc
  BY UserOrder DEF LinkInv, Ready
<1>4. \A k \in Key : q \notin Queued(k)
  BY <1>3, QueuedElsewhere
<1>5. priority'[q] >= priority[q]
  BY <1>1, <1>3, <1>4, LosesPriority
<1>. QED BY <1>1, <1>2, <1>5, OriginalBehind

=============================================================================
