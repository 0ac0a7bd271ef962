-------------------------- MODULE Scheduler_proofs --------------------------
(***************************************************************************)
(* Proofs about module Scheduler, for every number of PCBs, semaphores and *)
(* priorities.                                                             *)
(***************************************************************************)
EXTENDS Scheduler, ProcQueue_proofs, FiniteSetTheorems

\* The PCBs on the CPU: one, or none when the idle process runs.
OnCpu == {running_proc} \cap Proc

\* The idle process, NULL and the keys are told apart from the PCBs of the table.
LEMMA ProcFacts ==
    /\ idle_proc \notin Proc
    /\ Pcb = Proc \cup {idle_proc}
    /\ NULL \notin Proc /\ NULL # idle_proc /\ NULL \notin Key
    /\ Sem \subseteq Key /\ Dev \subseteq Key
  BY MaxProcAssumption, KeyAssumption DEF Proc, Pcb, Key, idle_proc

-----------------------------------------------------------------------------
(* What the shared parts of the actions do. *)

\* set_running_proc(removeProcQ(&ready_queue)) moves the head to the CPU.
LEMMA RunFirstReady ==
    ASSUME ready_queue \in Seq(Proc), priority \in [Pcb -> Nat], run_first_ready
    PROVE  /\ running_proc' \in Pcb
           /\ ready_queue' \in Seq(Proc)
           /\ NoDuplicates(ready_queue) =>
                 /\ NoDuplicates(ready_queue')
                 /\ running_proc' \notin Range(ready_queue')
                 /\ Range(ready_queue') \cup OnCpu' = Range(ready_queue)
           /\ Sorted(ready_queue, priority) =>
                 /\ Sorted(ready_queue', priority)
                 /\ \A q \in Range(ready_queue') :
                       running_proc' # idle_proc /\ priority[running_proc'] >= priority[q]
<1>1. \A p \in Proc : priority[p] \in Int
  BY ProcFacts
<1>2. CASE ready_queue = <<>>
  BY <1>2, ProcFacts DEF run_first_ready, OnCpu, NoDuplicates, Sorted, Range
<1>3. CASE ready_queue # <<>>
  <2>1. running_proc' = Head(ready_queue) /\ ready_queue' = Tail(ready_queue)
    BY <1>3 DEF run_first_ready
  <2>2. /\ Head(ready_queue) \in Proc /\ Head(ready_queue) \in Range(ready_queue)
        /\ Tail(ready_queue) \in Seq(Proc)
        /\ NoDuplicates(ready_queue) =>
              /\ NoDuplicates(Tail(ready_queue))
              /\ Range(Tail(ready_queue)) = Range(ready_queue) \ {Head(ready_queue)}
        /\ Sorted(ready_queue, priority) =>
              /\ Sorted(Tail(ready_queue), priority)
              /\ \A p \in Range(ready_queue) : priority[Head(ready_queue)] >= priority[p]
    BY <1>1, <1>3, RemoveProcQ
  <2>3. Range(Tail(ready_queue)) \subseteq Range(ready_queue)
    <3>1. /\ Len(Tail(ready_queue)) = Len(ready_queue) - 1
          /\ Len(ready_queue) \in Nat
          /\ \A i \in 1 .. Len(Tail(ready_queue)) : Tail(ready_queue)[i] = ready_queue[i + 1]
          /\ DOMAIN Tail(ready_queue) = 1 .. Len(Tail(ready_queue))
          /\ DOMAIN ready_queue = 1 .. Len(ready_queue)
      BY <1>3, HeadTailProperties, LenProperties
    <3>. QED BY <3>1 DEF Range
  <2>4. Head(ready_queue) # idle_proc /\ Head(ready_queue) \in Pcb
    BY <2>2, ProcFacts
  <2>5. OnCpu' = {Head(ready_queue)}
    BY <2>1, <2>2 DEF OnCpu
  <2>6. NoDuplicates(ready_queue) =>
           /\ Head(ready_queue) \notin Range(Tail(ready_queue))
           /\ Range(Tail(ready_queue)) \cup {Head(ready_queue)} = Range(ready_queue)
    BY <2>2
  <2>7. Sorted(ready_queue, priority) =>
           \A q \in Range(Tail(ready_queue)) : priority[Head(ready_queue)] >= priority[q]
    BY <2>2, <2>3
  <2>. QED BY <2>1, <2>2, <2>4, <2>5, <2>6, <2>7, Zenon
<1>. QED BY <1>2, <1>3

\* stop_running_proc, with the process that replaces the running one.
LEMMA StopRunningProc ==
    ASSUME NEW ready \in Seq(Proc), NEW prio \in [Pcb -> Nat],
           original_priority \in [Pcb -> Nat], running_proc \in Pcb,
           stop_running_proc(ready, prio)
    PROVE  /\ ready_queue' \in Seq(Proc)
           /\ priority' \in [Pcb -> Nat]
           /\ Range(ready_queue') = Range(ready) \cup OnCpu
           /\ NoDuplicates(ready) /\ running_proc \notin Range(ready) => NoDuplicates(ready_queue')
<1>1. CASE running_proc = idle_proc
  BY <1>1, ProcFacts DEF stop_running_proc, OnCpu
<1>2. CASE running_proc # idle_proc
  <2>. DEFINE reset == [prio EXCEPT ![running_proc] = original_priority[running_proc]]
  <2>1. running_proc \in Proc
    BY <1>2, ProcFacts
  <2>2. /\ ready_queue' = insertProcQ(ready, running_proc, reset)
        /\ priority' = reset
    BY <1>2 DEF stop_running_proc
  <2>3. reset \in [Pcb -> Nat]
    OBVIOUS
  <2>4. \A p \in Proc : reset[p] \in Int
    BY <2>3, ProcFacts
  <2>. HIDE DEF reset
  <2>5. OnCpu = {running_proc}
    BY <2>1 DEF OnCpu
  <2>6. LET r == insertProcQ(ready, running_proc, reset)
        IN  /\ r \in Seq(Proc) /\ Range(r) = Range(ready) \cup {running_proc}
            /\ NoDuplicates(ready) /\ running_proc \notin Range(ready) => NoDuplicates(r)
    BY <2>1, <2>4, InsertProcQ
  <2>. QED BY <2>2, <2>3, <2>5, <2>6
<1>. QED BY <1>1, <1>2

\* schedule_proc puts p on the CPU or in the ready queue, and with it the
\* process it takes the CPU from.
LEMMA ScheduleProc ==
    ASSUME NEW p \in Proc, NEW prio \in [Pcb -> Nat],
           ready_queue \in Seq(Proc), original_priority \in [Pcb -> Nat],
           running_proc \in Pcb,
           schedule_proc(p, prio)
    PROVE  /\ ready_queue' \in Seq(Proc)
           /\ running_proc' \in Pcb
           /\ priority' \in [Pcb -> Nat]
           /\ Range(ready_queue') \cup OnCpu' = Range(ready_queue) \cup OnCpu \cup {p}
           /\ /\ NoDuplicates(ready_queue)
              /\ {p, running_proc} \cap Range(ready_queue) = {} /\ p # running_proc
              => NoDuplicates(ready_queue') /\ running_proc' \notin Range(ready_queue')
<1>1. CASE prio[p] > prio[running_proc] \/ running_proc = idle_proc
  <2>1. stop_running_proc(ready_queue, prio) /\ running_proc' = p
    BY <1>1 DEF schedule_proc
  <2>. QED BY <2>1, StopRunningProc, ProcFacts DEF OnCpu
<1>2. CASE ~(prio[p] > prio[running_proc] \/ running_proc = idle_proc)
  <2>1. /\ ready_queue' = insertProcQ(ready_queue, p, prio)
        /\ priority' = prio /\ running_proc' = running_proc
    BY <1>2 DEF schedule_proc
  <2>2. \A q \in Proc : prio[q] \in Int
    BY ProcFacts
  <2>. QED BY <1>2, <2>1, <2>2, InsertProcQ DEF OnCpu
<1>. QED BY <1>1, <1>2

\* insertBlocked links p in the queue of k and nowhere else.
LEMMA InsertBlocked ==
    ASSUME NEW k \in Key, NEW p \in Proc, TypeOK, insertBlocked(k, p)
    PROVE  /\ semd_h' \subseteq Key
           /\ s_procQ' \in [Key -> Seq(Proc)]
           /\ p_semkey' = [p_semkey EXCEPT ![p] = k]
           /\ p_semkey' \in [Proc -> Key \cup {NULL}]
           /\ SemkeyNamesQueue =>
                 /\ Range(s_procQ'[k]) = Queued(k) \cup {p}
                 /\ NoDuplicates(s_procQ[k]) /\ p \notin Queued(k) => NoDuplicates(s_procQ'[k])
                 /\ semd_h' = {l \in Key : s_procQ'[l] # <<>>}
           /\ \A l \in Key \ {k} : s_procQ'[l] = s_procQ[l]
<1>. DEFINE q == Waiters(k)
            r == insertProcQ(q, p, priority)
<1>1. q \in Seq(Proc)
  BY DEF Waiters, TypeOK
<1>2. \A t \in Proc : priority[t] \in Int
  BY ProcFacts DEF TypeOK
<1>3. /\ r \in Seq(Proc)
      /\ Range(r) = Range(q) \cup {p}
      /\ NoDuplicates(q) /\ p \notin Range(q) => NoDuplicates(r)
  BY <1>1, <1>2, InsertProcQ
<1>4. s_procQ' = [s_procQ EXCEPT ![k] = r] /\ semd_h' = semd_h \cup {k}
  BY DEF insertBlocked
<1>5. SemkeyNamesQueue => q = s_procQ[k]
  BY DEF SemkeyNamesQueue, Waiters
<1>6. r # <<>>
  BY <1>3 DEF Range
<1>. HIDE DEF q, r
<1>7. /\ s_procQ' \in [Key -> Seq(Proc)]
      /\ s_procQ'[k] = r
      /\ \A l \in Key \ {k} : s_procQ'[l] = s_procQ[l]
  BY <1>3, <1>4 DEF TypeOK
<1>8. SemkeyNamesQueue => semd_h' = {l \in Key : s_procQ'[l] # <<>>}
  BY <1>4, <1>6, <1>7 DEF SemkeyNamesQueue
<1>9. /\ p_semkey' = [p_semkey EXCEPT ![p] = k]
      /\ p_semkey' \in [Proc -> Key \cup {NULL}]
      /\ semd_h' \subseteq Key
  BY <1>4 DEF insertBlocked, TypeOK
<1>. QED BY <1>3, <1>5, <1>7, <1>8, <1>9 DEF Queued

\* unlinkBlocked takes p out of the queue of k, which it keeps in order.
LEMMA UnlinkBlocked ==
    ASSUME NEW k \in Key, NEW p \in Proc, TypeOK, unlinkBlocked(k, p)
    PROVE  /\ semd_h' \subseteq Key
           /\ s_procQ' \in [Key -> Seq(Proc)]
           /\ p_semkey' = [p_semkey EXCEPT ![p] = NULL]
           /\ p_semkey' \in [Proc -> Key \cup {NULL}]
           /\ NoDuplicates(s_procQ[k]) => /\ NoDuplicates(s_procQ'[k])
                                          /\ Range(s_procQ'[k]) = Queued(k) \ {p}
           /\ Sorted(s_procQ[k], priority) => Sorted(s_procQ'[k], priority)
           /\ SemkeyNamesQueue => semd_h' = {l \in Key : s_procQ'[l] # <<>>}
           /\ \A l \in Key \ {k} : s_procQ'[l] = s_procQ[l]
<1>. DEFINE rest == outProcQ(s_procQ[k], p)
<1>1. s_procQ[k] \in Seq(Proc) /\ \A t \in Proc : priority[t] \in Int
  BY ProcFacts DEF TypeOK
<1>2. /\ rest \in Seq(Proc)
      /\ NoDuplicates(s_procQ[k]) => NoDuplicates(rest) /\ Range(rest) = Queued(k) \ {p}
      /\ Sorted(s_procQ[k], priority) => Sorted(rest, priority)
  BY <1>1, OutProcQ DEF Queued
<1>3. /\ s_procQ' = [s_procQ EXCEPT ![k] = rest]
      /\ semd_h' = IF rest = <<>> THEN semd_h \ {k} ELSE semd_h
      /\ p_semkey' = [p_semkey EXCEPT ![p] = NULL]
  BY DEF unlinkBlocked
<1>4. s_procQ[k] = <<>> => rest = <<>>
  <2>1. SUFFICES ASSUME s_procQ[k] = <<>> PROVE rest = <<>>
    OBVIOUS
  <2>2. p \notin Range(s_procQ[k])
    BY <2>1 DEF Range
  <2>. QED BY <1>1, <2>1, <2>2, OutAbsent
<1>. HIDE DEF rest
<1>5. /\ s_procQ' \in [Key -> Seq(Proc)]
      /\ s_procQ'[k] = rest
      /\ \A l \in Key \ {k} : s_procQ'[l] = s_procQ[l]
  BY <1>2, <1>3 DEF TypeOK
<1>6. SemkeyNamesQueue => semd_h' = {l \in Key : s_procQ'[l] # <<>>}
  BY <1>3, <1>4, <1>5 DEF SemkeyNamesQueue
<1>7. semd_h' \subseteq Key /\ p_semkey' \in [Proc -> Key \cup {NULL}]
  BY <1>3 DEF TypeOK
<1>. QED BY <1>2, <1>3, <1>5, <1>6, <1>7

-----------------------------------------------------------------------------
(* The inductive invariant of the queues.  That a PCB is in a semaphore    *)
(* queue is said by its p_semkey, so that the free list, the ready queue   *)
(* and the CPU only have to share out the PCBs whose p_semkey is NULL.     *)

Unkeyed == {p \in Proc : p_semkey[p] = NULL}

\* No PCB is linked twice.  It may be linked nowhere: with devices, done_io
\* can drop a process.
LinkInv ==
    /\ TypeOK
    /\ Killing => frames # <<>>
    /\ pc = "init" => running_proc = NULL
    /\ NoDuplicates(pcbFree) /\ NoDuplicates(ready_queue)
    /\ \A k \in Key : NoDuplicates(s_procQ[k])
    /\ Free \cap Ready = {} /\ Free \cup Ready \subseteq Unkeyed
    /\ pc = "user" => OnCpu \subseteq Unkeyed \ (Free \cup Ready)
    /\ SemkeyNamesQueue

\* The PCBs that are linked nowhere, the one on the CPU apart.  During a kill
\* the running process is in the ready queue.
Lost == Unkeyed \ (Free \cup Ready \cup (IF Killing THEN {} ELSE OnCpu))

\* Without devices none is lost.
QueueInv ==
    /\ LinkInv
    /\ Lost = {}
    /\ pc # "corrupt"
    /\ dev_w_list = [p \in Proc |-> NULL]

\* LinkInv is strong enough: with Blocked = Proc \ Unkeyed it gives the
\* properties of the queues that hold whether or not a process was dropped.
LEMMA LinkInvImplies ==
    LinkInv => TypeOK /\ LinkedOnce /\ SemkeyNamesQueue /\ Blocked = Proc \ Unkeyed
<1>. SUFFICES ASSUME LinkInv
              PROVE  TypeOK /\ LinkedOnce /\ SemkeyNamesQueue /\ Blocked = Proc \ Unkeyed
  OBVIOUS
<1>1. TypeOK /\ SemkeyNamesQueue
  BY DEF LinkInv
<1>2. \A k \in Key : Queued(k) \subseteq Proc
  BY <1>1, RangeOfSeq DEF TypeOK, Queued
<1>3. Blocked = Proc \ Unkeyed
  <2>1. \A p \in Proc : p_semkey[p] # NULL => p_semkey[p] \in Key
    BY <1>1 DEF TypeOK
  <2>2. \A p \in Proc : p_semkey[p] # NULL => p \in Blocked
    BY <1>1, <2>1 DEF SemkeyNamesQueue, Blocked
  <2>3. \A p \in Blocked : p \in Proc /\ p_semkey[p] # NULL
    BY <1>1, <1>2, ProcFacts DEF SemkeyNamesQueue, Blocked
  <2>. QED BY <2>2, <2>3 DEF Unkeyed
<1>4. \A k, l \in Key : k # l => Queued(k) \cap Queued(l) = {}
  BY <1>1, <1>2 DEF SemkeyNamesQueue
<1>5. LinkedOnce
  BY <1>3, <1>4 DEF LinkInv, LinkedOnce
<1>. QED BY <1>1, <1>3, <1>5

\* Without a lost PCB, the only one in no list is the running process.
LEMMA NothingLost == ASSUME LinkInv, Lost = {} PROVE NoProcessLost
<1>1. Proc \ (Free \cup Ready \cup Blocked) = Unkeyed \ (Free \cup Ready)
  BY LinkInvImplies DEF Unkeyed
<1>2. pc \in {"init", "user"} => Unkeyed \ (Free \cup Ready) = OnCpu
  <2>1. pc = "init" => OnCpu = {}
    BY ProcFacts DEF LinkInv, OnCpu
  <2>2. pc \in {"init", "user"} => Unkeyed \ (Free \cup Ready \cup OnCpu) = {}
    BY DEF Lost, Killing
  <2>3. pc \in {"init", "user"} => OnCpu \subseteq Unkeyed \ (Free \cup Ready)
    BY <2>1 DEF LinkInv
  <2>. QED BY <2>2, <2>3
<1>3. Killing => Unkeyed \ (Free \cup Ready) = {}
  BY DEF Lost
<1>. QED BY <1>1, <1>2, <1>3 DEF NoProcessLost, OnCpu

\* QueueInv gives the four properties of the queues.
LEMMA QueueInvImplies == QueueInv => TypeOK /\ LinkedOnce /\ NoProcessLost /\ SemkeyNamesQueue
  BY LinkInvImplies, NothingLost DEF QueueInv

\* The free list starts with every PCB, all of them without a key.
LEMMA QueueInvInit == Init => QueueInv
<1>. SUFFICES ASSUME Init PROVE QueueInv
  OBVIOUS
<1>0. MAXPROC \in Nat \ {0}
  BY MaxProcAssumption
<1>1. /\ pcbFree \in Seq(Proc) /\ NoDuplicates(pcbFree) /\ Free = Proc
  <2>1. pcbFree = [i \in 1 .. MAXPROC |-> i - 1]
    BY DEF Init
  <2>2. \A i \in 1 .. MAXPROC : i - 1 \in Proc
    BY <1>0 DEF Proc
  <2>3. pcbFree \in Seq(Proc)
    BY <1>0, <2>1, <2>2, IsASeq
  <2>4. NoDuplicates(pcbFree)
    BY <1>0, <2>1 DEF NoDuplicates
  <2>5. \A p \in Proc : p + 1 \in 1 .. MAXPROC /\ (p + 1) - 1 = p
    BY <1>0 DEF Proc
  <2>6. Proc \subseteq Range(pcbFree)
    BY <2>1, <2>5 DEF Range
  <2>7. Range(pcbFree) \subseteq Proc
    BY <2>1, <2>2 DEF Range
  <2>. QED BY <2>3, <2>4, <2>6, <2>7 DEF Free
<1>2. TypeOK
  <2>1. semval \in [Key -> Int]
    <3>1. PICK value \in [Sem -> 0 .. MAXSEM] :
             semval = [k \in Key |-> IF k \in Dev THEN 1 ELSE value[k]]
      BY DEF Init
    <3>2. \A k \in Key : (IF k \in Dev THEN 1 ELSE value[k]) \in Int
      BY <3>1, BoundAssumption DEF Key
    <3>. QED BY <3>1, <3>2
  <2>2. /\ <<>> \in Seq(Proc)
        /\ 0 \in Nat
    OBVIOUS
  <2>. QED BY <1>1, <2>1, <2>2 DEF Init, TypeOK, Locations
<1>3. Ready = {} /\ Unkeyed = Proc /\ NoDuplicates(ready_queue)
  BY DEF Init, Ready, Unkeyed, Range, NoDuplicates
<1>4. SemkeyNamesQueue /\ \A k \in Key : NoDuplicates(s_procQ[k])
  BY ProcFacts DEF Init, SemkeyNamesQueue, Queued, Range, NoDuplicates
<1>5. pc = "init" /\ running_proc = NULL /\ OnCpu = {} /\ dev_w_list = [p \in Proc |-> NULL]
  BY ProcFacts DEF Init, OnCpu
<1>6. LinkInv
  BY <1>1, <1>2, <1>3, <1>4, <1>5 DEF LinkInv, Killing
<1>7. Lost = {}
  BY <1>1, <1>3 DEF Lost
<1>. QED BY <1>5, <1>6, <1>7 DEF QueueInv

-----------------------------------------------------------------------------
(* Every action preserves LinkInv and loses no PCB. *)

\* Actions that leave the semaphores alone.
LEMMA KeepSemaphores ==
    ASSUME LinkInv, UNCHANGED <<p_semkey, semd_h, s_procQ>>
    PROVE  /\ SemkeyNamesQueue' /\ Unkeyed' = Unkeyed
           /\ \A k \in Key : NoDuplicates(s_procQ'[k])
  BY DEF LinkInv, SemkeyNamesQueue, Unkeyed, Queued

\* allocPcb takes p from the free list; its p_semkey was NULL already.
LEMMA AllocPcb ==
    ASSUME LinkInv, NEW p, NEW prio \in Nat, allocPcb(p, prio)
    PROVE  /\ p \in Proc /\ p \in Free
           /\ pcbFree' \in Seq(Proc) /\ NoDuplicates(pcbFree') /\ Free' = Free \ {p}
           /\ p_semkey' = p_semkey /\ dev_w_list' = dev_w_list
           /\ original_priority' \in [Pcb -> Nat]
<1>1. pcbFree \in Seq(Proc) /\ pcbFree # <<>> /\ p = Head(pcbFree) /\ pcbFree' = Tail(pcbFree)
  BY DEF allocPcb, LinkInv, TypeOK
<1>2. \A t \in Proc : priority[t] \in Int
  BY ProcFacts DEF LinkInv, TypeOK
<1>3. /\ p \in Proc /\ p \in Free
      /\ pcbFree' \in Seq(Proc) /\ NoDuplicates(pcbFree') /\ Free' = Free \ {p}
  BY <1>1, <1>2, RemoveProcQ DEF Free, LinkInv
<1>4. p_semkey[p] = NULL
  BY <1>3 DEF LinkInv, Unkeyed
<1>5. p_semkey' = [p_semkey EXCEPT ![p] = NULL] /\ p_semkey \in [Proc -> Key \cup {NULL}]
  BY DEF allocPcb, LinkInv, TypeOK
<1>6. p_semkey' = p_semkey
  BY <1>3, <1>4, <1>5
<1>7. original_priority' \in [Pcb -> Nat]
  BY <1>3, ProcFacts DEF allocPcb, LinkInv, TypeOK
<1>. QED BY <1>3, <1>6, <1>7 DEF allocPcb

\* init_proc moves a PCB from the free list to the ready queue.
LEMMA InitProcLinks ==
    ASSUME LinkInv, NEW prio \in Priorities, init_proc(prio) PROVE LinkInv' /\ Lost' \subseteq Lost
<1>0. prio \in Nat
  BY PriorityAssumption
<1>1. ASSUME NEW p \in Proc, allocPcb(p, prio),
             priority' = [priority EXCEPT ![p] = prio],
             p_parent' = [p_parent EXCEPT ![p] = NULL],
             p_child' = [p_child EXCEPT ![p] = <<>>],
             ready_queue' = insertProcQ(ready_queue, p, priority'),
             UNCHANGED pc
      PROVE  LinkInv' /\ Lost' \subseteq Lost
  <2>1. /\ p \in Free
        /\ pcbFree' \in Seq(Proc) /\ NoDuplicates(pcbFree') /\ Free' = Free \ {p}
        /\ p_semkey' = p_semkey /\ dev_w_list' = dev_w_list
        /\ original_priority' \in [Pcb -> Nat]
    BY <1>0, <1>1, AllocPcb
  <2>2. priority' \in [Pcb -> Nat] /\ \A t \in Proc : priority'[t] \in Int
    BY <1>0, <1>1, ProcFacts DEF LinkInv, TypeOK
  <2>3. p \notin Ready /\ ready_queue \in Seq(Proc) /\ NoDuplicates(ready_queue)
    BY <2>1 DEF LinkInv, TypeOK
  <2>4. ready_queue' \in Seq(Proc) /\ NoDuplicates(ready_queue') /\ Ready' = Ready \cup {p}
    <3>1. LET r == insertProcQ(ready_queue, p, priority')
          IN  /\ r \in Seq(Proc) /\ Range(r) = Range(ready_queue) \cup {p}
              /\ NoDuplicates(ready_queue) /\ p \notin Range(ready_queue) => NoDuplicates(r)
      BY <2>2, <2>3, InsertProcQ
    <3>. QED BY <1>1, <2>3, <3>1, Zenon DEF Ready
  <2>5. UNCHANGED <<running_proc, semVars, w_for_res, frames>> /\ pc = "init"
    BY DEF init_proc
  <2>6. /\ SemkeyNamesQueue' /\ Unkeyed' = Unkeyed
        /\ \A k \in Key : NoDuplicates(s_procQ'[k])
    BY <2>1, <2>5, KeepSemaphores DEF semVars
  <2>7. TypeOK'
    BY <1>1, <2>1, <2>2, <2>4, <2>5 DEF LinkInv, TypeOK, semVars
  <2>8. Free \cap Ready = {} /\ Free \cup Ready \subseteq Unkeyed
        /\ OnCpu' = OnCpu
    BY <2>5 DEF LinkInv, OnCpu
  <2>9. /\ Free' \cap Ready' = {} /\ Free' \cup Ready' \subseteq Unkeyed'
        /\ Unkeyed' = Unkeyed /\ Free' \cup Ready' = Free \cup Ready
    BY <2>1, <2>4, <2>6, <2>8
  <2>10. ~Killing /\ ~Killing'
    BY <1>1, <2>5 DEF Killing
  <2>11. pc' = "init" /\ running_proc' = NULL
    BY <1>1, <2>5 DEF LinkInv
  <2>12. Lost' \subseteq Lost
    BY <2>8, <2>9, <2>10 DEF Lost
  <2>. QED BY <2>1, <2>4, <2>6, <2>7, <2>9, <2>10, <2>11, <2>12 DEF LinkInv
<1>2. ASSUME pc' = "TooManyProcs",
             UNCHANGED <<pcbFree, pcbVars, treeVars, ready_queue>>
      PROVE  LinkInv' /\ Lost' \subseteq Lost
  <2>1. UNCHANGED <<running_proc, semVars, w_for_res, frames>>
    BY DEF init_proc
  <2>2. /\ SemkeyNamesQueue' /\ Unkeyed' = Unkeyed
        /\ \A k \in Key : NoDuplicates(s_procQ'[k])
    BY <1>2, <2>1, KeepSemaphores DEF semVars, pcbVars
  <2>3. TypeOK'
    BY <1>2, <2>1 DEF LinkInv, TypeOK, semVars, pcbVars, treeVars, Locations, Panics
  <2>4. Free' = Free /\ Ready' = Ready
    BY <1>2 DEF Free, Ready
  <2>5. Lost' \subseteq Lost
    BY <1>2, <2>1, <2>2, <2>4 DEF Lost, OnCpu, Killing, init_proc
  <2>. QED BY <1>2, <2>2, <2>3, <2>4, <2>5 DEF LinkInv, Killing
<1>. QED BY <1>1, <1>2 DEF init_proc

\* launch moves the head of the ready queue to the CPU.
LEMMA LaunchLinks == ASSUME LinkInv, launch PROVE LinkInv' /\ Lost' \subseteq Lost
<1>1. pc = "init" /\ UNCHANGED <<pcbFree, pcbVars, treeVars, semVars, w_for_res, frames>>
  BY DEF launch
<1>2. /\ SemkeyNamesQueue' /\ Unkeyed' = Unkeyed /\ Free' = Free
      /\ \A k \in Key : NoDuplicates(s_procQ'[k])
  BY <1>1, KeepSemaphores DEF semVars, pcbVars, Free
<1>3. CASE ready_queue = <<>>
  <2>1. pc' = "NoReadyProc" /\ UNCHANGED <<ready_queue, running_proc>>
    BY <1>3 DEF launch
  <2>2. TypeOK'
    BY <1>1, <2>1 DEF LinkInv, TypeOK, semVars, pcbVars, treeVars, Locations, Panics
  <2>3. Ready' = Ready
    BY <2>1 DEF Ready
  <2>4. Lost' \subseteq Lost
    BY <1>1, <1>2, <2>1, <2>3 DEF Lost, OnCpu, Killing
  <2>. QED BY <1>1, <1>2, <2>1, <2>2, <2>3, <2>4 DEF LinkInv, Killing
<1>4. CASE ready_queue # <<>>
  <2>1. pc' = "user" /\ run_first_ready
    BY <1>4 DEF launch
  <2>2. ready_queue \in Seq(Proc) /\ priority \in [Pcb -> Nat] /\ NoDuplicates(ready_queue)
    BY DEF LinkInv, TypeOK
  <2>3. /\ running_proc' \in Pcb
        /\ ready_queue' \in Seq(Proc) /\ NoDuplicates(ready_queue')
        /\ running_proc' \notin Ready' /\ Ready' \cup OnCpu' = Ready
    BY <2>1, <2>2, RunFirstReady DEF Ready
  <2>4. OnCpu = {}
    BY <1>1, ProcFacts DEF LinkInv, OnCpu
  <2>5. TypeOK'
    BY <1>1, <2>1, <2>3, ProcFacts DEF LinkInv, TypeOK, semVars, pcbVars, treeVars, Locations
  <2>6. Free \cap Ready = {} /\ Free \cup Ready \subseteq Unkeyed
    BY DEF LinkInv
  <2>7. OnCpu' \cap Ready' = {}
    BY <2>3 DEF OnCpu
  <2>8. /\ Free' \cap Ready' = {} /\ Free' \cup Ready' \subseteq Unkeyed'
        /\ OnCpu' \subseteq Unkeyed' \ (Free' \cup Ready')
    BY <1>2, <2>3, <2>6, <2>7
  <2>9. NoDuplicates(pcbFree') /\ ~Killing /\ ~Killing'
    BY <1>1, <2>1 DEF LinkInv, Killing
  <2>10. Lost' \subseteq Lost
    BY <1>2, <2>3, <2>4, <2>9 DEF Lost
  <2>. QED BY <1>2, <2>1, <2>3, <2>5, <2>8, <2>9, <2>10 DEF LinkInv
<1>. QED BY <1>3, <1>4

\* How the PCBs are shared out while processes run.
LEMMA UserShare ==
    ASSUME LinkInv, pc = "user"
    PROVE  /\ running_proc \in Pcb
           /\ Free \cap Ready = {} /\ OnCpu \cap (Free \cup Ready) = {}
           /\ Free \cup Ready \cup OnCpu \subseteq Unkeyed
           /\ InSyscall => running_proc \in Proc /\ OnCpu = {running_proc}
  BY ProcFacts DEF LinkInv, TypeOK, InSyscall, OnCpu

\* create_process moves a PCB from the free list to the CPU or the ready queue.
LEMMA CreateProcessLinks ==
    ASSUME LinkInv, NEW prio \in Priorities, create_process(prio) PROVE LinkInv' /\ Lost' \subseteq Lost
<1>0. /\ prio \in Nat /\ InSyscall /\ pc = "user"
      /\ UNCHANGED <<pc, semVars, w_for_res, frames>>
  BY PriorityAssumption DEF create_process, InSyscall
<1>1. /\ running_proc \in Proc
      /\ Free \cap Ready = {} /\ OnCpu \cap (Free \cup Ready) = {}
      /\ Free \cup Ready \cup OnCpu \subseteq Unkeyed /\ OnCpu = {running_proc}
  BY <1>0, UserShare
<1>2. ASSUME NEW p \in Proc, allocPcb(p, prio),
             p_parent' = [p_parent EXCEPT ![p] = running_proc],
             p_child' = [p_child EXCEPT ![p] = <<>>, ![running_proc] = Append(@, p)],
             schedule_proc(p, [priority EXCEPT ![p] = prio])
      PROVE  LinkInv' /\ Lost' \subseteq Lost
  <2>1. /\ p \in Free
        /\ pcbFree' \in Seq(Proc) /\ NoDuplicates(pcbFree') /\ Free' = Free \ {p}
        /\ p_semkey' = p_semkey /\ dev_w_list' = dev_w_list
        /\ original_priority' \in [Pcb -> Nat]
    BY <1>0, <1>2, AllocPcb
  <2>2. /\ [priority EXCEPT ![p] = prio] \in [Pcb -> Nat]
        /\ ready_queue \in Seq(Proc) /\ NoDuplicates(ready_queue)
        /\ original_priority \in [Pcb -> Nat] /\ running_proc \in Pcb
    BY <1>0, <1>1, ProcFacts DEF LinkInv, TypeOK
  <2>3. /\ {p, running_proc} \cap Range(ready_queue) = {} /\ p # running_proc
    BY <1>1, <2>1 DEF Ready
  <2>4. /\ ready_queue' \in Seq(Proc) /\ NoDuplicates(ready_queue')
        /\ running_proc' \in Pcb /\ priority' \in [Pcb -> Nat]
        /\ Ready' \cup OnCpu' = Ready \cup OnCpu \cup {p}
        /\ running_proc' \notin Ready'
    BY <1>2, <2>2, <2>3, ScheduleProc DEF Ready
  <2>5. /\ SemkeyNamesQueue' /\ Unkeyed' = Unkeyed
        /\ \A k \in Key : NoDuplicates(s_procQ'[k])
    BY <1>0, <2>1, KeepSemaphores DEF semVars
  <2>6. p_parent' \in [Proc -> Proc \cup {NULL}] /\ p_child' \in [Proc -> Seq(Proc)]
    <3>1. p_child \in [Proc -> Seq(Proc)] /\ p_parent \in [Proc -> Proc \cup {NULL}]
      BY DEF LinkInv, TypeOK
    <3>. DEFINE fresh == [p_child EXCEPT ![p] = <<>>]
    <3>2. fresh \in [Proc -> Seq(Proc)]
      BY <3>1
    <3>3. p_child' = [fresh EXCEPT ![running_proc] = Append(@, p)]
      BY <1>1, <1>2, <2>3, <3>1
    <3>. HIDE DEF fresh
    <3>4. Append(fresh[running_proc], p) \in Seq(Proc)
      BY <1>1, <3>2, AppendProperties
    <3>. QED BY <1>1, <1>2, <3>1, <3>2, <3>3, <3>4
  <2>7. TypeOK'
    BY <1>0, <2>1, <2>4, <2>6, ProcFacts DEF LinkInv, TypeOK, semVars, allocPcb
  <2>8. OnCpu' \cap Ready' = {} /\ p \notin Ready \cup OnCpu
    BY <1>1, <2>1, <2>4 DEF OnCpu
  <2>9. /\ Free' \cap Ready' = {} /\ Free' \cup Ready' \subseteq Unkeyed'
        /\ OnCpu' \subseteq Unkeyed' \ (Free' \cup Ready')
        /\ Lost' \subseteq Lost
    <3>1. /\ Free' \cap (Ready' \cup OnCpu') = {}
          /\ Free' \cup (Ready' \cup OnCpu') = Free \cup Ready \cup OnCpu
      BY <1>1, <2>1, <2>4, <2>8
    <3>2. Lost' \subseteq Lost
      BY <1>0, <2>5, <3>1 DEF Lost, Killing
    <3>. QED BY <1>1, <2>5, <2>8, <3>1, <3>2
  <2>. QED BY <1>0, <2>1, <2>4, <2>5, <2>7, <2>9 DEF LinkInv, Killing
<1>3. ASSUME UNCHANGED <<pcbFree, pcbVars, treeVars, ready_queue, running_proc>>
      PROVE  LinkInv' /\ Lost' \subseteq Lost
  <2>1. /\ SemkeyNamesQueue' /\ Unkeyed' = Unkeyed
        /\ \A k \in Key : NoDuplicates(s_procQ'[k])
    BY <1>0, <1>3, KeepSemaphores DEF semVars, pcbVars
  <2>2. TypeOK'
    BY <1>0, <1>3 DEF LinkInv, TypeOK, semVars, pcbVars, treeVars
  <2>3. Free' = Free /\ Ready' = Ready /\ OnCpu' = OnCpu
    BY <1>3 DEF Free, Ready, OnCpu
  <2>4. Lost' \subseteq Lost
    BY <1>0, <2>1, <2>3 DEF Lost, Killing
  <2>. QED BY <1>0, <1>3, <2>1, <2>2, <2>3, <2>4 DEF LinkInv, Killing
<1>. QED BY <1>2, <1>3 DEF create_process

\* A key without a descriptor has an empty queue.
LEMMA WaitersQueue ==
    ASSUME LinkInv, NEW k \in Key
    PROVE  /\ Waiters(k) = s_procQ[k]
           /\ s_procQ[k] \in Seq(Proc) /\ NoDuplicates(s_procQ[k])
<1>1. semd_h = {l \in Key : s_procQ[l] # <<>>}
  BY DEF LinkInv, SemkeyNamesQueue
<1>2. s_procQ[k] \in Seq(Proc) /\ NoDuplicates(s_procQ[k])
  BY DEF LinkInv, TypeOK
<1>. QED BY <1>1, <1>2 DEF Waiters

\* Linking a PCB that has no key in the queue of k gives it that key.
LEMMA InsertBlockedLinks ==
    ASSUME LinkInv, NEW k \in Key, NEW p \in Unkeyed, insertBlocked(k, p)
    PROVE  /\ SemkeyNamesQueue' /\ Unkeyed' = Unkeyed \ {p}
           /\ \A l \in Key : NoDuplicates(s_procQ'[l])
<1>1. p \in Proc /\ TypeOK /\ SemkeyNamesQueue /\ p_semkey[p] = NULL
  BY DEF LinkInv, Unkeyed
<1>2. p \notin Queued(k) /\ \A l \in Key : NoDuplicates(s_procQ[l])
  BY <1>1, ProcFacts DEF LinkInv, SemkeyNamesQueue
<1>3. /\ p_semkey' = [p_semkey EXCEPT ![p] = k]
      /\ p_semkey' \in [Proc -> Key \cup {NULL}]
      /\ Queued(k)' = Queued(k) \cup {p} /\ NoDuplicates(s_procQ'[k])
      /\ semd_h' = {l \in Key : s_procQ'[l] # <<>>}
      /\ \A l \in Key \ {k} : s_procQ'[l] = s_procQ[l]
  BY <1>1, <1>2, InsertBlocked DEF Queued
<1>4. \A l \in Key \ {k} : Queued(l)' = Queued(l)
  BY <1>3 DEF Queued
<1>5. p_semkey \in [Proc -> Key \cup {NULL}]
  BY <1>1 DEF TypeOK
<1>6. \A q \in Proc, l \in Key : p_semkey'[q] = l <=> q \in Queued(l)'
  BY <1>1, <1>3, <1>4, <1>5, ProcFacts DEF SemkeyNamesQueue
<1>7. Unkeyed' = Unkeyed \ {p}
  BY <1>1, <1>3, <1>5, ProcFacts DEF Unkeyed
<1>. QED BY <1>2, <1>3, <1>6, <1>7 DEF SemkeyNamesQueue

\* Unlinking a PCB from the queue of k takes its key away.
LEMMA UnlinkBlockedLinks ==
    ASSUME LinkInv, NEW k \in Key, NEW p \in Queued(k), unlinkBlocked(k, p)
    PROVE  /\ SemkeyNamesQueue' /\ Unkeyed' = Unkeyed \cup {p}
           /\ \A l \in Key : NoDuplicates(s_procQ'[l])
           /\ p \in Proc /\ p \notin Unkeyed
<1>1. TypeOK /\ SemkeyNamesQueue
  BY DEF LinkInv
<1>2. p \in Proc
  BY <1>1, RangeOfSeq DEF TypeOK, Queued
<1>3. p_semkey[p] = k /\ p \notin Unkeyed /\ \A l \in Key : NoDuplicates(s_procQ[l])
  BY <1>1, <1>2, ProcFacts DEF LinkInv, SemkeyNamesQueue, Unkeyed
<1>4. /\ p_semkey' = [p_semkey EXCEPT ![p] = NULL]
      /\ Queued(k)' = Queued(k) \ {p} /\ NoDuplicates(s_procQ'[k])
      /\ semd_h' = {l \in Key : s_procQ'[l] # <<>>}
      /\ \A l \in Key \ {k} : s_procQ'[l] = s_procQ[l]
  BY <1>1, <1>2, <1>3, UnlinkBlocked DEF Queued
<1>5. \A l \in Key \ {k} : Queued(l)' = Queued(l)
  BY <1>4 DEF Queued
<1>6. p_semkey \in [Proc -> Key \cup {NULL}]
  BY <1>1 DEF TypeOK
<1>7. \A q \in Proc, l \in Key : p_semkey'[q] = l <=> q \in Queued(l)'
  BY <1>1, <1>2, <1>3, <1>4, <1>5, <1>6, ProcFacts DEF SemkeyNamesQueue
<1>8. Unkeyed' = Unkeyed \cup {p}
  BY <1>2, <1>4, <1>6 DEF Unkeyed
<1>. QED BY <1>2, <1>3, <1>4, <1>7, <1>8 DEF SemkeyNamesQueue

\* passeren moves the running process to a semaphore queue, if it blocks.
LEMMA PasserenLinks == ASSUME LinkInv, NEW k \in Sem, passeren(k) PROVE LinkInv' /\ Lost' \subseteq Lost
<1>0. /\ InSyscall /\ pc = "user" /\ k \in Key
      /\ UNCHANGED <<pcbFree, priority, original_priority, dev_w_list, treeVars,
                     w_for_res, frames>>
  BY ProcFacts DEF passeren, InSyscall
<1>1. /\ running_proc \in Proc
      /\ Free \cap Ready = {} /\ OnCpu \cap (Free \cup Ready) = {}
      /\ Free \cup Ready \cup OnCpu \subseteq Unkeyed /\ OnCpu = {running_proc}
  BY <1>0, UserShare
<1>2. Free' = Free /\ NoDuplicates(pcbFree')
  BY <1>0 DEF LinkInv, Free
<1>3. ASSUME semval' = [semval EXCEPT ![k] = @ - 1],
             pc' = pc \/ pc' = "NoFreeSemd",
             UNCHANGED <<ready_queue, running_proc, p_semkey, semd_h, s_procQ>>
      PROVE  LinkInv' /\ Lost' \subseteq Lost
  <2>1. /\ SemkeyNamesQueue' /\ Unkeyed' = Unkeyed
        /\ \A l \in Key : NoDuplicates(s_procQ'[l])
    BY <1>0, <1>3, KeepSemaphores
  <2>2. semval \in [Key -> Int]
    BY DEF LinkInv, TypeOK
  <2>3. semval' \in [Key -> Int]
    BY <1>0, <1>3, <2>2
  <2>4. TypeOK'
    BY <1>0, <1>3, <2>3 DEF LinkInv, TypeOK, treeVars, Locations, Panics
  <2>5. Ready' = Ready /\ OnCpu' = OnCpu
    BY <1>3 DEF Ready, OnCpu
  <2>6. Lost' \subseteq Lost
    BY <1>0, <1>2, <1>3, <2>1, <2>5 DEF Lost, Killing
  <2>. QED BY <1>0, <1>2, <1>3, <2>1, <2>4, <2>5, <2>6 DEF LinkInv, Killing
<1>4. ASSUME insertBlocked(k, running_proc), run_first_ready, UNCHANGED <<pc, semval>>
      PROVE  LinkInv' /\ Lost' \subseteq Lost
  <2>1. running_proc \in Unkeyed
    BY <1>1
  <2>2. /\ SemkeyNamesQueue' /\ Unkeyed' = Unkeyed \ {running_proc}
        /\ \A l \in Key : NoDuplicates(s_procQ'[l])
    BY <1>0, <1>4, <2>1, InsertBlockedLinks
  <2>3. TypeOK /\ ready_queue \in Seq(Proc) /\ priority \in [Pcb -> Nat]
        /\ NoDuplicates(ready_queue)
    BY DEF LinkInv, TypeOK
  <2>4. /\ semd_h' \subseteq Key /\ s_procQ' \in [Key -> Seq(Proc)]
        /\ p_semkey' \in [Proc -> Key \cup {NULL}]
    BY <1>0, <1>1, <1>4, <2>3, InsertBlocked
  <2>5. /\ running_proc' \in Pcb
        /\ ready_queue' \in Seq(Proc) /\ NoDuplicates(ready_queue')
        /\ running_proc' \notin Ready' /\ Ready' \cup OnCpu' = Ready
    BY <1>4, <2>3, RunFirstReady DEF Ready
  <2>6. TypeOK'
    BY <1>0, <1>4, <2>3, <2>4, <2>5, ProcFacts DEF TypeOK, treeVars
  <2>7. OnCpu' \cap Ready' = {}
    BY <2>5 DEF OnCpu
  <2>8. /\ Free' \cap Ready' = {} /\ Free' \cup Ready' \subseteq Unkeyed'
        /\ OnCpu' \subseteq Unkeyed' \ (Free' \cup Ready')
    BY <1>1, <1>2, <2>2, <2>5, <2>7
  <2>9. Lost' \subseteq Lost
    BY <1>0, <1>1, <1>2, <1>4, <2>2, <2>5 DEF Lost, Killing
  <2>. QED BY <1>0, <1>2, <1>4, <2>2, <2>5, <2>6, <2>8, <2>9 DEF LinkInv, Killing
<1>5. \/ /\ semval' = [semval EXCEPT ![k] = @ - 1]
         /\ pc' = pc \/ pc' = "NoFreeSemd"
         /\ UNCHANGED <<ready_queue, running_proc, p_semkey, semd_h, s_procQ>>
      \/ /\ insertBlocked(k, running_proc)
         /\ run_first_ready
         /\ UNCHANGED <<pc, semval>>
  BY DEF passeren
<1>. QED BY <1>3, <1>4, <1>5

\* Aging keeps priorities natural numbers.
LEMMA AgedType ==
    ASSUME priority \in [Pcb -> Nat], NEW procs
    PROVE  aged(procs) \in [Pcb -> Nat]
  BY DEF aged

\* verhogen moves the first waiter to the CPU or the ready queue.
LEMMA VerhogenLinks == ASSUME LinkInv, NEW k \in Sem, verhogen(k) PROVE LinkInv' /\ Lost' \subseteq Lost
<1>0. /\ InSyscall /\ pc = "user" /\ k \in Key
      /\ UNCHANGED <<pc, pcbFree, original_priority, dev_w_list, treeVars, w_for_res, frames>>
  BY ProcFacts DEF verhogen, InSyscall
<1>1. /\ running_proc \in Proc
      /\ Free \cap Ready = {} /\ OnCpu \cap (Free \cup Ready) = {}
      /\ Free \cup Ready \cup OnCpu \subseteq Unkeyed /\ OnCpu = {running_proc}
  BY <1>0, UserShare
<1>2. Free' = Free /\ NoDuplicates(pcbFree')
  BY <1>0 DEF LinkInv, Free
<1>3. ASSUME semval' = [semval EXCEPT ![k] = @ + 1],
             UNCHANGED <<ready_queue, running_proc, priority, p_semkey, semd_h, s_procQ>>
      PROVE  LinkInv' /\ Lost' \subseteq Lost
  <2>1. /\ SemkeyNamesQueue' /\ Unkeyed' = Unkeyed
        /\ \A l \in Key : NoDuplicates(s_procQ'[l])
    BY <1>0, <1>3, KeepSemaphores
  <2>2. semval \in [Key -> Int]
    BY DEF LinkInv, TypeOK
  <2>3. semval' \in [Key -> Int]
    BY <1>0, <1>3, <2>2
  <2>4. TypeOK'
    BY <1>0, <1>3, <2>3 DEF LinkInv, TypeOK, treeVars
  <2>5. Ready' = Ready /\ OnCpu' = OnCpu
    BY <1>3 DEF Ready, OnCpu
  <2>6. Lost' \subseteq Lost
    BY <1>0, <1>2, <1>3, <2>1, <2>5 DEF Lost, Killing
  <2>. QED BY <1>0, <1>2, <1>3, <2>1, <2>4, <2>5, <2>6 DEF LinkInv, Killing
<1>4. ASSUME NEW woken, NEW prio,
             woken = Head(Waiters(k)), Waiters(k) # <<>>,
             unlinkBlocked(k, woken),
             prio = wakeup_priorities(woken, Range(Tail(Waiters(k)))),
             schedule_proc(woken, prio),
             UNCHANGED semval
      PROVE  LinkInv' /\ Lost' \subseteq Lost
  <2>1. TypeOK /\ ready_queue \in Seq(Proc) /\ NoDuplicates(ready_queue)
        /\ original_priority \in [Pcb -> Nat] /\ priority \in [Pcb -> Nat]
    BY DEF LinkInv, TypeOK
  <2>2. woken \in Queued(k)
    <3>1. Waiters(k) = s_procQ[k] /\ s_procQ[k] \in Seq(Proc)
      BY <1>0, <1>4, <2>1 DEF Waiters, TypeOK
    <3>2. 1 \in DOMAIN s_procQ[k] /\ Head(s_procQ[k]) = s_procQ[k][1]
      BY <1>4, <3>1, LenProperties, EmptySeq
    <3>. QED BY <1>4, <3>1, <3>2 DEF Queued, Range
  <2>3. /\ SemkeyNamesQueue' /\ Unkeyed' = Unkeyed \cup {woken}
        /\ \A l \in Key : NoDuplicates(s_procQ'[l])
        /\ woken \in Proc /\ woken \notin Unkeyed
    BY <1>0, <1>4, <2>2, UnlinkBlockedLinks
  <2>4. /\ semd_h' \subseteq Key /\ s_procQ' \in [Key -> Seq(Proc)]
        /\ p_semkey' \in [Proc -> Key \cup {NULL}]
    BY <1>0, <1>4, <2>1, <2>3, UnlinkBlocked
  <2>5. prio \in [Pcb -> Nat]
    BY <1>4, <2>1, <2>3, AgedType, ProcFacts DEF wakeup_priorities
  <2>6. /\ {woken, running_proc} \cap Range(ready_queue) = {} /\ woken # running_proc
        /\ running_proc \in Pcb
    BY <1>1, <2>3, ProcFacts DEF Ready
  <2>7. /\ ready_queue' \in Seq(Proc) /\ NoDuplicates(ready_queue')
        /\ running_proc' \in Pcb /\ priority' \in [Pcb -> Nat]
        /\ Ready' \cup OnCpu' = Ready \cup OnCpu \cup {woken}
        /\ running_proc' \notin Ready'
    BY <1>4, <2>1, <2>3, <2>5, <2>6, ScheduleProc DEF Ready
  <2>8. TypeOK'
    BY <1>0, <1>4, <2>1, <2>4, <2>7, ProcFacts DEF TypeOK, treeVars
  <2>9. OnCpu' \cap Ready' = {}
    BY <2>7 DEF OnCpu
  <2>10. /\ Free' \cap Ready' = {} /\ Free' \cup Ready' \subseteq Unkeyed'
         /\ OnCpu' \subseteq Unkeyed' \ (Free' \cup Ready')
         /\ Lost' \subseteq Lost
    <3>1. /\ Free' \cap (Ready' \cup OnCpu') = {}
          /\ Free' \cup (Ready' \cup OnCpu') = Free \cup Ready \cup OnCpu \cup {woken}
      BY <1>1, <1>2, <2>3, <2>7
    <3>2. Lost' \subseteq Lost
      BY <1>0, <2>3, <3>1 DEF Lost, Killing
    <3>. QED BY <1>1, <2>3, <2>9, <3>1, <3>2
  <2>. QED BY <1>0, <1>2, <1>4, <2>3, <2>7, <2>8, <2>10 DEF LinkInv, Killing
<1>. QED BY <1>3, <1>4 DEF verhogen

\* The time slice exchanges the running process with the head of the ready queue.
LEMMA TimeSliceLinks == ASSUME LinkInv, time_slice_callback PROVE LinkInv' /\ Lost' \subseteq Lost
<1>0. /\ pc = "user"
      /\ UNCHANGED <<pc, pcbFree, original_priority, p_semkey, dev_w_list, treeVars,
                     semVars, w_for_res, frames>>
  BY DEF time_slice_callback
<1>1. /\ running_proc \in Pcb
      /\ Free \cap Ready = {} /\ OnCpu \cap (Free \cup Ready) = {}
      /\ Free \cup Ready \cup OnCpu \subseteq Unkeyed
  BY <1>0, UserShare
<1>2. /\ SemkeyNamesQueue' /\ Unkeyed' = Unkeyed /\ Free' = Free
      /\ \A k \in Key : NoDuplicates(s_procQ'[k])
      /\ NoDuplicates(pcbFree')
  BY <1>0, KeepSemaphores DEF semVars, Free, LinkInv
<1>3. /\ ready_queue \in Seq(Proc) /\ NoDuplicates(ready_queue)
      /\ original_priority \in [Pcb -> Nat] /\ priority \in [Pcb -> Nat]
  BY DEF LinkInv, TypeOK
<1>. DEFINE prio == aged(Range(ready_queue))
<1>4. prio \in [Pcb -> Nat]
  BY <1>3, AgedType
<1>. HIDE DEF prio
<1>5. ASSUME ready_queue # <<>>, stop_running_proc(Tail(ready_queue), prio),
             running_proc' = Head(ready_queue)
      PROVE  /\ ready_queue' \in Seq(Proc) /\ NoDuplicates(ready_queue')
             /\ running_proc' \in Pcb /\ priority' \in [Pcb -> Nat]
             /\ Ready' \cup OnCpu' = Ready \cup OnCpu /\ OnCpu' \cap Ready' = {}
  <2>1. \A t \in Proc : prio[t] \in Int
    BY <1>4, ProcFacts
  <2>2. /\ Head(ready_queue) \in Proc /\ Head(ready_queue) \in Ready
        /\ Tail(ready_queue) \in Seq(Proc) /\ NoDuplicates(Tail(ready_queue))
        /\ Range(Tail(ready_queue)) = Ready \ {Head(ready_queue)}
    BY <1>3, <1>5, <2>1, RemoveProcQ DEF Ready
  <2>3. running_proc \notin Range(Tail(ready_queue))
    <3>1. \A t \in Range(Tail(ready_queue)) : t \in Proc
      BY <2>2, RangeOfSeq
    <3>. QED BY <1>1, <2>2, <3>1 DEF OnCpu
  <2>4. /\ ready_queue' \in Seq(Proc) /\ priority' \in [Pcb -> Nat]
        /\ Ready' = Range(Tail(ready_queue)) \cup OnCpu
        /\ NoDuplicates(ready_queue')
    BY <1>1, <1>3, <1>4, <1>5, <2>2, <2>3, StopRunningProc DEF Ready
  <2>5. OnCpu' = {Head(ready_queue)} /\ running_proc' \in Pcb
    BY <1>5, <2>2, ProcFacts DEF OnCpu
  <2>. QED BY <1>1, <2>2, <2>4, <2>5
<1>6. ASSUME priority' = prio, UNCHANGED <<ready_queue, running_proc>>
      PROVE  /\ ready_queue' \in Seq(Proc) /\ NoDuplicates(ready_queue')
             /\ running_proc' \in Pcb /\ priority' \in [Pcb -> Nat]
             /\ Ready' \cup OnCpu' = Ready \cup OnCpu /\ OnCpu' \cap Ready' = {}
  BY <1>1, <1>3, <1>4, <1>6 DEF Ready, OnCpu
<1>7. /\ ready_queue' \in Seq(Proc) /\ NoDuplicates(ready_queue')
      /\ running_proc' \in Pcb /\ priority' \in [Pcb -> Nat]
      /\ Ready' \cup OnCpu' = Ready \cup OnCpu /\ OnCpu' \cap Ready' = {}
  BY <1>5, <1>6 DEF time_slice_callback, prio
<1>8. TypeOK'
  BY <1>0, <1>7, ProcFacts DEF LinkInv, TypeOK, treeVars, semVars
<1>9. /\ Free' \cap Ready' = {} /\ Free' \cup Ready' \subseteq Unkeyed'
      /\ OnCpu' \subseteq Unkeyed' \ (Free' \cup Ready')
      /\ Lost' \subseteq Lost
  <2>1. /\ Free' \cap (Ready' \cup OnCpu') = {}
        /\ Free' \cup (Ready' \cup OnCpu') = Free \cup Ready \cup OnCpu
    BY <1>1, <1>2, <1>7
  <2>2. Lost' \subseteq Lost
    BY <1>0, <1>2, <2>1 DEF Lost, Killing
  <2>. QED BY <1>1, <1>2, <1>7, <2>1, <2>2
<1>. QED BY <1>0, <1>2, <1>7, <1>8, <1>9 DEF LinkInv, Killing

\* terminate_proc puts the running process back in the ready queue.
LEMMA TerminateProcLinks ==
    ASSUME LinkInv, NEW p \in Proc, terminate_proc(p) PROVE LinkInv' /\ Lost' \subseteq Lost
<1>0. /\ InSyscall /\ pc = "user"
      /\ UNCHANGED <<pcbFree, running_proc, pcbVars, semVars, w_for_res>>
  BY DEF terminate_proc, InSyscall
<1>1. /\ running_proc \in Proc
      /\ Free \cap Ready = {} /\ OnCpu \cap (Free \cup Ready) = {}
      /\ Free \cup Ready \cup OnCpu \subseteq Unkeyed /\ OnCpu = {running_proc}
  BY <1>0, UserShare
<1>2. /\ SemkeyNamesQueue' /\ Unkeyed' = Unkeyed /\ Free' = Free
      /\ \A k \in Key : NoDuplicates(s_procQ'[k])
      /\ NoDuplicates(pcbFree')
  BY <1>0, KeepSemaphores DEF semVars, pcbVars, Free, LinkInv
<1>3. CASE pc' = "TreeBroken" /\ UNCHANGED <<treeVars, ready_queue, frames>>
  <2>1. TypeOK'
    BY <1>0, <1>3 DEF LinkInv, TypeOK, treeVars, semVars, pcbVars, Locations, Panics
  <2>2. Ready' = Ready
    BY <1>3 DEF Ready
  <2>3. Lost' \subseteq Lost
    BY <1>0, <1>2, <1>3, <2>2 DEF Lost, Killing, OnCpu
  <2>. QED BY <1>2, <1>3, <2>1, <2>2, <2>3 DEF LinkInv, Killing
<1>4. ASSUME IF p_parent[p] = NULL THEN UNCHANGED treeVars
             ELSE p_child[p_parent[p]] # <<>> /\ outChild(p),
             ready_queue' = insertProcQ(ready_queue, running_proc, priority),
             frames' = <<p>>, pc' = "remove"
      PROVE  LinkInv' /\ Lost' \subseteq Lost
  <2>1. /\ p_parent \in [Proc -> Proc \cup {NULL}] /\ p_child \in [Proc -> Seq(Proc)]
        /\ priority \in [Pcb -> Nat]
        /\ ready_queue \in Seq(Proc) /\ NoDuplicates(ready_queue)
    BY DEF LinkInv, TypeOK
  <2>2. \A t \in Proc : priority[t] \in Int
    BY <2>1, ProcFacts
  <2>3. p_parent' \in [Proc -> Proc \cup {NULL}] /\ p_child' \in [Proc -> Seq(Proc)]
    <3>1. CASE p_parent[p] = NULL
      BY <1>4, <2>1, <3>1 DEF treeVars
    <3>2. CASE p_parent[p] # NULL
      <4>1. outProcQ(p_child[p_parent[p]], p) \in Seq(Proc)
        BY <2>1, <3>2, OutProcQSet
      <4>. QED BY <1>4, <2>1, <3>2, <4>1 DEF outChild
    <3>. QED BY <3>1, <3>2
  <2>4. /\ ready_queue' \in Seq(Proc) /\ NoDuplicates(ready_queue')
        /\ Ready' = Ready \cup {running_proc}
    <3>1. running_proc \notin Range(ready_queue)
      BY <1>1 DEF Ready
    <3>. DEFINE r == insertProcQ(ready_queue, running_proc, priority)
    <3>2. running_proc \in Proc /\ ready_queue \in Seq(Proc)
      BY <1>1, <2>1
    <3>3. /\ r \in Seq(Proc) /\ Range(r) = Range(ready_queue) \cup {running_proc}
          /\ NoDuplicates(ready_queue) /\ running_proc \notin Range(ready_queue)
             => NoDuplicates(r)
      BY <2>2, <3>2, InsertProcQ
    <3>. QED BY <1>4, <2>1, <3>1, <3>3, Zenon DEF Ready
  <2>5. frames' \in Seq(Proc) /\ frames' # <<>>
    BY <1>4
  <2>6. TypeOK'
    BY <1>0, <1>1, <1>4, <2>3, <2>4, <2>5, ProcFacts
    DEF LinkInv, TypeOK, semVars, pcbVars, Locations
  <2>7. /\ Free' \cap Ready' = {} /\ Free' \cup Ready' \subseteq Unkeyed'
        /\ Lost' \subseteq Lost
    <3>1. Killing' /\ ~Killing
      BY <1>0, <1>4 DEF Killing
    <3>. QED BY <1>1, <1>2, <2>4, <3>1 DEF Lost
  <2>8. pc' \notin {"init", "user"}
    BY <1>4
  <2>. QED BY <1>2, <2>4, <2>5, <2>6, <2>7, <2>8 DEF LinkInv
<1>. QED BY <1>3, <1>4 DEF terminate_proc

\* The PCB that recursive_remove_proc works on.
LEMMA FrameFacts ==
    ASSUME LinkInv, Killing
    PROVE  /\ frames \in Seq(Proc) /\ frames # <<>>
           /\ Head(frames) \in Proc /\ Tail(frames) \in Seq(Proc)
           /\ Len(frames) > 1 => Tail(frames) # <<>>
           /\ Free \cap Ready = {} /\ Free \cup Ready \subseteq Unkeyed
<1>1. frames \in Seq(Proc) /\ frames # <<>>
  BY DEF LinkInv, TypeOK
<1>2. /\ Head(frames) \in Proc /\ Tail(frames) \in Seq(Proc)
      /\ Len(frames) > 1 => Tail(frames) # <<>>
  <2>1. /\ Head(frames) \in Proc /\ Tail(frames) \in Seq(Proc)
        /\ Len(Tail(frames)) = Len(frames) - 1 /\ Len(frames) \in Nat
    BY <1>1, HeadTailProperties, LenProperties
  <2>2. Len(frames) > 1 => Tail(frames) # <<>>
    <3>. DEFINE rest == Tail(frames)
    <3>1. Len(<<>>) = 0
      OBVIOUS
    <3>2. Len(rest) = Len(frames) - 1 /\ Len(frames) \in Nat
      BY <2>1
    <3>. HIDE DEF rest
    <3>3. Len(frames) > 1 => rest # <<>>
      BY <3>1, <3>2
    <3>. QED BY <3>3 DEF rest
  <2>. QED BY <2>1, <2>2
<1>. QED BY <1>1, <1>2 DEF LinkInv

\* recursive_remove_proc moves a PCB from its semaphore queue or the ready queue
\* to the free list.
LEMMA RecursiveRemoveLinks ==
    ASSUME LinkInv, recursive_remove_proc
    PROVE  /\ TypeOK' /\ SemkeyNamesQueue' /\ Lost' \subseteq Lost
           /\ pc' # "corrupt" => LinkInv'
           /\ pc' = "corrupt" => dev_w_list[Head(frames)] # NULL
<1>. DEFINE p == Head(frames)
            k == p_semkey[p]
<1>0. /\ pc = "remove" /\ Killing
      /\ UNCHANGED <<running_proc, priority, original_priority, dev_w_list, treeVars,
                     semval, frames>>
  BY DEF recursive_remove_proc, Killing
<1>1. /\ frames # <<>> /\ p \in Proc
      /\ Free \cap Ready = {} /\ Free \cup Ready \subseteq Unkeyed
  BY <1>0, FrameFacts
<1>2. /\ TypeOK /\ pcbFree \in Seq(Proc) /\ NoDuplicates(pcbFree)
      /\ ready_queue \in Seq(Proc) /\ NoDuplicates(ready_queue)
      /\ k \in Key \cup {NULL}
  BY <1>1 DEF LinkInv, TypeOK
<1>4. freePcb(p) => /\ pcbFree' \in Seq(Proc) /\ Free' = Free \cup {p}
                    /\ p \notin Free => NoDuplicates(pcbFree')
  <2>1. /\ <<p>> \o pcbFree \in Seq(Proc)
        /\ Range(<<p>> \o pcbFree) = Range(pcbFree) \cup {p}
        /\ p \notin Range(pcbFree) => NoDuplicates(<<p>> \o pcbFree)
    BY <1>1, <1>2, PushProperties
  <2>. QED BY <2>1 DEF freePcb, Free
<1>5. ASSUME k # NULL, p \in Range(Waiters(k)), unlinkBlocked(k, p), freePcb(p),
             pc' = "children", UNCHANGED <<ready_queue, w_for_res>>
      PROVE  LinkInv' /\ Lost' \subseteq Lost
  <2>1. k \in Key
    BY <1>2, <1>5
  <2>2. p \in Queued(k)
    <3>1. Waiters(k) = s_procQ[k] \/ Waiters(k) = <<>>
      BY DEF Waiters
    <3>2. Range(<<>>) = {}
      BY DEF Range
    <3>. QED BY <1>5, <3>1, <3>2, Zenon DEF Queued
  <2>3. /\ SemkeyNamesQueue' /\ Unkeyed' = Unkeyed \cup {p} /\ p \notin Unkeyed
        /\ \A l \in Key : NoDuplicates(s_procQ'[l])
    BY <1>5, <2>1, <2>2, UnlinkBlockedLinks
  <2>4. /\ semd_h' \subseteq Key /\ s_procQ' \in [Key -> Seq(Proc)]
        /\ p_semkey' \in [Proc -> Key \cup {NULL}]
    BY <1>1, <1>2, <1>5, <2>1, UnlinkBlocked
  <2>5. pcbFree' \in Seq(Proc) /\ NoDuplicates(pcbFree') /\ Free' = Free \cup {p}
    BY <1>1, <1>4, <1>5, <2>3
  <2>6. Ready' = Ready /\ NoDuplicates(ready_queue')
    BY <1>2, <1>5 DEF Ready
  <2>. HIDE DEF p, k
  <2>7. TypeOK'
    BY <1>0, <1>2, <1>5, <2>4, <2>5 DEF TypeOK, treeVars, Locations
  <2>8. /\ Free' \cap Ready' = {} /\ Free' \cup Ready' \subseteq Unkeyed'
        /\ Lost' \subseteq Lost
    <3>1. Killing' /\ Killing
      BY <1>0, <1>5 DEF Killing
    <3>. QED BY <1>1, <2>3, <2>5, <2>6, <3>1 DEF Lost
  <2>9. pc' \notin {"init", "user"} /\ frames' # <<>>
    BY <1>0, <1>1, <1>2, <1>5
  <2>. QED BY <2>3, <2>5, <2>6, <2>7, <2>8, <2>9 DEF LinkInv
<1>6. ASSUME p \in Range(ready_queue), ready_queue' = outProcQ(ready_queue, p), freePcb(p),
             pc' = "children", UNCHANGED <<p_semkey, semd_h, s_procQ, w_for_res>>
      PROVE  LinkInv' /\ Lost' \subseteq Lost
  <2>1. /\ ready_queue' \in Seq(Proc) /\ NoDuplicates(ready_queue')
        /\ Ready' = Ready \ {p}
    <3>. HIDE DEF p
    <3>. DEFINE r == outProcQ(ready_queue, p)
    <3>1. /\ r \in Seq(Proc)
          /\ NoDuplicates(ready_queue) =>
                NoDuplicates(r) /\ Range(r) = Range(ready_queue) \ {p}
      BY <1>2, OutProcQSet
    <3>. QED BY <1>2, <1>6, <3>1, Zenon DEF Ready
  <2>2. p \in Ready /\ p \notin Free
    BY <1>1, <1>6 DEF Ready
  <2>3. pcbFree' \in Seq(Proc) /\ NoDuplicates(pcbFree') /\ Free' = Free \cup {p}
    BY <1>4, <1>6, <2>2
  <2>. HIDE DEF p, k
  <2>4. /\ SemkeyNamesQueue' /\ Unkeyed' = Unkeyed
        /\ \A l \in Key : NoDuplicates(s_procQ'[l])
    BY <1>0, <1>6, KeepSemaphores
  <2>5. TypeOK'
    BY <1>0, <1>2, <1>6, <2>1, <2>3 DEF TypeOK, treeVars, Locations
  <2>6. /\ Free' \cap Ready' = {} /\ Free' \cup Ready' \subseteq Unkeyed'
        /\ Lost' \subseteq Lost
    <3>1. Killing' /\ Killing
      BY <1>0, <1>6 DEF Killing
    <3>. QED BY <1>1, <2>1, <2>2, <2>3, <2>4, <3>1 DEF Lost
  <2>7. pc' \notin {"init", "user"} /\ frames' # <<>>
    BY <1>0, <1>1, <1>6
  <2>. QED BY <2>1, <2>3, <2>4, <2>5, <2>6, <2>7 DEF LinkInv
<1>7. ASSUME k = NULL, dev_w_list[p] # NULL,
             w_for_res' = [w_for_res EXCEPT ![dev_w_list[p]] = NULL], freePcb(p),
             pc' = "corrupt", UNCHANGED <<ready_queue, p_semkey, semd_h, s_procQ>>
      PROVE  TypeOK' /\ SemkeyNamesQueue' /\ Lost' \subseteq Lost
  <2>1. pcbFree' \in Seq(Proc) /\ Free' = Free \cup {p}
    BY <1>4, <1>7
  <2>2. w_for_res' \in [Dev -> Proc \cup {NULL}]
    BY <1>2, <1>7 DEF TypeOK
  <2>. HIDE DEF p, k
  <2>3. TypeOK'
    BY <1>0, <1>2, <1>7, <2>1, <2>2 DEF TypeOK, treeVars, Locations
  <2>4. Unkeyed' = Unkeyed /\ Ready' = Ready
    BY <1>7 DEF Unkeyed, Ready
  <2>5. Lost' \subseteq Lost
    BY <1>0, <2>1, <2>4 DEF Lost
  <2>6. SemkeyNamesQueue'
    BY <1>7, KeepSemaphores
  <2>. QED BY <2>3, <2>5, <2>6
<1>8. ASSUME pc' = "NotFound",
             UNCHANGED <<pcbFree, ready_queue, p_semkey, semd_h, s_procQ, w_for_res>>
      PROVE  LinkInv' /\ Lost' \subseteq Lost
  <2>. HIDE DEF p, k
  <2>2. /\ SemkeyNamesQueue' /\ Unkeyed' = Unkeyed
        /\ \A l \in Key : NoDuplicates(s_procQ'[l])
    BY <1>0, <1>8, KeepSemaphores
  <2>3. TypeOK'
    BY <1>0, <1>2, <1>8 DEF TypeOK, treeVars, Locations, Panics
  <2>4. Free' = Free /\ Ready' = Ready
    BY <1>8 DEF Free, Ready
  <2>5. Lost' \subseteq Lost
    BY <1>0, <2>2, <2>4 DEF Lost
  <2>. QED BY <1>1, <1>2, <1>8, <2>2, <2>3, <2>4, <2>5 DEF LinkInv, Killing
<1>9. \/ LinkInv' /\ Lost' \subseteq Lost /\ pc' # "corrupt"
      \/ /\ TypeOK' /\ SemkeyNamesQueue' /\ Lost' \subseteq Lost
         /\ pc' = "corrupt" /\ dev_w_list[p] # NULL
  BY <1>5, <1>6, <1>7, <1>8 DEF recursive_remove_proc
<1>10. LinkInv' => TypeOK' /\ SemkeyNamesQueue'
  BY DEF LinkInv
<1>. QED BY <1>9, <1>10

\* remove_child changes the tree only.
LEMMA RemoveChildLinks == ASSUME LinkInv, remove_child PROVE LinkInv' /\ Lost' \subseteq Lost
<1>0. /\ Killing /\ pc' = "remove" /\ p_child[Head(frames)] # <<>>
      /\ UNCHANGED <<pcbFree, ready_queue, running_proc, pcbVars, semVars, w_for_res>>
  BY DEF remove_child, Killing
<1>1. /\ frames \in Seq(Proc) /\ Head(frames) \in Proc
      /\ Free \cap Ready = {} /\ Free \cup Ready \subseteq Unkeyed
  BY <1>0, FrameFacts
<1>. DEFINE p == Head(frames)
            child == Head(p_child[p])
<1>2. p_child \in [Proc -> Seq(Proc)] /\ p_parent \in [Proc -> Proc \cup {NULL}]
  BY DEF LinkInv, TypeOK
<1>3. child \in Proc /\ Tail(p_child[p]) \in Seq(Proc)
  BY <1>0, <1>1, <1>2, HeadTailProperties, LenProperties, EmptySeq
<1>4. /\ p_child' = [p_child EXCEPT ![p] = Tail(@)]
      /\ p_parent' = [p_parent EXCEPT ![child] = NULL]
      /\ frames' = <<child>> \o frames
  BY DEF remove_child
<1>5. frames' \in Seq(Proc) /\ frames' # <<>>
  <2>1. /\ <<child>> \o frames \in Seq(Proc)
        /\ Range(<<child>> \o frames) = Range(frames) \cup {child}
    BY <1>1, <1>3, PushProperties
  <2>2. Range(<<>>) = {}
    BY DEF Range
  <2>. QED BY <1>4, <2>1, <2>2
<1>6. p_child' \in [Proc -> Seq(Proc)] /\ p_parent' \in [Proc -> Proc \cup {NULL}]
  BY <1>1, <1>2, <1>3, <1>4
<1>. HIDE DEF p, child
<1>7. /\ SemkeyNamesQueue' /\ Unkeyed' = Unkeyed /\ Free' = Free /\ Ready' = Ready
      /\ \A l \in Key : NoDuplicates(s_procQ'[l])
  BY <1>0, KeepSemaphores DEF pcbVars, semVars, Free, Ready
<1>8. running_proc # NULL
  BY <1>0, ProcFacts DEF LinkInv, TypeOK, Killing
<1>9. TypeOK'
  BY <1>0, <1>5, <1>6, <1>8 DEF LinkInv, TypeOK, pcbVars, semVars, Locations
<1>10. Killing' /\ Lost' \subseteq Lost
  BY <1>0, <1>7 DEF Lost, Killing
<1>. QED BY <1>0, <1>1, <1>5, <1>7, <1>9, <1>10 DEF LinkInv, Killing

\* remove_return changes the frames only.
LEMMA RemoveReturnLinks == ASSUME LinkInv, remove_return PROVE LinkInv' /\ Lost' \subseteq Lost
<1>0. /\ Killing /\ Len(frames) > 1 /\ frames' = Tail(frames)
      /\ UNCHANGED <<pc, pcbFree, ready_queue, running_proc, pcbVars, treeVars, semVars,
                     w_for_res>>
  BY DEF remove_return, Killing
<1>1. frames' \in Seq(Proc) /\ frames' # <<>>
  BY <1>0, FrameFacts
<1>2. /\ SemkeyNamesQueue' /\ Unkeyed' = Unkeyed /\ Free' = Free /\ Ready' = Ready
      /\ \A l \in Key : NoDuplicates(s_procQ'[l])
  BY <1>0, KeepSemaphores DEF pcbVars, semVars, Free, Ready
<1>3. TypeOK'
  BY <1>0, <1>1 DEF LinkInv, TypeOK, pcbVars, semVars, treeVars
<1>4. Lost' \subseteq Lost
  BY <1>0, <1>2 DEF Lost, Killing
<1>. QED BY <1>0, <1>1, <1>2, <1>3, <1>4 DEF LinkInv, Killing

\* terminate_return moves the running process, or the head, back to the CPU.
LEMMA TerminateReturnLinks == ASSUME LinkInv, terminate_return PROVE LinkInv' /\ Lost' \subseteq Lost
<1>0. /\ Killing /\ pc' = "user" /\ frames' = <<>>
      /\ UNCHANGED <<pcbFree, pcbVars, treeVars, semVars, w_for_res>>
  BY DEF terminate_return, Killing
<1>1. Free \cap Ready = {} /\ Free \cup Ready \subseteq Unkeyed
  BY <1>0, FrameFacts
<1>2. /\ ready_queue \in Seq(Proc) /\ NoDuplicates(ready_queue) /\ priority \in [Pcb -> Nat]
  BY DEF LinkInv, TypeOK
<1>4. /\ ready_queue' \in Seq(Proc) /\ NoDuplicates(ready_queue')
      /\ running_proc' \in Pcb
      /\ Ready' \cup OnCpu' = Ready /\ OnCpu' \cap Ready' = {}
  <2>1. CASE running_proc \in Range(ready_queue)
    <3>1. ready_queue' = outProcQ(ready_queue, running_proc) /\ running_proc' = running_proc
      BY <2>1 DEF terminate_return
    <3>2. running_proc \in Proc
      BY <1>2, <2>1, RangeOfSeq
    <3>3. /\ ready_queue' \in Seq(Proc) /\ NoDuplicates(ready_queue')
          /\ Ready' = Ready \ {running_proc}
      BY <1>2, <3>1, OutProcQSet DEF Ready
    <3>4. OnCpu' = {running_proc} /\ running_proc \in Ready /\ running_proc' \in Pcb
      BY <2>1, <3>1, <3>2, ProcFacts DEF OnCpu, Ready
    <3>. QED BY <3>3, <3>4
  <2>2. CASE running_proc \notin Range(ready_queue)
    <3>1. run_first_ready
      BY <2>2 DEF terminate_return
    <3>2. /\ running_proc' \in Pcb
          /\ ready_queue' \in Seq(Proc) /\ NoDuplicates(ready_queue')
          /\ running_proc' \notin Ready' /\ Ready' \cup OnCpu' = Ready
      BY <1>2, <3>1, RunFirstReady DEF Ready
    <3>. QED BY <3>2 DEF OnCpu
  <2>. QED BY <2>1, <2>2
<1>5. /\ SemkeyNamesQueue' /\ Unkeyed' = Unkeyed /\ Free' = Free
      /\ \A l \in Key : NoDuplicates(s_procQ'[l])
      /\ NoDuplicates(pcbFree')
  BY <1>0, KeepSemaphores DEF pcbVars, semVars, Free, LinkInv
<1>6. TypeOK'
  <2>1. frames' \in Seq(Proc) /\ running_proc' # NULL
    BY <1>0, <1>4, ProcFacts
  <2>. QED BY <1>0, <1>4, <2>1 DEF LinkInv, TypeOK, pcbVars, semVars, treeVars, Locations
<1>7. /\ Free' \cap Ready' = {} /\ Free' \cup Ready' \subseteq Unkeyed'
      /\ OnCpu' \subseteq Unkeyed' \ (Free' \cup Ready')
      /\ Lost' \subseteq Lost
  <2>1. Lost' \subseteq Lost
    BY <1>0, <1>4, <1>5 DEF Lost, Killing
  <2>. QED BY <1>1, <1>4, <1>5, <2>1
<1>. QED BY <1>0, <1>4, <1>5, <1>6, <1>7 DEF LinkInv, Killing

\* Every step preserves LinkInv and loses no PCB, but for the step that frees
\* a PCB with a stale dev_w_list.
LEMMA LinkInvNext ==
    ASSUME LinkInv, Next \/ UNCHANGED vars
    PROVE  /\ TypeOK' /\ SemkeyNamesQueue' /\ Lost' \subseteq Lost
           /\ pc' # "corrupt" => LinkInv'
           /\ pc' = "corrupt" => \/ pc = "corrupt"
                                 \/ Killing /\ dev_w_list[Head(frames)] # NULL
<1>0. LinkInv' => TypeOK' /\ SemkeyNamesQueue'
  BY DEF LinkInv
<1>1. CASE UNCHANGED vars
  <2>1. LinkInv' /\ Lost' = Lost
    BY <1>1 DEF vars, pcbVars, treeVars, semVars, LinkInv, TypeOK, Killing, Free, Ready,
                Unkeyed, OnCpu, SemkeyNamesQueue, Queued, Lost
  <2>. QED BY <1>0, <1>1, <2>1 DEF vars
<1>2. CASE recursive_remove_proc
  BY <1>2, RecursiveRemoveLinks DEF recursive_remove_proc, Killing
<1>3. ASSUME Next, ~recursive_remove_proc, ~UNCHANGED vars
      PROVE  LinkInv' /\ Lost' \subseteq Lost
  BY <1>3, InitProcLinks, LaunchLinks, CreateProcessLinks, PasserenLinks, VerhogenLinks,
     TimeSliceLinks, TerminateProcLinks, RemoveChildLinks, RemoveReturnLinks,
     TerminateReturnLinks
  DEF Next, starting, semaphore_call, process_call, terminating, halted
<1>4. ASSUME Next, ~recursive_remove_proc, ~UNCHANGED vars
      PROVE  pc' = "corrupt" => pc = "corrupt"
  BY <1>4 DEF Next, starting, semaphore_call, process_call, terminating, halted, init_proc, launch,
     create_process, passeren, verhogen, time_slice_callback, terminate_proc,
     remove_child, remove_return, terminate_return, InSyscall, vars
<1>. QED BY <1>0, <1>1, <1>2, <1>3, <1>4

\* The actions of Scheduler leave dev_w_list alone.
LEMMA KeepDevices == Next \/ UNCHANGED vars => UNCHANGED dev_w_list
<1>1. ASSUME NEW prio, init_proc(prio) \/ create_process(prio)
      PROVE  UNCHANGED dev_w_list
  BY <1>1 DEF init_proc, create_process, allocPcb, pcbVars
<1>2. ASSUME NEW k, passeren(k) \/ verhogen(k)
      PROVE  UNCHANGED dev_w_list
  BY <1>2 DEF passeren, verhogen
<1>3. ASSUME NEW p, terminate_proc(p)
      PROVE  UNCHANGED dev_w_list
  BY <1>3 DEF terminate_proc, pcbVars
<1>4. launch \/ time_slice_callback \/ terminating \/ halted \/ UNCHANGED vars
         => UNCHANGED dev_w_list
  BY DEF launch, time_slice_callback, terminating, recursive_remove_proc, remove_child,
         remove_return, terminate_return, halted, vars, pcbVars
<1>. QED BY <1>1, <1>2, <1>3, <1>4 DEF Next, starting, semaphore_call, process_call

\* Every step preserves QueueInv.
LEMMA QueueInvNext == QueueInv /\ [Next]_vars => QueueInv'
<1>. SUFFICES ASSUME QueueInv, [Next]_vars PROVE QueueInv'
  OBVIOUS
<1>1. LinkInv /\ Lost = {} /\ dev_w_list = [p \in Proc |-> NULL]
  BY DEF QueueInv
<1>2. dev_w_list' = [p \in Proc |-> NULL]
  BY <1>1, KeepDevices
<1>3. pc' # "corrupt"
  <2>1. Killing => Head(frames) \in Proc
    BY <1>1, FrameFacts
  <2>. QED BY <1>1, <2>1, LinkInvNext DEF QueueInv
<1>. QED BY <1>1, <1>2, <1>3, LinkInvNext DEF QueueInv

-----------------------------------------------------------------------------
(* What the actions of this module may do to a device: shorten its queue,  *)
(* by killing a process that waits there.                                  *)

DeviceKept(d) ==
    /\ semval'[d] = semval[d]
    /\ w_for_res'[d] = w_for_res[d]
    /\ Queued(d)' \subseteq Queued(d)

\* An action that leaves the semaphores and w_for_res alone.
LEMMA KeepDevice ==
    ASSUME UNCHANGED <<semval, s_procQ, w_for_res>>, NEW d \in Dev PROVE DeviceKept(d)
  BY DEF DeviceKept, Queued

\* passeren and verhogen are called with the address of a semaphore, which is
\* not that of a w_for_cmd_sem.
LEMMA SemaphoreKeepsDevice ==
    ASSUME LinkInv, NEW k \in Sem, passeren(k) \/ verhogen(k), NEW d \in Dev
    PROVE  DeviceKept(d)
<1>1. d # k /\ d \in Key /\ k \in Key
  BY ProcFacts, KeyAssumption
<1>2. semval \in [Key -> Int] /\ s_procQ \in [Key -> Seq(Proc)]
  BY DEF LinkInv, TypeOK
<1>3. w_for_res' = w_for_res
  BY DEF passeren, verhogen
<1>4. semval'[d] = semval[d]
  <2>1. \/ semval' = semval
        \/ semval' = [semval EXCEPT ![k] = @ - 1]
        \/ semval' = [semval EXCEPT ![k] = @ + 1]
    BY DEF passeren, verhogen
  <2>. QED BY <1>1, <1>2, <2>1
<1>5. s_procQ'[d] = s_procQ[d]
  <2>1. \/ s_procQ' = s_procQ
        \/ insertBlocked(k, running_proc)
        \/ unlinkBlocked(k, Head(Waiters(k)))
    BY Zenon DEF passeren, verhogen
  <2>. QED BY <1>1, <1>2, <2>1 DEF insertBlocked, unlinkBlocked
<1>. QED BY <1>3, <1>4, <1>5 DEF DeviceKept, Queued

\* A kill takes processes out of the queue of a device, but changes nothing
\* else of it unless it corrupts the lists.
LEMMA RemoveKeepsDevice ==
    ASSUME LinkInv, recursive_remove_proc, pc' # "corrupt", NEW d \in Dev
    PROVE  DeviceKept(d)
<1>. DEFINE p == Head(frames)
            k == p_semkey[p]
<1>1. p \in Proc /\ d \in Key
  BY FrameFacts, ProcFacts DEF recursive_remove_proc, Killing
<1>2. semval' = semval /\ w_for_res' = w_for_res
  BY DEF recursive_remove_proc
<1>3. CASE s_procQ' = s_procQ
  BY <1>2, <1>3, KeepDevice
<1>4. CASE k # NULL /\ p \in Range(Waiters(k)) /\ unlinkBlocked(k, p)
  <2>1. k \in Key /\ TypeOK
    BY <1>1, <1>4 DEF LinkInv, TypeOK
  <2>. HIDE DEF k, p
  <2>2. NoDuplicates(s_procQ[k])
    BY <2>1 DEF LinkInv
  <2>3. /\ Range(s_procQ'[k]) = Queued(k) \ {p}
        /\ \A l \in Key \ {k} : s_procQ'[l] = s_procQ[l]
    BY <1>1, <1>4, <2>1, <2>2, UnlinkBlocked DEF Queued
  <2>4. CASE d = k
    BY <1>2, <2>3, <2>4 DEF DeviceKept, Queued
  <2>5. CASE d # k
    BY <1>1, <1>2, <2>3, <2>5 DEF DeviceKept, Queued
  <2>. QED BY <2>4, <2>5
<1>. QED BY <1>3, <1>4 DEF recursive_remove_proc

\* No action does more to a device, but the step that corrupts the lists.
LEMMA NextKeepsDevice ==
    ASSUME LinkInv, Next \/ UNCHANGED vars, pc' # "corrupt", NEW d \in Dev
    PROVE  DeviceKept(d)
<1>1. ASSUME NEW k \in Sem, passeren(k) \/ verhogen(k) PROVE DeviceKept(d)
  BY <1>1, SemaphoreKeepsDevice
<1>2. ASSUME recursive_remove_proc PROVE DeviceKept(d)
  BY <1>2, RemoveKeepsDevice
<1>3. ASSUME NEW prio \in Priorities, init_proc(prio) \/ create_process(prio)
      PROVE  UNCHANGED <<semval, s_procQ, w_for_res>>
  BY <1>3 DEF init_proc, create_process, semVars
<1>4. ASSUME NEW p \in Proc, terminate_proc(p)
      PROVE  UNCHANGED <<semval, s_procQ, w_for_res>>
  BY <1>4 DEF terminate_proc, semVars
<1>5. ASSUME launch \/ time_slice_callback \/ remove_child \/ remove_return
               \/ terminate_return \/ halted \/ UNCHANGED vars
      PROVE  UNCHANGED <<semval, s_procQ, w_for_res>>
  BY <1>5 DEF launch, time_slice_callback, remove_child, remove_return, terminate_return,
              halted, vars, semVars
<1>. QED BY <1>1, <1>2, <1>3, <1>4, <1>5, KeepDevice
         DEF Next, starting, semaphore_call, process_call, terminating

-----------------------------------------------------------------------------
(* The theorems about the queues. *)

\* QueueInv holds in every reachable state.
THEOREM QueuesInvariant == Spec => []QueueInv
  BY QueueInvInit, QueueInvNext, PTL DEF Spec

\* The types of the state, for any number of PCBs, keys and priorities.
THEOREM TypeCorrect == Spec => []TypeOK
  BY QueuesInvariant, QueueInvImplies, PTL

\* No PCB is ever linked in two lists, or twice in one, whatever sequence of
\* system calls, interrupts and kills came before.
THEOREM PcbsLinkedOnce == Spec => []LinkedOnce
  BY QueuesInvariant, QueueInvImplies, PTL

\* No PCB ever drops out of the lists of the kernel.
THEOREM PcbsNeverLost == Spec => []NoProcessLost
  BY QueuesInvariant, QueueInvImplies, PTL

\* p_semkey and the ASL agree with the queues.
THEOREM SemkeysCorrect == Spec => []SemkeyNamesQueue
  BY QueuesInvariant, QueueInvImplies, PTL

-----------------------------------------------------------------------------
(* MAXPROC descriptors are enough: each one in use has a blocked process   *)
(* of its own, and the process that calls p is not blocked.                *)

\* Head of the queue is an injection from the keys in use into the processes
\* other than the running one.
LEMMA EnoughSemds == ASSUME LinkInv, InSyscall PROVE Cardinality(semd_h) < MAXPROC
<1>. DEFINE others == Proc \ {running_proc}
            first == [k \in semd_h |-> Head(s_procQ[k])]
<1>1. /\ running_proc \in Proc /\ p_semkey[running_proc] = NULL
  BY UserShare DEF InSyscall, Unkeyed
<1>2. IsFiniteSet(others) /\ Cardinality(others) = MAXPROC - 1
  <2>1. IsFiniteSet(0 .. MAXPROC - 1) /\ Cardinality(0 .. MAXPROC - 1) = MAXPROC
    BY MaxProcAssumption, FS_Interval
  <2>2. IsFiniteSet(Proc) /\ Cardinality(Proc) = MAXPROC
    BY <2>1 DEF Proc
  <2>. HIDE DEF others
  <2>3. others = Proc \ {running_proc}
    BY DEF others
  <2>. QED BY <1>1, <2>2, <2>3, FS_RemoveElement
<1>3. TypeOK /\ SemkeyNamesQueue
  BY DEF LinkInv
<1>4. \A k \in semd_h : first[k] \in Proc /\ p_semkey[first[k]] = k
  <2>1. SUFFICES ASSUME NEW k \in semd_h PROVE first[k] \in Proc /\ p_semkey[first[k]] = k
    OBVIOUS
  <2>2. k \in Key /\ s_procQ[k] \in Seq(Proc) /\ s_procQ[k] # <<>>
    BY <1>3 DEF TypeOK, SemkeyNamesQueue
  <2>3. first[k] = s_procQ[k][1] /\ 1 \in DOMAIN s_procQ[k] /\ s_procQ[k][1] \in Proc
    BY <2>2, LenProperties, EmptySeq
  <2>4. first[k] \in Queued(k)
    BY <2>3 DEF Queued, Range
  <2>. QED BY <1>3, <2>2, <2>3, <2>4 DEF SemkeyNamesQueue
<1>5. first \in Injection(semd_h, others)
  <2>1. \A k \in semd_h : first[k] \in others
    <3>1. \A k \in semd_h : k # NULL
      BY <1>3, ProcFacts DEF TypeOK
    <3>. QED BY <1>1, <1>4, <3>1
  <2>2. first \in [semd_h -> others]
    BY <2>1
  <2>3. \A k, l \in semd_h : first[k] = first[l] => k = l
    BY <1>4
  <2>. HIDE DEF first
  <2>4. DOMAIN first = semd_h
    BY <2>2
  <2>. QED BY <2>2, <2>3, <2>4 DEF Injection, IsInjective
<1>. HIDE DEF first, others
<1>6. Cardinality(semd_h) <= Cardinality(others) /\ IsFiniteSet(semd_h)
  BY <1>2, <1>5, FS_Injection
<1>7. Cardinality(semd_h) \in Nat
  BY <1>6, FS_CardinalityType
<1>. QED BY <1>2, <1>6, <1>7, MaxProcAssumption

\* passeren is the only action that could find the pool empty.
LEMMA SemdAlwaysFoundNext ==
    QueueInv /\ SemdAlwaysFound /\ [Next]_vars => SemdAlwaysFound'
<1>. SUFFICES ASSUME LinkInv, SemdAlwaysFound, [Next]_vars PROVE SemdAlwaysFound'
  BY DEF QueueInv
<1>1. ASSUME NEW prio \in Priorities, init_proc(prio) \/ create_process(prio)
      PROVE  SemdAlwaysFound'
  BY <1>1 DEF init_proc, create_process, SemdAlwaysFound
<1>2. ASSUME NEW k \in Sem, passeren(k) PROVE SemdAlwaysFound'
  <2>1. FreeSemd(k)
    BY <1>2, EnoughSemds DEF passeren, FreeSemd
  <2>. QED BY <1>2, <2>1 DEF passeren, SemdAlwaysFound
<1>3. ASSUME NEW k \in Sem, verhogen(k) PROVE SemdAlwaysFound'
  BY <1>3 DEF verhogen, SemdAlwaysFound
<1>4. ASSUME NEW p \in Proc, terminate_proc(p) PROVE SemdAlwaysFound'
  BY <1>4 DEF terminate_proc, SemdAlwaysFound
<1>5. ASSUME terminating PROVE SemdAlwaysFound'
  BY <1>5 DEF terminating, recursive_remove_proc, remove_child, remove_return,
              terminate_return, SemdAlwaysFound
<1>6. ASSUME launch \/ time_slice_callback \/ halted \/ UNCHANGED vars PROVE SemdAlwaysFound'
  BY <1>6 DEF launch, time_slice_callback, halted, vars, SemdAlwaysFound
<1>. QED BY <1>1, <1>2, <1>3, <1>4, <1>5, <1>6
         DEF Next, starting, semaphore_call, process_call

\* p never finds the pool of semaphore descriptors empty, for any number of
\* semaphore addresses: the panic of scheduler.c:195 is unreachable.
THEOREM EnoughDescriptors == Spec => []SemdAlwaysFound
<1>1. Init => SemdAlwaysFound
  BY DEF Init, SemdAlwaysFound
<1>. QED BY <1>1, QueuesInvariant, SemdAlwaysFoundNext, PTL DEF Spec

-----------------------------------------------------------------------------
(* Waiters and the value of their semaphore.                               *)

\* What a step may do to a semaphore: one that has waiters afterwards had
\* them before, with the same value, or got its first one at a value of 0.
LEMMA WaitersNext ==
    ASSUME LinkInv, WaitersOnlyAtZero, [Next]_vars, NEW k \in Sem
    PROVE  semval'[k] >= 0 /\ (s_procQ'[k] # <<>> => semval'[k] = 0)
<1>0. /\ k \in Key /\ semval \in [Key -> Int] /\ s_procQ \in [Key -> Seq(Proc)]
      /\ semval[k] >= 0 /\ (s_procQ[k] # <<>> => semval[k] = 0)
  BY ProcFacts DEF LinkInv, TypeOK, WaitersOnlyAtZero
<1>1. ASSUME UNCHANGED <<semval, s_procQ>>
      PROVE  semval'[k] >= 0 /\ (s_procQ'[k] # <<>> => semval'[k] = 0)
  BY <1>0, <1>1
<1>2. ASSUME NEW l \in Sem, passeren(l)
      PROVE  semval'[k] >= 0 /\ (s_procQ'[k] # <<>> => semval'[k] = 0)
  <2>1. l \in Key /\ FreeSemd(l)
    BY <1>2, EnoughSemds, ProcFacts DEF passeren, FreeSemd
  <2>2. semval[l] \in Int
    BY <1>0, <2>1
  <2>3. CASE semval[l] > 0
    <3>1. semval' = [semval EXCEPT ![l] = @ - 1] /\ s_procQ' = s_procQ
      BY <1>2, <2>1, <2>3, <2>2 DEF passeren
    <3>2. s_procQ[l] = <<>>
      BY <1>2, <2>3 DEF WaitersOnlyAtZero
    <3>. QED BY <1>0, <2>1, <2>3, <3>1, <3>2
  <2>4. CASE semval[l] <= 0
    <3>1. insertBlocked(l, running_proc) /\ semval' = semval
      BY <1>2, <2>1, <2>4, <2>2 DEF passeren
    <3>2. \A m \in Key \ {l} : s_procQ'[m] = s_procQ[m]
      BY <1>0, <2>1, <3>1 DEF insertBlocked
    <3>3. semval[l] = 0
      BY <1>0, <1>2, <2>1, <2>4 DEF WaitersOnlyAtZero
    <3>. QED BY <1>0, <3>1, <3>2, <3>3
  <2>. QED BY <1>0, <2>1, <2>3, <2>4
<1>3. ASSUME NEW l \in Sem, verhogen(l)
      PROVE  semval'[k] >= 0 /\ (s_procQ'[k] # <<>> => semval'[k] = 0)
  <2>1. l \in Key /\ Waiters(l) = s_procQ[l]
    BY ProcFacts, WaitersQueue
  <2>2. CASE Waiters(l) = <<>>
    <3>1. semval' = [semval EXCEPT ![l] = @ + 1] /\ s_procQ' = s_procQ
      BY <1>3, <2>2 DEF verhogen
    <3>2. s_procQ[l] = <<>> /\ semval[l] \in Int
      BY <1>0, <2>1, <2>2
    <3>3. CASE k = l
      <4>1. semval'[k] = semval[k] + 1
        BY <1>0, <3>1, <3>3
      <4>. QED BY <1>0, <3>1, <3>2, <3>3, <4>1
    <3>4. CASE k # l
      BY <1>0, <3>1, <3>4
    <3>. QED BY <3>3, <3>4
  <2>3. CASE Waiters(l) # <<>>
    <3>1. semval' = semval /\ unlinkBlocked(l, Head(Waiters(l)))
      BY <1>3, <2>3 DEF verhogen
    <3>2. \A m \in Key \ {l} : s_procQ'[m] = s_procQ[m]
      BY <1>0, <2>1, <3>1 DEF unlinkBlocked
    <3>. QED BY <1>0, <2>1, <2>3, <3>1, <3>2
  <2>. QED BY <2>2, <2>3
<1>4. ASSUME recursive_remove_proc
      PROVE  semval'[k] >= 0 /\ (s_procQ'[k] # <<>> => semval'[k] = 0)
  <2>. DEFINE p == Head(frames)
              l == p_semkey[p]
  <2>1. semval' = semval /\ p \in Proc
    BY <1>4, FrameFacts DEF recursive_remove_proc, Killing
  <2>2. CASE l # NULL /\ p \in Range(Waiters(l)) /\ unlinkBlocked(l, p)
    <3>1. l \in Key
      BY <2>1, <2>2 DEF LinkInv, TypeOK
    <3>. HIDE DEF l, p
    <3>2. Waiters(l) = s_procQ[l]
      BY <3>1, WaitersQueue
    <3>3. s_procQ[l] # <<>>
      BY <2>2, <3>2 DEF Range
    <3>4. \A m \in Key \ {l} : s_procQ'[m] = s_procQ[m]
      BY <1>0, <2>2, <3>1 DEF unlinkBlocked
    <3>. QED BY <1>0, <2>1, <3>3, <3>4
  <2>3. CASE s_procQ' = s_procQ
    BY <1>1, <2>1, <2>3
  <2>. QED BY <1>4, <2>2, <2>3 DEF recursive_remove_proc
<1>5. ASSUME NEW prio \in Priorities, init_proc(prio) \/ create_process(prio)
      PROVE  UNCHANGED <<semval, s_procQ>>
  BY <1>5 DEF init_proc, create_process, semVars
<1>6. ASSUME NEW p \in Proc, terminate_proc(p)
      PROVE  UNCHANGED <<semval, s_procQ>>
  BY <1>6 DEF terminate_proc, semVars
<1>7. ASSUME launch \/ time_slice_callback \/ remove_child \/ remove_return
               \/ terminate_return \/ halted \/ UNCHANGED vars
      PROVE  UNCHANGED <<semval, s_procQ>>
  BY <1>7 DEF launch, time_slice_callback, remove_child, remove_return, terminate_return,
              halted, vars, semVars
<1>. QED BY <1>1, <1>2, <1>3, <1>4, <1>5, <1>6, <1>7
         DEF Next, starting, semaphore_call, process_call, terminating

\* A V is handed to a waiter or counted, never both and never neither, and a
\* killed waiter takes no unit with it: whoever waits, waits at 0.
THEOREM WaitersAtZero == Spec => []WaitersOnlyAtZero
<1>1. Init => WaitersOnlyAtZero
  <2>1. SUFFICES ASSUME Init, NEW k \in Sem PROVE semval[k] >= 0 /\ s_procQ[k] = <<>>
    BY DEF WaitersOnlyAtZero
  <2>2. PICK value \in [Sem -> 0 .. MAXSEM] :
           semval = [l \in Key |-> IF l \in Dev THEN 1 ELSE value[l]]
    BY <2>1 DEF Init
  <2>3. k \in Key
    BY ProcFacts
  <2>4. semval[k] = 1 \/ semval[k] = value[k]
    BY <2>2, <2>3
  <2>5. value[k] \in Nat
    BY <2>2, BoundAssumption
  <2>6. s_procQ[k] = <<>>
    BY <2>1, <2>3 DEF Init
  <2>. QED BY <2>4, <2>5, <2>6
<1>2. QueueInv /\ WaitersOnlyAtZero /\ [Next]_vars => WaitersOnlyAtZero'
  BY WaitersNext DEF WaitersOnlyAtZero, QueueInv
<1>. QED BY <1>1, <1>2, QueuesInvariant, PTL DEF Spec
=============================================================================
