--------------------------- MODULE Nucleus_proofs ---------------------------
(***************************************************************************)
(* Proofs about modules Nucleus and ExclusiveIO: the lists of the process  *)
(* layer and the devices' view of them, for any number of PCBs and         *)
(* devices.                                                                *)
(***************************************************************************)
EXTENDS ExclusiveIO, SchedulerOrder_proofs, SchedulerTree_proofs

\* LinkInv holds until the one step that frees a PCB which is still linked.
\* DeviceAgrees is inductive on top of it.
NucleusInv ==
    /\ NucleusTypeOK
    /\ SemkeyNamesQueue
    /\ pc # "corrupt" => LinkInv
    /\ DeviceAgrees

LEMMA NucleusInvInit == NucleusInit => NucleusInv
<1>. SUFFICES ASSUME NucleusInit PROVE NucleusInv
  OBVIOUS
<1>1. LinkInv
  BY QueueInvInit DEF NucleusInit, QueueInv
<1>2. NucleusTypeOK
  BY <1>1 DEF NucleusInit, NucleusTypeOK, LinkInv
<1>3. ASSUME NEW d \in Dev
      PROVE  /\ semval[d] = 1 /\ dev_status[d] = "ready"
             /\ w_for_res[d] = NULL /\ Queued(d) = {}
  <2>1. d \in Key
    BY ProcFacts
  <2>2. PICK value \in [Sem -> 0 .. MAXSEM] :
           semval = [k \in Key |-> IF k \in Dev THEN 1 ELSE value[k]]
    BY DEF NucleusInit, Init
  <2>3. semval[d] = 1
    BY <2>1, <2>2
  <2>4. s_procQ[d] = <<>> /\ w_for_res[d] = NULL /\ dev_status[d] = "ready"
    BY <2>1 DEF NucleusInit, Init
  <2>. QED BY <2>3, <2>4 DEF Queued, Range
<1>4. DeviceAgrees
  BY <1>3 DEF DeviceAgrees
<1>. QED BY <1>1, <1>2, <1>4 DEF NucleusInv, LinkInv

-----------------------------------------------------------------------------
(* The actions of Scheduler. *)

\* Once a linked PCB has been freed, the process layer stands still.
LEMMA CorruptStays == ASSUME pc = "corrupt", Next \/ UNCHANGED vars PROVE UNCHANGED vars
<1>1. ~InSyscall /\ pc \notin {"init", "user", "remove", "children"}
  BY DEF InSyscall
<1>2. /\ ~starting /\ ~process_call /\ ~time_slice_callback /\ ~terminating
      /\ ~semaphore_call
  BY <1>1 DEF starting, init_proc, launch, process_call, create_process, terminate_proc,
              time_slice_callback, terminating, recursive_remove_proc, remove_child,
              remove_return, terminate_return, semaphore_call, passeren, verhogen
<1>. QED BY <1>2 DEF Next, halted

LEMMA NextKeepsNucleus ==
    ASSUME NucleusInv, Next \/ UNCHANGED vars, UNCHANGED devVars
    PROVE  NucleusInv'
<1>0. UNCHANGED <<dev_status, issued>>
  BY DEF devVars
<1>1. CASE pc = "corrupt"
  <2>1. UNCHANGED vars
    BY <1>1, CorruptStays
  <2>2. pc' = "corrupt" /\ TypeOK /\ SemkeyNamesQueue
    BY <1>1, <2>1 DEF vars, NucleusInv, NucleusTypeOK
  <2>3. TypeOK' /\ SemkeyNamesQueue'
    BY <2>1, <2>2 DEF vars, pcbVars, treeVars, semVars, TypeOK, SemkeyNamesQueue, Queued
  <2>4. NucleusTypeOK'
    BY <1>0, <2>3 DEF NucleusInv, NucleusTypeOK
  <2>. QED BY <2>2, <2>3, <2>4 DEF NucleusInv, DeviceAgrees
<1>2. CASE pc # "corrupt"
  <2>1. LinkInv /\ DeviceAgrees
    BY <1>2 DEF NucleusInv
  <2>2. TypeOK' /\ SemkeyNamesQueue' /\ (pc' # "corrupt" => LinkInv')
    BY <2>1, LinkInvNext
  <2>3. NucleusTypeOK'
    BY <1>0, <2>2 DEF NucleusInv, NucleusTypeOK
  <2>4. ASSUME pc' # "corrupt" PROVE DeviceAgrees'
    <3>1. \A d \in Dev : DeviceKept(d)
      BY <2>1, <2>4, NextKeepsDevice
    <3>. QED BY <1>0, <1>2, <2>1, <3>1 DEF DeviceAgrees, DeviceKept
  <2>5. DeviceAgrees'
    BY <2>4 DEF DeviceAgrees
  <2>. QED BY <2>2, <2>3, <2>5 DEF NucleusInv
<1>. QED BY <1>1, <1>2
-----------------------------------------------------------------------------
(* WAITIO and the device interrupts. *)

\* insertBlockedFifo links p at the tail of the queue of k and nowhere else.
LEMMA InsertFifoLinks ==
    ASSUME LinkInv, NEW k \in Key, NEW p \in Unkeyed, insertBlockedFifo(k, p)
    PROVE  /\ SemkeyNamesQueue' /\ Unkeyed' = Unkeyed \ {p}
           /\ \A l \in Key : NoDuplicates(s_procQ'[l])
           /\ semd_h' \subseteq Key /\ s_procQ' \in [Key -> Seq(Proc)]
           /\ p_semkey' \in [Proc -> Key \cup {NULL}]
<1>1. p \in Proc /\ TypeOK /\ SemkeyNamesQueue /\ p_semkey[p] = NULL
  BY DEF LinkInv, Unkeyed
<1>2. /\ p \notin Queued(k) /\ \A l \in Key : NoDuplicates(s_procQ[l])
      /\ Waiters(k) = s_procQ[k] /\ s_procQ[k] \in Seq(Proc)
  BY <1>1, WaitersQueue, ProcFacts DEF LinkInv, SemkeyNamesQueue
<1>. DEFINE r == Append(s_procQ[k], p)
<1>3. /\ r \in Seq(Proc) /\ r # <<>>
      /\ Range(r) = Queued(k) \cup {p} /\ NoDuplicates(r)
  <2>1. Range(r) = Queued(k) \cup {p} /\ NoDuplicates(r)
    BY <1>1, <1>2, AppendLast DEF Queued
  <2>2. r \in Seq(Proc)
    BY <1>1, <1>2
  <2>3. r # <<>>
    <3>1. Range(<<>>) = {}
      BY DEF Range
    <3>. HIDE DEF r
    <3>. QED BY <2>1, <3>1
  <2>. QED BY <2>1, <2>2, <2>3
<1>4. /\ s_procQ' = [s_procQ EXCEPT ![k] = r] /\ semd_h' = semd_h \cup {k}
      /\ p_semkey' = [p_semkey EXCEPT ![p] = k]
  BY <1>2 DEF insertBlockedFifo
<1>. HIDE DEF r
<1>5. /\ s_procQ \in [Key -> Seq(Proc)] /\ p_semkey \in [Proc -> Key \cup {NULL}]
      /\ semd_h \subseteq Key
  BY <1>1 DEF TypeOK
<1>6. /\ s_procQ' \in [Key -> Seq(Proc)] /\ p_semkey' \in [Proc -> Key \cup {NULL}]
      /\ semd_h' \subseteq Key /\ s_procQ'[k] = r
      /\ \A l \in Key \ {k} : s_procQ'[l] = s_procQ[l]
  BY <1>3, <1>4, <1>5
<1>7. semd_h' = {l \in Key : s_procQ'[l] # <<>>}
  BY <1>1, <1>3, <1>4, <1>6 DEF SemkeyNamesQueue
<1>8. Queued(k)' = Queued(k) \cup {p} /\ \A l \in Key \ {k} : Queued(l)' = Queued(l)
  BY <1>3, <1>6 DEF Queued
<1>9. \A q \in Proc, l \in Key : p_semkey'[q] = l <=> q \in Queued(l)'
  BY <1>1, <1>4, <1>5, <1>8, ProcFacts DEF SemkeyNamesQueue
<1>10. Unkeyed' = Unkeyed \ {p}
  BY <1>1, <1>4, <1>5, ProcFacts DEF Unkeyed
<1>11. \A l \in Key : NoDuplicates(s_procQ'[l])
  BY <1>2, <1>3, <1>6
<1>. QED BY <1>6, <1>7, <1>9, <1>10, <1>11 DEF SemkeyNamesQueue

\* WAITIO moves the running process to the queue of the device.  It always
\* finds a descriptor, so that it never loses the process.
LEMMA WaitIoLinks ==
    ASSUME LinkInv, NEW d \in Dev, wait_io(d)
    PROVE  LinkInv' /\ Lost' \subseteq Lost
<1>0. /\ InSyscall /\ pc = "user" /\ d \in Key /\ run_first_ready
      /\ UNCHANGED <<pc, pcbFree, priority, original_priority, treeVars, frames>>
  BY ProcFacts DEF wait_io, InSyscall
<1>1. /\ running_proc \in Proc
      /\ Free \cap Ready = {} /\ OnCpu \cap (Free \cup Ready) = {}
      /\ Free \cup Ready \cup OnCpu \subseteq Unkeyed /\ OnCpu = {running_proc}
  BY <1>0, UserShare
<1>2. TypeOK /\ ready_queue \in Seq(Proc) /\ NoDuplicates(ready_queue)
      /\ priority \in [Pcb -> Nat]
  BY DEF LinkInv, TypeOK
<1>3. FreeSemd(d)
  BY <1>0, EnoughSemds DEF FreeSemd
<1>4. /\ SemkeyNamesQueue' /\ Unkeyed' = Unkeyed \ {running_proc}
      /\ \A l \in Key : NoDuplicates(s_procQ'[l])
      /\ semd_h' \subseteq Key /\ s_procQ' \in [Key -> Seq(Proc)]
      /\ p_semkey' \in [Proc -> Key \cup {NULL}]
  <2>1. running_proc \in Unkeyed
    BY <1>1
  <2>2. insertBlocked(d, running_proc) \/ insertBlockedFifo(d, running_proc)
    BY <1>3 DEF wait_io
  <2>. QED BY <1>0, <1>1, <1>2, <2>1, <2>2, InsertBlockedLinks, InsertBlocked, InsertFifoLinks
<1>5. /\ semval' \in [Key -> Int] /\ w_for_res' \in [Dev -> Proc \cup {NULL}]
      /\ dev_w_list' \in [Proc -> Dev \cup {NULL}]
  <2>1. /\ semval \in [Key -> Int] /\ w_for_res \in [Dev -> Proc \cup {NULL}]
        /\ dev_w_list \in [Proc -> Dev \cup {NULL}]
    BY <1>2 DEF TypeOK
  <2>2. \/ UNCHANGED <<semval, dev_w_list, w_for_res>>
        \/ /\ semval' = [semval EXCEPT ![d] = @ - 1]
           /\ w_for_res' = [w_for_res EXCEPT ![d] = running_proc]
           /\ dev_w_list' = [dev_w_list EXCEPT ![running_proc] = d]
    BY DEF wait_io
  <2>. QED BY <1>0, <1>1, <2>1, <2>2
<1>6. /\ running_proc' \in Pcb
      /\ ready_queue' \in Seq(Proc) /\ NoDuplicates(ready_queue')
      /\ running_proc' \notin Ready' /\ Ready' \cup OnCpu' = Ready
  BY <1>0, <1>2, RunFirstReady DEF Ready
<1>7. TypeOK'
  BY <1>0, <1>2, <1>4, <1>5, <1>6, ProcFacts DEF TypeOK, treeVars
<1>8. OnCpu' \cap Ready' = {} /\ Free' = Free /\ NoDuplicates(pcbFree')
  BY <1>0, <1>6 DEF OnCpu, Free, LinkInv
<1>9. /\ Free' \cap Ready' = {} /\ Free' \cup Ready' \subseteq Unkeyed'
      /\ OnCpu' \subseteq Unkeyed' \ (Free' \cup Ready')
  BY <1>1, <1>4, <1>6, <1>8
<1>10. Lost' \subseteq Lost
  BY <1>0, <1>1, <1>4, <1>6, <1>8 DEF Lost, Killing
<1>. QED BY <1>0, <1>4, <1>6, <1>7, <1>8, <1>9, <1>10 DEF LinkInv, Killing

\* The second half of done_io, on device d: the next command, or none left.
LEMMA NextCommand ==
    ASSUME NucleusTypeOK, NEW d \in Dev, NEW left \in Seq(Proc),
           NEW list \in [Proc -> Dev \cup {NULL}], next_command(d, left, list)
    PROVE  /\ dev_status' \in [Dev -> {"ready", "busy", "done", "error"}]
           /\ w_for_res' \in [Dev -> Proc \cup {NULL}]
           /\ dev_w_list' \in [Proc -> Dev \cup {NULL}]
           /\ semval' \in [Key -> Int]
           /\ issued' \subseteq Proc
           /\ \A e \in Dev \ {d} : /\ dev_status'[e] = dev_status[e]
                                   /\ w_for_res'[e] = w_for_res[e]
                                   /\ semval'[e] = semval[e]
           /\ \/ /\ left # <<>> /\ dev_status'[d] = "busy"
                 /\ w_for_res'[d] # NULL /\ semval'[d] = semval[d]
              \/ /\ left = <<>> /\ dev_status'[d] = "ready"
                 /\ w_for_res'[d] = NULL /\ semval'[d] = semval[d] + 1
<1>1. /\ dev_status \in [Dev -> {"ready", "busy", "done", "error"}] /\ issued \subseteq Proc
      /\ w_for_res \in [Dev -> Proc \cup {NULL}] /\ semval \in [Key -> Int]
      /\ Dev \subseteq Key
  BY ProcFacts DEF NucleusTypeOK, TypeOK
<1>2. CASE left # <<>>
  <2>1. /\ dev_status' = [dev_status EXCEPT ![d] = "busy"]
        /\ w_for_res' = [w_for_res EXCEPT ![d] = Head(left)]
        /\ dev_w_list' = [list EXCEPT ![Head(left)] = d]
        /\ issued' = issued \cup {Head(left)} /\ semval' = semval
    BY <1>2 DEF next_command, send_command
  <2>2. Head(left) \in Proc
    BY <1>2, HeadTailProperties
  <2>3. Head(left) # NULL
    BY <2>2, ProcFacts
  <2>. QED BY <1>1, <1>2, <2>1, <2>2, <2>3
<1>3. CASE left = <<>>
  <2>1. /\ dev_status' = [dev_status EXCEPT ![d] = "ready"]
        /\ w_for_res' = [w_for_res EXCEPT ![d] = NULL]
        /\ dev_w_list' = list
        /\ semval' = [semval EXCEPT ![d] = @ + 1] /\ issued' = issued
    BY <1>3 DEF next_command
  <2>. QED BY <1>1, <1>3, <2>1
<1>. QED BY <1>2, <1>3

\* What done_io does to the queue of the device and to the dispatching.
LEMMA DoneIoParts ==
    ASSUME LinkInv, NEW d \in Dev, done_io(d)
    PROVE  \E left \in Seq(Proc), list \in [Proc -> Dev \cup {NULL}] :
              /\ next_command(d, left, list)
              /\ \/ /\ s_procQ[d] = <<>> /\ left = <<>>
                    /\ UNCHANGED <<p_semkey, semd_h, s_procQ, ready_queue, running_proc, priority>>
                 \/ /\ s_procQ[d] # <<>> /\ left = Tail(s_procQ[d])
                    /\ unlinkBlocked(d, Head(s_procQ[d]))
                    /\ \/ /\ Head(s_procQ[d]) # w_for_res[d]
                          /\ UNCHANGED <<ready_queue, running_proc, priority>>
                       \/ schedule_proc(Head(s_procQ[d]), priority)
<1>1. d \in Key /\ w_for_res[d] # NULL /\ dev_w_list \in [Proc -> Dev \cup {NULL}]
  BY ProcFacts DEF done_io, LinkInv, TypeOK
<1>2. Waiters(d) = s_procQ[d] /\ s_procQ[d] \in Seq(Proc)
  BY <1>1, WaitersQueue
<1>3. CASE s_procQ[d] = <<>>
  <2>1. /\ next_command(d, <<>>, dev_w_list)
        /\ UNCHANGED <<p_semkey, semd_h, s_procQ, ready_queue, running_proc, priority>>
    BY <1>1, <1>2, <1>3, Zenon DEF done_io
  <2>2. <<>> \in Seq(Proc)
    OBVIOUS
  <2>. QED BY <1>1, <1>3, <2>1, <2>2
<1>4. CASE s_procQ[d] # <<>>
  <2>. DEFINE p == Head(s_procQ[d])
              cleared == [dev_w_list EXCEPT ![p] = NULL]
  <2>1. p \in Proc /\ Tail(s_procQ[d]) \in Seq(Proc)
    BY <1>2, <1>4, HeadTailProperties
  <2>2. cleared \in [Proc -> Dev \cup {NULL}]
    BY <1>1
  <2>3. /\ unlinkBlocked(d, p)
        /\ \/ schedule_proc(p, priority) /\ next_command(d, Tail(s_procQ[d]), cleared)
           \/ /\ p # w_for_res[d]
              /\ UNCHANGED <<ready_queue, running_proc, priority>>
              /\ next_command(d, Tail(s_procQ[d]), dev_w_list)
    BY <1>2, <1>4, Zenon DEF done_io
  <2>. QED BY <1>1, <1>4, <2>1, <2>2, <2>3
<1>. QED BY <1>3, <1>4

\* done_io takes a process out of the queue of d that is not the one it has
\* the result for.
Drops(d) == done_io(d) /\ s_procQ[d] # <<>> /\ Head(s_procQ[d]) # w_for_res[d]

\* done_io moves the head of the queue of the device to the CPU or the ready
\* queue, or drops it: then it is linked nowhere.
LEMMA DoneIoLinks ==
    ASSUME NucleusTypeOK, LinkInv, NEW d \in Dev, done_io(d)
    PROVE  /\ LinkInv' /\ NucleusTypeOK'
           /\ Lost' \subseteq Lost \/ Drops(d)
<1>0. /\ pc = "user" /\ d \in Key
      /\ UNCHANGED <<pc, pcbFree, original_priority, treeVars, frames>>
  BY ProcFacts DEF done_io
<1>1. /\ running_proc \in Pcb
      /\ Free \cap Ready = {} /\ OnCpu \cap (Free \cup Ready) = {}
      /\ Free \cup Ready \cup OnCpu \subseteq Unkeyed
  BY <1>0, UserShare
<1>2. /\ TypeOK /\ ready_queue \in Seq(Proc) /\ NoDuplicates(ready_queue)
      /\ priority \in [Pcb -> Nat] /\ original_priority \in [Pcb -> Nat]
      /\ s_procQ[d] \in Seq(Proc)
  BY <1>0 DEF LinkInv, TypeOK
<1>3. /\ dev_status' \in [Dev -> {"ready", "busy", "done", "error"}]
      /\ w_for_res' \in [Dev -> Proc \cup {NULL}]
      /\ dev_w_list' \in [Proc -> Dev \cup {NULL}]
      /\ semval' \in [Key -> Int] /\ issued' \subseteq Proc
  BY DoneIoParts, NextCommand, Zenon
<1>4. /\ SemkeyNamesQueue' /\ \A l \in Key : NoDuplicates(s_procQ'[l])
      /\ p_semkey' \in [Proc -> Key \cup {NULL}]
      /\ semd_h' \subseteq Key /\ s_procQ' \in [Key -> Seq(Proc)]
      /\ ready_queue' \in Seq(Proc) /\ NoDuplicates(ready_queue')
      /\ running_proc' \in Pcb /\ priority' \in [Pcb -> Nat]
      /\ running_proc' \notin Ready' /\ Free \cap (Ready' \cup OnCpu') = {}
      /\ Free \cup Ready' \cup OnCpu' \subseteq Unkeyed'
      /\ \/ Unkeyed' \ (Free \cup Ready' \cup OnCpu') \subseteq Unkeyed \ (Free \cup Ready \cup OnCpu)
         \/ s_procQ[d] # <<>> /\ Head(s_procQ[d]) # w_for_res[d]
  <2>1. CASE UNCHANGED <<p_semkey, semd_h, s_procQ, ready_queue, running_proc, priority>>
    <3>1. SemkeyNamesQueue' /\ Unkeyed' = Unkeyed /\ \A l \in Key : NoDuplicates(s_procQ'[l])
      BY <2>1, KeepSemaphores
    <3>2. Ready' = Ready /\ OnCpu' = OnCpu
      BY <2>1 DEF Ready, OnCpu
    <3>3. running_proc \notin Ready
      BY <1>1, <1>2, RangeOfSeq DEF OnCpu, Ready
    <3>. QED BY <1>1, <1>2, <2>1, <3>1, <3>2, <3>3 DEF TypeOK
  <2>2. ASSUME s_procQ[d] # <<>>, NEW p, p = Head(s_procQ[d]), unlinkBlocked(d, p),
               \/ /\ p # w_for_res[d]
                  /\ UNCHANGED <<ready_queue, running_proc, priority>>
               \/ schedule_proc(p, priority)
        PROVE  /\ SemkeyNamesQueue' /\ \A l \in Key : NoDuplicates(s_procQ'[l])
               /\ p_semkey' \in [Proc -> Key \cup {NULL}]
               /\ semd_h' \subseteq Key /\ s_procQ' \in [Key -> Seq(Proc)]
               /\ ready_queue' \in Seq(Proc) /\ NoDuplicates(ready_queue')
               /\ running_proc' \in Pcb /\ priority' \in [Pcb -> Nat]
               /\ running_proc' \notin Ready' /\ Free \cap (Ready' \cup OnCpu') = {}
               /\ Free \cup Ready' \cup OnCpu' \subseteq Unkeyed'
               /\ \/ Unkeyed' \ (Free \cup Ready' \cup OnCpu') \subseteq Unkeyed \ (Free \cup Ready \cup OnCpu)
                  \/ s_procQ[d] # <<>> /\ Head(s_procQ[d]) # w_for_res[d]
    <3>1. p \in Queued(d)
      BY <1>2, <2>2, FirstAndRest DEF Queued
    <3>2. /\ SemkeyNamesQueue' /\ Unkeyed' = Unkeyed \cup {p}
          /\ \A l \in Key : NoDuplicates(s_procQ'[l])
          /\ p \in Proc /\ p \notin Unkeyed
      BY <1>0, <2>2, <3>1, UnlinkBlockedLinks
    <3>3. /\ semd_h' \subseteq Key /\ s_procQ' \in [Key -> Seq(Proc)]
          /\ p_semkey' \in [Proc -> Key \cup {NULL}]
      BY <1>0, <1>2, <2>2, <3>2, UnlinkBlocked
    <3>4. running_proc \notin Ready /\ p # running_proc /\ p \notin Ready
      BY <1>1, <1>2, <3>2, RangeOfSeq DEF OnCpu, Ready
    <3>5. CASE p # w_for_res[d] /\ UNCHANGED <<ready_queue, running_proc, priority>>
      <4>1. Ready' = Ready /\ OnCpu' = OnCpu
        BY <3>5 DEF Ready, OnCpu
      <4>. QED BY <1>1, <1>2, <2>2, <3>2, <3>3, <3>4, <3>5, <4>1
    <3>6. CASE schedule_proc(p, priority)
      <4>1. {p, running_proc} \cap Range(ready_queue) = {}
        BY <3>4 DEF Ready
      <4>2. /\ ready_queue' \in Seq(Proc) /\ NoDuplicates(ready_queue')
            /\ running_proc' \in Pcb /\ priority' \in [Pcb -> Nat]
            /\ Ready' \cup OnCpu' = Ready \cup OnCpu \cup {p}
            /\ running_proc' \notin Ready'
        BY <1>1, <1>2, <3>2, <3>4, <3>6, <4>1, ScheduleProc DEF Ready
      <4>. QED BY <1>1, <3>2, <3>3, <4>2
    <3>. QED BY <2>2, <3>5, <3>6
  <2>. QED BY <2>1, <2>2, DoneIoParts
<1>5. TypeOK'
  BY <1>0, <1>2, <1>3, <1>4, ProcFacts DEF TypeOK, treeVars
<1>6. Free' = Free /\ NoDuplicates(pcbFree') /\ OnCpu' \cap Ready' = {}
  BY <1>0, <1>4 DEF Free, LinkInv, OnCpu
<1>7. LinkInv'
  BY <1>0, <1>4, <1>5, <1>6 DEF LinkInv, Killing
<1>8. Lost' \subseteq Lost \/ Drops(d)
  BY <1>0, <1>4, <1>6 DEF Lost, Killing, Drops
<1>. QED BY <1>3, <1>5, <1>7, <1>8 DEF NucleusTypeOK

-----------------------------------------------------------------------------
(* The devices' side of the invariant. *)

LEMMA WaitIoNucleus == ASSUME NucleusInv, NEW d \in Dev, wait_io(d) PROVE NucleusInv'
<1>1. /\ pc = "user" /\ pc' = pc /\ d \in Key /\ InSyscall
  BY ProcFacts DEF wait_io, InSyscall
<1>2. LinkInv /\ DeviceAgrees /\ NucleusTypeOK
  BY <1>1 DEF NucleusInv
<1>3. LinkInv'
  BY <1>2, WaitIoLinks
<1>4. running_proc \in Proc /\ running_proc # NULL
  BY <1>1, <1>2, UserShare, ProcFacts
<1>5. /\ dev_status \in [Dev -> {"ready", "busy", "done", "error"}] /\ issued \subseteq Proc
      /\ w_for_res \in [Dev -> Proc \cup {NULL}] /\ semval \in [Key -> Int]
      /\ s_procQ \in [Key -> Seq(Proc)] /\ Dev \subseteq Key
  BY <1>2, ProcFacts DEF NucleusTypeOK, TypeOK
<1>6. \A e \in Dev \ {d} : s_procQ'[e] = s_procQ[e]
  BY <1>1, <1>5 DEF wait_io, insertBlocked, insertBlockedFifo
<1>7. CASE /\ semval[d] <= 0 /\ issued' = issued \ {running_proc}
           /\ UNCHANGED <<semval, w_for_res, dev_status>>
  <2>1. dev_status[d] # "ready"
    BY <1>1, <1>2, <1>7 DEF DeviceAgrees
  <2>2. DeviceAgrees'
    BY <1>1, <1>2, <1>6, <1>7, <2>1 DEF DeviceAgrees, Queued
  <2>. QED BY <1>3, <1>5, <1>7, <2>2 DEF NucleusInv, NucleusTypeOK, LinkInv
<1>8. CASE /\ semval[d] > 0 /\ semval' = [semval EXCEPT ![d] = @ - 1]
           /\ send_command(d)
           /\ w_for_res' = [w_for_res EXCEPT ![d] = running_proc]
           /\ issued' = issued \cup {running_proc}
  <2>1. dev_status[d] = "ready" /\ semval[d] = 1
    BY <1>1, <1>2, <1>8 DEF DeviceAgrees
  <2>2. /\ dev_status' = [dev_status EXCEPT ![d] = "busy"]
        /\ dev_status'[d] = "busy" /\ w_for_res'[d] # NULL /\ semval'[d] = 0
        /\ \A e \in Dev \ {d} : /\ dev_status'[e] = dev_status[e]
                                /\ w_for_res'[e] = w_for_res[e]
                                /\ semval'[e] = semval[e]
    BY <1>1, <1>4, <1>5, <1>8, <2>1 DEF send_command
  <2>3. DeviceAgrees'
    BY <1>1, <1>2, <1>6, <2>2 DEF DeviceAgrees, Queued
  <2>4. dev_status' \in [Dev -> {"ready", "busy", "done", "error"}] /\ issued' \subseteq Proc
    BY <1>4, <1>5, <1>8, <2>2
  <2>. QED BY <1>3, <2>3, <2>4 DEF NucleusInv, NucleusTypeOK, LinkInv
<1>. QED BY <1>7, <1>8 DEF wait_io

LEMMA DeviceEndsNucleus ==
    ASSUME NucleusInv, NEW d \in Dev, device_ends(d) PROVE NucleusInv'
<1>1. dev_status[d] = "busy" /\ UNCHANGED <<vars, issued>>
  BY DEF device_ends
<1>2. dev_status \in [Dev -> {"ready", "busy", "done", "error"}]
  BY DEF NucleusInv, NucleusTypeOK
<1>3. /\ dev_status' \in [Dev -> {"ready", "busy", "done", "error"}]
      /\ \A e \in Dev : dev_status'[e] = "ready" <=> dev_status[e] = "ready"
  BY <1>1, <1>2 DEF device_ends
<1>4. UNCHANGED vars
  BY <1>1
<1>5. TypeOK' /\ SemkeyNamesQueue' /\ (pc' # "corrupt" => LinkInv')
  BY <1>4 DEF NucleusInv, NucleusTypeOK, vars, pcbVars, treeVars, semVars, LinkInv, TypeOK,
              Killing, Free, Ready, Unkeyed, OnCpu, SemkeyNamesQueue, Queued
<1>6. DeviceAgrees'
  BY <1>3, <1>4 DEF NucleusInv, DeviceAgrees, vars, semVars, Queued
<1>. QED BY <1>1, <1>3, <1>5, <1>6 DEF NucleusInv, NucleusTypeOK

LEMMA DoneIoNucleus == ASSUME NucleusInv, NEW d \in Dev, done_io(d) PROVE NucleusInv'
<1>1. /\ pc = "user" /\ pc' = pc /\ d \in Key /\ Served(d)
  BY ProcFacts DEF done_io
<1>2. LinkInv /\ DeviceAgrees /\ NucleusTypeOK
  BY <1>1 DEF NucleusInv
<1>3. LinkInv' /\ NucleusTypeOK'
  BY <1>2, DoneIoLinks
<1>4. semval[d] = 0 /\ s_procQ[d] \in Seq(Proc) /\ s_procQ \in [Key -> Seq(Proc)]
  BY <1>1, <1>2 DEF DeviceAgrees, Served, NucleusTypeOK, TypeOK
<1>5. PICK left \in Seq(Proc), list \in [Proc -> Dev \cup {NULL}] :
         /\ next_command(d, left, list)
         /\ \/ s_procQ[d] = <<>> /\ left = <<>> /\ s_procQ' = s_procQ
            \/ /\ s_procQ[d] # <<>> /\ left = Tail(s_procQ[d])
               /\ unlinkBlocked(d, Head(s_procQ[d]))
  BY <1>2, DoneIoParts
<1>6. \A e \in Dev \ {d} : s_procQ'[e] = s_procQ[e]
  <2>1. Dev \subseteq Key
    BY ProcFacts
  <2>. QED BY <1>1, <1>4, <1>5, <2>1 DEF unlinkBlocked
<1>7. left = <<>> => Range(s_procQ'[d]) = {}
  <2>1. Range(<<>>) = {}
    BY DEF Range
  <2>2. CASE s_procQ[d] # <<>>
    <3>. DEFINE rest == Tail(s_procQ[d])
    <3>1. /\ Head(s_procQ[d]) \in Proc
          /\ Range(s_procQ[d]) = {Head(s_procQ[d])} \cup Range(rest)
      BY <1>4, <2>2, FirstAndRest
    <3>2. NoDuplicates(s_procQ[d])
      BY <1>1, <1>2 DEF LinkInv
    <3>3. Range(s_procQ'[d]) = Queued(d) \ {Head(s_procQ[d])}
      BY <1>1, <1>2, <1>5, <2>2, <3>1, <3>2, UnlinkBlocked DEF NucleusTypeOK
    <3>4. left = rest
      BY <1>5, <2>2
    <3>. HIDE DEF rest
    <3>. QED BY <2>1, <3>1, <3>3, <3>4 DEF Queued
  <2>. QED BY <1>5, <2>1, <2>2
<1>8. /\ \A e \in Dev \ {d} : /\ dev_status'[e] = dev_status[e]
                              /\ w_for_res'[e] = w_for_res[e]
                              /\ semval'[e] = semval[e]
      /\ \/ /\ left # <<>> /\ dev_status'[d] = "busy"
            /\ w_for_res'[d] # NULL /\ semval'[d] = 0
         \/ /\ left = <<>> /\ dev_status'[d] = "ready"
            /\ w_for_res'[d] = NULL /\ semval'[d] = 1
  BY <1>2, <1>4, <1>5, NextCommand
<1>9. DeviceAgrees'
  BY <1>1, <1>2, <1>6, <1>7, <1>8 DEF DeviceAgrees, Queued
<1>. QED BY <1>3, <1>9 DEF NucleusInv, LinkInv

LEMMA NucleusInvNext == NucleusInv /\ [NucleusNext]_nucleusVars => NucleusInv'
<1>1. [NucleusNext]_nucleusVars =>
         \/ (Next \/ UNCHANGED vars) /\ UNCHANGED devVars
         \/ \E d \in Dev : wait_io(d) \/ device_ends(d) \/ done_io(d)
  BY DEF NucleusNext, DeviceStep, nucleusVars
<1>. QED BY <1>1, NextKeepsNucleus, WaitIoNucleus, DeviceEndsNucleus, DoneIoNucleus

-----------------------------------------------------------------------------
(* The theorems about the kernel with devices. *)

\* NucleusInv holds in every reachable state.
THEOREM NucleusInvariant == NucleusSpec => []NucleusInv
  BY NucleusInvInit, NucleusInvNext, PTL DEF NucleusSpec

\* The types of the state, for any number of PCBs and devices.
THEOREM NucleusTypeCorrect == NucleusSpec => []NucleusTypeOK
<1>1. NucleusInv => NucleusTypeOK
  BY DEF NucleusInv
<1>. QED BY <1>1, NucleusInvariant, PTL

\* w_for_cmd_sem and w_for_res never disagree with the device: no command is
\* written to a busy device, and no one waits for an idle one.
THEOREM DevicesAgree == NucleusSpec => []DeviceAgrees
<1>1. NucleusInv => DeviceAgrees
  BY DEF NucleusInv
<1>. QED BY <1>1, NucleusInvariant, PTL

\* The PCB lists are sound with devices too, up to the step that frees a PCB
\* which is still linked.
THEOREM LinksUntilCorrupt == NucleusSpec => []LinkedUntilCorrupt
<1>1. NucleusInv => LinkedUntilCorrupt
  BY LinkInvImplies DEF NucleusInv, LinkedUntilCorrupt
<1>. QED BY <1>1, NucleusInvariant, PTL

\* p_semkey and the ASL agree with the queues, those of devices included.
THEOREM NucleusSemkeys == NucleusSpec => []SemkeyNamesQueue
<1>1. NucleusInv => SemkeyNamesQueue
  BY DEF NucleusInv
<1>. QED BY <1>1, NucleusInvariant, PTL

\* Where the process that NoWaiterDropped misses goes: no other step than that
\* of done_io leaves a PCB in no list at all, and it does so only when the head
\* of the queue is not the process that has the result.
OnlyDoneIoLoses == [][Lost' \subseteq Lost \/ \E d \in Dev : Drops(d)]_nucleusVars

\* Of all the steps of the kernel with devices, creation, P, V, kills and
\* wait_io included, only done_io loses a process.
THEOREM LossesAreDoneIo == NucleusSpec => OnlyDoneIoLoses
<1>1. ASSUME NucleusInv, [NucleusNext]_nucleusVars
      PROVE  Lost' \subseteq Lost \/ \E d \in Dev : Drops(d)
  <2>1. CASE UNCHANGED vars
    BY <2>1 DEF vars, pcbVars, Lost, Unkeyed, Free, Ready, OnCpu, Killing
  <2>2. CASE Next
    <3>1. pc = "corrupt" => UNCHANGED vars
      BY <2>2, CorruptStays
    <3>2. pc # "corrupt" => Lost' \subseteq Lost
      BY <1>1, <2>2, LinkInvNext DEF NucleusInv
    <3>. QED BY <2>1, <3>1, <3>2
  <2>3. ASSUME NEW d \in Dev, wait_io(d) PROVE Lost' \subseteq Lost
    <3>1. LinkInv
      BY <1>1, <2>3 DEF NucleusInv, wait_io, InSyscall
    <3>. QED BY <2>3, <3>1, WaitIoLinks
  <2>4. ASSUME NEW d \in Dev, done_io(d) PROVE Lost' \subseteq Lost \/ Drops(d)
    <3>1. LinkInv /\ NucleusTypeOK
      BY <1>1, <2>4 DEF NucleusInv, done_io
    <3>. QED BY <2>4, <3>1, DoneIoLinks
  <2>5. ASSUME NEW d \in Dev, device_ends(d) PROVE UNCHANGED vars
    BY <2>5 DEF device_ends
  <2>. QED BY <1>1, <2>1, <2>2, <2>3, <2>4, <2>5 DEF NucleusNext, DeviceStep, nucleusVars
<1>. QED BY <1>1, NucleusInvariant, PTL DEF NucleusSpec, OnlyDoneIoLoses

\* wait_io does not look at what insertBlocked returns (interrupts.c:72, 76).
\* It need not: whenever a process makes a system call there is a descriptor
\* for any device.
DescriptorForDevice == InSyscall => \A d \in Dev : FreeSemd(d)

\* For the same reason as in Scheduler: each descriptor in use has a process
\* at the head of its queue, and the caller of wait_io is in none.
THEOREM WaitIoFindsDescriptor == NucleusSpec => []DescriptorForDevice
<1>1. NucleusInv => DescriptorForDevice
  BY EnoughSemds DEF NucleusInv, DescriptorForDevice, FreeSemd, InSyscall
<1>. QED BY <1>1, NucleusInvariant, PTL

-----------------------------------------------------------------------------
(* The dispatching, with devices.                                          *)

\* The actions on device d leave the queues of the semaphores alone.
LEMMA DeviceKeepsSemaphores ==
    ASSUME LinkInv, NEW d \in Dev, wait_io(d) \/ done_io(d), NEW k \in Sem
    PROVE  k \in Key /\ s_procQ'[k] = s_procQ[k]
<1>1. k \in Key /\ d \in Key /\ k # d /\ s_procQ \in [Key -> Seq(Proc)]
  BY ProcFacts, KeyAssumption DEF LinkInv, TypeOK
<1>2. \/ s_procQ' = s_procQ
      \/ insertBlocked(d, running_proc)
      \/ insertBlockedFifo(d, running_proc)
      \/ unlinkBlocked(d, Head(s_procQ[d]))
  <2>1. CASE wait_io(d)
    BY <2>1, Zenon DEF wait_io
  <2>2. CASE done_io(d)
    BY <2>2, DoneIoParts
  <2>. QED BY <2>1, <2>2
<1>. QED BY <1>1, <1>2 DEF insertBlocked, insertBlockedFifo, unlinkBlocked

\* WAITIO gives the CPU to the head of the ready queue.
LEMMA WaitIoOrder == ASSUME OrderInv, LinkInv', NEW d \in Dev, wait_io(d) PROVE OrderInv'
<1>1. /\ pc = "user" /\ run_first_ready
      /\ UNCHANGED <<pc, pcbFree, priority, original_priority>>
  BY DEF wait_io, InSyscall
<1>2. /\ LinkInv /\ ready_queue \in Seq(Proc) /\ priority \in [Pcb -> Nat]
      /\ Sorted(ready_queue, priority)
  BY <1>1, UserOrder
<1>3. /\ Sorted(ready_queue', priority)
      /\ \A q \in Range(ready_queue') :
            running_proc' # idle_proc /\ priority[running_proc'] >= priority[q]
  BY <1>1, <1>2, RunFirstReady
<1>4. \A k \in Sem : Sorted(s_procQ'[k], priority)
  BY <1>2, DeviceKeepsSemaphores DEF OrderInv, SemsSorted
<1>. QED BY <1>1, <1>3, <1>4 DEF OrderInv, SemsSorted, RunsFirst, Ready, Free

\* done_io schedules a process with the priority it has.
LEMMA DoneIoOrder == ASSUME OrderInv, LinkInv', NEW d \in Dev, done_io(d) PROVE OrderInv'
<1>1. pc = "user" /\ UNCHANGED <<pc, pcbFree, original_priority>>
  BY DEF done_io
<1>2. /\ LinkInv /\ running_proc \in Pcb /\ ready_queue \in Seq(Proc)
      /\ priority \in [Pcb -> Nat] /\ original_priority \in [Pcb -> Nat]
      /\ Sorted(ready_queue, priority) /\ running_proc \notin Range(ready_queue)
      /\ original_priority[running_proc] <= priority[running_proc]
      /\ \A q \in Range(ready_queue) :
            running_proc # idle_proc /\ priority[running_proc] >= priority[q]
  BY <1>1, UserOrder
<1>3. \A k \in Sem : /\ k \in Key /\ s_procQ'[k] = s_procQ[k]
                    /\ s_procQ[k] \in Seq(Proc) /\ Sorted(s_procQ[k], priority)
  BY <1>2, DeviceKeepsSemaphores DEF OrderInv, SemsSorted, LinkInv, TypeOK
<1>4. CASE UNCHANGED <<ready_queue, running_proc, priority>>
  BY <1>1, <1>3, <1>4 DEF OrderInv, SemsSorted, RunsFirst, Ready, Free
<1>5. ASSUME s_procQ[d] # <<>>, NEW p, p = Head(s_procQ[d]), schedule_proc(p, priority)
      PROVE  OrderInv'
  <2>1. d \in Key /\ s_procQ[d] \in Seq(Proc)
    BY <1>2, ProcFacts DEF LinkInv, TypeOK
  <2>2. p \in Queued(d)
    BY <1>5, <2>1, FirstAndRest DEF Queued
  <2>3. p \in Proc /\ p \notin Range(ready_queue) /\ p # running_proc
    BY <1>1, <1>2, <2>1, <2>2, QueuedElsewhere DEF Ready
  <2>4. /\ Sorted(ready_queue', priority')
        /\ \A q \in Range(ready_queue') :
              running_proc' # idle_proc /\ priority'[running_proc'] >= priority'[q]
        /\ \A t \in Pcb \ {running_proc} : priority'[t] = priority[t]
        /\ original_priority[running_proc] <= priority'[running_proc]
    BY <1>2, <1>5, <2>3, ScheduleOrder
  <2>5. ASSUME NEW k \in Sem PROVE Sorted(s_procQ'[k], priority')
    <3>1. \A t \in Range(s_procQ[k]) : t \in Pcb /\ t # running_proc
      BY <1>1, <1>2, <1>3, QueuedElsewhere DEF Queued
    <3>2. \A t \in Range(s_procQ[k]) : priority'[t] = priority[t]
      BY <2>4, <3>1
    <3>3. Sorted(s_procQ[k], priority')
      BY <1>3, <3>2, SortedSame, Zenon
    <3>. QED BY <1>3, <3>3
  <2>6. \A t \in Pcb : original_priority'[t] <= priority'[t]
    BY <1>1, <2>4 DEF OrderInv
  <2>. QED BY <1>1, <2>4, <2>5, <2>6 DEF OrderInv, SemsSorted, RunsFirst, Ready, Free
<1>. QED BY <1>2, <1>4, <1>5, DoneIoParts

\* The order, as far as the sequences describe the lists.
NucleusOrderInv == pc # "corrupt" => OrderInv

LEMMA NucleusOrderNext ==
    NucleusInv /\ NucleusInv' /\ NucleusOrderInv /\ [NucleusNext]_nucleusVars => NucleusOrderInv'
<1>. SUFFICES ASSUME NucleusInv, NucleusInv', NucleusOrderInv, [NucleusNext]_nucleusVars,
                     pc' # "corrupt"
              PROVE  OrderInv'
  BY DEF NucleusOrderInv
<1>1. LinkInv'
  BY DEF NucleusInv
<1>2. CASE [Next]_vars
  <2>1. pc # "corrupt"
    BY <1>2, CorruptStays DEF vars
  <2>. QED BY <1>1, <1>2, <2>1, OrderInvNext DEF NucleusOrderInv
<1>3. ASSUME NEW d \in Dev, wait_io(d) PROVE OrderInv'
  <2>1. pc # "corrupt"
    BY <1>3 DEF wait_io, InSyscall
  <2>. QED BY <1>1, <1>3, <2>1, WaitIoOrder DEF NucleusOrderInv
<1>4. ASSUME NEW d \in Dev, done_io(d) PROVE OrderInv'
  <2>1. pc # "corrupt"
    BY <1>4 DEF done_io
  <2>. QED BY <1>1, <1>4, <2>1, DoneIoOrder DEF NucleusOrderInv
<1>5. ASSUME NEW d \in Dev, device_ends(d) PROVE UNCHANGED vars
  BY <1>5 DEF device_ends
<1>. QED BY <1>2, <1>3, <1>4, <1>5 DEF NucleusNext, DeviceStep, nucleusVars

\* With devices too, whoever runs has the highest priority of all that could:
\* wait_io and done_io dispatch as the other calls do, although the queues of
\* devices are not kept in order and done_io does not reset priorities.
THEOREM NucleusHighestRuns == NucleusSpec => []HighestPriorityRuns
<1>1. NucleusInit => NucleusOrderInv
  BY OrderInvInit DEF NucleusInit, NucleusOrderInv
<1>2. NucleusOrderInv => HighestPriorityRuns
  BY DEF NucleusOrderInv, OrderInv, RunsFirst, HighestPriorityRuns
<1>. QED BY <1>1, <1>2, NucleusInvariant, NucleusOrderNext, PTL DEF NucleusSpec

\* done_io: the process that is done enters the ready queue with the priority it
\* waited with, or the one it takes the CPU from does with its original one.
LEMMA DoneIoEnters ==
    ASSUME OrderInv, NEW d \in Dev, done_io(d), NEW t \in Proc, t \in Ready', t \notin Ready
    PROVE  /\ QueuedInOrder(t)
           /\ \/ priority'[t] = original_priority'[t]
              \/ t \in Queued(d) /\ priority'[t] = priority[t]
           /\ \A q \in Ready : priority'[q] = priority[q]
<1>1. pc = "user" /\ original_priority' = original_priority
  BY DEF done_io
<1>2. /\ LinkInv /\ running_proc \in Pcb /\ ready_queue \in Seq(Proc)
      /\ priority \in [Pcb -> Nat] /\ original_priority \in [Pcb -> Nat]
      /\ Sorted(ready_queue, priority) /\ running_proc \notin Range(ready_queue)
      /\ original_priority[running_proc] <= priority[running_proc]
      /\ \A q \in Range(ready_queue) :
            /\ q \in Pcb /\ q # running_proc
            /\ running_proc # idle_proc /\ priority[running_proc] >= priority[q]
  BY <1>1, UserOrder
<1>3. ready_queue' # ready_queue
  BY DEF Ready
<1>. DEFINE p == Head(s_procQ[d])
<1>4. s_procQ[d] # <<>> /\ schedule_proc(p, priority)
  BY <1>2, <1>3, DoneIoParts
<1>5. d \in Key /\ s_procQ[d] \in Seq(Proc)
  BY <1>2, ProcFacts DEF LinkInv, TypeOK
<1>6. p \in Queued(d)
  BY <1>4, <1>5, FirstAndRest DEF Queued
<1>. HIDE DEF p
<1>7. p \in Proc /\ p \notin Ready /\ p # running_proc
  BY <1>1, <1>2, <1>5, <1>6, QueuedElsewhere
<1>8. /\ QueuedInOrder(t)
      /\ priority'[t] = original_priority'[t] \/ (t = p /\ priority'[t] = priority[t])
  BY <1>1, <1>2, <1>4, <1>7, ScheduleEnters
<1>9. \A q \in Pcb \ {running_proc} : priority'[q] = priority[q]
  BY <1>2, <1>4, <1>7, ScheduleOrder DEF Ready
<1>10. \A q \in Ready : priority'[q] = priority[q]
  BY <1>2, <1>9 DEF Ready
<1>. QED BY <1>6, <1>8, <1>10

\* A ready process that has aged to every priority that can be asked for is
\* overtaken by nobody but a process back from a device that had itself aged
\* further: wait_io and done_io do not reset its priority.
THEOREM OvertakenOnlyFromDevice == NucleusSpec => AgedNotOvertaken
<1>1. NucleusInit => NucleusOrderInv
  BY OrderInvInit DEF NucleusInit, NucleusOrderInv
<1>2. ASSUME NucleusOrderInv, NucleusOrderInv', [NucleusNext]_nucleusVars
      PROVE  [\A p \in Ready' \ Ready, q \in Ready \cap Ready' :
                (pc = "user" /\ pc' = "user" /\ \A o \in Priorities : priority[q] >= o) =>
                   \/ \E i, j \in DOMAIN ready_queue' :
                         i < j /\ ready_queue'[i] = q /\ ready_queue'[j] = p
                   \/ \E d \in Dev : p \in Queued(d) /\ priority[p] > priority[q]]_vars
  <2>. SUFFICES ASSUME NEW p \in Ready' \ Ready, NEW q \in Ready \cap Ready',
                       pc = "user", pc' = "user", \A o \in Priorities : priority[q] >= o,
                       ~\E d \in Dev : p \in Queued(d) /\ priority[p] > priority[q]
                PROVE  \E i, j \in DOMAIN ready_queue' :
                          i < j /\ ready_queue'[i] = q /\ ready_queue'[j] = p
    OBVIOUS
  <2>1. OrderInv /\ OrderInv'
    BY <1>2 DEF NucleusOrderInv
  <2>2. /\ p \in Proc /\ p \in Pcb /\ q \in Pcb /\ ready_queue \in Seq(Proc)
        /\ priority[p] \in Nat /\ priority[q] \in Nat
    BY <2>1, RangeOfSeq, ProcFacts DEF OrderInv, LinkInv, TypeOK, Ready
  <2>3. CASE [Next]_vars
    BY <2>1, <2>3, SchedulerNotOvertakes
  <2>4. ASSUME NEW d \in Dev, wait_io(d) PROVE FALSE
    <3>1. run_first_ready
      BY <2>4 DEF wait_io
    <3>2. Range(ready_queue') \subseteq Range(ready_queue)
      BY <2>1, <2>2, <3>1, UserOrder, RunFirstReady
    <3>. QED BY <3>2 DEF Ready
  <2>5. ASSUME NEW d \in Dev, done_io(d)
        PROVE  \E i, j \in DOMAIN ready_queue' :
                  i < j /\ ready_queue'[i] = q /\ ready_queue'[j] = p
    <3>1. /\ QueuedInOrder(p) /\ priority'[q] = priority[q]
          /\ \/ priority'[p] = original_priority'[p]
             \/ p \in Queued(d) /\ priority'[p] = priority[p]
      BY <2>1, <2>2, <2>5, DoneIoEnters
    <3>2. priority'[q] >= priority[q]
      BY <2>2, <3>1
    <3>3. CASE priority'[p] = original_priority'[p]
      BY <2>1, <2>2, <3>1, <3>2, <3>3, OriginalBehind
    <3>4. CASE p \in Queued(d) /\ priority'[p] = priority[p]
      <4>1. priority'[q] >= priority'[p]
        BY <2>2, <3>1, <3>4
      <4>. QED BY <2>1, <2>2, <3>1, <4>1, EntersBehind
    <3>. QED BY <3>1, <3>3, <3>4
  <2>6. ASSUME NEW d \in Dev, device_ends(d) PROVE UNCHANGED vars
    BY <2>6 DEF device_ends
  <2>. QED BY <1>2, <2>3, <2>4, <2>5, <2>6 DEF NucleusNext, DeviceStep, nucleusVars
<1>. QED
  BY <1>1, <1>2, NucleusInvariant, NucleusOrderNext, PTL DEF NucleusSpec, AgedNotOvertaken

\* A process back from a device takes its turn as the others do: it enters the
\* ready queue behind those that have its priority.
THEOREM NucleusTakesTurns == NucleusSpec => EqualsTakeTurns
<1>1. NucleusInit => NucleusOrderInv
  BY OrderInvInit DEF NucleusInit, NucleusOrderInv
<1>2. ASSUME NucleusOrderInv, NucleusOrderInv', [NucleusNext]_nucleusVars
      PROVE  [\A p \in Ready' \ Ready, q \in Ready :
                (pc = "user" /\ q \in Ready' /\ priority'[q] = priority'[p]) =>
                   \E i, j \in DOMAIN ready_queue' :
                      i < j /\ ready_queue'[i] = q /\ ready_queue'[j] = p]_vars
  <2>. SUFFICES ASSUME NEW p \in Ready' \ Ready, NEW q \in Ready, pc = "user",
                       q \in Ready', priority'[q] = priority'[p]
                PROVE  \E i, j \in DOMAIN ready_queue' :
                          i < j /\ ready_queue'[i] = q /\ ready_queue'[j] = p
    OBVIOUS
  <2>1. OrderInv /\ ready_queue' # ready_queue
    BY <1>2 DEF NucleusOrderInv, Ready
  <2>2. OrderInv'
    <3>1. pc' # "corrupt"
      BY <1>2, <2>1 DEF NucleusNext, DeviceStep, nucleusVars, vars, Next, starting, init_proc,
           launch, semaphore_call, passeren, verhogen, process_call, create_process,
           terminate_proc, InSyscall, time_slice_callback, terminating, recursive_remove_proc,
           remove_child, remove_return, terminate_return, halted, wait_io, device_ends, done_io
    <3>. QED BY <1>2, <3>1 DEF NucleusOrderInv
  <2>3. p \in Proc /\ ready_queue \in Seq(Proc) /\ priority'[p] \in Nat
    BY <2>1, <2>2, RangeOfSeq, ProcFacts DEF OrderInv, LinkInv, TypeOK, Ready
  <2>4. QueuedInOrder(p)
    <3>1. CASE [Next]_vars
      BY <2>1, <2>3, <3>1, EntersReady DEF Enters
    <3>2. ASSUME NEW d \in Dev, wait_io(d) PROVE FALSE
      <4>1. run_first_ready
        BY <3>2 DEF wait_io
      <4>2. Range(ready_queue') \subseteq Range(ready_queue)
        BY <2>1, <2>3, <4>1, UserOrder, RunFirstReady
      <4>. QED BY <4>2 DEF Ready
    <3>3. ASSUME NEW d \in Dev, done_io(d) PROVE QueuedInOrder(p)
      BY <2>1, <2>3, <3>3, DoneIoEnters
    <3>4. ASSUME NEW d \in Dev, device_ends(d) PROVE UNCHANGED vars
      BY <3>4 DEF device_ends
    <3>. QED BY <1>2, <3>1, <3>2, <3>3, <3>4 DEF NucleusNext, DeviceStep, nucleusVars
  <2>5. priority'[q] >= priority'[p]
    BY <2>3
  <2>. QED BY <2>1, <2>2, <2>3, <2>4, <2>5, EntersBehind
<1>. QED
  BY <1>1, <1>2, NucleusInvariant, NucleusOrderNext, PTL DEF NucleusSpec, EqualsTakeTurns

-----------------------------------------------------------------------------
(* The process tree, with devices. *)

\* Devices change neither the tree nor who is alive.
LEMMA DeviceStepKeepsTree ==
    ASSUME DeviceStep
    PROVE  UNCHANGED <<pc, pcbFree, treeVars, frames>>
<1>1. ASSUME NEW d \in Dev, device_ends(d)
      PROVE  UNCHANGED <<pc, pcbFree, treeVars, frames>>
  BY <1>1 DEF device_ends, vars
<1>. QED BY <1>1 DEF DeviceStep, wait_io, done_io

\* A PCB that done_io lost, or one that is freed while it is linked, stops the
\* machine when it is killed but leaves the tree as it should be.
LEMMA NucleusTreeNext == TreeInv /\ NucleusInv' /\ [NucleusNext]_nucleusVars => TreeInv'
<1>. SUFFICES ASSUME TreeInv, NucleusInv', [NucleusNext]_nucleusVars PROVE TreeInv'
  OBVIOUS
<1>1. LinksHold'
  BY DEF NucleusInv, NucleusTypeOK, LinksHold
<1>2. [Next]_vars \/ DeviceStep
  BY DEF NucleusNext, nucleusVars
<1>. QED BY <1>1, <1>2, TreeInvNext, TreeInvUnchanged, DeviceStepKeepsTree

THEOREM NucleusTreeInvariant == NucleusSpec => []TreeInv
  BY TreeInvInit, NucleusTreeNext, NucleusInvariant, PTL DEF NucleusSpec, NucleusInit

\* The tree is consistent whatever devices its processes use or wait for, the
\* process that done_io loses and the PCB freed while it is linked included.
THEOREM NucleusTreeConsistent == NucleusSpec => []TreeConsistent
  BY NucleusTreeInvariant, TreeInvImplies, PTL

\* With devices, too, a kill removes exactly the offspring, and nothing that
\* happens to a process at a device makes it leave or enter the tree.
THEOREM NucleusImplementsTree == NucleusSpec => ImplementsProcessTree
<1>1. NucleusInit => Tree!Init
  BY TreeStart DEF NucleusInit
<1>2. ASSUME TreeInv, TreeInv', [NucleusNext]_nucleusVars PROVE [Tree!Next]_(Tree!vars)
  <2>1. [Next]_vars \/ UNCHANGED <<pcbFree, treeVars, frames>>
    BY <1>2, DeviceStepKeepsTree DEF NucleusNext, nucleusVars
  <2>. QED BY <1>2, <2>1, TreeStep, TreeKept
<1>. QED BY <1>1, <1>2, NucleusTreeInvariant, PTL DEF NucleusSpec, ImplementsProcessTree, Tree!Spec

\* A kill panics only for a PCB that is free or, with devices, for a process
\* that done_io has lost; below the outermost call only for the latter
\* (scheduler.c:308).
KillsFailForLost ==
    [][/\ \A p \in Proc : terminate_proc(p) /\ pc' = "TreeBroken" => p \in Free
       /\ recursive_remove_proc /\ pc' = "NotFound" =>
             Head(frames) \in Lost \/ (Len(frames) = 1 /\ Head(frames) \in Free)]_nucleusVars

LEMMA NotFoundIsLost ==
    ASSUME TreeInv, recursive_remove_proc, pc' = "NotFound"
    PROVE  Head(frames) \in Lost \/ (Len(frames) = 1 /\ Head(frames) \in Free)
<1>. DEFINE p == Head(frames)
            k == p_semkey[p]
<1>1. LinkInv /\ pc = "remove" /\ Killing /\ TypeOK /\ SemkeyNamesQueue
  BY DEF TreeInv, LinksHold, LinkInv, recursive_remove_proc, Killing
<1>2. p \in Proc /\ k \in Key \cup {NULL}
  BY <1>1, FrameFacts DEF TypeOK
<1>3. /\ IF k = NULL THEN p \notin Ready \/ dev_w_list[p] # NULL
                      ELSE p \notin Range(Waiters(k))
      /\ ~(k = NULL /\ dev_w_list[p] # NULL)
  BY DEF recursive_remove_proc, Ready
<1>4. k = NULL
  <2>1. SUFFICES ASSUME k # NULL PROVE p \in Range(Waiters(k))
    BY <1>3
  <2>2. k \in Key /\ p \in Queued(k)
    BY <1>1, <1>2, <2>1 DEF SemkeyNamesQueue
  <2>3. Waiters(k) = s_procQ[k]
    BY <1>1, <2>2, WaitersQueue
  <2>. QED BY <2>2, <2>3 DEF Queued
<1>5. p \in Unkeyed \ Ready
  BY <1>2, <1>3, <1>4 DEF Unkeyed
<1>6. p \in Free => Len(frames) = 1
  <2>1. Len(frames) > 1 => p \notin Free
    BY <1>1 DEF TreeInv
  <2>2. Len(frames) \in Nat \ {0}
    BY <1>1, ActiveCalls
  <2>3. \A n \in Nat \ {0} : n > 1 \/ n = 1
    OBVIOUS
  <2>. QED BY <2>1, <2>2, <2>3
<1>. HIDE DEF p, k
<1>. QED BY <1>1, <1>5, <1>6 DEF Lost, p

THEOREM KillsFailOnlyForLost == NucleusSpec => KillsFailForLost
<1>1. ASSUME TreeInv
      PROVE  /\ \A p \in Proc : terminate_proc(p) /\ pc' = "TreeBroken" => p \in Free
             /\ recursive_remove_proc /\ pc' = "NotFound" =>
                   Head(frames) \in Lost \/ (Len(frames) = 1 /\ Head(frames) \in Free)
  BY <1>1, NotFoundIsLost, BrokenIsFree
<1>. QED BY <1>1, NucleusTreeInvariant, PTL DEF KillsFailForLost

-----------------------------------------------------------------------------
(* Module ExclusiveIO: programs that lock their devices, and kill no one   *)
(* who waits for one, meet none of the troubles that devices otherwise     *)
(* bring.                                                                  *)

\* A kill under way never reaches a process that waits for a device: that is
\* why no PCB is freed while it is linked, and why w_for_res is not cleared
\* behind the back of the device.
ExclusiveInv ==
    /\ NucleusInv /\ pc # "corrupt"
    /\ Lost = {}
    /\ OneWaiter
    /\ Killing => Doomed \cap WaitingForDevice = {}

LEMMA ExclusiveInvInit == NucleusInit => ExclusiveInv
<1>. SUFFICES ASSUME NucleusInit PROVE ExclusiveInv
  OBVIOUS
<1>1. NucleusInv /\ pc = "init" /\ Lost = {}
  BY NucleusInvInit, QueueInvInit DEF NucleusInit, QueueInv, Init
<1>2. OneWaiter
  <2>1. \A d \in Dev : s_procQ[d] = <<>> /\ w_for_res[d] = NULL
    BY ProcFacts DEF NucleusInit, Init
  <2>2. \A p \in Proc : dev_w_list[p] = NULL
    BY DEF NucleusInit, Init
  <2>3. NULL \notin Dev /\ NULL \notin Proc
    BY ProcFacts
  <2>4. Range(<<>>) = {}
    BY DEF Range
  <2>. QED BY <2>1, <2>2, <2>3, <2>4 DEF OneWaiter, Queued
<1>. QED BY <1>1, <1>2 DEF ExclusiveInv, Killing

-----------------------------------------------------------------------------
(* Who is killed. *)

\* Nothing is added below an active call but by a longer list of children.
LEMMA DoomedWithin ==
    ASSUME TypeOK', NEW S \in SUBSET Proc, Range(frames') \subseteq S,
           \A x \in S : Range(p_child[x]) \subseteq S,
           \A x \in Proc : Range(p_child'[x]) \subseteq Range(p_child[x])
    PROVE  Doomed' \subseteq S
<1>1. \A x \in S : Range(p_child'[x]) \subseteq S
  OBVIOUS
<1>. QED BY <1>1, DoomedIsLeastNext

\* terminate_proc(p) dooms no one outside the family of p.
LEMMA TerminateDooms ==
    ASSUME TypeOK, TypeOK', NEW p \in Proc, terminate_proc(p), Killing'
    PROVE  Doomed' \subseteq Family(p)
<1>1. /\ p_child \in [Proc -> Seq(Proc)] /\ p_parent \in [Proc -> Proc \cup {NULL}]
      /\ \A x \in Proc : Range(p_child[x]) \subseteq Proc
  BY RangeOfSeq DEF TypeOK
<1>2. /\ frames' = <<p>>
      /\ \/ UNCHANGED treeVars
         \/ p_parent[p] # NULL /\ outChild(p)
  BY DEF terminate_proc, Killing
<1>3. Range(frames') = {p}
  BY <1>2 DEF Range
<1>4. \A x \in Proc : Range(p_child'[x]) \subseteq Range(p_child[x])
  <2>1. CASE p_parent[p] # NULL /\ outChild(p)
    <3>. DEFINE parent == p_parent[p]
    <3>1. parent \in Proc
      BY <1>1, <2>1
    <3>2. Range(outProcQ(p_child[parent], p)) \subseteq Range(p_child[parent])
      BY <1>1, <3>1, OutProcQSubset
    <3>3. p_child' = [p_child EXCEPT ![parent] = outProcQ(@, p)]
      BY <2>1 DEF outChild
    <3>. QED BY <1>1, <3>1, <3>2, <3>3
  <2>. QED BY <1>2, <2>1 DEF treeVars
<1>5. Family(p) = Below({p}, p_child)
  BY DEF Family, Below
<1>6. {p} \in SUBSET Proc
  OBVIOUS
<1>7. \A x \in Proc : Range(p_child[x]) \subseteq Proc
  BY <1>1
<1>8. /\ {p} \subseteq Below({p}, p_child) /\ Below({p}, p_child) \subseteq Proc
      /\ \A x \in Below({p}, p_child) : Range(p_child[x]) \subseteq Below({p}, p_child)
  BY <1>6, <1>7, BelowIsLeast
<1>9. /\ {p} \subseteq Family(p) /\ Family(p) \in SUBSET Proc
      /\ \A x \in Family(p) : Range(p_child[x]) \subseteq Family(p)
  BY <1>5, <1>8
<1>. QED BY <1>3, <1>4, <1>9, DoomedWithin

\* The recursion only ever works off what was doomed when it started.
LEMMA RemovalDooms ==
    ASSUME LinkInv, TypeOK', terminating, Killing'
    PROVE  Killing /\ Doomed' \subseteq Doomed
<1>1. Killing
  BY DEF terminating, recursive_remove_proc, remove_child, remove_return, terminate_return,
         Killing
<1>2. /\ p_child \in [Proc -> Seq(Proc)] /\ frames \in Seq(Proc)
      /\ frames # <<>> /\ Head(frames) \in Proc
      /\ Range(frames) = {Head(frames)} \cup Range(Tail(frames))
  BY <1>1, ActiveCalls, TreeTypes DEF LinkInv
<1>3. /\ Doomed \in SUBSET Proc /\ Range(frames) \subseteq Doomed
      /\ \A x \in Doomed : Range(p_child[x]) \subseteq Doomed
  BY DoomedIsLeast DEF LinkInv
<1>4. CASE UNCHANGED <<treeVars, frames>>
  <2>1. p_child' = p_child /\ frames' = frames
    BY <1>4 DEF treeVars
  <2>. QED BY <1>1, <1>3, <2>1, DoomedWithin
<1>5. CASE remove_return
  <2>1. p_child' = p_child /\ frames' = Tail(frames)
    BY <1>5 DEF remove_return, treeVars
  <2>. QED BY <1>1, <1>2, <1>3, <2>1, DoomedWithin
<1>6. CASE remove_child
  <2>. DEFINE p == Head(frames)
              child == Head(p_child[p])
  <2>1. /\ p_child[p] \in Seq(Proc) /\ p_child[p] # <<>>
        /\ p_child' = [p_child EXCEPT ![p] = Tail(@)] /\ frames' = <<child>> \o frames
    BY <1>2, <1>6 DEF remove_child
  <2>2. child \in Proc /\ Range(p_child[p]) = {child} \cup Range(Tail(p_child[p]))
    BY <2>1, FirstAndRest
  <2>3. Range(frames') = Range(frames) \cup {child}
    BY <1>2, <2>1, <2>2, PushProperties
  <2>4. child \in Doomed
    BY <1>2, <1>3, <2>2
  <2>5. \A x \in Proc : Range(p_child'[x]) \subseteq Range(p_child[x])
    BY <1>2, <2>1, <2>2
  <2>. QED BY <1>1, <1>3, <2>3, <2>4, <2>5, DoomedWithin
<1>7. ~terminate_return
  BY DEF terminate_return, Killing
<1>. QED BY <1>4, <1>5, <1>6, <1>7 DEF terminating, recursive_remove_proc

-----------------------------------------------------------------------------
(* The actions of Scheduler. *)

\* Who waits for a device is linked in one queue, and nowhere else.
LEMMA WaitingIsBlocked ==
    ASSUME LinkInv, NEW d \in Dev, NEW p \in Queued(d)
    PROVE  p \in Proc /\ p_semkey[p] = d /\ p \notin Unkeyed /\ p \in WaitingForDevice
<1>1. d \in Key /\ d # NULL /\ s_procQ[d] \in Seq(Proc)
  BY ProcFacts DEF LinkInv, TypeOK
<1>2. p \in Proc
  BY <1>1, RangeOfSeq DEF Queued
<1>. QED BY <1>1, <1>2 DEF LinkInv, SemkeyNamesQueue, Unkeyed, WaitingForDevice

\* A kill that reaches no waiting process leaves the device queues alone.
LEMMA DeviceQueuesStay ==
    ASSUME LinkInv, Next \/ UNCHANGED vars, Killing => Head(frames) \notin WaitingForDevice,
           NEW d \in Dev
    PROVE  s_procQ'[d] = s_procQ[d]
<1>0. d \in Key /\ Sem \subseteq Key /\ d \notin Sem /\ TypeOK
  BY ProcFacts, KeyAssumption DEF LinkInv
<1>1. ASSUME NEW k \in Sem, passeren(k) \/ verhogen(k) PROVE s_procQ'[d] = s_procQ[d]
  BY <1>0, <1>1 DEF passeren, verhogen, insertBlocked, unlinkBlocked, TypeOK
<1>2. ASSUME recursive_remove_proc PROVE s_procQ'[d] = s_procQ[d]
  <2>. DEFINE p == Head(frames)
              k == p_semkey[p]
  <2>1. p \in Proc /\ Killing
    BY <1>2, FrameFacts DEF recursive_remove_proc, Killing
  <2>2. CASE k # NULL /\ p \in Range(Waiters(k)) /\ unlinkBlocked(k, p)
    <3>1. k \in Key
      BY <1>0, <2>1, <2>2 DEF TypeOK
    <3>. HIDE DEF k
    <3>2. p \in Range(s_procQ[k])
      BY <2>2, <3>1, WaitersQueue
    <3>3. k # d
      BY <2>1, <3>2 DEF WaitingForDevice, Queued
    <3>. QED BY <1>0, <2>1, <2>2, <3>1, <3>3, UnlinkBlocked
  <2>. QED BY <1>2, <2>2 DEF recursive_remove_proc
<1>3. ASSUME NEW prio \in Priorities, init_proc(prio) \/ create_process(prio)
      PROVE  s_procQ' = s_procQ
  BY <1>3 DEF init_proc, create_process, semVars
<1>4. ASSUME NEW p \in Proc, terminate_proc(p)
      PROVE  s_procQ' = s_procQ
  BY <1>4 DEF terminate_proc, semVars
<1>5. ASSUME launch \/ time_slice_callback \/ remove_child \/ remove_return
               \/ terminate_return \/ halted \/ UNCHANGED vars
      PROVE  s_procQ' = s_procQ
  BY <1>5 DEF launch, time_slice_callback, remove_child, remove_return, terminate_return,
              halted, vars, semVars
<1>. QED BY <1>1, <1>2, <1>3, <1>4, <1>5
         DEF Next, starting, semaphore_call, process_call, terminating

\* The process that recursive_remove_proc is called for waits for no device,
\* so that no device list names it.
LEMMA DoomedNotListed ==
    ASSUME ExclusiveInv, Killing
    PROVE  Head(frames) \notin WaitingForDevice /\ dev_w_list[Head(frames)] = NULL
<1>1. LinkInv /\ OneWaiter /\ TypeOK
  BY DEF ExclusiveInv, NucleusInv, LinkInv
<1>. DEFINE p == Head(frames)
<1>2. p \in Proc /\ p \in Range(frames)
  BY <1>1, ActiveCalls
<1>3. p \notin WaitingForDevice
  BY <1>1, <1>2, DoomedIsLeast DEF ExclusiveInv
<1>. HIDE DEF p
<1>4. \A d \in Dev : dev_w_list[p] # d
  <2>1. SUFFICES ASSUME NEW d \in Dev, dev_w_list[p] = d PROVE FALSE
    OBVIOUS
  <2>2. p = w_for_res[d] /\ p # NULL
    BY <1>1, <1>2, <2>1, ProcFacts DEF OneWaiter
  <2>3. s_procQ[d] = <<p>>
    BY <1>1, <2>2 DEF OneWaiter
  <2>4. p \in Queued(d)
    BY <2>3 DEF Queued, Range
  <2>. QED BY <1>3, <2>4 DEF WaitingForDevice
<1>5. dev_w_list[p] \in Dev \cup {NULL}
  BY <1>1, <1>2 DEF TypeOK
<1>. QED BY <1>3, <1>4, <1>5 DEF p

LEMMA NextExclusive ==
    ASSUME ExclusiveInv, Next \/ UNCHANGED vars, UNCHANGED devVars,
           \A p \in Proc : terminate_proc(p) => Family(p) \cap WaitingForDevice = {}
    PROVE  ExclusiveInv'
<1>1. /\ NucleusInv /\ LinkInv /\ OneWaiter /\ Lost = {} /\ pc # "corrupt"
      /\ issued' = issued
  BY DEF ExclusiveInv, NucleusInv, devVars
<1>2. pc' # "corrupt"
  BY <1>1, LinkInvNext, DoomedNotListed
<1>3. NucleusInv' /\ LinkInv' /\ TypeOK' /\ Lost' = {}
  BY <1>1, <1>2, NextKeepsNucleus, LinkInvNext DEF NucleusInv
<1>4. ASSUME NEW d \in Dev
      PROVE  s_procQ'[d] = s_procQ[d] /\ w_for_res'[d] = w_for_res[d]
  <2>1. Killing => Head(frames) \notin WaitingForDevice
    BY DoomedNotListed
  <2>2. DeviceKept(d)
    BY <1>1, <1>2, NextKeepsDevice
  <2>. QED BY <1>1, <2>1, <2>2, DeviceQueuesStay DEF DeviceKept
<1>5. OneWaiter'
  BY <1>1, <1>4, KeepDevices DEF OneWaiter, Queued
<1>6. WaitingForDevice' = WaitingForDevice
  BY <1>4 DEF WaitingForDevice, Queued
<1>7. ASSUME Killing' PROVE Doomed' \cap WaitingForDevice = {}
  <2>1. CASE terminating
    BY <1>1, <1>3, <1>7, <2>1, RemovalDooms DEF ExclusiveInv
  <2>2. ASSUME NEW p \in Proc, terminate_proc(p) PROVE Doomed' \cap WaitingForDevice = {}
    BY <1>1, <1>3, <1>7, <2>2, TerminateDooms DEF LinkInv
  <2>3. CASE UNCHANGED vars
    <3>1. Doomed' = Doomed /\ Killing
      BY <1>7, <2>3 DEF vars, treeVars, Doomed, Killing
    <3>. QED BY <3>1 DEF ExclusiveInv
  <2>4. ASSUME \/ starting \/ semaphore_call \/ time_slice_callback \/ halted
               \/ \E prio \in Priorities : create_process(prio)
        PROVE  FALSE
    BY <1>7, <2>4 DEF starting, init_proc, launch, semaphore_call, passeren, verhogen,
          time_slice_callback, halted, create_process, InSyscall, Killing, Panics, vars
  <2>. QED BY <2>1, <2>2, <2>3, <2>4 DEF Next, process_call
<1>. QED BY <1>2, <1>3, <1>5, <1>6, <1>7 DEF ExclusiveInv

-----------------------------------------------------------------------------
(* WAITIO and the device interrupts. *)

\* The parts of the invariant that no action on a device can disturb.
LEMMA DeviceStepExclusive ==
    ASSUME ExclusiveInv, DeviceStep, Lost' \subseteq Lost, OneWaiter'
    PROVE  ExclusiveInv'
<1>1. NucleusInv' /\ pc' = pc
  BY NucleusInvNext DEF ExclusiveInv, NucleusNext, DeviceStep, wait_io, done_io,
                        device_ends, vars
<1>2. ~Killing' \/ \E d \in Dev : device_ends(d)
  BY <1>1 DEF DeviceStep, wait_io, done_io, InSyscall, Killing
<1>3. ASSUME NEW d \in Dev, device_ends(d)
      PROVE  Killing' = Killing /\ Doomed' = Doomed /\ WaitingForDevice' = WaitingForDevice
  BY <1>3 DEF device_ends, vars, treeVars, semVars, Killing, Doomed, WaitingForDevice, Queued
<1>. QED BY <1>1, <1>2, <1>3 DEF ExclusiveInv

\* Called on an idle device only, WAITIO always sends its command.
LEMMA WaitIoExclusive ==
    ASSUME ExclusiveInv, NEW d \in Dev, wait_io(d), semval[d] = 1 PROVE ExclusiveInv'
<1>1. /\ NucleusInv /\ LinkInv /\ DeviceAgrees /\ OneWaiter /\ pc = "user" /\ InSyscall
  BY DEF ExclusiveInv, NucleusInv, wait_io, InSyscall
<1>2. /\ running_proc \in Proc /\ running_proc \in Unkeyed /\ running_proc # NULL
      /\ d \in Key /\ Dev \subseteq Key /\ NULL \notin Dev /\ FreeSemd(d)
  BY <1>1, UserShare, EnoughSemds, ProcFacts DEF FreeSemd
<1>3. /\ s_procQ \in [Key -> Seq(Proc)] /\ w_for_res \in [Dev -> Proc \cup {NULL}]
      /\ dev_w_list \in [Proc -> Dev \cup {NULL}]
  BY <1>1 DEF LinkInv, TypeOK
<1>4. w_for_res[d] = NULL
  BY <1>1 DEF DeviceAgrees
<1>5. s_procQ[d] = <<>>
  BY <1>1, <1>4 DEF OneWaiter
<1>6. /\ insertBlockedFifo(d, running_proc)
      /\ w_for_res' = [w_for_res EXCEPT ![d] = running_proc]
      /\ dev_w_list' = [dev_w_list EXCEPT ![running_proc] = d]
      /\ issued' = issued \cup {running_proc}
  BY <1>2 DEF wait_io
<1>7. s_procQ' = [s_procQ EXCEPT ![d] = <<running_proc>>]
  <2>1. Waiters(d) = <<>>
    BY <1>1, <1>2, <1>5, WaitersQueue
  <2>2. Append(<<>>, running_proc) = <<running_proc>>
    OBVIOUS
  <2>. QED BY <1>6, <2>1, <2>2 DEF insertBlockedFifo
<1>8. Range(<<running_proc>>) = {running_proc}
  BY DEF Range
<1>9. \A e \in Dev : running_proc # w_for_res[e]
  <2>1. SUFFICES ASSUME NEW e \in Dev, running_proc = w_for_res[e] PROVE FALSE
    OBVIOUS
  <2>2. s_procQ[e] = <<running_proc>>
    BY <1>1, <1>2, <2>1 DEF OneWaiter
  <2>3. running_proc \in Queued(e)
    BY <1>8, <2>2 DEF Queued
  <2>. QED BY <1>1, <1>2, <2>3, WaitingIsBlocked
<1>10. ASSUME NEW e \in Dev
       PROVE  /\ s_procQ'[e] = IF w_for_res'[e] = NULL THEN <<>> ELSE <<w_for_res'[e]>>
              /\ Range(s_procQ'[e]) \subseteq issued'
              /\ \A p \in Proc : dev_w_list'[p] = e <=> p = w_for_res'[e]
  <2>1. CASE e = d
    <3>1. /\ s_procQ'[d] = <<running_proc>> /\ w_for_res'[d] = running_proc
          /\ dev_w_list'[running_proc] = d
      BY <1>2, <1>3, <1>6, <1>7
    <3>2. \A p \in Proc \ {running_proc} : dev_w_list'[p] = dev_w_list[p] /\ dev_w_list[p] # d
      <4>1. \A p \in Proc : dev_w_list[p] = d <=> p = NULL
        BY <1>1, <1>4 DEF OneWaiter
      <4>2. NULL \notin Proc
        BY ProcFacts
      <4>. QED BY <1>3, <1>6, <4>1, <4>2
    <3>3. Range(s_procQ'[d]) \subseteq issued'
      BY <1>6, <1>8, <3>1
    <3>4. \A p \in Proc : dev_w_list'[p] = d <=> p = running_proc
      BY <3>1, <3>2
    <3>. QED BY <1>2, <2>1, <3>1, <3>3, <3>4
  <2>2. CASE e # d
    <3>1. /\ s_procQ'[e] = s_procQ[e] /\ w_for_res'[e] = w_for_res[e]
          /\ dev_w_list'[running_proc] # e
      BY <1>2, <1>3, <1>6, <1>7, <2>2
    <3>2. \A p \in Proc \ {running_proc} : dev_w_list'[p] = dev_w_list[p]
      BY <1>3, <1>6
    <3>3. Range(s_procQ'[e]) \subseteq issued'
      <4>1. Range(s_procQ[e]) \subseteq issued
        BY <1>1 DEF OneWaiter, Queued
      <4>. QED BY <1>6, <3>1, <4>1
    <3>4. \A p \in Proc : dev_w_list'[p] = e <=> p = w_for_res'[e]
      <4>1. \A p \in Proc : dev_w_list[p] = e <=> p = w_for_res[e]
        BY <1>1 DEF OneWaiter
      <4>. QED BY <1>9, <3>1, <3>2, <4>1
    <3>5. s_procQ[e] = IF w_for_res[e] = NULL THEN <<>> ELSE <<w_for_res[e]>>
      BY <1>1 DEF OneWaiter
    <3>. QED BY <3>1, <3>3, <3>4, <3>5
  <2>. QED BY <2>1, <2>2
<1>11. OneWaiter'
  BY <1>10 DEF OneWaiter, Queued
<1>12. Lost' \subseteq Lost
  BY <1>1, WaitIoLinks
<1>. QED BY <1>11, <1>12, DeviceStepExclusive DEF DeviceStep

\* The head of the queue is the process that has the result, and the only one.
LEMMA DoneIoExclusive ==
    ASSUME ExclusiveInv, NEW d \in Dev, done_io(d)
    PROVE  /\ ExclusiveInv'
           /\ \A p \in Queued(d) : p \in Ready' \/ p = running_proc'
<1>1. /\ NucleusInv /\ NucleusTypeOK /\ LinkInv /\ OneWaiter /\ pc = "user"
  BY DEF ExclusiveInv, NucleusInv, done_io
<1>. DEFINE w == w_for_res[d]
<1>2. /\ s_procQ \in [Key -> Seq(Proc)] /\ w_for_res \in [Dev -> Proc \cup {NULL}]
      /\ dev_w_list \in [Proc -> Dev \cup {NULL}] /\ TypeOK
      /\ d \in Key /\ Dev \subseteq Key /\ NULL \notin Dev
  BY <1>1, ProcFacts DEF LinkInv, TypeOK
<1>3. w \in Proc /\ w # NULL
  BY <1>2 DEF done_io
<1>4. s_procQ[d] = <<w>> /\ dev_w_list[w] = d
  BY <1>1, <1>3 DEF OneWaiter
<1>5. /\ Waiters(d) # <<>> /\ Head(Waiters(d)) = w /\ Tail(Waiters(d)) = <<>>
  <2>1. Waiters(d) = <<w>>
    BY <1>1, <1>2, <1>4, WaitersQueue
  <2>2. <<w>> # <<>> /\ Head(<<w>>) = w /\ Tail(<<w>>) = <<>>
    OBVIOUS
  <2>. HIDE DEF w
  <2>. QED BY <2>1, <2>2
<1>6. /\ unlinkBlocked(d, w) /\ schedule_proc(w, priority)
      /\ next_command(d, <<>>, [dev_w_list EXCEPT ![w] = NULL])
  BY <1>5, Zenon DEF done_io
<1>. HIDE DEF w
<1>7. /\ w_for_res' = [w_for_res EXCEPT ![d] = NULL]
      /\ dev_w_list' = [dev_w_list EXCEPT ![w] = NULL] /\ issued' = issued
  BY <1>6 DEF next_command
<1>8. /\ Queued(d) = {w} /\ NoDuplicates(s_procQ[d])
  <2>1. Range(<<w>>) = {w}
    BY DEF Range
  <2>. QED BY <1>1, <1>2, <1>4, <2>1 DEF Queued, LinkInv
<1>9. s_procQ'[d] = <<>> /\ \A e \in Dev \ {d} : s_procQ'[e] = s_procQ[e]
  <2>1. /\ s_procQ' \in [Key -> Seq(Proc)] /\ Range(s_procQ'[d]) = {}
        /\ \A e \in Key \ {d} : s_procQ'[e] = s_procQ[e]
    BY <1>2, <1>3, <1>6, <1>8, UnlinkBlocked
  <2>2. s_procQ'[d] \in Seq(Proc)
    BY <1>2, <2>1
  <2>3. s_procQ'[d] # <<>> => Range(s_procQ'[d]) # {}
    BY <2>2, FirstAndRest
  <2>. QED BY <1>2, <2>1, <2>3
<1>10. ASSUME NEW e \in Dev
       PROVE  /\ s_procQ'[e] = IF w_for_res'[e] = NULL THEN <<>> ELSE <<w_for_res'[e]>>
              /\ Range(s_procQ'[e]) \subseteq issued'
              /\ \A p \in Proc : dev_w_list'[p] = e <=> p = w_for_res'[e]
  <2>1. CASE e = d
    <3>1. w_for_res'[d] = NULL /\ Range(<<>>) = {}
      BY <1>2, <1>7 DEF Range
    <3>2. \A p \in Proc : dev_w_list'[p] # d
      BY <1>1, <1>2, <1>3, <1>7 DEF OneWaiter, w
    <3>. QED BY <1>9, <2>1, <3>1, <3>2, ProcFacts
  <2>2. CASE e # d
    <3>1. s_procQ'[e] = s_procQ[e] /\ w_for_res'[e] = w_for_res[e]
      BY <1>2, <1>7, <1>9, <2>2
    <3>2. dev_w_list'[w] # e /\ w # w_for_res[e]
      BY <1>1, <1>2, <1>3, <1>4, <1>7, <2>2 DEF OneWaiter
    <3>3. \A p \in Proc \ {w} : dev_w_list'[p] = dev_w_list[p]
      BY <1>2, <1>7
    <3>. QED BY <1>1, <1>7, <3>1, <3>2, <3>3 DEF OneWaiter, Queued
  <2>. QED BY <2>1, <2>2
<1>11. OneWaiter'
  BY <1>10 DEF OneWaiter, Queued
<1>12. Lost' \subseteq Lost
  <2>1. ~Drops(d)
    BY <1>1, <1>2, <1>5, WaitersQueue DEF Drops, w
  <2>. QED BY <1>1, <2>1, DoneIoLinks
<1>13. w \in Ready' \/ w = running_proc'
  <2>1. /\ ready_queue \in Seq(Proc) /\ original_priority \in [Pcb -> Nat]
        /\ priority \in [Pcb -> Nat] /\ running_proc \in Pcb
    BY <1>1, <1>2, UserShare DEF TypeOK
  <2>. QED BY <1>3, <1>6, <2>1, ScheduleProc DEF Ready, OnCpu
<1>. QED BY <1>8, <1>11, <1>12, <1>13, DeviceStepExclusive DEF DeviceStep

LEMMA ExclusiveInvNext == ExclusiveInv /\ [ExclusiveNext]_nucleusVars => ExclusiveInv'
<1>. SUFFICES ASSUME ExclusiveInv, [ExclusiveNext]_nucleusVars PROVE ExclusiveInv'
  OBVIOUS
<1>1. ASSUME NEW d \in Dev, device_ends(d) PROVE ExclusiveInv'
  <2>1. UNCHANGED <<vars, issued>>
    BY <1>1 DEF device_ends
  <2>2. Lost' = Lost
    BY <2>1 DEF vars, pcbVars, Lost, Unkeyed, Free, Ready, OnCpu, Killing
  <2>3. OneWaiter'
    BY <2>1 DEF vars, semVars, pcbVars, ExclusiveInv, OneWaiter, Queued
  <2>. QED BY <1>1, <2>2, <2>3, DeviceStepExclusive DEF DeviceStep
<1>2. CASE (Next \/ UNCHANGED vars) /\ UNCHANGED devVars
           /\ \A p \in Proc : terminate_proc(p) => Family(p) \cap WaitingForDevice = {}
  BY <1>2, NextExclusive
<1>3. CASE UNCHANGED nucleusVars
  <2>1. UNCHANGED vars /\ UNCHANGED devVars
    BY <1>3 DEF nucleusVars
  <2>2. ASSUME NEW p \in Proc, terminate_proc(p) PROVE FALSE
    BY <2>1, <2>2 DEF terminate_proc, InSyscall, vars
  <2>. QED BY <2>1, <2>2, NextExclusive
<1>4. CASE ExclusiveNext /\ DeviceStep
  BY <1>1, <1>4, WaitIoExclusive, DoneIoExclusive DEF ExclusiveNext, DeviceStep
<1>. QED BY <1>2, <1>3, <1>4 DEF ExclusiveNext, NucleusNext

-----------------------------------------------------------------------------
(* The theorems about programs that lock their devices. *)

\* ExclusiveInv holds in every reachable state.  In particular such programs
\* never make the kernel free a PCB that is still linked.
THEOREM ExclusiveInvariant == ExclusiveSpec => []ExclusiveInv
  BY ExclusiveInvInit, ExclusiveInvNext, PTL DEF ExclusiveSpec

\* The queue of a device holds exactly the process that w_for_res names, and
\* it is that process' command which is being executed.
THEOREM OneWaiterPerDevice == ExclusiveSpec => []OneWaiter
<1>1. ExclusiveInv => OneWaiter
  BY DEF ExclusiveInv
<1>. QED BY <1>1, ExclusiveInvariant, PTL

\* No process is lost, neither by done_io nor by a kill.
THEOREM ExclusiveLosesNone == ExclusiveSpec => []NoProcessLost
<1>1. ExclusiveInv => NoProcessLost
  BY NothingLost DEF ExclusiveInv, NucleusInv
<1>. QED BY <1>1, ExclusiveInvariant, PTL

\* A kill under way is that of a process which is not free yet.
KillInv == KillsSucceed /\ (pc = "remove" => Head(frames) \notin Free)

LEMMA KillInvNext ==
    ExclusiveInv /\ TreeInv /\ KillInv /\ [ExclusiveNext]_nucleusVars => KillInv'
<1>. SUFFICES ASSUME ExclusiveInv, TreeInv, KillInv, [ExclusiveNext]_nucleusVars
              PROVE  KillInv'
  OBVIOUS
<1>1. ASSUME UNCHANGED <<pc, pcbFree, frames>> PROVE KillInv'
  BY <1>1 DEF KillInv, KillsSucceed, Free
<1>2. pc = "remove" => dev_w_list[Head(frames)] = NULL
  BY DoomedNotListed DEF Killing
<1>3. ASSUME NEW p \in Proc, terminate_proc(p), p \notin Free PROVE KillInv'
  <2>1. pc' # "TreeBroken"
    BY <1>2, <1>3, KillStep DEF ExclusiveInv
  <2>2. pc' = "remove" /\ frames' = <<p>> /\ Free' = Free
    BY <1>3, <2>1 DEF terminate_proc, Free
  <2>. QED BY <1>3, <2>2 DEF KillInv, KillsSucceed
<1>4. CASE recursive_remove_proc
  <2>1. pc' \notin {"NotFound", "corrupt"}
    BY <1>2, <1>4, KillStep DEF ExclusiveInv, KillInv, recursive_remove_proc
  <2>2. pc' = "children"
    BY <1>4, <2>1 DEF recursive_remove_proc
  <2>. QED BY <2>2 DEF KillInv, KillsSucceed
<1>5. CASE remove_child
  <2>1. pc' = "remove" /\ Free' = Free
    BY <1>5 DEF remove_child, Free
  <2>2. Head(frames') \notin Free
    BY <1>5, RemoveChildOutcome
  <2>. QED BY <2>1, <2>2 DEF KillInv, KillsSucceed
<1>6. ASSUME \/ starting \/ semaphore_call \/ time_slice_callback \/ remove_return
             \/ terminate_return \/ \E prio \in Priorities : create_process(prio)
      PROVE  KillInv'
  <2>1. pc' \in {"init", "user", "children", "TooManyProcs", "NoReadyProc", "NoFreeSemd"}
    BY <1>6 DEF starting, init_proc, launch, semaphore_call, passeren, verhogen,
                time_slice_callback, remove_return, terminate_return, create_process, InSyscall
  <2>. QED BY <2>1 DEF KillInv, KillsSucceed
<1>7. CASE halted \/ UNCHANGED nucleusVars
  BY <1>1, <1>7 DEF halted, vars, nucleusVars
<1>8. CASE DeviceStep
  BY <1>1, <1>8, DeviceStepKeepsTree
<1>. QED BY <1>3, <1>4, <1>5, <1>6, <1>7, <1>8
         DEF ExclusiveNext, NucleusNext, Next, process_call, terminating

\* However the offspring of a process is spread over the CPU, the ready queue,
\* the semaphores and, before, the devices, its kill succeeds.
THEOREM ExclusiveKillsSucceed == ExclusiveSpec => []KillsSucceed
<1>1. ExclusiveInv => NucleusInv
  BY DEF ExclusiveInv
<1>2. NucleusInit => TreeInv /\ KillInv
  BY TreeInvInit DEF NucleusInit, Init, KillInv, KillsSucceed
<1>3. [ExclusiveNext]_nucleusVars => [NucleusNext]_nucleusVars
  BY DEF ExclusiveNext
<1>4. KillInv => KillsSucceed
  BY DEF KillInv
<1>. QED BY <1>1, <1>2, <1>3, <1>4, ExclusiveInvariant, NucleusTreeNext, KillInvNext, PTL
         DEF ExclusiveSpec

\* What the comment on wait_io promises (scheduler.h:18) and the kernel alone
\* does not keep, holds for these programs: done_io drops no waiting process.
THEOREM ExclusiveDropsNone == ExclusiveSpec => NoWaiterDropped
<1>1. ASSUME ExclusiveInv, [ExclusiveNext]_nucleusVars
      PROVE  [\A d \in Dev : \A p \in Queued(d) :
                done_io(d) => p \in Queued(d)' \/ p \in Ready' \/ p = running_proc']_nucleusVars
  BY <1>1, DoneIoExclusive
<1>. QED BY <1>1, ExclusiveInvariant, PTL DEF ExclusiveSpec, NoWaiterDropped
=============================================================================
