----------------------------- MODULE ProcQueue -----------------------------
(***************************************************************************)
(* The process queues of pcb.c (section "PCB QUEUE HANDLING FUNCTIONS").   *)
(* A queue, a circular list_head linked through p_next in the code, is the *)
(* sequence of the PCBs met from its sentinel on.  The same functions      *)
(* serve the ready queue and the queue of every semaphore descriptor.      *)
(* emptyProcQ, headProcQ and removeProcQ are q = <<>>, Head and Tail.      *)
(***************************************************************************)
EXTENDS Integers, SequencesExt

\* Mutant: always at the tail.
insertProcQ_Tail(q, p, prio) == Append(q, p)

\* Mutant: in front of the first PCB that has no higher priority.
insertProcQ_Before(q, p, prio) ==
    LET at == SelectInSeq(q, LAMBDA t : prio[p] >= prio[t])
    IN  IF at = 0 THEN Append(q, p) ELSE InsertAt(q, at, p)

\* insertProcQ: the scan stops at the first queued PCB of lower priority and
\* the new PCB goes in front of it; without one it goes to the tail.
insertProcQ(q, p, prio) ==
    LET at == SelectInSeq(q, LAMBDA t : prio[p] > prio[t])
    IN  IF at = 0 THEN Append(q, p) ELSE InsertAt(q, at, p)

\* outProcQ: unlinks p when the scan meets it.  The caller learns whether it
\* did; here that is p \in Range(q).
outProcQ(q, p) == RemoveFirst(q, p)

\* "mantenendo la lista in ordine decrescente" (pcb.h:73)
Sorted(q, prio) ==
    \A i, j \in DOMAIN q : i < j => prio[q[i]] >= prio[q[j]]

\* A PCB has one p_next: it is linked at most once in a queue.
NoDuplicates(q) == \A i, j \in DOMAIN q : q[i] = q[j] => i = j
=============================================================================
