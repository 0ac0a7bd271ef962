------------------------ MODULE SchedulerTree_proofs ------------------------
(***************************************************************************)
(* Proofs about the process tree: it stays consistent, the kill of a live  *)
(* process never panics, and the scheduler implements ProcessTree.  What   *)
(* they assume of the queues also holds when devices are in use.           *)
(***************************************************************************)
EXTENDS SchedulerTree, Scheduler_proofs

\* p is being removed: recursive_remove_proc has been called for it and has
\* not freed it yet.
Entered(p) == pc = "remove" /\ p = Head(frames)

\* What the tree needs of the lists: as long as no linked PCB has been freed,
\* a PCB is linked once.
LinksHold == TypeOK /\ (pc # "corrupt" => LinkInv)

\* The inductive invariant of the tree.  While a kill runs, the children of a
\* PCB that is free already wait in its list, and only a PCB of an active call
\* is in that state; the one being entered has left the list of its parent,
\* though it may still name it (outChild), so it is left out.
TreeInv ==
    /\ LinksHold
    /\ pc \in {"init", "user"} => frames = <<>>
    /\ pc = "children" => Range(frames) \subseteq Free
    /\ pc = "remove" => /\ Range(Tail(frames)) \subseteq Free
                        /\ Len(frames) > 1 => Head(frames) \notin Free
                        /\ \A x \in Proc : Head(frames) \notin Range(p_child[x])
    /\ \A x \in Proc : NoDuplicates(p_child[x])
    /\ \A x, c \in Proc : c \in Range(p_child[x]) => p_parent[c] = x /\ c \notin Free
    /\ \A x \in Free \ Range(frames) : p_child[x] = <<>>
    /\ pc \in {"init", "user"} \/ Killing =>
          \A c \in Proc \ Free :
             p_parent[c] # NULL /\ ~Entered(c) =>
                /\ p_parent[c] \notin Free \/ p_parent[c] \in Range(frames)
                /\ c \in Range(p_child[p_parent[c]])

\* TreeInv gives the property of the tree.
LEMMA TreeInvImplies == TreeInv => TreeConsistent
<1>1. Range(<<>>) = {}
  BY DEF Range
<1>. QED BY <1>1 DEF TreeInv, TreeConsistent, Entered

-----------------------------------------------------------------------------
(* Lists of children *)

\* The types of the tree.
LEMMA TreeTypes ==
    ASSUME TypeOK
    PROVE  /\ p_child \in [Proc -> Seq(Proc)] /\ p_parent \in [Proc -> Proc \cup {NULL}]
           /\ frames \in Seq(Proc)
           /\ \A x \in Proc : p_child[x] \in Seq(Proc) /\ Range(p_child[x]) \subseteq Proc
           /\ Free \subseteq Proc /\ Range(frames) \subseteq Proc
           /\ Range(<<>>) = {} /\ NoDuplicates(<<>>)
<1>1. /\ p_child \in [Proc -> Seq(Proc)] /\ p_parent \in [Proc -> Proc \cup {NULL}]
      /\ frames \in Seq(Proc) /\ pcbFree \in Seq(Proc)
  BY DEF TypeOK
<1>2. Range(<<>>) = {} /\ NoDuplicates(<<>>)
  BY DEF Range, NoDuplicates
<1>. QED BY <1>1, <1>2, RangeOfSeq DEF Free

-----------------------------------------------------------------------------
(* Every action preserves TreeInv. *)

\* At the start every PCB is free, without parent and children.
LEMMA TreeInvInit == Init => TreeInv
<1>. SUFFICES ASSUME Init PROVE TreeInv
  OBVIOUS
<1>1. LinksHold /\ TypeOK
  BY QueueInvInit DEF QueueInv, LinkInv, LinksHold
<1>2. /\ pc = "init" /\ frames = <<>>
      /\ \A x \in Proc : p_child[x] = <<>> /\ p_parent[x] = NULL
  BY DEF Init
<1>3. Range(<<>>) = {} /\ NoDuplicates(<<>>) /\ Free \subseteq Proc
  BY <1>1, TreeTypes
<1>4. pc # "remove" /\ pc # "children"
  BY <1>2
<1>. QED BY <1>1, <1>2, <1>3, <1>4 DEF TreeInv

\* A step that touches neither the tree nor the free list.
LEMMA TreeInvUnchanged ==
    ASSUME TreeInv, LinksHold', UNCHANGED <<pcbFree, treeVars, frames>>,
           pc' = pc \/ (pc \in {"init", "user"} /\ ~Killing')
    PROVE  TreeInv'
<1>1. Free' = Free
  BY DEF Free
<1>. QED BY <1>1 DEF TreeInv, treeVars, Killing, Entered

\* A PCB leaves the free list as a process without children, whose parent, if
\* it has one, is live and lists it last.
LEMMA TreeInvAlloc ==
    ASSUME TreeInv, LinksHold', pc \in {"init", "user"}, UNCHANGED <<pc, frames>>,
           NEW p \in Free, Free' = Free \ {p},
           NEW parent \in Proc \cup {NULL}, parent \notin Free,
           p_parent' = [p_parent EXCEPT ![p] = parent],
           \A x \in Proc \ {p, parent} : p_child'[x] = p_child[x],
           p_child'[p] = <<>>,
           parent \in Proc => p_child'[parent] = Append(p_child[parent], p)
    PROVE  TreeInv'
<1>1. TypeOK /\ frames = <<>>
  BY DEF TreeInv, LinksHold
<1>2. /\ p_child \in [Proc -> Seq(Proc)] /\ p_parent \in [Proc -> Proc \cup {NULL}]
      /\ Free \subseteq Proc /\ Range(<<>>) = {} /\ NoDuplicates(<<>>)
  BY <1>1, TreeTypes
<1>3. /\ \A x \in Proc : p_parent'[x] = IF x = p THEN parent ELSE p_parent[x]
      /\ p # parent /\ p \in Proc
  BY <1>2
<1>4. \A x \in Proc : p \notin Range(p_child[x])
  BY <1>2 DEF TreeInv
<1>5. parent \in Proc => /\ Range(p_child'[parent]) = Range(p_child[parent]) \cup {p}
                         /\ NoDuplicates(p_child'[parent])
  <2>1. SUFFICES ASSUME parent \in Proc
                 PROVE  /\ Range(p_child'[parent]) = Range(p_child[parent]) \cup {p}
                        /\ NoDuplicates(p_child'[parent])
    OBVIOUS
  <2>2. p_child[parent] \in Seq(Proc) /\ NoDuplicates(p_child[parent])
    BY <1>2, <2>1 DEF TreeInv
  <2>3. /\ Range(Append(p_child[parent], p)) = Range(p_child[parent]) \cup {p}
        /\ NoDuplicates(Append(p_child[parent], p))
    BY <1>3, <1>4, <2>1, <2>2, AppendLast
  <2>. QED BY <2>1, <2>3
<1>6. \A x \in Proc : NoDuplicates(p_child'[x])
  BY <1>2, <1>5 DEF TreeInv
<1>7. \A x \in Proc : Range(p_child'[x]) =
         Range(p_child[x]) \cup (IF x = parent THEN {p} ELSE {})
  <2>1. p_child[p] = <<>>
    BY <1>1, <1>2 DEF TreeInv
  <2>. QED BY <1>2, <1>3, <1>5, <2>1
<1>8. \A x, c \in Proc : c \in Range(p_child'[x]) => p_parent'[c] = x /\ c \notin Free'
  <2>1. \A x, c \in Proc : c \in Range(p_child[x]) => p_parent[c] = x /\ c \notin Free
    BY DEF TreeInv
  <2>. QED BY <1>3, <1>4, <1>7, <2>1
<1>9. \A x \in Free' : p_child'[x] = <<>>
  BY <1>1, <1>2 DEF TreeInv
<1>10. \A c \in Proc \ Free' : p_parent'[c] # NULL =>
          /\ p_parent'[c] \notin Free'
          /\ c \in Range(p_child'[p_parent'[c]])
  <2>1. SUFFICES ASSUME NEW c \in Proc \ Free', p_parent'[c] # NULL
                 PROVE  /\ p_parent'[c] \notin Free'
                        /\ c \in Range(p_child'[p_parent'[c]])
    OBVIOUS
  <2>2. CASE c = p
    BY <1>2, <1>3, <1>7, <2>1, <2>2
  <2>3. CASE c # p
    <3>1. c \notin Free /\ p_parent'[c] = p_parent[c] /\ p_parent[c] \in Proc
      BY <1>2, <1>3, <2>1, <2>3
    <3>2. p_parent[c] \notin Free /\ c \in Range(p_child[p_parent[c]])
      BY <1>1, <1>2, <2>1, <3>1 DEF TreeInv, Entered
    <3>. QED BY <1>7, <3>1, <3>2
  <2>. QED BY <2>2, <2>3
<1>11. ~Killing' /\ frames' = <<>> /\ pc' \in {"init", "user"}
  BY <1>1 DEF Killing
<1>. QED BY <1>2, <1>6, <1>8, <1>9, <1>10, <1>11 DEF TreeInv, Killing

\* init_proc and create_process.
LEMMA TreeInvInitProc ==
    ASSUME TreeInv, LinksHold', NEW prio \in Priorities, init_proc(prio) PROVE TreeInv'
<1>1. LinkInv /\ TypeOK
  BY DEF TreeInv, LinksHold, init_proc
<1>2. ASSUME NEW p \in Proc, allocPcb(p, prio), pc' = pc,
             p_parent' = [p_parent EXCEPT ![p] = NULL],
             p_child' = [p_child EXCEPT ![p] = <<>>]
      PROVE  TreeInv'
  <2>1. pc = "init" /\ frames' = frames /\ prio \in Nat
    BY PriorityAssumption DEF init_proc
  <2>2. p \in Free /\ Free' = Free \ {p}
    BY <1>1, <1>2, <2>1, AllocPcb
  <2>3. p_child \in [Proc -> Seq(Proc)] /\ NULL \notin Proc /\ Free \subseteq Proc
    BY <1>1, TreeTypes, ProcFacts
  <2>4. /\ \A x \in Proc \ {p, NULL} : p_child'[x] = p_child[x]
        /\ p_child'[p] = <<>>
    BY <1>2, <2>3
  <2>. QED BY <1>1, <1>2, <2>1, <2>2, <2>3, <2>4, TreeInvAlloc
<1>3. CASE UNCHANGED <<pcbFree, treeVars>> /\ pc' = "TooManyProcs"
  BY <1>1, <1>3, TreeInvUnchanged DEF init_proc, Killing
<1>. QED BY <1>2, <1>3 DEF init_proc

LEMMA TreeInvCreate ==
    ASSUME TreeInv, LinksHold', NEW prio \in Priorities, create_process(prio) PROVE TreeInv'
<1>1. LinkInv /\ TypeOK
  BY DEF TreeInv, LinksHold, create_process, InSyscall
<1>2. ASSUME NEW p \in Proc, allocPcb(p, prio),
             p_parent' = [p_parent EXCEPT ![p] = running_proc],
             p_child' = [p_child EXCEPT ![p] = <<>>, ![running_proc] = Append(@, p)]
      PROVE  TreeInv'
  <2>1. pc = "user" /\ pc' = pc /\ frames' = frames /\ InSyscall /\ prio \in Nat
    BY PriorityAssumption DEF create_process, InSyscall
  <2>2. p \in Free /\ Free' = Free \ {p}
    BY <1>1, <1>2, <2>1, AllocPcb
  <2>3. running_proc \in Proc /\ running_proc \notin Free
    BY <1>1, <2>1, UserShare
  <2>4. p_child \in [Proc -> Seq(Proc)]
    BY <1>1, TreeTypes
  <2>5. /\ \A x \in Proc \ {p, running_proc} : p_child'[x] = p_child[x]
        /\ p_child'[p] = <<>>
        /\ p_child'[running_proc] = Append(p_child[running_proc], p)
    BY <1>2, <2>2, <2>3, <2>4
  <2>. QED BY <1>1, <1>2, <2>1, <2>2, <2>3, <2>5, TreeInvAlloc
<1>3. CASE UNCHANGED <<pcbFree, pcbVars, treeVars, ready_queue, running_proc>>
  BY <1>1, <1>3, TreeInvUnchanged DEF create_process
<1>. QED BY <1>2, <1>3 DEF create_process

\* What terminate_proc does to the lists: p leaves the one it is in, if any.
LEMMA OutChild ==
    ASSUME TreeInv, NEW p \in Proc,
           IF p_parent[p] = NULL THEN UNCHANGED treeVars ELSE outChild(p)
    PROVE  /\ \A x \in Proc : /\ NoDuplicates(p_child'[x])
                              /\ Range(p_child'[x]) = Range(p_child[x]) \ {p}
                              /\ p_child[x] = <<>> => p_child'[x] = <<>>
           /\ \A c \in Proc \ {p} : p_parent'[c] = p_parent[c]
<1>1. /\ p_child \in [Proc -> Seq(Proc)] /\ p_parent \in [Proc -> Proc \cup {NULL}]
      /\ Range(<<>>) = {}
  BY TreeTypes DEF TreeInv, LinksHold
<1>2. /\ \A x \in Proc : NoDuplicates(p_child[x])
      /\ \A x \in Proc : p \in Range(p_child[x]) => p_parent[p] = x
  BY DEF TreeInv
<1>3. CASE p_parent[p] = NULL
  <2>1. \A x \in Proc : p \notin Range(p_child[x])
    BY <1>2, <1>3, ProcFacts
  <2>. QED BY <1>2, <1>3, <2>1 DEF treeVars
<1>4. CASE p_parent[p] # NULL
  <2>. DEFINE parent == p_parent[p]
              rest == outProcQ(p_child[parent], p)
  <2>1. parent \in Proc /\ p_child[parent] \in Seq(Proc) /\ NoDuplicates(p_child[parent])
    BY <1>1, <1>2, <1>4
  <2>2. NoDuplicates(rest) /\ Range(rest) = Range(p_child[parent]) \ {p}
    BY <2>1, OutProcQSet
  <2>3. p_child[parent] = <<>> => rest = <<>>
    <3>1. p \notin Range(p_child[parent]) => rest = p_child[parent]
      BY <2>1, OutAbsent
    <3>. QED BY <1>1, <3>1
  <2>4. /\ p_child' = [p_child EXCEPT ![parent] = rest]
        /\ p_parent' = [p_parent EXCEPT ![p] = NULL] \/ p_parent' = p_parent
    BY <1>4 DEF outChild
  <2>. HIDE DEF rest
  <2>5. \A c \in Proc \ {p} : p_parent'[c] = p_parent[c]
    BY <1>1, <2>4
  <2>6. /\ p_child'[parent] = rest
        /\ \A x \in Proc \ {parent} : p_child'[x] = p_child[x] /\ p \notin Range(p_child[x])
    BY <1>1, <1>2, <2>1, <2>4
  <2>. QED BY <1>2, <2>2, <2>3, <2>5, <2>6
<1>. QED BY <1>3, <1>4

\* The entry of terminate_proc: p has left the list of its parent.
LEMMA TreeInvTerminate ==
    ASSUME TreeInv, LinksHold', NEW p \in Proc, terminate_proc(p) PROVE TreeInv'
<1>1. LinkInv /\ TypeOK /\ pc = "user" /\ frames = <<>>
  BY DEF TreeInv, LinksHold, terminate_proc, InSyscall
<1>2. /\ p_child \in [Proc -> Seq(Proc)] /\ p_parent \in [Proc -> Proc \cup {NULL}]
      /\ Range(<<>>) = {} /\ Free' = Free
  BY <1>1, TreeTypes DEF terminate_proc, Free
<1>3. CASE pc' = "TreeBroken" /\ UNCHANGED <<treeVars, frames>>
  BY <1>1, <1>3, TreeInvUnchanged DEF terminate_proc, Killing
<1>4. ASSUME IF p_parent[p] = NULL THEN UNCHANGED treeVars ELSE outChild(p),
             frames' = <<p>>, pc' = "remove"
      PROVE  TreeInv'
  <2>1. /\ \A x \in Proc : /\ NoDuplicates(p_child'[x])
                           /\ Range(p_child'[x]) = Range(p_child[x]) \ {p}
                           /\ p_child[x] = <<>> => p_child'[x] = <<>>
        /\ \A c \in Proc \ {p} : p_parent'[c] = p_parent[c]
    BY <1>4, OutChild
  <2>2. /\ Head(frames') = p /\ Tail(frames') = <<>> /\ Len(frames') = 1
        /\ Range(frames') = {p}
    BY <1>4 DEF Range
  <2>3. \A x, c \in Proc : c \in Range(p_child'[x]) => p_parent'[c] = x /\ c \notin Free
    BY <2>1 DEF TreeInv
  <2>4. \A x \in Free : p_child'[x] = <<>>
    <3>1. \A x \in Free : x \in Proc /\ p_child[x] = <<>>
      BY <1>1, <1>2, TreeTypes DEF TreeInv
    <3>. QED BY <2>1, <3>1
  <2>5. \A c \in Proc \ Free : p_parent'[c] # NULL /\ c # p =>
           p_parent'[c] \notin Free /\ c \in Range(p_child'[p_parent'[c]])
    <3>1. SUFFICES ASSUME NEW c \in Proc \ Free, c # p, p_parent'[c] # NULL
                   PROVE  p_parent'[c] \notin Free /\ c \in Range(p_child'[p_parent'[c]])
      OBVIOUS
    <3>2. p_parent'[c] = p_parent[c] /\ p_parent[c] \in Proc
      BY <1>2, <2>1, <3>1
    <3>3. p_parent[c] \notin Free /\ c \in Range(p_child[p_parent[c]])
      BY <1>1, <1>2, <3>1, <3>2 DEF TreeInv, Entered
    <3>. QED BY <2>1, <3>1, <3>2, <3>3
  <2>6. \A x \in Proc : p \notin Range(p_child'[x])
    BY <2>1
  <2>. QED BY <1>1, <1>2, <1>4, <2>1, <2>2, <2>3, <2>4, <2>5, <2>6 DEF TreeInv, Entered
<1>. QED BY <1>3, <1>4 DEF terminate_proc

\* The active calls.
LEMMA ActiveCalls ==
    ASSUME LinkInv, Killing
    PROVE  /\ frames \in Seq(Proc) /\ frames # <<>> /\ Head(frames) \in Proc
           /\ Range(frames) = {Head(frames)} \cup Range(Tail(frames))
           /\ Len(frames) \in Nat \ {0}
           /\ Len(frames) = 1 => Range(frames) = {Head(frames)}
<1>1. /\ frames \in Seq(Proc) /\ frames # <<>> /\ Head(frames) \in Proc
      /\ Tail(frames) \in Seq(Proc)
  BY FrameFacts
<1>2. /\ Range(frames) = {Head(frames)} \cup Range(Tail(frames))
      /\ Len(frames) \in Nat \ {0} /\ Len(Tail(frames)) = Len(frames) - 1
  BY <1>1, FirstAndRest, HeadTailProperties, LenProperties, EmptySeq
<1>. DEFINE rest == Tail(frames)
<1>3. DOMAIN rest = 1 .. Len(rest) /\ Len(rest) = Len(frames) - 1
  BY <1>1, <1>2, LenProperties
<1>. HIDE DEF rest
<1>4. Len(frames) = 1 => Range(rest) = {}
  BY <1>3 DEF Range
<1>. QED BY <1>1, <1>2, <1>4 DEF rest

\* recursive_remove_proc frees the PCB, linked or not, or stops the machine.
LEMMA RemoveOutcome ==
    ASSUME TreeInv, recursive_remove_proc
    PROVE  \/ Free' = Free \cup {Head(frames)} /\ pc' \in {"children", "corrupt"}
           \/ Free' = Free /\ pc' = "NotFound"
<1>. DEFINE p == Head(frames)
<1>1. /\ LinkInv /\ Killing /\ pcbFree \in Seq(Proc)
  BY DEF TreeInv, LinksHold, LinkInv, TypeOK, recursive_remove_proc, Killing
<1>2. p \in Proc
  BY <1>1, FrameFacts
<1>3. freePcb(p) => Free' = Free \cup {p}
  <2>1. Range(<<p>> \o pcbFree) = Range(pcbFree) \cup {p}
    BY <1>1, <1>2, PushProperties
  <2>. QED BY <2>1 DEF freePcb, Free
<1>4. \/ freePcb(p) /\ pc' \in {"children", "corrupt"}
      \/ pcbFree' = pcbFree /\ pc' = "NotFound"
  BY DEF recursive_remove_proc
<1>. HIDE DEF p
<1>. QED BY <1>3, <1>4 DEF p, Free

LEMMA TreeInvRemove == ASSUME TreeInv, LinksHold', recursive_remove_proc PROVE TreeInv'
<1>1. LinkInv /\ TypeOK /\ pc = "remove" /\ Killing /\ UNCHANGED <<treeVars, frames>>
  BY DEF TreeInv, LinksHold, recursive_remove_proc, Killing
<1>. DEFINE p == Head(frames)
<1>2. Range(frames) = {p} \cup Range(Tail(frames)) /\ p \in Proc
  BY <1>1, ActiveCalls
<1>3. /\ \A x \in Proc : p \notin Range(p_child[x])
      /\ Range(Tail(frames)) \subseteq Free
  BY <1>1 DEF TreeInv
<1>4. CASE Free' = Free \cup {p} /\ pc' \in {"children", "corrupt"}
  <2>1. Range(frames) \subseteq Free'
    BY <1>2, <1>3, <1>4
  <2>2. \A x, c \in Proc : c \in Range(p_child[x]) => p_parent[c] = x /\ c \notin Free'
    BY <1>3, <1>4 DEF TreeInv
  <2>3. \A x \in Free' \ Range(frames) : p_child[x] = <<>>
    BY <1>2, <1>4 DEF TreeInv
  <2>4. \A c \in Proc \ Free' :
           p_parent[c] # NULL => /\ p_parent[c] \notin Free' \/ p_parent[c] \in Range(frames)
                                 /\ c \in Range(p_child[p_parent[c]])
    BY <1>1, <1>2, <1>4 DEF TreeInv, Entered
  <2>. QED BY <1>1, <1>4, <2>1, <2>2, <2>3, <2>4 DEF TreeInv, treeVars
<1>5. CASE Free' = Free /\ pc' = "NotFound"
  BY <1>1, <1>5 DEF TreeInv, treeVars, Killing
<1>. QED BY <1>4, <1>5, RemoveOutcome

\* removeChild and the recursive call on the child.
LEMMA RemoveChildOutcome ==
    ASSUME TreeInv, remove_child
    PROVE  LET p == Head(frames)
               child == Head(p_child[p])
           IN  /\ p \in Free /\ child \in Proc \ Free
               /\ p_parent[child] = p
               /\ Range(frames') = Range(frames) \cup {child}
               /\ Head(frames') = child /\ Tail(frames') = frames
               /\ Range(p_child[p]) = {child} \cup Range(p_child'[p])
               /\ NoDuplicates(p_child'[p]) /\ child \notin Range(p_child'[p])
               /\ \A x \in Proc \ {p} : p_child'[x] = p_child[x]
               /\ p_parent'[child] = NULL
               /\ \A c \in Proc \ {child} : p_parent'[c] = p_parent[c]
<1>. DEFINE p == Head(frames)
            child == Head(p_child[p])
<1>1. LinkInv /\ TypeOK /\ Killing /\ pc = "children" /\ p_child[p] # <<>>
  BY DEF TreeInv, LinksHold, remove_child, Killing
<1>2. /\ p_child \in [Proc -> Seq(Proc)] /\ p_parent \in [Proc -> Proc \cup {NULL}]
      /\ Free \subseteq Proc
  BY <1>1, TreeTypes
<1>3. p \in Proc /\ p \in Free /\ frames \in Seq(Proc)
  <2>1. Range(frames) \subseteq Free
    BY <1>1 DEF TreeInv
  <2>. QED BY <1>1, <2>1, ActiveCalls
<1>4. /\ p_child' = [p_child EXCEPT ![p] = Tail(@)]
      /\ p_parent' = [p_parent EXCEPT ![child] = NULL]
      /\ frames' = <<child>> \o frames
  BY DEF remove_child
<1>5. /\ child \in Proc /\ Range(p_child[p]) = {child} \cup Range(Tail(p_child[p]))
      /\ NoDuplicates(Tail(p_child[p])) /\ child \notin Range(Tail(p_child[p]))
  <2>1. p_child[p] \in Seq(Proc) /\ NoDuplicates(p_child[p])
    BY <1>2, <1>3 DEF TreeInv
  <2>. HIDE DEF p
  <2>. QED BY <1>1, <2>1, FirstAndRest
<1>6. p_parent[child] = p /\ child \notin Free
  BY <1>3, <1>5 DEF TreeInv
<1>7. /\ Range(<<child>> \o frames) = Range(frames) \cup {child}
      /\ Head(<<child>> \o frames) = child /\ Tail(<<child>> \o frames) = frames
  BY <1>3, <1>5, PushProperties
<1>. HIDE DEF child
<1>8. /\ p_child'[p] = Tail(p_child[p])
      /\ \A x \in Proc \ {p} : p_child'[x] = p_child[x]
      /\ p_parent'[child] = NULL
      /\ \A c \in Proc \ {child} : p_parent'[c] = p_parent[c]
  BY <1>2, <1>3, <1>4, <1>5
<1>. QED BY <1>3, <1>4, <1>5, <1>6, <1>7, <1>8 DEF child

LEMMA TreeInvRemoveChild == ASSUME TreeInv, LinksHold', remove_child PROVE TreeInv'
<1>. DEFINE p == Head(frames)
            child == Head(p_child[p])
<1>1. /\ LinkInv /\ TypeOK /\ pc = "children" /\ Killing /\ pc' = "remove"
      /\ Free' = Free
  BY DEF TreeInv, LinksHold, remove_child, Killing, Free
<1>2. /\ p \in Free /\ child \in Proc \ Free
      /\ p_parent[child] = p
      /\ Range(frames') = Range(frames) \cup {child}
      /\ Head(frames') = child /\ Tail(frames') = frames
      /\ Range(p_child[p]) = {child} \cup Range(p_child'[p])
      /\ NoDuplicates(p_child'[p]) /\ child \notin Range(p_child'[p])
      /\ \A x \in Proc \ {p} : p_child'[x] = p_child[x]
      /\ p_parent'[child] = NULL
      /\ \A c \in Proc \ {child} : p_parent'[c] = p_parent[c]
  BY RemoveChildOutcome
<1>3. /\ Range(frames) \subseteq Free /\ p \in Range(frames) /\ Free \subseteq Proc
      /\ p_parent \in [Proc -> Proc \cup {NULL}]
  BY <1>1, ActiveCalls, TreeTypes DEF TreeInv
<1>. HIDE DEF p, child
<1>4. \A x \in Proc : NoDuplicates(p_child'[x])
  BY <1>2 DEF TreeInv
<1>5. \A x \in Proc : Range(p_child'[x]) = Range(p_child[x]) \ {child}
  <2>1. \A x \in Proc \ {p} : child \notin Range(p_child[x])
    BY <1>2 DEF TreeInv
  <2>. QED BY <1>2, <2>1
<1>6. \A x, c \in Proc : c \in Range(p_child'[x]) => p_parent'[c] = x /\ c \notin Free
  BY <1>2, <1>5 DEF TreeInv
<1>7. \A x \in Free \ Range(frames') : p_child'[x] = <<>>
  <2>1. \A x \in Free \ Range(frames') : x \in Free \ Range(frames) /\ x \in Proc \ {p}
    BY <1>2, <1>3
  <2>. QED BY <1>2, <2>1 DEF TreeInv
<1>8. \A c \in Proc \ Free : p_parent'[c] # NULL =>
         /\ p_parent'[c] \notin Free \/ p_parent'[c] \in Range(frames')
         /\ c \in Range(p_child'[p_parent'[c]])
  <2>1. SUFFICES ASSUME NEW c \in Proc \ Free, p_parent'[c] # NULL
                 PROVE  /\ p_parent'[c] \notin Free \/ p_parent'[c] \in Range(frames')
                        /\ c \in Range(p_child'[p_parent'[c]])
    OBVIOUS
  <2>2. c # child /\ p_parent'[c] = p_parent[c] /\ p_parent[c] \in Proc
    BY <1>2, <1>3, <2>1
  <2>3. /\ p_parent[c] \notin Free \/ p_parent[c] \in Range(frames)
        /\ c \in Range(p_child[p_parent[c]])
    BY <1>1, <2>1, <2>2 DEF TreeInv, Entered
  <2>. QED BY <1>2, <1>5, <2>2, <2>3
<1>. QED BY <1>1, <1>2, <1>3, <1>4, <1>5, <1>6, <1>7, <1>8 DEF TreeInv

\* The returns: the innermost call has no children left.
LEMMA TreeInvReturns == ASSUME TreeInv, LinksHold', remove_return \/ terminate_return PROVE TreeInv'
<1>. DEFINE p == Head(frames)
<1>1. /\ LinkInv /\ TypeOK /\ pc = "children" /\ Killing /\ p_child[p] = <<>>
      /\ Free' = Free /\ UNCHANGED treeVars
  BY DEF TreeInv, LinksHold, remove_return, terminate_return, Killing, Free
<1>2. /\ Range(frames) \subseteq Free /\ p \in Proc /\ Range(<<>>) = {}
      /\ Range(frames) = {p} \cup Range(Tail(frames))
      /\ Len(frames) = 1 => Range(frames) = {p}
      /\ p_parent \in [Proc -> Proc \cup {NULL}] /\ Free \subseteq Proc
  BY <1>1, ActiveCalls, TreeTypes DEF TreeInv
<1>3. /\ Range(frames) \subseteq Range(frames') \cup {p} /\ Range(frames') \subseteq Range(frames)
      /\ pc' = "children" \/ (pc' = "user" /\ frames' = <<>>)
  BY <1>1, <1>2 DEF remove_return, terminate_return
<1>4. \A x \in Free \ Range(frames') : p_child[x] = <<>>
  BY <1>1, <1>3 DEF TreeInv
<1>5. \A c \in Proc \ Free : p_parent[c] # NULL =>
         /\ p_parent[c] \notin Free \/ p_parent[c] \in Range(frames')
         /\ c \in Range(p_child[p_parent[c]])
  <2>1. SUFFICES ASSUME NEW c \in Proc \ Free, p_parent[c] # NULL
                 PROVE  /\ p_parent[c] \notin Free \/ p_parent[c] \in Range(frames')
                        /\ c \in Range(p_child[p_parent[c]])
    OBVIOUS
  <2>2. /\ p_parent[c] \notin Free \/ p_parent[c] \in Range(frames)
        /\ c \in Range(p_child[p_parent[c]])
    BY <1>1, <2>1 DEF TreeInv, Entered
  <2>3. p_parent[c] # p
    BY <1>1, <1>2, <2>2
  <2>. QED BY <1>3, <2>2, <2>3
<1>6. \A x, c \in Proc : c \in Range(p_child[x]) => p_parent[c] = x /\ c \notin Free
  BY DEF TreeInv
<1>. HIDE DEF p
<1>. QED BY <1>1, <1>2, <1>3, <1>4, <1>5, <1>6 DEF TreeInv, treeVars, Killing

\* Every step that keeps the links preserves TreeInv.
LEMMA TreeInvNext == TreeInv /\ LinksHold' /\ [Next]_vars => TreeInv'
<1>. SUFFICES ASSUME TreeInv, LinksHold', [Next]_vars PROVE TreeInv'
  OBVIOUS
<1>1. ASSUME NEW k \in Sem, passeren(k) \/ verhogen(k) PROVE TreeInv'
  <2>1. /\ UNCHANGED <<pcbFree, treeVars, frames>> /\ pc = "user"
        /\ pc' = pc \/ ~Killing'
    BY <1>1 DEF passeren, verhogen, InSyscall, Killing
  <2>. QED BY <2>1, TreeInvUnchanged
<1>2. ASSUME launch \/ time_slice_callback \/ halted \/ UNCHANGED vars PROVE TreeInv'
  <2>1. /\ UNCHANGED <<pcbFree, treeVars, frames>>
        /\ pc' = pc \/ (pc \in {"init", "user"} /\ ~Killing')
    BY <1>2 DEF launch, time_slice_callback, halted, vars, Killing
  <2>. QED BY <2>1, TreeInvUnchanged
<1>. QED BY <1>1, <1>2, TreeInvInitProc, TreeInvCreate, TreeInvTerminate, TreeInvRemove,
         TreeInvRemoveChild, TreeInvReturns
     DEF Next, starting, semaphore_call, process_call, terminating

-----------------------------------------------------------------------------
(* The theorems about the tree. *)

\* The queues and the tree, without devices.
SchedulerInv == QueueInv /\ TreeInv

LEMMA SchedulerInvInit == Init => SchedulerInv
  BY QueueInvInit, TreeInvInit DEF SchedulerInv

LEMMA SchedulerInvNext == SchedulerInv /\ [Next]_vars => SchedulerInv'
<1>1. QueueInv' => LinksHold'
  BY DEF QueueInv, LinkInv, LinksHold
<1>. QED BY <1>1, QueueInvNext, TreeInvNext DEF SchedulerInv

\* TreeInv holds in every reachable state.
THEOREM TreeInvariant == Spec => []TreeInv
<1>1. SchedulerInv => TreeInv
  BY DEF SchedulerInv
<1>. QED BY <1>1, SchedulerInvInit, SchedulerInvNext, PTL DEF Spec

\* The tree is consistent between system calls, and during a kill but for the
\* subtree that is being removed.
THEOREM TreeStaysConsistent == Spec => []TreeConsistent
  BY TreeInvariant, TreeInvImplies, PTL

\* Where no process is lost and no device names the PCB, recursive_remove_proc
\* finds every PCB that is not free; a free one it meets only in the outermost
\* call.
LEMMA RemoveFinds ==
    ASSUME TreeInv, recursive_remove_proc, Lost = {}, dev_w_list[Head(frames)] = NULL
    PROVE  LET p == Head(frames)
           IN  /\ p \in Proc
               /\ \/ p \notin Free /\ pc' = "children"
                  \/ p \in Free /\ Len(frames) = 1 /\ pc' = "NotFound"
<1>. DEFINE p == Head(frames)
            k == p_semkey[p]
<1>1. /\ LinkInv /\ pc = "remove" /\ Killing
      /\ TypeOK /\ SemkeyNamesQueue
  BY DEF TreeInv, LinksHold, LinkInv, recursive_remove_proc, Killing
<1>2. /\ p \in Proc /\ k \in Key \cup {NULL} /\ dev_w_list[p] = NULL
      /\ Free \cap Ready = {} /\ Free \cup Ready \subseteq Unkeyed
      /\ Unkeyed \subseteq Free \cup Ready
  <2>1. Unkeyed \ (Free \cup Ready) = {}
    BY <1>1 DEF Lost
  <2>. QED BY <1>1, <2>1, FrameFacts DEF TypeOK
<1>3. p \notin Free \/ Len(frames) = 1
  <2>1. Len(frames) > 1 => p \notin Free
    BY <1>1 DEF TreeInv
  <2>2. frames \in Seq(Proc) /\ Len(frames) \in Nat \ {0}
    BY <1>1, ActiveCalls
  <2>3. \A n \in Nat \ {0} : n > 1 \/ n = 1
    OBVIOUS
  <2>. QED BY <2>1, <2>2, <2>3
<1>4. k # NULL => p \in Range(Waiters(k)) /\ p \notin Free
  <2>1. SUFFICES ASSUME k # NULL PROVE p \in Range(Waiters(k)) /\ p \notin Free
    OBVIOUS
  <2>2. k \in Key /\ p \in Queued(k)
    BY <1>1, <1>2, <2>1 DEF SemkeyNamesQueue
  <2>3. Waiters(k) = s_procQ[k]
    BY <1>1, <2>2, WaitersQueue
  <2>4. p \notin Unkeyed
    BY <2>1 DEF Unkeyed
  <2>. QED BY <1>2, <2>2, <2>3, <2>4 DEF Queued
<1>5. k = NULL => p \in Free \/ p \in Ready
  BY <1>2 DEF Unkeyed
<1>. HIDE DEF p
<1>6. CASE k # NULL
  <2>1. pc' = "children"
    BY <1>4, <1>6 DEF recursive_remove_proc, p
  <2>. QED BY <1>2, <1>4, <1>6, <2>1 DEF p
<1>7. CASE k = NULL /\ p \in Ready
  <2>1. pc' = "children"
    BY <1>2, <1>7 DEF recursive_remove_proc, p, Ready
  <2>. QED BY <1>2, <1>7, <2>1 DEF p
<1>8. CASE k = NULL /\ p \notin Ready
  <2>1. pc' = "NotFound"
    BY <1>2, <1>8 DEF recursive_remove_proc, p, Ready
  <2>2. p \in Free
    BY <1>5, <1>8
  <2>3. Len(frames) = 1
    BY <1>3, <2>2
  <2>. QED BY <1>2, <2>1, <2>2, <2>3 DEF p
<1>. QED BY <1>6, <1>7, <1>8

\* A process that is not free is in the list of its parent.
LEMMA BrokenIsFree ==
    ASSUME TreeInv, NEW p \in Proc, terminate_proc(p), pc' = "TreeBroken"
    PROVE  p \in Free
<1>. SUFFICES ASSUME p \notin Free PROVE FALSE
  OBVIOUS
<1>1. /\ p_parent[p] # NULL /\ p_child[p_parent[p]] = <<>> /\ pc = "user"
  BY DEF terminate_proc, InSyscall
<1>2. p \in Range(p_child[p_parent[p]])
  BY <1>1 DEF TreeInv, Entered
<1>. QED BY <1>1, <1>2 DEF Range

\* A kill panics only when it is given the address of a PCB that is free.
LEMMA KillStep ==
    ASSUME TreeInv, Lost = {}, pc = "remove" => dev_w_list[Head(frames)] = NULL
    PROVE  /\ \A p \in Proc : terminate_proc(p) /\ pc' = "TreeBroken" => p \in Free
           /\ recursive_remove_proc /\ pc' \in {"NotFound", "corrupt"}
                 => Len(frames) = 1 /\ Head(frames) \in Free
<1>1. recursive_remove_proc /\ pc' \in {"NotFound", "corrupt"}
         => Len(frames) = 1 /\ Head(frames) \in Free
  BY RemoveFinds DEF recursive_remove_proc
<1>. QED BY <1>1, BrokenIsFree

\* terminate_proc on a live process never panics, however its offspring is
\* spread over the CPU, the ready queue and the semaphores.
THEOREM LiveKillsSucceed == Spec => KillOfLiveSucceeds
<1>1. TreeInv /\ QueueInv /\ [Next]_vars =>
         [/\ \A p \in Proc : terminate_proc(p) /\ pc' = "TreeBroken" => p \in Free
          /\ recursive_remove_proc /\ pc' \in {"NotFound", "corrupt"}
                => Len(frames) = 1 /\ Head(frames) \in Free]_vars
  <2>1. TreeInv /\ QueueInv =>
           Lost = {} /\ (pc = "remove" => dev_w_list[Head(frames)] = NULL)
    BY FrameFacts DEF QueueInv, Killing
  <2>. QED BY <2>1, KillStep
<1>. QED BY <1>1, QueuesInvariant, TreeInvariant, PTL DEF Spec, KillOfLiveSucceeds

-----------------------------------------------------------------------------
(* The scheduler implements ProcessTree. *)

\* The least set that has the PCBs of a set and, with a PCB, its children.
Below(top, child) ==
    {q \in Proc : \A S \in SUBSET Proc :
        (top \subseteq S /\ \A x \in S : Range(child[x]) \subseteq S) => q \in S}

LEMMA BelowIsLeast ==
    ASSUME NEW top \in SUBSET Proc, NEW child, \A x \in Proc : Range(child[x]) \subseteq Proc
    PROVE  /\ top \subseteq Below(top, child) /\ Below(top, child) \subseteq Proc
           /\ \A x \in Below(top, child) : Range(child[x]) \subseteq Below(top, child)
           /\ \A S \in SUBSET Proc :
                 (top \subseteq S /\ \A x \in S : Range(child[x]) \subseteq S)
                    => Below(top, child) \subseteq S
<1>1. /\ top \subseteq Below(top, child) /\ Below(top, child) \subseteq Proc
      /\ \A S \in SUBSET Proc :
            (top \subseteq S /\ \A x \in S : Range(child[x]) \subseteq S)
               => Below(top, child) \subseteq S
  BY DEF Below
<1>2. ASSUME NEW x \in Below(top, child), NEW c \in Range(child[x])
      PROVE  c \in Below(top, child)
  <2>1. c \in Proc
    BY <1>1, <1>2
  <2>2. ASSUME NEW S \in SUBSET Proc, top \subseteq S, \A y \in S : Range(child[y]) \subseteq S
        PROVE  c \in S
    BY <1>1, <1>2, <2>2
  <2>. QED BY <2>1, <2>2 DEF Below
<1>. QED BY <1>1, <1>2

\* Doomed before and after a step.
LEMMA DoomedIsLeast ==
    ASSUME TypeOK
    PROVE  /\ Range(frames) \subseteq Doomed /\ Doomed \subseteq Proc
           /\ \A x \in Doomed : Range(p_child[x]) \subseteq Doomed
           /\ \A S \in SUBSET Proc :
                 (Range(frames) \subseteq S /\ \A x \in S : Range(p_child[x]) \subseteq S)
                    => Doomed \subseteq S
           /\ frames = <<>> => Doomed = {}
<1>0. /\ frames \in Seq(Proc) /\ \A x \in Proc : p_child[x] \in Seq(Proc)
      /\ Range(<<>>) = {}
  BY DEF TypeOK, Range
<1>1. Range(frames) \in SUBSET Proc /\ \A x \in Proc : Range(p_child[x]) \subseteq Proc
  BY <1>0, RangeOfSeq
<1>2. Doomed = Below(Range(frames), p_child)
  BY DEF Doomed, Below
<1>3. /\ Range(frames) \subseteq Doomed /\ Doomed \subseteq Proc
      /\ \A x \in Doomed : Range(p_child[x]) \subseteq Doomed
      /\ \A S \in SUBSET Proc :
            (Range(frames) \subseteq S /\ \A x \in S : Range(p_child[x]) \subseteq S)
               => Doomed \subseteq S
  BY <1>1, <1>2, BelowIsLeast, Zenon
<1>4. frames = <<>> => Doomed \subseteq {}
  BY <1>0, <1>3
<1>. QED BY <1>3, <1>4

LEMMA DoomedIsLeastNext ==
    ASSUME TypeOK'
    PROVE  /\ Range(frames') \subseteq Doomed' /\ Doomed' \subseteq Proc
           /\ \A x \in Doomed' : Range(p_child'[x]) \subseteq Doomed'
           /\ \A S \in SUBSET Proc :
                 (Range(frames') \subseteq S /\ \A x \in S : Range(p_child'[x]) \subseteq S)
                    => Doomed' \subseteq S
           /\ frames' = <<>> => Doomed' = {}
<1>1. /\ frames' \in Seq(Proc) /\ \A x \in Proc : p_child'[x] \in Seq(Proc)
      /\ Range(<<>>) = {}
  BY DEF TypeOK, Range
<1>2. Range(frames') \in SUBSET Proc /\ \A x \in Proc : Range(p_child'[x]) \subseteq Proc
  BY <1>1, RangeOfSeq
<1>3. Doomed' = Below(Range(frames'), p_child')
  BY DEF Doomed, Below
<1>4. /\ Range(frames') \subseteq Doomed' /\ Doomed' \subseteq Proc
      /\ \A x \in Doomed' : Range(p_child'[x]) \subseteq Doomed'
      /\ \A S \in SUBSET Proc :
            (Range(frames') \subseteq S /\ \A x \in S : Range(p_child'[x]) \subseteq S)
               => Doomed' \subseteq S
  BY <1>2, <1>3, BelowIsLeast, Zenon
<1>5. frames' = <<>> => Doomed' \subseteq {}
  BY <1>1, <1>4
<1>. QED BY <1>4, <1>5

\* TreeInv gives the types, before a step and after.
LEMMA TreeInvTypes == (TreeInv => TypeOK) /\ (TreeInv' => TypeOK')
  BY DEF TreeInv, LinksHold

\* A step that changes neither the live processes nor their parents.
LEMMA TreeStutters ==
    ASSUME liveProcs' = liveProcs, \A q \in liveProcs : p_parent'[q] = p_parent[q]
    PROVE  UNCHANGED Tree!vars
  BY DEF Tree!vars

\* init_proc starts a process without a parent.
LEMMA StartImplemented ==
    ASSUME TreeInv, TreeInv', NEW prio \in Priorities, init_proc(prio)
    PROVE  [Tree!Next]_(Tree!vars)
<1>1. LinkInv /\ TypeOK /\ pc = "init" /\ frames = <<>> /\ frames' = frames
  BY DEF TreeInv, LinksHold, init_proc
<1>2. Doomed = {} /\ Doomed' = {}
  BY <1>1, DoomedIsLeast, DoomedIsLeastNext, TreeInvTypes
<1>3. ASSUME NEW p \in Proc, allocPcb(p, prio),
             p_parent' = [p_parent EXCEPT ![p] = NULL]
      PROVE  Tree!Start(p)
  <2>1. p \in Free /\ Free' = Free \ {p} /\ prio \in Nat
    BY <1>1, <1>3, AllocPcb, PriorityAssumption
  <2>2. p_parent \in [Proc -> Proc \cup {NULL}] /\ Free \subseteq Proc
    BY <1>1, TreeTypes
  <2>3. p \notin liveProcs /\ liveProcs' = liveProcs \cup {p}
    BY <1>2, <2>1, <2>2 DEF liveProcs, Free
  <2>4. /\ p_parent'[p] = NULL
        /\ \A q \in liveProcs : p_parent'[q] = p_parent[q]
    BY <1>3, <2>2, <2>3 DEF liveProcs
  <2>. QED BY <2>3, <2>4 DEF Tree!Start
<1>4. CASE UNCHANGED <<pcbFree, treeVars>>
  <2>1. liveProcs' = liveProcs
    BY <1>2, <1>4 DEF liveProcs
  <2>. QED BY <1>4, <2>1, TreeStutters DEF treeVars
<1>. QED BY <1>3, <1>4 DEF init_proc, Tree!Next

\* create_process adds a child of the running process, or nothing.
LEMMA CreateImplemented ==
    ASSUME TreeInv, TreeInv', NEW prio \in Priorities, create_process(prio)
    PROVE  [Tree!Next]_(Tree!vars)
<1>1. LinkInv /\ TypeOK /\ pc = "user" /\ InSyscall /\ frames = <<>> /\ frames' = frames
  BY DEF TreeInv, LinksHold, create_process, InSyscall
<1>2. Doomed = {} /\ Doomed' = {}
  BY <1>1, DoomedIsLeast, DoomedIsLeastNext, TreeInvTypes
<1>3. ASSUME NEW p \in Proc, allocPcb(p, prio),
             p_parent' = [p_parent EXCEPT ![p] = running_proc]
      PROVE  running_proc \in Proc /\ Tree!Create(p, running_proc)
  <2>1. p \in Free /\ Free' = Free \ {p} /\ prio \in Nat
    BY <1>1, <1>3, AllocPcb, PriorityAssumption
  <2>2. p_parent \in [Proc -> Proc \cup {NULL}] /\ Free \subseteq Proc
    BY <1>1, TreeTypes
  <2>3. running_proc \in Proc /\ running_proc \notin Free
    BY <1>1, UserShare
  <2>4. /\ p \notin liveProcs /\ liveProcs' = liveProcs \cup {p}
        /\ running_proc \in liveProcs
    BY <1>2, <2>1, <2>2, <2>3 DEF liveProcs, Free
  <2>5. /\ p_parent'[p] = running_proc
        /\ \A q \in liveProcs : p_parent'[q] = p_parent[q]
    BY <1>3, <2>2, <2>4 DEF liveProcs
  <2>. QED BY <1>3, <2>3, <2>4, <2>5 DEF Tree!Create
<1>4. CASE UNCHANGED <<pcbFree, treeVars>>
  <2>1. liveProcs' = liveProcs
    BY <1>2, <1>4 DEF liveProcs
  <2>. QED BY <1>4, <2>1, TreeStutters DEF treeVars
<1>5. ASSUME NEW p \in Proc, allocPcb(p, prio),
             p_parent' = [p_parent EXCEPT ![p] = running_proc]
      PROVE  Tree!Next
  <2>1. running_proc \in Proc /\ Tree!Create(p, running_proc)
    BY <1>3, <1>5
  <2>2. \E q, creator \in Proc : Tree!Create(q, creator)
    BY <2>1 DEF Tree!Create
  <2>. QED BY <2>2 DEF Tree!Next
<1>. QED BY <1>4, <1>5 DEF create_process

\* What the kill of a live process will remove is its offspring.
LEMMA DoomedIsOffspring ==
    ASSUME TreeInv, TreeInv', pc = "user", NEW p \in Proc \ Free, frames' = <<p>>,
           IF p_parent[p] = NULL THEN UNCHANGED treeVars ELSE outChild(p)
    PROVE  Doomed' = Tree!Offspring(p)
<1>1. /\ LinkInv /\ TypeOK /\ frames = <<>> /\ Doomed = {} /\ liveProcs = Proc \ Free
      /\ Free \subseteq Proc /\ NULL \notin Proc
  BY DoomedIsLeast, TreeInvTypes, TreeTypes, ProcFacts DEF TreeInv, LinksHold, liveProcs, Free
<1>2. /\ p_child \in [Proc -> Seq(Proc)] /\ p_parent \in [Proc -> Proc \cup {NULL}]
      /\ \A x \in Proc : Range(p_child[x]) \subseteq Proc
  BY <1>1, TreeTypes
<1>3. \A x \in Proc : Range(p_child'[x]) = Range(p_child[x]) \ {p}
  BY OutChild
<1>4. Range(frames') = {p}
  BY DEF Range
<1>. DEFINE offspring == Tree!Offspring(p)
<1>5. /\ p \in offspring /\ offspring \subseteq liveProcs
      /\ \A x \in offspring : Range(p_child'[x]) \subseteq offspring
  <2>1. p \in offspring /\ offspring \subseteq liveProcs
    BY <1>1 DEF Tree!Offspring
  <2>2. ASSUME NEW x \in offspring, NEW c \in Range(p_child'[x])
        PROVE  c \in offspring
    <3>1. x \in Proc /\ c \in Range(p_child[x]) /\ c \in Proc
      BY <1>1, <1>2, <1>3, <2>1, <2>2
    <3>2. c \in liveProcs /\ p_parent[c] = x
      BY <1>1, <3>1 DEF TreeInv
    <3>. QED BY <2>2, <3>2, <1>1 DEF Tree!Offspring
  <2>. QED BY <2>1, <2>2
<1>6. /\ p \in Doomed' /\ Doomed' \subseteq Proc
      /\ \A x \in Doomed' : Range(p_child'[x]) \subseteq Doomed'
  BY <1>4, DoomedIsLeastNext, TreeInvTypes
<1>7. Doomed' \subseteq offspring
  <2>1. offspring \in SUBSET Proc /\ Range(frames') \subseteq offspring
    BY <1>1, <1>4, <1>5
  <2>. HIDE DEF offspring
  <2>. QED BY <1>5, <2>1, DoomedIsLeastNext, TreeInvTypes
<1>8. offspring \subseteq Doomed'
  <2>1. ASSUME NEW c \in liveProcs, p_parent[c] \in Doomed' PROVE c \in Doomed'
    <3>1. c \in Range(p_child[p_parent[c]]) /\ p_parent[c] \in Proc
      BY <1>1, <1>6, <2>1 DEF TreeInv, Entered
    <3>. QED BY <1>3, <1>6, <2>1, <3>1
  <2>2. Doomed' \in SUBSET liveProcs
    BY <1>5, <1>7
  <2>. QED BY <1>1, <1>6, <2>1, <2>2 DEF Tree!Offspring
<1>. QED BY <1>7, <1>8

\* terminate_proc of a live process removes it and its offspring at once; with
\* the address of a free PCB it changes nothing.
LEMMA TerminateImplemented ==
    ASSUME TreeInv, TreeInv', NEW p \in Proc, terminate_proc(p)
    PROVE  [Tree!Next]_(Tree!vars)
<1>1. /\ LinkInv /\ TypeOK /\ pc = "user" /\ frames = <<>>
      /\ pcbFree' = pcbFree /\ Free' = Free /\ Doomed = {}
  BY DoomedIsLeast, TreeInvTypes DEF TreeInv, LinksHold, terminate_proc, InSyscall, Free
<1>2. CASE UNCHANGED <<treeVars, frames>>
  <2>1. Doomed' = {}
    BY <1>1, <1>2, DoomedIsLeastNext, TreeInvTypes
  <2>2. liveProcs' = liveProcs
    BY <1>1, <2>1 DEF liveProcs
  <2>. QED BY <1>2, <2>2, TreeStutters DEF treeVars
<1>3. ASSUME IF p_parent[p] = NULL THEN UNCHANGED treeVars ELSE outChild(p),
             frames' = <<p>>
      PROVE  [Tree!Next]_(Tree!vars)
  <2>1. /\ \A x \in Proc : /\ Range(p_child'[x]) = Range(p_child[x]) \ {p}
                           /\ p_child[x] = <<>> => p_child'[x] = <<>>
        /\ \A c \in Proc \ {p} : p_parent'[c] = p_parent[c]
    BY <1>3, OutChild
  <2>2. liveProcs = Proc \ Free /\ liveProcs' = Proc \ (Free \cup Doomed')
    BY <1>1 DEF liveProcs, Free
  <2>3. Range(frames') = {p} /\ Range(<<>>) = {}
    BY <1>3 DEF Range
  <2>4. CASE p \in Free
    <3>1. p_child[p] = <<>>
      BY <1>1, <2>3, <2>4 DEF TreeInv
    <3>2. \A x \in {p} : Range(p_child'[x]) \subseteq {p}
      BY <2>1, <2>3, <3>1
    <3>3. Doomed' \subseteq {p}
      BY <2>3, <3>2, DoomedIsLeastNext, TreeInvTypes
    <3>4. liveProcs' = liveProcs
      BY <2>2, <2>4, <3>3
    <3>. QED BY <2>1, <2>2, <2>4, <3>4, TreeStutters
  <2>5. CASE p \notin Free
    <3>. DEFINE offspring == Tree!Offspring(p)
    <3>1. Doomed' = offspring
      BY <1>1, <1>3, <2>5, DoomedIsOffspring
    <3>2. p \in Doomed'
      BY <2>3, DoomedIsLeastNext, TreeInvTypes
    <3>3. p \in liveProcs
      BY <2>2, <2>5
    <3>. HIDE DEF offspring
    <3>4. liveProcs' = liveProcs \ offspring
      BY <2>2, <3>1
    <3>5. \A q \in Proc : (IF q \in liveProcs' THEN p_parent'[q] ELSE NULL) =
             IF q \in offspring THEN NULL ELSE IF q \in liveProcs THEN p_parent[q] ELSE NULL
      BY <2>1, <2>2, <3>1, <3>2, <3>4
    <3>6. Tree!Terminate(p)
      BY <3>3, <3>4, <3>5 DEF Tree!Terminate, offspring
    <3>. QED BY <3>6 DEF Tree!Next
  <2>. QED BY <2>4, <2>5
<1>. QED BY <1>2, <1>3 DEF terminate_proc

\* The steps of the removal itself are invisible: what they free or unlink was
\* doomed before, and stays so until it is free.
LEMMA RemovalInvisible ==
    ASSUME TreeInv, TreeInv', terminating
    PROVE  UNCHANGED Tree!vars
<1>1. LinkInv /\ TypeOK /\ Killing
  BY DEF TreeInv, LinksHold, terminating, recursive_remove_proc, remove_child, remove_return,
         terminate_return, Killing
<1>2. /\ Head(frames) \in Proc /\ Head(frames) \in Range(frames)
      /\ \A x \in Proc : Range(p_child[x]) \subseteq Proc
      /\ Range(frames) = {Head(frames)} \cup Range(Tail(frames))
      /\ Len(frames) = 1 => Range(frames) = {Head(frames)}
      /\ Range(<<>>) = {}
  BY <1>1, ActiveCalls, TreeTypes
<1>3. /\ Range(frames) \subseteq Doomed /\ Doomed \subseteq Proc
      /\ \A x \in Doomed : Range(p_child[x]) \subseteq Doomed
  BY DoomedIsLeast, TreeInvTypes
<1>4. /\ Range(frames') \subseteq Doomed' /\ Doomed' \subseteq Proc
      /\ \A x \in Doomed' : Range(p_child'[x]) \subseteq Doomed'
  BY DoomedIsLeastNext, TreeInvTypes
<1>5. CASE recursive_remove_proc
  <2>1. UNCHANGED <<treeVars, frames>>
    BY <1>5 DEF recursive_remove_proc
  <2>2. Doomed' = Doomed
    BY <2>1 DEF Doomed, treeVars
  <2>3. Free' = Free \/ Free' = Free \cup {Head(frames)}
    BY <1>5, RemoveOutcome
  <2>4. liveProcs' = liveProcs
    BY <1>2, <1>3, <2>2, <2>3 DEF liveProcs, Free
  <2>. QED BY <2>1, <2>4, TreeStutters DEF treeVars
<1>6. CASE remove_child
  <2>. DEFINE p == Head(frames)
              child == Head(p_child[p])
  <2>1. /\ child \in Proc
        /\ Range(frames') = Range(frames) \cup {child}
        /\ Range(p_child[p]) = {child} \cup Range(p_child'[p])
        /\ \A x \in Proc \ {p} : p_child'[x] = p_child[x]
        /\ \A c \in Proc \ {child} : p_parent'[c] = p_parent[c]
    BY <1>6, RemoveChildOutcome
  <2>. HIDE DEF p, child
  <2>2. p \in Range(frames)
    BY <1>2 DEF p
  <2>3. Doomed' \subseteq Doomed
    <3>1. child \in Doomed
      BY <1>3, <2>1, <2>2
    <3>2. \A x \in Doomed : Range(p_child'[x]) \subseteq Doomed
      BY <1>3, <2>1
    <3>. QED BY <1>3, <2>1, <3>1, <3>2, DoomedIsLeastNext, TreeInvTypes
  <2>4. Doomed \subseteq Doomed'
    <3>1. \A x \in Doomed' : Range(p_child[x]) \subseteq Doomed'
      BY <1>4, <2>1
    <3>. QED BY <1>4, <2>1, <3>1, DoomedIsLeast, TreeInvTypes
  <2>5. liveProcs' = liveProcs
    BY <1>6, <2>3, <2>4 DEF liveProcs, remove_child
  <2>6. child \notin liveProcs /\ liveProcs \subseteq Proc
    BY <1>4, <2>1, <2>3 DEF liveProcs
  <2>. QED BY <2>1, <2>5, <2>6, TreeStutters
<1>7. CASE remove_return \/ terminate_return
  <2>. DEFINE p == Head(frames)
  <2>1. /\ p_child[p] = <<>> /\ UNCHANGED treeVars /\ pcbFree' = pcbFree
        /\ pc = "children"
    BY <1>7 DEF remove_return, terminate_return
  <2>2. p \in Free
    BY <1>2, <2>1 DEF TreeInv
  <2>3. /\ Range(frames') \subseteq Range(frames)
        /\ Range(frames) \subseteq Range(frames') \cup {p}
    BY <1>2, <1>7 DEF remove_return, terminate_return
  <2>4. p_child' = p_child /\ p_parent' = p_parent
    BY <2>1 DEF treeVars
  <2>. HIDE DEF p
  <2>5. Doomed' \subseteq Doomed
    BY <1>3, <2>3, <2>4, DoomedIsLeastNext, TreeInvTypes
  <2>6. Doomed \subseteq Doomed' \cup {p}
    <3>1. \A x \in Doomed' \cup {p} : Range(p_child[x]) \subseteq Doomed' \cup {p}
      BY <1>2, <1>4, <2>1, <2>4
    <3>2. Doomed' \cup {p} \in SUBSET Proc
      BY <1>2, <1>4 DEF p
    <3>. QED BY <1>4, <2>3, <3>1, <3>2, DoomedIsLeast, TreeInvTypes
  <2>7. liveProcs' = liveProcs
    BY <2>1, <2>2, <2>5, <2>6 DEF liveProcs, Free
  <2>. QED BY <2>4, <2>7, TreeStutters
<1>. QED BY <1>5, <1>6, <1>7 DEF terminating

\* What leaves these variables alone leaves the tree alone.
LEMMA TreeKept ==
    ASSUME UNCHANGED <<pcbFree, treeVars, frames>>
    PROVE  UNCHANGED Tree!vars
<1>1. liveProcs' = liveProcs /\ p_parent' = p_parent
  BY DEF liveProcs, Doomed, treeVars
<1>. QED BY <1>1, TreeStutters

\* Every step of the scheduler is a step of the process tree or a stutter.
LEMMA TreeStep ==
    ASSUME TreeInv, TreeInv', [Next]_vars
    PROVE  [Tree!Next]_(Tree!vars)
<1>1. ASSUME semaphore_call \/ launch \/ time_slice_callback \/ halted \/ UNCHANGED vars
      PROVE  UNCHANGED Tree!vars
  <2>1. UNCHANGED <<pcbFree, treeVars, frames>>
    BY <1>1 DEF semaphore_call, passeren, verhogen, launch, time_slice_callback, halted, vars
  <2>. QED BY <2>1, TreeKept
<1>2. ASSUME \/ \E prio \in Priorities : init_proc(prio) \/ create_process(prio)
             \/ \E p \in Proc : terminate_proc(p)
      PROVE  [Tree!Next]_(Tree!vars)
  BY <1>2, StartImplemented, CreateImplemented, TerminateImplemented
<1>. QED BY <1>1, <1>2, RemovalInvisible DEF Next, starting, process_call

\* At the start no process is live.
LEMMA TreeStart == ASSUME Init PROVE Tree!Init
<1>1. TreeInv /\ frames = <<>> /\ Free = Proc
  <2>1. pcbFree = [i \in 1 .. MAXPROC |-> i - 1] /\ frames = <<>>
    BY DEF Init
  <2>2. \A p \in Proc : p + 1 \in 1 .. MAXPROC /\ (p + 1) - 1 = p
    BY MaxProcAssumption DEF Proc
  <2>3. Proc \subseteq Free
    BY <2>1, <2>2 DEF Range, Free
  <2>4. TreeInv
    BY TreeInvInit
  <2>. QED BY <2>1, <2>3, <2>4, TreeTypes DEF TreeInv, LinksHold
<1>2. liveProcs = {}
  BY <1>1, DoomedIsLeast, TreeInvTypes DEF liveProcs, Free
<1>. QED BY <1>2 DEF Tree!Init

\* The scheduler implements the process tree: for any number of processes a
\* kill, however its offspring is queued, removes exactly the offspring, at
\* once as seen by the processes, and a created process is a child of its
\* creator (scheduler.h:88).
THEOREM TreeImplemented == Spec => ImplementsProcessTree
<1>1. Init => Tree!Init
  BY TreeStart
<1>2. TreeInv /\ TreeInv' /\ [Next]_vars => [Tree!Next]_(Tree!vars)
  BY TreeStep
<1>. QED BY <1>1, <1>2, TreeInvariant, PTL DEF Spec, ImplementsProcessTree, Tree!Spec
=============================================================================
