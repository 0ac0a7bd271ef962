--------------------------- MODULE Handler_proofs ---------------------------
(***************************************************************************)
(* Proofs about module Handler: the process layer under the handlers,      *)
(* where the state of each process is kept, the interval timer, and the    *)
(* times that the processes are charged for.                               *)
(***************************************************************************)
EXTENDS Handler, Scheduler_proofs

Exceptions == {SYS, INT} \cup Traps

\* Which process is not in its p_s, and where its position is instead.
Here     == IF at = "process" THEN running_proc ELSE interrupted_proc
Position == IF at = "process" THEN cpu ELSE old_area
Placed   == \A p \in Proc \ Free : executed[p] = IF p = Here THEN Position ELSE p_s[p]

PlaceInv ==
    /\ QueueInv
    /\ p_s \in [Pcb -> Nat] /\ executed \in [Pcb -> Nat]
    /\ cpu \in Nat /\ old_area \in Nat
    /\ at \in {"process", "conclude", "panic"} \cup Exceptions
    /\ pc = "init" => at = "process"
    /\ Killing => at = "conclude"
    /\ at \in Exceptions => pc = "user" /\ interrupted_proc = running_proc
    /\ at # "panic" /\ pc \notin Panics => Placed

LEMMA ExceptionFacts ==
    /\ {SYS, INT} \cup Traps = Exceptions
    /\ Exceptions \subseteq {"SYS", "INT", "TLB", "PRG"}
    /\ "process" \notin Exceptions /\ "conclude" \notin Exceptions /\ "panic" \notin Exceptions
<1>1. Exceptions \subseteq {"SYS", "INT", "TLB", "PRG"}
  BY DEF Exceptions, Traps, area_type, SYS, INT, TLB, PRG
<1>. QED BY <1>1 DEF Exceptions

LEMMA PlaceInvInit == HandlerInit => PlaceInv
<1>. SUFFICES ASSUME HandlerInit PROVE PlaceInv
  OBVIOUS
<1>1. QueueInv /\ pc = "init"
  BY QueueInvInit DEF HandlerInit, Init
<1>2. running_proc = NULL
  BY DEF HandlerInit, Init
<1>3. Placed
  BY <1>2, ProcFacts DEF HandlerInit, Placed, Here
<1>. QED BY <1>1, <1>3, ExceptionFacts DEF HandlerInit, PlaceInv, Killing

-----------------------------------------------------------------------------
(* The process layer.                                                      *)

\* The handlers add nothing to the process layer: each of their steps is one
\* of Scheduler, or none.  A handler that kills its caller kills the running
\* process.
LEMMA HandlerSteps == ASSUME PlaceInv, [HandlerNext]_allVars PROVE [Next]_vars
<1>0. /\ InSyscall => running_proc \in Proc
      /\ at \in Exceptions => interrupted_proc = running_proc
      /\ SYS \in Exceptions /\ Traps \subseteq Exceptions
  BY UserShare DEF PlaceInv, QueueInv, InSyscall, Exceptions
<1>1. ASSUME boot \/ launch_timed PROVE Next
  BY <1>1 DEF boot, launch_timed, Next, starting
<1>2. ASSUME NEW p, p \in Proc \/ p = running_proc, terminate_timed(p) PROVE Next
  <2>1. terminate_proc(p) /\ InSyscall
    BY <1>2 DEF terminate_timed, terminate_proc
  <2>. QED BY <1>0, <1>2, <2>1 DEF Next, process_call
<1>3. ASSUME NEW k \in Sem, passeren_timed(k) \/ verhogen_timed(k) PROVE Next
  BY <1>3 DEF passeren_timed, verhogen_timed, Next, semaphore_call
<1>4. ASSUME create_process_timed \/ terminating_timed \/ handle_interrupt PROVE [Next]_vars
  BY <1>4 DEF create_process_timed, terminating_timed, handle_interrupt, Next, process_call
<1>5. ASSUME \/ tick \/ query \/ unrecognised \/ conclude_handler \/ halted_timed
             \/ \E exc \in {SYS, INT} \cup Traps : start_handler(exc)
      PROVE  UNCHANGED vars
  BY <1>5 DEF tick, query, unrecognised, conclude_handler, halted_timed, halted, start_handler
<1>6. ASSUME \/ \E code \in Codes : specpassup(code)
             \/ pass_up_syscall \/ pass_up_breakpoint
             \/ \E exc \in Traps : pass_up_trap(exc)
      PROVE  [Next]_vars
  <2>1. \/ UNCHANGED vars
        \/ terminate_timed(running_proc)
    BY <1>0, <1>6 DEF specpassup, pass_up_syscall, pass_up_breakpoint, pass_up_trap,
                      launch_spec_area, unrecognised
  <2>. QED BY <1>2, <2>1
<1>. QED BY <1>1, <1>2, <1>3, <1>4, <1>5, <1>6 DEF HandlerNext, system_call, allVars

-----------------------------------------------------------------------------
(* Where the states are.                                                   *)

\* A process that is not allocated in this step keeps its place.
LEMMA KeepPlaced ==
    ASSUME Placed, Free \subseteq Free', Here' = Here, Position' = Position,
           UNCHANGED <<executed, p_s>>
    PROVE  Placed'
BY DEF Placed

\* Only allocPcb takes a PCB off the free list.
LEMMA FreeOnlyGrows ==
    ASSUME LinkInv,
           \/ \E k \in Sem : passeren(k) \/ verhogen(k)
           \/ \E p : terminate_proc(p)
           \/ time_slice_callback \/ terminating \/ launch \/ UNCHANGED vars
    PROVE  Free \subseteq Free'
<1>1. pcbFree \in Seq(Proc)
  BY DEF LinkInv, TypeOK
<1>2. ASSUME recursive_remove_proc PROVE Free \subseteq Free'
  <2>1. Head(frames) \in Proc
    BY <1>2, FrameFacts DEF recursive_remove_proc, Killing
  <2>2. Free \subseteq Range(<<Head(frames)>> \o pcbFree)
    BY <1>1, <2>1, PushProperties DEF Free
  <2>3. pcbFree' = pcbFree \/ pcbFree' = <<Head(frames)>> \o pcbFree
    BY <1>2 DEF recursive_remove_proc, freePcb
  <2>. QED BY <2>2, <2>3 DEF Free
<1>3. recursive_remove_proc \/ pcbFree' = pcbFree
  BY DEF passeren, verhogen, terminate_proc, time_slice_callback, terminating, remove_child,
         remove_return, terminate_return, launch, vars
<1>. QED BY <1>2, <1>3 DEF Free

\* A PCB that is allocated starts at the beginning.
LEMMA AllocPlaced ==
    ASSUME PlaceInv, Placed, reset_pcb, UNCHANGED <<Here, Position>>,
           NEW p, NEW prio \in Nat, allocPcb(p, prio), p # Here
    PROVE  Placed'
<1>1. p \in Proc /\ p \in Free /\ Free' = Free \ {p} /\ p = Head(pcbFree) /\ pcbFree # <<>>
  BY AllocPcb DEF PlaceInv, QueueInv, allocPcb
<1>2. /\ p_s' = [p_s EXCEPT ![p] = 0] /\ executed' = [executed EXCEPT ![p] = 0]
  BY <1>1 DEF reset_pcb
<1>3. p_s \in [Pcb -> Nat] /\ executed \in [Pcb -> Nat] /\ Proc \subseteq Pcb
  BY ProcFacts DEF PlaceInv
<1>4. /\ p_s'[p] = 0 /\ executed'[p] = 0
      /\ \A q \in Proc \ {p} : p_s'[q] = p_s[q] /\ executed'[q] = executed[q]
  BY <1>1, <1>2, <1>3
<1>. QED BY <1>1, <1>4 DEF Placed

\* The histories and the saved states keep their types.
LEMMA PlaceTypes ==
    ASSUME PlaceInv, [HandlerNext]_allVars
    PROVE  /\ p_s' \in [Pcb -> Nat] /\ executed' \in [Pcb -> Nat]
           /\ cpu' \in Nat /\ old_area' \in Nat
<1>1. /\ p_s \in [Pcb -> Nat] /\ executed \in [Pcb -> Nat] /\ cpu \in Nat /\ old_area \in Nat
      /\ Proc \subseteq Pcb /\ pcbFree \in Seq(Proc)
      /\ running_proc' \in Pcb \cup {NULL}
  <2>1. LinkInv'
    BY HandlerSteps, QueueInvNext DEF PlaceInv, QueueInv
  <2>. QED BY <2>1, ProcFacts DEF PlaceInv, QueueInv, LinkInv, TypeOK
<1>2. pcbFree # <<>> => Head(pcbFree) \in Pcb
  BY <1>1, HeadTailProperties
<1>3. ASSUME reset_pcb, UNCHANGED <<cpu, old_area>>
      PROVE  /\ p_s' \in [Pcb -> Nat] /\ executed' \in [Pcb -> Nat]
             /\ cpu' \in Nat /\ old_area' \in Nat
  BY <1>1, <1>2, <1>3 DEF reset_pcb
<1>4. CASE boot \/ create_process_timed
  BY <1>3, <1>4 DEF boot, create_process_timed
<1>5. CASE launch_timed
  <2>1. UNCHANGED <<p_s, executed, old_area>>
    BY <1>5 DEF launch_timed
  <2>2. pc' = "user" => running_proc' \in Pcb
    BY <1>1, HandlerSteps, QueueInvNext DEF PlaceInv, QueueInv, LinkInv, TypeOK
  <2>3. cpu' \in Nat
    BY <1>1, <1>5, <2>2 DEF launch_timed
  <2>. QED BY <1>1, <2>1, <2>3
<1>6. CASE tick
  <2>1. pc = "user" /\ running_proc \in Pcb
    BY <1>6, UserShare DEF tick, PlaceInv, QueueInv
  <2>2. UNCHANGED <<p_s, old_area>>
    BY <1>6 DEF tick
  <2>3. \/ UNCHANGED <<executed, cpu>>
        \/ executed' = [executed EXCEPT ![running_proc] = @ + 1] /\ cpu' = cpu + 1
    BY <1>6 DEF tick
  <2>. QED BY <1>1, <2>1, <2>2, <2>3
<1>7. ASSUME NEW exc, start_handler(exc) PROVE UNCHANGED <<p_s, executed, cpu>> /\ old_area' = cpu
  BY <1>7 DEF start_handler, historyVars
<1>8. CASE conclude_handler
  <2>1. pc = "user" /\ running_proc \in Pcb
    BY <1>8, UserShare DEF conclude_handler, PlaceInv, QueueInv
  <2>. QED BY <1>1, <1>8, <2>1 DEF conclude_handler, save_interrupted
<1>9. ASSUME NEW exc, launch_spec_area(exc)
      PROVE  UNCHANGED <<p_s, executed, old_area>> /\ cpu' = old_area
  BY <1>9 DEF launch_spec_area, historyVars
<1>10. ASSUME NEW p, terminate_timed(p) PROVE UNCHANGED <<p_s, executed, old_area, cpu>>
  BY <1>10 DEF terminate_timed, stateVars, historyVars
<1>11. ASSUME \/ handle_interrupt \/ query \/ unrecognised \/ terminating_timed \/ halted_timed
              \/ \E k \in Sem : passeren_timed(k) \/ verhogen_timed(k)
              \/ UNCHANGED allVars
       PROVE  UNCHANGED <<p_s, executed, old_area, cpu>>
  BY <1>11 DEF handle_interrupt, query, unrecognised, terminating_timed, halted_timed,
               passeren_timed, verhogen_timed, stateVars, historyVars, handlerVars, allVars
<1>12. ASSUME \/ \E code \in Codes : specpassup(code)
              \/ pass_up_syscall \/ pass_up_breakpoint
              \/ \E exc \in Traps : pass_up_trap(exc)
       PROVE  \/ UNCHANGED <<p_s, executed, old_area, cpu>>
              \/ UNCHANGED <<p_s, executed, old_area>> /\ cpu' = old_area
  BY <1>9, <1>10, <1>11, <1>12 DEF specpassup, pass_up_syscall, pass_up_breakpoint, pass_up_trap,
                            stateVars, historyVars
<1>. QED BY <1>1, <1>4, <1>5, <1>6, <1>7, <1>8, <1>10, <1>11, <1>12 DEF HandlerNext, system_call

\* The steps that leave every process in its place.
LEMMA StayPlaced ==
    ASSUME PlaceInv, Placed, HandlerNext, ~boot, ~launch_timed, ~tick, ~create_process_timed,
           ~conclude_handler, at' # "panic"
    PROVE  Placed'
<1>1. LinkInv /\ (at \in Exceptions => interrupted_proc = running_proc)
  BY DEF PlaceInv, QueueInv
<1>2. /\ SYS \in Exceptions /\ INT \in Exceptions /\ Traps \subseteq Exceptions
      /\ "process" \notin Exceptions /\ "conclude" \notin Exceptions
  BY ExceptionFacts
<1>3. ASSUME NEW exc \in {SYS, INT} \cup Traps, start_handler(exc) PROVE Placed'
  <2>1. /\ at = "process" /\ at' = exc /\ at' # "process"
        /\ interrupted_proc' = running_proc /\ old_area' = cpu
        /\ UNCHANGED <<vars, executed, p_s>>
    BY <1>2, <1>3 DEF start_handler, historyVars
  <2>2. Here' = Here /\ Position' = Position
    BY <2>1 DEF Here, Position
  <2>. QED BY <1>1, <2>1, <2>2, FreeOnlyGrows, KeepPlaced
<1>4. ASSUME NEW exc \in Exceptions, at = exc, launch_spec_area(exc) PROVE Placed'
  <2>1. /\ at' = "process" /\ cpu' = old_area
        /\ UNCHANGED <<vars, executed, p_s>>
    BY <1>4 DEF launch_spec_area, historyVars
  <2>2. Here' = Here /\ Position' = Position
    BY <1>1, <1>2, <1>4, <2>1 DEF Here, Position, vars
  <2>. QED BY <1>1, <2>1, <2>2, FreeOnlyGrows, KeepPlaced
<1>5. ASSUME at \in Exceptions, at' = "conclude",
             UNCHANGED <<interrupted_proc, executed, p_s, old_area>>,
             Free \subseteq Free'
      PROVE  Placed'
  <2>1. Here' = Here /\ Position' = Position
    BY <1>1, <1>2, <1>5 DEF Here, Position
  <2>. QED BY <1>5, <2>1, KeepPlaced
<1>6. ASSUME NEW p, terminate_timed(p), at \in Exceptions PROVE Placed'
  <2>1. /\ at' = "conclude" /\ UNCHANGED <<interrupted_proc, executed, p_s, old_area>>
        /\ terminate_proc(p)
    BY <1>6 DEF terminate_timed, stateVars, historyVars
  <2>. QED BY <1>1, <1>5, <1>6, <2>1, FreeOnlyGrows
<1>7. CASE query \/ handle_interrupt \/ \E k \in Sem : passeren_timed(k) \/ verhogen_timed(k)
  <2>1. /\ at' = "conclude" /\ UNCHANGED <<interrupted_proc, executed, p_s, old_area>>
        /\ at \in Exceptions
    BY <1>2, <1>7 DEF query, handle_interrupt, passeren_timed, verhogen_timed,
                      stateVars, historyVars
  <2>2. \/ UNCHANGED vars \/ time_slice_callback
        \/ \E k \in Sem : passeren(k) \/ verhogen(k)
    BY <1>7 DEF query, handle_interrupt, passeren_timed, verhogen_timed
  <2>3. Free \subseteq Free'
    BY <1>1, <2>2, FreeOnlyGrows
  <2>. QED BY <1>5, <2>1, <2>3
<1>8. ASSUME NEW code \in Codes, specpassup(code) PROVE Placed'
  <2>1. CASE terminate_timed(running_proc)
    BY <1>2, <1>6, <1>8, <2>1 DEF specpassup
  <2>2. CASE /\ at' = "conclude" /\ UNCHANGED <<interrupted_proc, executed, p_s, old_area>>
             /\ UNCHANGED vars /\ at = SYS
    <3>1. Free \subseteq Free'
      BY <1>1, <2>2, FreeOnlyGrows
    <3>. QED BY <1>2, <1>5, <2>2, <3>1
  <2>. QED BY <1>8, <2>1, <2>2 DEF specpassup, stateVars, historyVars
<1>9. CASE pass_up_syscall \/ pass_up_breakpoint \/ \E exc \in Traps : pass_up_trap(exc)
  <2>1. ~unrecognised
    BY DEF unrecognised
  <2>2. \E exc \in Exceptions : at = exc /\ (launch_spec_area(exc) \/ \E p : terminate_timed(p))
    BY <1>2, <1>9, <2>1 DEF pass_up_syscall, pass_up_breakpoint, pass_up_trap
  <2>. QED BY <1>4, <1>6, <2>2
<1>10. CASE terminating_timed
  <2>1. terminating /\ UNCHANGED <<Here, Position, executed, p_s>>
    <3>1. running_proc' = running_proc \/ at # "process"
      <4>1. Killing
        BY <1>10 DEF terminating_timed, terminating, recursive_remove_proc, remove_child,
                     remove_return, terminate_return, Killing
      <4>. QED BY <4>1 DEF PlaceInv
    <3>. QED BY <1>10, <3>1 DEF terminating_timed, Here, Position, handlerVars,
                                stateVars, historyVars
  <2>. QED BY <1>1, <2>1, FreeOnlyGrows, KeepPlaced
<1>11. CASE halted_timed
  <2>1. UNCHANGED <<vars, Here, Position, executed, p_s>>
    BY <1>11 DEF halted_timed, halted, Here, Position, handlerVars, stateVars, historyVars, vars
  <2>. QED BY <1>1, <2>1, FreeOnlyGrows, KeepPlaced
<1>12. CASE \E p \in Proc : at = SYS /\ terminate_timed(p)
  BY <1>2, <1>6, <1>12
<1>13. ~unrecognised
  BY DEF unrecognised
<1>. QED BY <1>3, <1>7, <1>8, <1>9, <1>10, <1>11, <1>12, <1>13 DEF HandlerNext, system_call

\* The steps in which a process is allocated, runs, or is exchanged with its
\* saved state.
LEMMA MovePlaced ==
    ASSUME PlaceInv, Placed, QueueInv', pc' \notin Panics,
           boot \/ launch_timed \/ tick \/ create_process_timed \/ conclude_handler
    PROVE  Placed'
<1>1. /\ LinkInv /\ QueueInv /\ p_s \in [Pcb -> Nat] /\ executed \in [Pcb -> Nat]
      /\ SYS \in Exceptions /\ "process" \notin Exceptions /\ "conclude" \notin Exceptions
      /\ Proc \subseteq Pcb /\ NULL \notin Proc /\ idle_proc \notin Proc
      /\ Priorities \subseteq Nat
  BY ExceptionFacts, ProcFacts, PriorityAssumption DEF PlaceInv, QueueInv
<1>2. CASE boot
  <2>1. PICK prio \in Priorities : init_proc(prio)
    BY <1>2 DEF boot
  <2>2. /\ pc = "init" /\ at = "process" /\ running_proc = NULL
        /\ UNCHANGED <<Here, Position>> /\ reset_pcb
    BY <1>1, <1>2, <2>1 DEF boot, init_proc, PlaceInv, LinkInv, Here, Position
  <2>3. PICK p \in Proc : allocPcb(p, prio)
    BY <2>1, <2>2 DEF init_proc, Panics
  <2>4. p # Here /\ prio \in Nat
    BY <1>1, <2>2 DEF Here
  <2>. QED BY <2>2, <2>3, <2>4, AllocPlaced
<1>3. CASE create_process_timed
  <2>1. PICK prio \in Priorities : create_process(prio)
    BY <1>3 DEF create_process_timed
  <2>2. /\ InSyscall /\ at = SYS /\ at' = "conclude" /\ interrupted_proc = running_proc
        /\ UNCHANGED <<interrupted_proc, old_area>> /\ reset_pcb
    BY <1>1, <1>3, <2>1 DEF create_process_timed, create_process, PlaceInv
  <2>3. UNCHANGED <<Here, Position>> /\ Here = running_proc
    BY <1>1, <2>2 DEF Here, Position
  <2>4. running_proc \notin Free /\ prio \in Nat
    BY <1>1, <2>2, UserShare DEF InSyscall
  <2>5. CASE \E p \in Proc : allocPcb(p, prio)
    <3>1. PICK p \in Proc : allocPcb(p, prio)
      BY <2>5
    <3>2. p \in Free
      BY <1>1, <2>4, <3>1, AllocPcb
    <3>. QED BY <2>2, <2>3, <2>4, <3>1, <3>2, AllocPlaced
  <2>6. CASE pcbFree = <<>> /\ UNCHANGED pcbFree
    <3>1. UNCHANGED <<executed, p_s>>
      BY <2>2, <2>6 DEF reset_pcb
    <3>2. Free' = Free
      BY <2>6 DEF Free
    <3>. QED BY <2>3, <3>1, <3>2, KeepPlaced
  <2>. QED BY <2>1, <2>5, <2>6 DEF create_process
<1>4. CASE launch_timed
  <2>1. /\ launch /\ UNCHANGED <<at, executed, p_s>> /\ pc = "init" /\ at = "process"
        /\ running_proc = NULL
    BY <1>1, <1>4 DEF launch_timed, launch, PlaceInv, LinkInv
  <2>2. pc' = "user" /\ cpu' = p_s[running_proc']
    BY <1>4, <2>1 DEF launch_timed, launch, Panics
  <2>3. Free' = Free
    BY <2>1 DEF launch, Free
  <2>4. \A p \in Proc \ Free : executed[p] = p_s[p]
    BY <1>1, <2>1 DEF Placed, Here
  <2>. QED BY <2>1, <2>2, <2>3, <2>4 DEF Placed, Here, Position
<1>5. CASE tick
  <2>1. pc = "user" /\ running_proc \in Pcb
    BY <1>1, <1>5, UserShare DEF tick
  <2>2. /\ UNCHANGED <<vars, at, interrupted_proc, old_area, p_s>>
        /\ \/ /\ at = "process" /\ cpu' = cpu + 1
              /\ executed' = [executed EXCEPT ![running_proc] = @ + 1]
           \/ at # "process" /\ UNCHANGED <<executed, cpu>>
    BY <1>5 DEF tick
  <2>3. Free' = Free /\ Here' = Here
    BY <2>2 DEF vars, Free, Here
  <2>4. CASE at # "process" /\ UNCHANGED <<executed, cpu>>
    <3>1. Position' = Position
      BY <2>2, <2>4 DEF Position
    <3>. QED BY <2>2, <2>3, <2>4, <3>1, KeepPlaced
  <2>5. CASE /\ at = "process" /\ cpu' = cpu + 1
             /\ executed' = [executed EXCEPT ![running_proc] = @ + 1]
    <3>1. /\ Here = running_proc /\ Position = cpu /\ Position' = cpu + 1
      BY <2>2, <2>5 DEF Here, Position
    <3>2. \A p \in Proc : executed'[p] = IF p = running_proc THEN executed[p] + 1 ELSE executed[p]
      BY <1>1, <2>1, <2>5
    <3>. QED BY <2>2, <2>3, <3>1, <3>2 DEF Placed
  <2>. QED BY <2>2, <2>4, <2>5
<1>6. CASE conclude_handler
  <2>1. /\ pc = "user" /\ at = "conclude" /\ at' = "process"
        /\ UNCHANGED <<vars, executed>>
    BY <1>6 DEF conclude_handler
  <2>2. /\ Free' = Free /\ Here = interrupted_proc /\ Position = old_area
        /\ Here' = running_proc /\ Position' = cpu'
    BY <2>1 DEF vars, Free, Here, Position
  <2>3. CASE interrupted_proc = running_proc
    <3>1. cpu' = old_area /\ UNCHANGED p_s
      BY <1>6, <2>3 DEF conclude_handler
    <3>. QED BY <2>1, <2>2, <2>3, <3>1, KeepPlaced
  <2>4. CASE interrupted_proc # running_proc
    <3>1. /\ cpu' = p_s[running_proc]
          /\ p_s' = IF interrupted_proc = idle_proc THEN p_s
                    ELSE [p_s EXCEPT ![interrupted_proc] = old_area]
      BY <1>6, <2>4 DEF conclude_handler, save_interrupted
    <3>2. \A p \in Proc : p_s'[p] = IF p = interrupted_proc THEN old_area ELSE p_s[p]
      BY <1>1, <3>1
    <3>. QED BY <2>1, <2>2, <2>4, <3>1, <3>2 DEF Placed
  <2>. QED BY <2>3, <2>4
<1>. QED BY <1>2, <1>3, <1>4, <1>5, <1>6

\* Where the handlers are.
LEMMA PlaceControl ==
    ASSUME PlaceInv, [HandlerNext]_allVars
    PROVE  /\ at' \in {"process", "conclude", "panic"} \cup Exceptions
           /\ pc' = "init" => at' = "process"
           /\ Killing' => at' = "conclude"
           /\ at' \in Exceptions => pc' = "user" /\ interrupted_proc' = running_proc'
           /\ at' # "panic" /\ pc' \notin Panics => at # "panic" /\ pc \notin Panics
<1>0. /\ SYS \in Exceptions /\ INT \in Exceptions /\ Traps \subseteq Exceptions
      /\ "process" \notin Exceptions /\ "conclude" \notin Exceptions /\ "panic" \notin Exceptions
      /\ {"init", "user", "remove", "children"} \cap Panics = {}
  BY ExceptionFacts DEF Panics
<1>1. /\ at \in {"process", "conclude", "panic"} \cup Exceptions
      /\ pc = "init" => at = "process"
      /\ Killing => at = "conclude"
      /\ at \in Exceptions => pc = "user" /\ interrupted_proc = running_proc
  BY DEF PlaceInv
<1>2. CASE boot
  BY <1>0, <1>1, <1>2 DEF boot, init_proc, Killing, Panics
<1>3. CASE launch_timed
  BY <1>0, <1>1, <1>3 DEF launch_timed, launch, Killing
<1>4. ASSUME NEW p, terminate_timed(p), at \in Exceptions
      PROVE  pc = "user" /\ pc' # "init" /\ at' = "conclude"
  BY <1>1, <1>4 DEF terminate_timed, terminate_proc
<1>5. ASSUME NEW exc \in Exceptions, launch_spec_area(exc), at = exc
      PROVE  pc = "user" /\ pc' = "user" /\ at' = "process"
  BY <1>1, <1>5 DEF launch_spec_area, vars
<1>6. CASE \/ tick \/ query \/ conclude_handler \/ halted_timed \/ UNCHANGED allVars \/ unrecognised
           \/ \E exc \in {SYS, INT} \cup Traps : start_handler(exc)
  BY <1>0, <1>1, <1>6, Zenon DEF tick, query, conclude_handler, halted_timed, halted, start_handler,
        unrecognised, handlerVars, allVars, vars, Killing
<1>7. ASSUME \/ create_process_timed \/ handle_interrupt
             \/ \E k \in Sem : passeren_timed(k) \/ verhogen_timed(k)
      PROVE  pc = "user" /\ pc' # "init" /\ at \in Exceptions /\ at' = "conclude"
  BY <1>0, <1>1, <1>7 DEF create_process_timed, handle_interrupt, passeren_timed, verhogen_timed,
        create_process, time_slice_callback, passeren, verhogen, vars
<1>8. ASSUME terminating_timed
      PROVE  Killing /\ pc' # "init" /\ at = "conclude" /\ at' = at
  <2>1. Killing /\ pc' # "init" /\ at' = at
    BY <1>8 DEF terminating_timed, terminating, recursive_remove_proc, remove_child,
         remove_return, terminate_return, Killing, handlerVars
  <2>. QED BY <1>1, <2>1
<1>9. ASSUME \E code \in Codes : specpassup(code)
      PROVE  pc = "user" /\ pc' # "init" /\ at \in Exceptions /\ at' = "conclude"
  <2>1. at = SYS /\ \/ UNCHANGED vars /\ at' = "conclude"
                    \/ terminate_timed(running_proc)
    BY <1>9 DEF specpassup
  <2>2. pc = "user" /\ at \in Exceptions
    BY <1>0, <1>1, <2>1
  <2>. QED BY <1>4, <2>1, <2>2 DEF vars
<1>10. ASSUME pass_up_syscall \/ pass_up_breakpoint \/ \E exc \in Traps : pass_up_trap(exc),
              ~unrecognised
       PROVE  \E exc \in Exceptions :
                  at = exc /\ (launch_spec_area(exc) \/ \E p : terminate_timed(p))
  BY <1>0, <1>10 DEF pass_up_syscall, pass_up_breakpoint, pass_up_trap
<1>11. ASSUME \E p \in Proc : at = SYS /\ terminate_timed(p)
       PROVE  pc = "user" /\ pc' # "init" /\ at \in Exceptions /\ at' = "conclude"
  BY <1>0, <1>1, <1>4, <1>11
<1>12. CASE pc = "user" /\ pc' # "init" /\ at \in Exceptions /\ at' = "conclude"
  BY <1>0, <1>12
<1>13. CASE Killing /\ pc' # "init" /\ at = "conclude" /\ at' = at
  BY <1>0, <1>13 DEF Killing
<1>14. CASE \E exc \in Exceptions : at = exc /\ (launch_spec_area(exc) \/ \E p : terminate_timed(p))
  <2>1. PICK exc \in Exceptions : at = exc /\ (launch_spec_area(exc) \/ \E p : terminate_timed(p))
    BY <1>14
  <2>2. CASE launch_spec_area(exc)
    <3>1. pc = "user" /\ pc' = "user" /\ at' = "process" /\ at # "panic"
      BY <1>0, <1>5, <2>1, <2>2
    <3>. QED BY <1>0, <3>1 DEF Killing
  <2>3. CASE \E p : terminate_timed(p)
    BY <1>4, <1>12, <2>1, <2>3
  <2>. QED BY <2>1, <2>2, <2>3
<1>15. CASE [HandlerNext]_allVars
  <2>1. \/ UNCHANGED allVars \/ boot \/ launch_timed \/ tick
        \/ \E exc \in {SYS, INT} \cup Traps : start_handler(exc)
        \/ handle_interrupt \/ query \/ create_process_timed
        \/ \E p \in Proc : at = SYS /\ terminate_timed(p)
        \/ \E k \in Sem : passeren_timed(k) \/ verhogen_timed(k)
        \/ \E code \in Codes : specpassup(code)
        \/ unrecognised
        \/ (pass_up_syscall \/ pass_up_breakpoint \/ \E exc \in Traps : pass_up_trap(exc))
           /\ ~unrecognised
        \/ terminating_timed \/ conclude_handler \/ halted_timed
    BY <1>15 DEF HandlerNext, system_call
  <2>. QED BY <1>2, <1>3, <1>6, <1>7, <1>8, <1>9, <1>10, <1>11, <1>12, <1>13, <1>14, <2>1
<1>. QED BY <1>15

LEMMA PlaceInvNext == PlaceInv /\ [HandlerNext]_allVars => PlaceInv'
<1>. SUFFICES ASSUME PlaceInv, [HandlerNext]_allVars PROVE PlaceInv'
  OBVIOUS
<1>1. QueueInv'
  BY HandlerSteps, QueueInvNext DEF PlaceInv
<1>2. ASSUME at' # "panic", pc' \notin Panics PROVE Placed'
  <2>1. Placed
    BY <1>2, PlaceControl DEF PlaceInv
  <2>2. CASE UNCHANGED allVars
    BY <2>1, <2>2 DEF allVars, handlerVars, stateVars, historyVars, vars, Placed, Free,
                      Here, Position
  <2>. QED BY <1>1, <1>2, <2>1, <2>2, StayPlaced, MovePlaced
<1>. QED BY <1>1, <1>2, PlaceTypes, PlaceControl DEF PlaceInv

-----------------------------------------------------------------------------
(* The theorems about the handlers. *)

\* PlaceInv holds in every reachable state.
THEOREM PlacesInvariant == HandlerSpec => []PlaceInv
  BY PlaceInvInit, PlaceInvNext, PTL DEF HandlerSpec

\* Whichever process and handler ran in between, each process goes on where it
\* stopped: start_handler, conclude_handler and launch_spec_area together never
\* mix up the state in the processor, in the old area and in the PCBs.
THEOREM ProcessesResume == HandlerSpec => []ResumesWhereItStopped
<1>1. PlaceInv => ResumesWhereItStopped
  <2>. SUFFICES ASSUME PlaceInv, Running PROVE ResumesWhereItStopped
    BY DEF ResumesWhereItStopped
  <2>1. Placed /\ pc = "user" /\ Here = running_proc /\ Position = cpu /\ LinkInv
    BY DEF PlaceInv, QueueInv, Running, Panics, Here, Position
  <2>2. running_proc \in Pcb /\ OnCpu \cap (Free \cup Ready) = {} /\ OnCpu \subseteq Unkeyed
    BY <2>1, UserShare
  <2>3. /\ Free \cap Ready = {} /\ Free \cap Blocked = {} /\ Blocked = Proc \ Unkeyed
        /\ Ready \subseteq Unkeyed /\ Ready \subseteq Proc
    BY <2>1, LinkInvImplies DEF LinkedOnce, LinkInv, Unkeyed
  <2>4. running_proc # idle_proc => running_proc \in Proc \ Free
    BY <2>2, ProcFacts DEF OnCpu
  <2>5. ASSUME NEW p \in Ready \cup Blocked PROVE p \in Proc \ Free /\ p # running_proc
    BY <2>2, <2>3, <2>5 DEF OnCpu
  <2>. QED BY <2>1, <2>4, <2>5 DEF ResumesWhereItStopped, Placed
<1>. QED BY <1>1, PlacesInvariant, PTL

\* The process layer under the handlers is that of Scheduler: what holds in
\* every state its steps lead to holds here.
THEOREM HandlersRunScheduler == HandlerSpec => Init /\ [][Next]_vars
<1>1. HandlerInit => Init
  BY DEF HandlerInit
<1>. QED BY <1>1, HandlerSteps, PlacesInvariant, PTL DEF HandlerSpec

\* In particular p finds a descriptor, whatever the handlers do around it.
THEOREM HandlerDescriptors == HandlerSpec => []SemdAlwaysFound
<1>1. HandlerInit => SemdAlwaysFound
  BY DEF HandlerInit, Init, SemdAlwaysFound
<1>2. PlaceInv /\ SemdAlwaysFound /\ [HandlerNext]_allVars => SemdAlwaysFound'
  BY HandlerSteps, SemdAlwaysFoundNext DEF PlaceInv
<1>. QED BY <1>1, <1>2, PlacesInvariant, PTL DEF HandlerSpec

-----------------------------------------------------------------------------
(* The interval timer.                                                     *)

\* The slice of p, with t ticks left of it.
Slice(p, t) == IF spec_areas[p] = {} THEN ran + t = time_slice ELSE ran + t <= time_slice

\* A timer that went below 0 wrapped around, and stays above any time slice
\* until a handler ends: that is how timer_to_restore can tell.  A handler
\* keeps the rest of the slice in int_timer_cache, or a full slice if there is
\* none left.
SliceInv ==
    /\ INTERVAL_TIMER \in 0 .. W - 1 /\ timer_line \in BOOLEAN
    /\ ran \in Nat
    /\ int_timer_cache \in 0 .. time_slice
    /\ spec_areas \in [Pcb -> SUBSET {SYS, TLB, PRG}]
    /\ IF timer_line THEN INTERVAL_TIMER > time_slice ELSE INTERVAL_TIMER <= time_slice
    /\ pc = "init" => ran = 0
    /\ at = "process" /\ pc = "user" /\ ~timer_line => Slice(running_proc, INTERVAL_TIMER)
    /\ at \in Exceptions /\ ~timer_line => ran + INTERVAL_TIMER <= time_slice
    /\ at \in Exceptions \cup {"conclude"} =>
          int_timer_cache = time_slice \/ Slice(interrupted_proc, int_timer_cache)

LEMMA ClockFacts ==
    /\ W \in Nat /\ time_slice \in Nat \ {0} /\ time_slice + 1 < W
    /\ \A x \in 0 .. W - 1 : (x - 1 + W) % W = IF x = 0 THEN W - 1 ELSE x - 1
<1>1. 2 ^ TODBITS \in Int
  BY ClockAssumption
<1>2. W \in Nat /\ time_slice \in Nat \ {0} /\ time_slice + 1 < W
  BY <1>1, ClockAssumption DEF W
<1>. HIDE DEF W
<1>. QED BY <1>2

LEMMA SliceInvInit == HandlerInit => SliceInv
<1>. SUFFICES ASSUME HandlerInit PROVE SliceInv
  OBVIOUS
<1>1. /\ pc = "init" /\ at = "process" /\ INTERVAL_TIMER = 0 /\ timer_line = FALSE
      /\ int_timer_cache = 0 /\ ran = 0
      /\ spec_areas \in [Pcb -> SUBSET {SYS, TLB, PRG}]
  BY DEF HandlerInit, Init
<1>2. at \notin Exceptions \cup {"conclude"}
  BY <1>1, ExceptionFacts
<1>. HIDE DEF W
<1>3. 0 \in 0 .. W - 1 /\ 0 \in 0 .. time_slice /\ 0 <= time_slice
  BY ClockFacts
<1>. QED BY <1>1, <1>2, <1>3 DEF SliceInv

\* A tick uses up the slice of a process that runs.
LEMMA TickSlice == ASSUME PlaceInv, SliceInv, tick PROVE SliceInv'
<1>. HIDE DEF W
<1>1. /\ UNCHANGED <<pc, running_proc, at, interrupted_proc, int_timer_cache, spec_areas>>
      /\ pc = "user" /\ (timer_line => INTERVAL_TIMER > time_slice + 1)
      /\ INTERVAL_TIMER' = (INTERVAL_TIMER - 1 + W) % W
      /\ timer_line' = (timer_line \/ INTERVAL_TIMER = 0)
      /\ \/ at = "process" /\ ~timer_line /\ ran' = ran + 1
         \/ at \notin {"process", "panic"} /\ ran' = ran
  BY DEF tick, vars
<1>2. INTERVAL_TIMER' = IF INTERVAL_TIMER = 0 THEN W - 1 ELSE INTERVAL_TIMER - 1
  BY <1>1, ClockFacts DEF SliceInv
<1>3. /\ timer_line \in BOOLEAN /\ timer_line' \in BOOLEAN
      /\ timer_line' <=> timer_line \/ INTERVAL_TIMER = 0
  BY <1>1, Zenon DEF SliceInv
<1>4. /\ INTERVAL_TIMER \in 0 .. W - 1 /\ ran \in Nat
      /\ ~timer_line => INTERVAL_TIMER <= time_slice
  BY DEF SliceInv
<1>5. ran' \in Nat /\ (ran' = ran \/ ran' = ran + 1)
  BY <1>1, <1>4, ClockFacts
<1>6. /\ INTERVAL_TIMER' \in 0 .. W - 1
      /\ INTERVAL_TIMER = 0 => INTERVAL_TIMER' > time_slice
      /\ timer_line => INTERVAL_TIMER' > time_slice
      /\ ~timer_line /\ INTERVAL_TIMER # 0 => INTERVAL_TIMER' <= time_slice
      /\ INTERVAL_TIMER # 0 => INTERVAL_TIMER' = INTERVAL_TIMER - 1
  <2>1. W \in Nat /\ time_slice \in Nat /\ time_slice + 1 < W
    BY ClockFacts
  <2>2. CASE INTERVAL_TIMER = 0
    BY <1>2, <1>4, <2>1, <2>2
  <2>3. CASE INTERVAL_TIMER # 0
    BY <1>1, <1>2, <1>4, <2>1, <2>3
  <2>. QED BY <2>2, <2>3
<1>7. ~timer_line' => ~timer_line /\ INTERVAL_TIMER # 0
  BY <1>3
<1>8. at = "process" /\ ~timer_line' => Slice(running_proc, INTERVAL_TIMER)'
  <2>1. SUFFICES ASSUME at = "process", ~timer_line' PROVE Slice(running_proc, INTERVAL_TIMER)'
    OBVIOUS
  <2>2. /\ Slice(running_proc, INTERVAL_TIMER)
        /\ ran' = ran + 1 /\ INTERVAL_TIMER' = INTERVAL_TIMER - 1
    BY <1>1, <1>6, <1>7, <2>1 DEF SliceInv
  <2>. QED BY <1>1, <1>4, <2>2, ClockFacts DEF Slice
<1>9. at \in Exceptions /\ ~timer_line' => ran' + INTERVAL_TIMER' <= time_slice
  <2>1. SUFFICES ASSUME at \in Exceptions, ~timer_line'
                 PROVE  ran' + INTERVAL_TIMER' <= time_slice
    OBVIOUS
  <2>2. at # "process"
    BY <2>1, ExceptionFacts
  <2>3. ran + INTERVAL_TIMER <= time_slice /\ ran' = ran /\ INTERVAL_TIMER' = INTERVAL_TIMER - 1
    BY <1>1, <1>6, <1>7, <2>1, <2>2 DEF SliceInv
  <2>. QED BY <1>4, <2>3, ClockFacts
<1>10. at \in Exceptions \cup {"conclude"} =>
          int_timer_cache' = time_slice \/ Slice(interrupted_proc, int_timer_cache)'
  <2>1. at \in Exceptions \cup {"conclude"} => at # "process"
    BY ExceptionFacts
  <2>2. at \in Exceptions \cup {"conclude"} => ran' = ran
    BY <1>1, <2>1
  <2>. QED BY <1>1, <2>2 DEF SliceInv, Slice
<1>11. IF timer_line' THEN INTERVAL_TIMER' > time_slice ELSE INTERVAL_TIMER' <= time_slice
  BY <1>3, <1>6, <1>7
<1>. QED BY <1>1, <1>3, <1>5, <1>6, <1>8, <1>9, <1>10, <1>11 DEF SliceInv

\* start_handler keeps the rest of the slice, and recognises a timer that
\* went below 0.
LEMMA StartSlice ==
    ASSUME PlaceInv, SliceInv, NEW exc \in Exceptions, start_handler(exc) PROVE SliceInv'
<1>. HIDE DEF W
<1>1. /\ UNCHANGED <<pc, running_proc, INTERVAL_TIMER, timer_line, spec_areas, ran>>
      /\ pc = "user" /\ at = "process" /\ at' = exc /\ interrupted_proc' = running_proc
      /\ int_timer_cache' = IF INTERVAL_TIMER > time_slice THEN time_slice ELSE INTERVAL_TIMER
  BY DEF start_handler, vars, timerVars, historyVars, timer_to_restore
<1>2. /\ timer_line => INTERVAL_TIMER > time_slice
      /\ ~timer_line => INTERVAL_TIMER <= time_slice /\ ran + INTERVAL_TIMER <= time_slice
  BY <1>1, ClockFacts DEF SliceInv, Slice
<1>3. int_timer_cache' = time_slice \/ Slice(interrupted_proc, int_timer_cache)'
  BY <1>1, <1>2, ClockFacts DEF SliceInv, Slice
<1>4. int_timer_cache' \in 0 .. time_slice
  BY <1>1, ClockFacts DEF SliceInv
<1>. QED BY <1>1, <1>2, <1>3, <1>4, ExceptionFacts DEF SliceInv

\* conclude_handler gives the rest of the slice back, or a full one.
LEMMA ConcludeSlice == ASSUME PlaceInv, SliceInv, conclude_handler PROVE SliceInv'
<1>. HIDE DEF W
<1>1. /\ UNCHANGED <<pc, running_proc, interrupted_proc, int_timer_cache, spec_areas>>
      /\ pc = "user" /\ at = "conclude" /\ at' = "process" /\ timer_line' = FALSE
      /\ \/ interrupted_proc # running_proc /\ INTERVAL_TIMER' = time_slice /\ ran' = 0
         \/ /\ interrupted_proc = running_proc /\ INTERVAL_TIMER' = int_timer_cache
            /\ ran' = IF int_timer_cache = time_slice THEN 0 ELSE ran
  BY DEF conclude_handler, set_timer, vars
<1>2. Slice(running_proc, INTERVAL_TIMER)'
  BY <1>1, ClockFacts DEF SliceInv, Slice
<1>3. /\ INTERVAL_TIMER' \in 0 .. W - 1 /\ INTERVAL_TIMER' <= time_slice /\ ran' \in Nat
  BY <1>1, ClockFacts DEF SliceInv
<1>. QED BY <1>1, <1>2, <1>3, ExceptionFacts DEF SliceInv

\* launch starts the first slice.
LEMMA LaunchSlice == ASSUME PlaceInv, SliceInv, launch_timed PROVE SliceInv'
<1>. HIDE DEF W
<1>1. /\ UNCHANGED <<at, int_timer_cache, spec_areas, ran>> /\ pc = "init" /\ ran = 0
      /\ \/ pc' = "user" /\ INTERVAL_TIMER' = time_slice /\ timer_line' = FALSE
         \/ pc' = "NoReadyProc" /\ UNCHANGED <<INTERVAL_TIMER, timer_line>>
  BY DEF launch_timed, launch, set_timer, timerVars, SliceInv
<1>2. at = "process"
  BY <1>1 DEF PlaceInv
<1>3. /\ INTERVAL_TIMER' \in 0 .. W - 1 /\ timer_line' \in BOOLEAN
      /\ IF timer_line' THEN INTERVAL_TIMER' > time_slice ELSE INTERVAL_TIMER' <= time_slice
  <2>1. CASE INTERVAL_TIMER' = time_slice /\ timer_line' = FALSE
    <3>1. timer_line' \in BOOLEAN /\ ~timer_line'
      BY <2>1
    <3>2. time_slice \in 0 .. W - 1
      BY ClockFacts
    <3>. QED BY <2>1, <3>1, <3>2, ClockFacts
  <2>2. CASE UNCHANGED <<INTERVAL_TIMER, timer_line>>
    BY <2>2 DEF SliceInv
  <2>. QED BY <1>1, <2>1, <2>2
<1>4. pc' = "user" => Slice(running_proc, INTERVAL_TIMER)'
  <2>1. pc' = "user" => INTERVAL_TIMER' = time_slice /\ ran' = 0
    BY <1>1
  <2>. QED BY <2>1, ClockFacts DEF Slice
<1>5. at' = "process" /\ at' \notin Exceptions \cup {"conclude"} /\ pc' # "init"
  BY <1>1, <1>2, ExceptionFacts
<1>. QED BY <1>1, <1>3, <1>4, <1>5 DEF SliceInv

\* The steps of a handler in between leave the timer and what is left of the
\* slice alone.  A process may get areas of its own, but loses none.
LEMMA HandlingSlice ==
    ASSUME SliceInv, at \in Exceptions \cup {"conclude"}, at' \in {"conclude", "panic"},
           pc' # "init",
           UNCHANGED <<INTERVAL_TIMER, timer_line, ran, int_timer_cache, interrupted_proc>>,
           spec_areas' \in [Pcb -> SUBSET {SYS, TLB, PRG}],
           \/ spec_areas'[interrupted_proc] = spec_areas[interrupted_proc]
           \/ spec_areas'[interrupted_proc] # {}
    PROVE  SliceInv'
<1>. HIDE DEF W
<1>1. at' # "process" /\ at' \notin Exceptions
  BY ExceptionFacts
<1>2. int_timer_cache' = time_slice \/ Slice(interrupted_proc, int_timer_cache)'
  BY ClockFacts DEF SliceInv, Slice
<1>. QED BY <1>1, <1>2 DEF SliceInv

\* A process in its own handler has the rest of the slice that the timer shows.
LEMMA PassUpSlice ==
    ASSUME PlaceInv, SliceInv, NEW exc \in Exceptions, at = exc, launch_spec_area(exc)
    PROVE  SliceInv'
<1>. HIDE DEF W
<1>1. /\ UNCHANGED <<pc, running_proc, INTERVAL_TIMER, timer_line, ran,
                     int_timer_cache, spec_areas>>
      /\ at' = "process" /\ exc \in spec_areas[running_proc]
  BY DEF launch_spec_area, vars, timerVars, historyVars
<1>2. pc = "user"
  BY DEF PlaceInv
<1>3. ~timer_line => Slice(running_proc, INTERVAL_TIMER)'
  BY <1>1 DEF SliceInv, Slice
<1>. QED BY <1>1, <1>2, <1>3, ExceptionFacts DEF SliceInv

\* allocPcb clears the areas of a PCB that no handler is about.
LEMMA ResetSlice ==
    ASSUME SliceInv, LinkInv, reset_pcb
    PROVE  /\ spec_areas' \in [Pcb -> SUBSET {SYS, TLB, PRG}]
           /\ \A p \in Pcb \ Free : spec_areas'[p] = spec_areas[p]
<1>1. spec_areas \in [Pcb -> SUBSET {SYS, TLB, PRG}] /\ pcbFree \in Seq(Proc)
  BY DEF SliceInv, LinkInv, TypeOK
<1>2. CASE pcbFree = <<>>
  BY <1>1, <1>2 DEF reset_pcb
<1>3. CASE pcbFree # <<>>
  <2>1. Head(pcbFree) \in Free
    BY <1>1, <1>3, FirstAndRest DEF Free
  <2>. QED BY <1>1, <1>3, <2>1 DEF reset_pcb
<1>. QED BY <1>2, <1>3

\* Every other step.
LEMMA OtherSlice ==
    ASSUME PlaceInv, PlaceInv', SliceInv, HandlerNext, ~launch_timed, ~tick, ~conclude_handler,
           ~(\E exc \in {SYS, INT} \cup Traps : start_handler(exc))
    PROVE  SliceInv'
<1>. HIDE DEF W
<1>1. /\ LinkInv
      /\ at \in Exceptions => /\ interrupted_proc = running_proc /\ pc = "user"
                              /\ interrupted_proc \in Pcb
      /\ spec_areas \in [Pcb -> SUBSET {SYS, TLB, PRG}]
      /\ pc' = "init" => at' = "process"
      /\ Killing => at = "conclude"
  BY UserShare DEF PlaceInv, QueueInv, SliceInv
<1>2. /\ SYS \in Exceptions /\ INT \in Exceptions /\ Traps \subseteq Exceptions
      /\ "process" \notin Exceptions /\ "conclude" \notin Exceptions /\ "panic" \notin Exceptions
  BY ExceptionFacts
<1>. DEFINE Still == UNCHANGED <<INTERVAL_TIMER, timer_line, ran, int_timer_cache,
                                 interrupted_proc>>
<1>3. CASE boot
  <2>1. PICK prio \in Priorities : init_proc(prio)
    BY <1>3 DEF boot
  <2>2. /\ UNCHANGED <<INTERVAL_TIMER, timer_line, ran, int_timer_cache, at>>
        /\ pc = "init" /\ reset_pcb /\ pc' \in {"init", "TooManyProcs"}
    BY <1>3, <2>1 DEF boot, init_proc, timerVars
  <2>3. at = "process"
    BY <2>2 DEF PlaceInv
  <2>4. spec_areas' \in [Pcb -> SUBSET {SYS, TLB, PRG}]
    BY <1>1, <2>2, ResetSlice DEF PlaceInv, QueueInv
  <2>. QED BY <1>2, <2>2, <2>3, <2>4 DEF SliceInv
<1>4. CASE create_process_timed
  <2>1. PICK prio \in Priorities : create_process(prio)
    BY <1>4 DEF create_process_timed
  <2>2. at = SYS /\ at' = "conclude" /\ Still /\ reset_pcb
    BY <1>4 DEF create_process_timed, timerVars
  <2>3. interrupted_proc \in Pcb \ Free
    <3>1. interrupted_proc \in Proc
      BY <1>1, <1>2, <2>1, <2>2, UserShare DEF create_process
    <3>. QED BY <1>1, <1>2, <2>2, <3>1, UserShare, ProcFacts DEF OnCpu
  <2>. QED BY <1>1, <1>2, <2>2, <2>3, ResetSlice, HandlingSlice
<1>5. ASSUME NEW p, terminate_timed(p), at \in Exceptions PROVE SliceInv'
  <2>1. at' = "conclude" /\ Still /\ spec_areas' = spec_areas
    BY <1>5 DEF terminate_timed, timerVars, historyVars
  <2>. QED BY <1>1, <1>2, <1>5, <2>1, HandlingSlice
<1>6. CASE \/ query \/ handle_interrupt \/ unrecognised
           \/ \E k \in Sem : passeren_timed(k) \/ verhogen_timed(k)
  <2>1. at \in Exceptions /\ at' \in {"conclude", "panic"} /\ Still /\ spec_areas' = spec_areas
    BY <1>2, <1>6 DEF query, handle_interrupt, passeren_timed, verhogen_timed, unrecognised,
                      timerVars, historyVars
  <2>. QED BY <1>1, <1>2, <2>1, HandlingSlice
<1>7. ASSUME NEW code \in Codes, specpassup(code) PROVE SliceInv'
  <2>1. CASE terminate_timed(running_proc)
    BY <1>2, <1>5, <1>7, <2>1 DEF specpassup
  <2>2. CASE /\ at' = "conclude" /\ Still
             /\ spec_areas' = [spec_areas EXCEPT ![running_proc] = @ \cup {area_type(code)}]
    <3>1. at \in Exceptions
      BY <1>2, <1>7 DEF specpassup
    <3>2. area_type(code) \in {SYS, TLB, PRG}
      BY DEF area_type
    <3>3. /\ spec_areas' \in [Pcb -> SUBSET {SYS, TLB, PRG}]
          /\ spec_areas'[interrupted_proc] # {}
      BY <1>1, <2>2, <3>1, <3>2
    <3>. QED BY <1>1, <1>2, <2>2, <3>1, <3>3, HandlingSlice
  <2>. QED BY <1>7, <2>1, <2>2 DEF specpassup, timerVars, historyVars
<1>8. CASE ~unrecognised /\ \/ pass_up_syscall \/ pass_up_breakpoint
                            \/ \E exc \in Traps : pass_up_trap(exc)
  <2>1. \E exc \in Exceptions : at = exc /\ (launch_spec_area(exc) \/ \E p : terminate_timed(p))
    BY <1>2, <1>8 DEF pass_up_syscall, pass_up_breakpoint, pass_up_trap
  <2>. QED BY <1>5, <2>1, PassUpSlice
<1>9. CASE terminating_timed
  <2>1. Killing /\ Still /\ spec_areas' = spec_areas /\ at' = at
    BY <1>9 DEF terminating_timed, terminating, recursive_remove_proc, remove_child,
         remove_return, terminate_return, Killing, handlerVars, timerVars, historyVars
  <2>. QED BY <1>1, <1>2, <2>1, HandlingSlice
<1>10. CASE halted_timed
  <2>1. UNCHANGED <<vars, handlerVars>>
    BY <1>10 DEF halted_timed, halted
  <2>2. /\ Still /\ UNCHANGED <<pc, running_proc, at, spec_areas>>
    BY <2>1 DEF vars, handlerVars, timerVars, historyVars
  <2>. QED BY <2>2 DEF SliceInv, Slice
<1>11. CASE \E p \in Proc : at = SYS /\ terminate_timed(p)
  BY <1>2, <1>5, <1>11
<1>. QED BY <1>3, <1>4, <1>6, <1>7, <1>8, <1>9, <1>10, <1>11 DEF HandlerNext, system_call

LEMMA SliceInvNext ==
    PlaceInv /\ PlaceInv' /\ SliceInv /\ [HandlerNext]_allVars => SliceInv'
<1>. SUFFICES ASSUME PlaceInv, PlaceInv', SliceInv, [HandlerNext]_allVars PROVE SliceInv'
  OBVIOUS
<1>. HIDE DEF W
<1>1. CASE UNCHANGED allVars
  BY <1>1 DEF allVars, vars, handlerVars, timerVars, historyVars, SliceInv, Slice
<1>. QED BY <1>1, LaunchSlice, TickSlice, ConcludeSlice, StartSlice, OtherSlice, ExceptionFacts

\* A process never runs longer than a time slice before the interval timer
\* interrupts it, however many handlers run meanwhile and however long they
\* take: handler.c:135-142 and 144-166 hand the rest of the slice on exactly.
THEOREM SlicesAreExact == HandlerSpec => []SliceIsExact
<1>1. PlaceInv /\ SliceInv => SliceIsExact
  BY DEF SliceInv, SliceIsExact, Slice, Running
<1>. QED BY <1>1, SliceInvInit, SliceInvNext, PlacesInvariant, PTL DEF HandlerSpec

-----------------------------------------------------------------------------
(* Sums over the PCBs.                                                     *)

\* g[i] is the sum of the first i of the times f.
Sums(f, n, g) == g = [i \in 0 .. n |-> IF i = 0 THEN 0 ELSE g[i - 1] + f[i - 1]]

\* There are such sums.
LEMMA SumsExist == ASSUME NEW f, NEW n \in Nat PROVE \E g : Sums(f, n, g)
<1>. DEFINE Bad == {k \in Nat : ~ \E g : Sums(f, k, g)}
            step(x, i) == x + f[i - 1]
<1>. SUFFICES ASSUME Bad # {} PROVE FALSE
  OBVIOUS
<1>1. PICK k \in Bad : \A j \in Bad : k <= j
  <2>1. Bad \in SUBSET Nat
    OBVIOUS
  <2>. QED BY <2>1, LeastExists
<1>2. \A l, g : Sums(f, l, g) <=> g = [i \in 0 .. l |-> IF i = 0 THEN 0 ELSE step(g[i - 1], i)]
  BY DEF Sums
<1>3. k \in Nat /\ \A g : ~Sums(f, k, g)
  BY <1>1
<1>4. k # 0
  <2>. SUFFICES ASSUME k = 0 PROVE FALSE
    OBVIOUS
  <2>. DEFINE g == [i \in 0 .. 0 |-> 0]
  <2>. HIDE DEF step
  <2>1. g = [i \in 0 .. 0 |-> IF i = 0 THEN 0 ELSE step(g[i - 1], i)]
    OBVIOUS
  <2>. HIDE DEF g
  <2>. QED BY <1>2, <1>3, <2>1
<1>5. k - 1 \in Nat /\ k - 1 \notin Bad
  BY <1>1, <1>3, <1>4
<1>6. PICK g : Sums(f, k - 1, g)
  BY <1>5
<1>. DEFINE h == [i \in 0 .. k |-> IF i < k THEN g[i] ELSE step(g[k - 1], k)]
<1>. HIDE DEF step, Bad
<1>7. g = [i \in 0 .. k - 1 |-> IF i = 0 THEN 0 ELSE step(g[i - 1], i)]
  BY <1>2, <1>6
<1>8. ASSUME NEW i \in 0 .. k PROVE h[i] = IF i = 0 THEN 0 ELSE step(h[i - 1], i)
  <2>1. CASE i < k
    <3>1. i \in 0 .. k - 1
      BY <1>3, <2>1
    <3>2. h[i] = g[i] /\ (i # 0 => h[i - 1] = g[i - 1])
      BY <1>3, <2>1
    <3>3. g[i] = IF i = 0 THEN 0 ELSE step(g[i - 1], i)
      BY <1>7, <3>1
    <3>. QED BY <3>2, <3>3
  <2>2. CASE ~(i < k)
    <3>1. i = k /\ k - 1 \in 0 .. k /\ k - 1 < k
      BY <1>3, <1>5, <2>2
    <3>2. h[i] = step(g[k - 1], k) /\ h[i - 1] = g[k - 1]
      BY <3>1
    <3>. QED BY <1>4, <3>1, <3>2
  <2>. QED BY <2>1, <2>2
<1>9. h = [i \in 0 .. k |-> h[i]]
  OBVIOUS
<1>. HIDE DEF h
<1>10. h = [i \in 0 .. k |-> IF i = 0 THEN 0 ELSE step(h[i - 1], i)]
  BY <1>8, <1>9
<1>. QED BY <1>2, <1>3, <1>10

\* Total is the last of them.
LEMMA TotalSums ==
    ASSUME NEW f \in [Pcb -> Nat]
    PROVE  \E g \in [0 .. MAXPROC + 1 -> Nat] :
              /\ g[0] = 0 /\ Total(f) = g[MAXPROC + 1]
              /\ \A n \in Pcb : g[n + 1] = g[n] + f[n]
<1>. DEFINE g == CHOOSE g : Sums(f, MAXPROC + 1, g)
<1>1. MAXPROC \in Nat /\ MAXPROC + 1 \in Nat /\ Pcb = 0 .. MAXPROC
  BY MaxProcAssumption DEF Pcb, Proc, idle_proc
<1>2. Sums(f, MAXPROC + 1, g)
  BY <1>1, SumsExist
<1>3. Total(f) = g[MAXPROC + 1]
  BY DEF Total, Sums
<1>. HIDE DEF g
<1>4. g = [i \in 0 .. MAXPROC + 1 |-> IF i = 0 THEN 0 ELSE g[i - 1] + f[i - 1]]
  BY <1>2 DEF Sums
<1>5. DOMAIN g = 0 .. MAXPROC + 1 /\ g[0] = 0
  BY <1>1, <1>4
<1>6. ASSUME NEW n \in Pcb PROVE g[n + 1] = g[n] + f[n]
  <2>1. n + 1 \in 0 .. MAXPROC + 1 /\ n + 1 # 0 /\ (n + 1) - 1 = n
    BY <1>1
  <2>2. g[n + 1] = g[(n + 1) - 1] + f[(n + 1) - 1]
    BY <1>4, <2>1
  <2>. QED BY <2>1, <2>2
<1>7. \A n \in 0 .. MAXPROC + 1 : g[n] \in Nat
  <2>. DEFINE Bad == {n \in 0 .. MAXPROC + 1 : g[n] \notin Nat}
  <2>. SUFFICES ASSUME Bad # {} PROVE FALSE
    OBVIOUS
  <2>1. PICK n \in Bad : \A j \in Bad : n <= j
    <3>1. Bad \in SUBSET Nat
      BY <1>1
    <3>. QED BY <3>1, LeastExists
  <2>2. n # 0
    BY <1>5, <2>1
  <2>3. n - 1 \in Pcb /\ n - 1 \in 0 .. MAXPROC + 1 /\ n - 1 \notin Bad /\ (n - 1) + 1 = n
    BY <1>1, <2>1, <2>2
  <2>4. g[n] = g[n - 1] + f[n - 1] /\ f[n - 1] \in Nat /\ g[n - 1] \in Nat
    BY <1>6, <2>3
  <2>. QED BY <2>1, <2>4
<1>8. g \in [0 .. MAXPROC + 1 -> Nat]
  BY <1>4, <1>5, <1>7
<1>. QED BY <1>3, <1>5, <1>6, <1>8

\* Two totals that differ in one PCB differ by as much.
LEMMA TotalChanges ==
    ASSUME NEW f \in [Pcb -> Nat], NEW h \in [Pcb -> Nat], NEW p \in Pcb,
           \A q \in Pcb \ {p} : h[q] = f[q]
    PROVE  /\ Total(f) \in Nat /\ Total(h) \in Nat
           /\ Total(h) + f[p] = Total(f) + h[p]
<1>1. MAXPROC \in Nat /\ MAXPROC + 1 \in Nat /\ Pcb = 0 .. MAXPROC
  BY MaxProcAssumption DEF Pcb, Proc, idle_proc
<1>2. PICK F \in [0 .. MAXPROC + 1 -> Nat] :
              /\ F[0] = 0 /\ Total(f) = F[MAXPROC + 1]
              /\ \A n \in Pcb : F[n + 1] = F[n] + f[n]
  BY TotalSums
<1>3. PICK H \in [0 .. MAXPROC + 1 -> Nat] :
              /\ H[0] = 0 /\ Total(h) = H[MAXPROC + 1]
              /\ \A n \in Pcb : H[n + 1] = H[n] + h[n]
  BY TotalSums
<1>. DEFINE Good(n) == IF n <= p THEN H[n] = F[n] ELSE H[n] + f[p] = F[n] + h[p]
            Bad == {n \in 0 .. MAXPROC + 1 : ~Good(n)}
<1>4. Bad = {}
  <2>. SUFFICES ASSUME Bad # {} PROVE FALSE
    OBVIOUS
  <2>1. PICK n \in Bad : \A j \in Bad : n <= j
    <3>1. Bad \in SUBSET Nat
      BY <1>1
    <3>. QED BY <3>1, LeastExists
  <2>2. n # 0
    BY <1>1, <1>2, <1>3, <2>1
  <2>3. n \in 0 .. MAXPROC + 1 /\ ~Good(n)
    BY <2>1
  <2>4. /\ n \in Int /\ p \in Int /\ n - 1 \in Pcb /\ n - 1 \in 0 .. MAXPROC + 1
        /\ (n - 1) + 1 = n /\ n - 1 < n
    BY <1>1, <2>2, <2>3
  <2>5. Good(n - 1)
    <3>1. ~(n <= n - 1)
      BY <2>4
    <3>. QED BY <2>1, <2>4, <3>1
  <2>6. /\ F[n] = F[n - 1] + f[n - 1] /\ H[n] = H[n - 1] + h[n - 1]
        /\ F[n - 1] \in Nat /\ H[n - 1] \in Nat /\ f[n - 1] \in Nat /\ h[n - 1] \in Nat
        /\ f[p] \in Nat /\ h[p] \in Nat
    BY <1>2, <1>3, <2>4
  <2>7. \/ n - 1 < p /\ n <= p /\ H[n - 1] = F[n - 1] /\ H[n] # F[n]
        \/ n - 1 = p /\ H[n - 1] = F[n - 1] /\ H[n] + f[p] # F[n] + h[p]
        \/ /\ n - 1 > p /\ H[n - 1] + f[p] = F[n - 1] + h[p]
           /\ H[n] + f[p] # F[n] + h[p]
    BY <2>3, <2>4, <2>5
  <2>8. n - 1 # p => h[n - 1] = f[n - 1]
    BY <2>4
  <2>. HIDE DEF Good, Bad
  <2>9. ASSUME n - 1 < p, H[n - 1] = F[n - 1] PROVE H[n] = F[n]
    BY <2>4, <2>6, <2>8, <2>9
  <2>10. ASSUME n - 1 = p, H[n - 1] = F[n - 1] PROVE H[n] + f[p] = F[n] + h[p]
    BY <2>6, <2>10
  <2>11. ASSUME n - 1 > p, H[n - 1] + f[p] = F[n - 1] + h[p]
         PROVE  H[n] + f[p] = F[n] + h[p]
    <3>1. h[n - 1] = f[n - 1]
      BY <2>4, <2>8, <2>11
    <3>2. /\ (H[n - 1] + h[n - 1]) + f[p] = (H[n - 1] + f[p]) + h[n - 1]
          /\ (F[n - 1] + f[n - 1]) + h[p] = (F[n - 1] + h[p]) + f[n - 1]
      BY <2>6
    <3>. QED BY <2>6, <2>11, <3>1, <3>2
  <2>. QED BY <2>7, <2>9, <2>10, <2>11
<1>5. MAXPROC + 1 \in 0 .. MAXPROC + 1 /\ ~(MAXPROC + 1 <= p)
  BY <1>1
<1>6. Good(MAXPROC + 1)
  BY <1>4, <1>5
<1>7. H[MAXPROC + 1] + f[p] = F[MAXPROC + 1] + h[p]
  BY <1>5, <1>6
<1>8. F[MAXPROC + 1] \in Nat /\ H[MAXPROC + 1] \in Nat
  BY <1>2, <1>3, <1>5
<1>. QED BY <1>2, <1>3, <1>7, <1>8

\* No time is more than the total.
LEMMA TotalBounds == ASSUME NEW f \in [Pcb -> Nat], NEW p \in Pcb PROVE f[p] <= Total(f)
<1>. DEFINE h == [f EXCEPT ![p] = 0]
<1>1. h \in [Pcb -> Nat] /\ h[p] = 0 /\ \A q \in Pcb \ {p} : h[q] = f[q]
  OBVIOUS
<1>2. Total(f) \in Nat /\ Total(h) \in Nat /\ Total(h) + f[p] = Total(f) + h[p]
  <2>. HIDE DEF h
  <2>. QED BY <1>1, TotalChanges
<1>. QED BY <1>1, <1>2

\* Nothing adds up to nothing.
LEMMA TotalZero ==
    ASSUME NEW f \in [Pcb -> Nat], \A p \in Pcb : f[p] = 0 PROVE Total(f) = 0
<1>1. MAXPROC \in Nat /\ MAXPROC + 1 \in Nat /\ Pcb = 0 .. MAXPROC
  BY MaxProcAssumption DEF Pcb, Proc, idle_proc
<1>2. PICK F \in [0 .. MAXPROC + 1 -> Nat] :
              /\ F[0] = 0 /\ Total(f) = F[MAXPROC + 1]
              /\ \A n \in Pcb : F[n + 1] = F[n] + f[n]
  BY TotalSums
<1>. DEFINE Bad == {n \in 0 .. MAXPROC + 1 : F[n] # 0}
<1>3. Bad = {}
  <2>. SUFFICES ASSUME Bad # {} PROVE FALSE
    OBVIOUS
  <2>1. PICK n \in Bad : \A j \in Bad : n <= j
    <3>1. Bad \in SUBSET Nat
      BY <1>1
    <3>. QED BY <3>1, LeastExists
  <2>2. n # 0
    BY <1>2, <2>1
  <2>3. n - 1 \in Pcb /\ n - 1 \in 0 .. MAXPROC + 1 /\ n - 1 \notin Bad /\ (n - 1) + 1 = n
    BY <1>1, <2>1, <2>2
  <2>4. F[n] = F[n - 1] + f[n - 1] /\ f[n - 1] = 0 /\ F[n - 1] = 0
    BY <1>2, <2>3
  <2>. QED BY <2>1, <2>4
<1>4. MAXPROC + 1 \in 0 .. MAXPROC + 1
  BY <1>1
<1>. QED BY <1>2, <1>3, <1>4

-----------------------------------------------------------------------------
(* The times.                                                              *)

\* What p has been charged for, with what the next flush adds, and that as
\* user time.
Charged(p) == user_timer[p] + kernel_timer[p] + IF p = Here THEN Since(tod_cache[p]) ELSE 0
Charges    == [p \in Pcb |-> Charged(p)]
UserTime(p) ==
    user_timer[p] + IF at = "process" /\ p = running_proc THEN Since(tod_cache[p]) ELSE 0
UserCharged(p) ==
    IF spec_areas[p] = {} THEN UserTime(p) = executed[p] ELSE UserTime(p) >= executed[p]

TimeTypes ==
    /\ TOD \in 0 .. W - 1 /\ elapsed \in 0 .. MAXTICKS
    /\ tod_cache \in [Pcb -> 0 .. W - 1]
    /\ user_timer \in [Pcb -> 0 .. W - 1] /\ kernel_timer \in [Pcb -> 0 .. W - 1]

\* Whichever process a handler is about, what is charged or about to be is no
\* more than the ticks there were, and so no sum of times wraps around.
TimeInv ==
    /\ TimeTypes
    /\ Total(Charges) <= elapsed
    /\ \A p \in Pcb : UserCharged(p)

\* The sums and differences of the TOD.
LEMMA ModFacts == \A y \in 0 .. 2 * W - 1 : y % W = IF y < W THEN y ELSE y - W
<1>. HIDE DEF W
<1>1. W \in Nat \ {0}
  BY ClockFacts
<1>. QED BY <1>1

LEMMA SinceFacts ==
    ASSUME NEW x \in 0 .. W - 1, NEW t \in 0 .. W - 1
    PROVE  LET since(y) == (y - t + W) % W
           IN  /\ since(x) \in 0 .. W - 1 /\ (x = t => since(x) = 0)
               /\ (x + 1) % W \in 0 .. W - 1
               /\ since(x) + 1 < W => since((x + 1) % W) = since(x) + 1
<1>. HIDE DEF W
<1>1. W \in Nat \ {0} /\ x \in Nat /\ t \in Nat /\ x < W /\ t < W
  BY ClockFacts
<1>2. \A y \in 0 .. W - 1 : (y - t + W) % W = IF y < t THEN y - t + W ELSE y - t
  <2>. SUFFICES ASSUME NEW y \in 0 .. W - 1
                PROVE  (y - t + W) % W = IF y < t THEN y - t + W ELSE y - t
    OBVIOUS
  <2>1. y - t + W \in 0 .. 2 * W - 1
    BY <1>1
  <2>2. (y - t + W) % W = IF y - t + W < W THEN y - t + W ELSE (y - t + W) - W
    BY <2>1, ModFacts
  <2>. QED BY <1>1, <2>2
<1>3. (x + 1) % W = IF x + 1 < W THEN x + 1 ELSE 0
  <2>1. x + 1 \in 0 .. 2 * W - 1
    BY <1>1
  <2>2. (x + 1) % W = IF x + 1 < W THEN x + 1 ELSE (x + 1) - W
    BY <2>1, ModFacts
  <2>. QED BY <1>1, <2>2
<1>4. (x - t + W) % W = IF x < t THEN x - t + W ELSE x - t
  BY <1>2
<1>5. (x + 1) % W \in 0 .. W - 1
  BY <1>1, <1>3
<1>6. (((x + 1) % W) - t + W) % W =
          IF ((x + 1) % W) < t THEN ((x + 1) % W) - t + W ELSE ((x + 1) % W) - t
  BY <1>2, <1>5
<1>. QED BY <1>1, <1>3, <1>4, <1>5, <1>6

LEMMA ChargesTyped ==
    TimeTypes => /\ \A p \in Pcb : Since(tod_cache[p]) \in 0 .. W - 1 /\ Charged(p) \in Nat
                 /\ Charges \in [Pcb -> Nat]
<1>. HIDE DEF W
<1>. SUFFICES ASSUME TimeTypes, NEW p \in Pcb
              PROVE  Since(tod_cache[p]) \in 0 .. W - 1 /\ Charged(p) \in Nat
  BY DEF Charges
<1>1. Since(tod_cache[p]) \in 0 .. W - 1
  BY SinceFacts DEF TimeTypes, Since
<1>. QED BY <1>1, ClockFacts DEF TimeTypes, Charged

\* A step that changes what one PCB is charged for, and by no more than the
\* ticks it takes.
LEMMA Recharge ==
    ASSUME TimeInv, TimeTypes', NEW q \in Pcb,
           \A p \in Pcb \ {q} : Charged(p)' = Charged(p),
           Charged(q)' - Charged(q) <= elapsed' - elapsed,
           \A p \in Pcb : UserCharged(p)'
    PROVE  TimeInv'
<1>1. /\ Charges \in [Pcb -> Nat] /\ \A p \in Pcb : Charged(p) \in Nat
  BY ChargesTyped DEF TimeInv
<1>2. Charges' \in [Pcb -> Nat] /\ \A p \in Pcb : Charged(p)' \in Nat
  <2>1. (TimeTypes => /\ \A p \in Pcb : Since(tod_cache[p]) \in 0 .. W - 1 /\ Charged(p) \in Nat
                      /\ Charges \in [Pcb -> Nat])'
    BY ChargesTyped, PTL
  <2>. QED BY <2>1
<1>3. /\ \A p \in Pcb : Charges[p] = Charged(p) /\ Charges'[p] = Charged(p)'
  BY DEF Charges
<1>4. /\ Total(Charges) \in Nat /\ Total(Charges') \in Nat
      /\ Total(Charges') + Charges[q] = Total(Charges) + Charges'[q]
  <2>1. \A p \in Pcb \ {q} : Charges'[p] = Charges[p]
    BY <1>3
  <2>. QED BY <1>1, <1>2, <2>1, TotalChanges
<1>5. elapsed \in Nat /\ elapsed' \in Nat
  BY DEF TimeInv, TimeTypes
<1>6. Total(Charges') <= elapsed'
  BY <1>1, <1>2, <1>3, <1>4, <1>5 DEF TimeInv
<1>7. Total(Charges)' = Total(Charges')
  OBVIOUS
<1>. QED BY <1>6, <1>7 DEF TimeInv

\* A step that takes no time and charges no one for more.
LEMMA ChargeNoMore ==
    ASSUME TimeInv, TimeTypes', elapsed' = elapsed,
           NEW q,
           \A p \in Pcb \ {q} : Charged(p)' = Charged(p),
           q \in Pcb => Charged(q)' = user_timer[q] + kernel_timer[q] \/ Charged(q)' = Charged(q),
           \A p \in Pcb : UserCharged(p)'
    PROVE  TimeInv'
<1>. HIDE DEF W
<1>1. elapsed \in Nat /\ idle_proc \in Pcb /\ \A p \in Pcb : Charged(p) \in Nat
  BY ChargesTyped, ProcFacts DEF TimeInv, TimeTypes
<1>2. CASE q \in Pcb
  <2>1. user_timer[q] + kernel_timer[q] <= Charged(q)
    BY <1>2, ChargesTyped, ClockFacts DEF TimeInv, TimeTypes, Charged
  <2>2. user_timer[q] + kernel_timer[q] \in Nat
    BY <1>2, ClockFacts DEF TimeInv, TimeTypes
  <2>3. Charged(q)' - Charged(q) <= elapsed' - elapsed
    BY <1>1, <1>2, <2>1, <2>2
  <2>. QED BY <1>2, <2>3, Recharge
<1>3. CASE q \notin Pcb
  <2>1. Charged(idle_proc)' = Charged(idle_proc)
    BY <1>1, <1>3
  <2>2. Charged(idle_proc)' - Charged(idle_proc) <= elapsed' - elapsed
    BY <1>1, <2>1
  <2>3. \A p \in Pcb \ {idle_proc} : Charged(p)' = Charged(p)
    BY <1>3
  <2>. QED BY <1>1, <2>2, <2>3, Recharge
<1>. QED BY <1>2, <1>3

\* A step that has nothing to do with the times.  A process may get areas of
\* its own, but loses none.
LEMMA KeepTimes ==
    ASSUME PlaceInv, TimeInv,
           UNCHANGED <<TOD, elapsed, tod_cache, user_timer, kernel_timer, executed, Here>>,
           at' = "process" <=> at = "process",
           \A p \in Pcb : spec_areas'[p] = spec_areas[p] \/ spec_areas'[p] # {}
    PROVE  TimeInv'
<1>. HIDE DEF W
<1>1. TimeTypes'
  BY DEF TimeInv, TimeTypes
<1>2. \A p \in Pcb : Charged(p)' = Charged(p)
  BY DEF Charged, Since
<1>3. ASSUME NEW p \in Pcb PROVE UserCharged(p)'
  <2>1. UserTime(p)' = UserTime(p)
    <3>1. at = "process" => at' = "process" /\ running_proc' = running_proc
      BY DEF Here
    <3>. QED BY <3>1 DEF UserTime, Since
  <2>2. UserTime(p) \in Nat /\ executed[p] \in Nat
    BY <1>3, ChargesTyped, ClockFacts DEF TimeInv, TimeTypes, UserTime, PlaceInv
  <2>3. UserCharged(p)
    BY <1>3 DEF TimeInv
  <2>. QED BY <1>3, <2>1, <2>2, <2>3 DEF UserCharged
<1>. QED BY <1>1, <1>2, <1>3, ChargeNoMore

\* A process goes on in its own handler, which counts as user time.
LEMMA PassUpTimes ==
    ASSUME PlaceInv, TimeInv, NEW exc \in Exceptions, at = exc, launch_spec_area(exc),
           UNCHANGED <<kernel_timer, tod_cache>>
    PROVE  TimeInv'
<1>. HIDE DEF W
<1>1. /\ UNCHANGED <<TOD, elapsed, tod_cache, user_timer, kernel_timer, executed, spec_areas,
                     running_proc>>
      /\ at # "process" /\ at' = "process" /\ spec_areas[running_proc] # {}
      /\ interrupted_proc = running_proc
  BY ExceptionFacts DEF launch_spec_area, vars, historyVars, PlaceInv
<1>2. TimeTypes'
  BY <1>1 DEF TimeInv, TimeTypes
<1>3. \A p \in Pcb : Charged(p)' = Charged(p)
  BY <1>1 DEF Charged, Since, Here
<1>4. ASSUME NEW p \in Pcb PROVE UserCharged(p)'
  <2>1. user_timer[p] \in Nat /\ Since(tod_cache[p]) \in Nat /\ executed[p] \in Nat
    BY <1>4, ChargesTyped, ClockFacts DEF TimeInv, TimeTypes, PlaceInv
  <2>2. UserTime(p) = user_timer[p]
    BY <1>1, <2>1 DEF UserTime
  <2>3. UserTime(p)' = user_timer[p] + IF p = running_proc THEN Since(tod_cache[p]) ELSE 0
    BY <1>1 DEF UserTime, Since
  <2>4. UserCharged(p)
    BY <1>4 DEF TimeInv
  <2>. QED BY <1>1, <2>1, <2>2, <2>3, <2>4 DEF UserCharged
<1>. QED BY <1>1, <1>2, <1>3, <1>4, ChargeNoMore

\* The sum that a flush writes does not wrap around.
LEMMA FlushFacts ==
    ASSUME TimeInv, MAXTICKS < W, Here \in Pcb
    PROVE  LET since == Since(tod_cache[Here])
           IN  /\ since \in 0 .. W - 1
               /\ since + 1 < W \/ elapsed = MAXTICKS
               /\ user_timer[Here] + since \in 0 .. W - 1
               /\ kernel_timer[Here] + since \in 0 .. W - 1
               /\ (user_timer[Here] + since) % W = user_timer[Here] + since
               /\ (kernel_timer[Here] + since) % W = kernel_timer[Here] + since
               /\ user_timer[Here] + kernel_timer[Here] + since <= elapsed
               /\ Since(TOD) = 0
<1>. HIDE DEF W
<1>. DEFINE since == Since(tod_cache[Here])
<1>1. /\ since \in 0 .. W - 1 /\ Charged(Here) = user_timer[Here] + kernel_timer[Here] + since
      /\ Charges \in [Pcb -> Nat] /\ Charges[Here] = Charged(Here)
  BY ChargesTyped DEF TimeInv, Charged, Charges
<1>2. Charged(Here) <= Total(Charges) /\ Total(Charges) \in Nat
  BY <1>1, TotalBounds, TotalChanges
<1>3. /\ elapsed \in 0 .. MAXTICKS /\ MAXTICKS \in Nat /\ W \in Nat
      /\ user_timer[Here] \in Nat /\ kernel_timer[Here] \in Nat
      /\ Total(Charges) <= elapsed
  BY ClockFacts, ClockAssumption DEF TimeInv, TimeTypes
<1>. HIDE DEF since
<1>4. user_timer[Here] + kernel_timer[Here] + since <= elapsed
  BY <1>1, <1>2, <1>3
<1>5. /\ user_timer[Here] + since \in 0 .. W - 1 /\ kernel_timer[Here] + since \in 0 .. W - 1
      /\ since + 1 < W \/ elapsed = MAXTICKS
  BY <1>1, <1>3, <1>4
<1>6. \A y \in 0 .. W - 1 : y % W = y
  <2>. SUFFICES ASSUME NEW y \in 0 .. W - 1 PROVE y % W = y
    OBVIOUS
  <2>1. y \in 0 .. 2 * W - 1 /\ y < W
    BY <1>3
  <2>. QED BY <2>1, ModFacts
<1>7. Since(TOD) = 0
  BY SinceFacts DEF Since, TimeInv, TimeTypes
<1>. QED BY <1>1, <1>4, <1>5, <1>6, <1>7 DEF since
\* start_handler charges what has passed to the process as user time.
LEMMA StartTimes ==
    ASSUME PlaceInv, TimeInv, MAXTICKS < W, NEW exc \in Exceptions, start_handler(exc)
    PROVE  TimeInv'
<1>. HIDE DEF W
<1>. DEFINE q == running_proc
<1>1. /\ UNCHANGED <<TOD, elapsed, kernel_timer, executed, spec_areas, running_proc>>
      /\ at = "process" /\ at' # "process" /\ interrupted_proc' = q /\ pc = "user"
      /\ user_timer' = [user_timer EXCEPT ![q] = (@ + Since(tod_cache[q])) % W]
      /\ tod_cache' = [tod_cache EXCEPT ![q] = TOD]
  BY ExceptionFacts DEF start_handler, vars, historyVars, flush_user_time, flush_reset_time
<1>2. q \in Pcb /\ Here = q /\ Here' = q
  BY <1>1, UserShare DEF PlaceInv, QueueInv, Here
<1>3. /\ user_timer' = [user_timer EXCEPT ![q] = @ + Since(tod_cache[q])]
      /\ user_timer[q] + Since(tod_cache[q]) \in 0 .. W - 1 /\ Since(TOD) = 0
  BY <1>1, <1>2, FlushFacts
<1>4. TimeTypes'
  BY <1>1, <1>2, <1>3 DEF TimeInv, TimeTypes
<1>5. ASSUME NEW p \in Pcb
      PROVE  /\ user_timer[p] \in Nat /\ kernel_timer[p] \in Nat /\ executed[p] \in Nat
             /\ Since(tod_cache[p]) \in Nat
             /\ user_timer'[p] = user_timer[p] + IF p = q THEN Since(tod_cache[p]) ELSE 0
             /\ Since(tod_cache[p])' = IF p = q THEN 0 ELSE Since(tod_cache[p])
  <2>1. /\ user_timer[p] \in Nat /\ kernel_timer[p] \in Nat /\ executed[p] \in Nat
        /\ Since(tod_cache[p]) \in Nat
    BY <1>5, ChargesTyped, ClockFacts DEF TimeInv, TimeTypes, PlaceInv
  <2>2. /\ user_timer'[p] = user_timer[p] + IF p = q THEN Since(tod_cache[p]) ELSE 0
        /\ tod_cache'[p] = IF p = q THEN TOD ELSE tod_cache[p]
    BY <1>1, <1>2, <1>3, <1>5, <2>1 DEF TimeInv, TimeTypes
  <2>. QED BY <1>1, <1>3, <2>1, <2>2 DEF Since
<1>6. \A p \in Pcb : Charged(p)' = Charged(p)
  BY <1>1, <1>2, <1>5 DEF Charged
<1>7. ASSUME NEW p \in Pcb PROVE UserCharged(p)'
  <2>1. UserTime(p)' = UserTime(p)
    BY <1>1, <1>2, <1>5 DEF UserTime
  <2>2. UserCharged(p)
    BY <1>7 DEF TimeInv
  <2>. QED BY <1>1, <2>1, <2>2 DEF UserCharged
<1>. QED BY <1>1, <1>4, <1>6, <1>7, ChargeNoMore

\* A flush as kernel time of the process that the handler is about.
LEMMA FlushTimes ==
    ASSUME PlaceInv, TimeInv, MAXTICKS < W, Here \in Pcb, at # "process",
           UNCHANGED <<TOD, elapsed, user_timer, executed, spec_areas, Here>>,
           flush_kernel_time(Here)
    PROVE  TimeInv'
<1>. HIDE DEF W
<1>. DEFINE q == Here
<1>1. /\ kernel_timer' = [kernel_timer EXCEPT ![q] = (@ + Since(tod_cache[q])) % W]
      /\ tod_cache' = [tod_cache EXCEPT ![q] = TOD] /\ Here' = q
  BY DEF flush_kernel_time, flush_reset_time
<1>. HIDE DEF q
<1>2. q \in Pcb /\ Here = q
  BY DEF q
<1>3. /\ kernel_timer' = [kernel_timer EXCEPT ![q] = @ + Since(tod_cache[q])]
      /\ kernel_timer[q] + Since(tod_cache[q]) \in 0 .. W - 1 /\ Since(TOD) = 0
  BY <1>1, <1>2, FlushFacts
<1>4. TimeTypes'
  BY <1>1, <1>2, <1>3 DEF TimeInv, TimeTypes
<1>5. ASSUME NEW p \in Pcb
      PROVE  /\ user_timer[p] \in Nat /\ kernel_timer[p] \in Nat /\ executed[p] \in Nat
             /\ Since(tod_cache[p]) \in Nat
             /\ kernel_timer'[p] = kernel_timer[p] + IF p = q THEN Since(tod_cache[p]) ELSE 0
             /\ Since(tod_cache[p])' = IF p = q THEN 0 ELSE Since(tod_cache[p])
  <2>1. /\ user_timer[p] \in Nat /\ kernel_timer[p] \in Nat /\ executed[p] \in Nat
        /\ Since(tod_cache[p]) \in Nat
    BY <1>5, ChargesTyped, ClockFacts DEF TimeInv, TimeTypes, PlaceInv
  <2>2. /\ kernel_timer'[p] = kernel_timer[p] + IF p = q THEN Since(tod_cache[p]) ELSE 0
        /\ tod_cache'[p] = IF p = q THEN TOD ELSE tod_cache[p]
    BY <1>1, <1>2, <1>3, <1>5, <2>1 DEF TimeInv, TimeTypes
  <2>. QED BY <1>3, <2>1, <2>2 DEF Since
<1>6. \A p \in Pcb : Charged(p)' = Charged(p)
  BY <1>1, <1>2, <1>5 DEF Charged
<1>7. ASSUME NEW p \in Pcb PROVE UserCharged(p)'
  <2>1. UserTime(p) = user_timer[p]
    BY <1>5, <1>7 DEF UserTime
  <2>2. UserTime(p)' = user_timer[p]
    <3>1. at' = "process" /\ p = running_proc' => p = q
      BY <1>1 DEF Here
    <3>. QED BY <1>5, <1>7, <3>1 DEF UserTime
  <2>3. UserCharged(p)
    BY <1>7 DEF TimeInv
  <2>. QED BY <2>1, <2>2, <2>3 DEF UserCharged
<1>. QED BY <1>4, <1>6, <1>7, ChargeNoMore

\* A process that gets the processor is charged from now on.  The one that
\* lost it is charged no more than what was flushed.
LEMMA SwitchTimes ==
    ASSUME PlaceInv, TimeInv, at # "process" \/ running_proc \notin Pcb,
           at' = "process", running_proc' \in Pcb, running_proc' # Here,
           UNCHANGED <<TOD, elapsed, user_timer, kernel_timer, executed, spec_areas>>,
           tod_cache' = [tod_cache EXCEPT ![running_proc'] = TOD]
    PROVE  TimeInv'
<1>. HIDE DEF W
<1>. DEFINE q == running_proc'
<1>1. q \in Pcb /\ Here' = q /\ q # Here /\ tod_cache' = [tod_cache EXCEPT ![q] = TOD]
  BY DEF Here
<1>2. TimeTypes'
  BY <1>1 DEF TimeInv, TimeTypes
<1>3. Since(TOD) = 0
  BY SinceFacts DEF Since, TimeInv, TimeTypes
<1>. HIDE DEF q
<1>4. ASSUME NEW p \in Pcb
      PROVE  /\ user_timer[p] \in Nat /\ kernel_timer[p] \in Nat /\ executed[p] \in Nat
             /\ Since(tod_cache[p]) \in Nat
             /\ p = q => Since(tod_cache[p])' = 0
  <2>1. /\ user_timer[p] \in Nat /\ kernel_timer[p] \in Nat /\ executed[p] \in Nat
        /\ Since(tod_cache[p]) \in Nat
    BY <1>4, ChargesTyped, ClockFacts DEF TimeInv, TimeTypes, PlaceInv
  <2>2. p = q => tod_cache'[p] = TOD
    BY <1>1, <1>4 DEF TimeInv, TimeTypes
  <2>. QED BY <1>3, <2>1, <2>2 DEF Since
<1>5. \A p \in Pcb : Charged(p)' = user_timer[p] + kernel_timer[p]
  BY <1>1, <1>4 DEF Charged
<1>6. \A p \in Pcb \ {Here} : Charged(p)' = Charged(p)
  BY <1>4, <1>5 DEF Charged
<1>7. ASSUME NEW p \in Pcb PROVE UserCharged(p)'
  <2>1. UserTime(p) = user_timer[p]
    BY <1>4, <1>7 DEF UserTime
  <2>2. UserTime(p)' = user_timer[p]
    BY <1>4, <1>7 DEF UserTime, q
  <2>3. UserCharged(p)
    BY <1>7 DEF TimeInv
  <2>. QED BY <2>1, <2>2, <2>3 DEF UserCharged
<1>. QED BY <1>2, <1>5, <1>6, <1>7, ChargeNoMore

\* conclude_handler, for the process that the handler is about or for another.
LEMMA ConcludeTimes ==
    ASSUME PlaceInv, TimeInv, MAXTICKS < W, conclude_handler PROVE TimeInv'
<1>. HIDE DEF W
<1>1. /\ UNCHANGED <<TOD, elapsed, user_timer, executed, spec_areas, running_proc,
                     interrupted_proc>>
      /\ at = "conclude" /\ at' = "process" /\ pc = "user"
  BY DEF conclude_handler, vars
<1>2. running_proc \in Pcb /\ Here = interrupted_proc /\ Here' = running_proc
  BY <1>1, UserShare DEF PlaceInv, QueueInv, Here
<1>3. CASE interrupted_proc = running_proc
  <2>1. flush_kernel_time(Here)
    BY <1>2, <1>3 DEF conclude_handler
  <2>. QED BY <1>1, <1>2, <1>3, <2>1, FlushTimes
<1>4. CASE interrupted_proc # running_proc
  <2>1. tod_cache' = [tod_cache EXCEPT ![running_proc'] = TOD] /\ UNCHANGED kernel_timer
    BY <1>1, <1>4 DEF conclude_handler, flush_reset_time
  <2>. QED BY <1>1, <1>2, <1>4, <2>1, SwitchTimes
<1>. QED BY <1>3, <1>4

\* launch charges the first process from the start.
LEMMA LaunchTimes == ASSUME PlaceInv, PlaceInv', TimeInv, launch_timed PROVE TimeInv'
<1>. HIDE DEF W
<1>1. /\ UNCHANGED <<TOD, elapsed, user_timer, kernel_timer, executed, spec_areas, at,
                     interrupted_proc>>
      /\ pc = "init"
  BY DEF launch_timed, launch
<1>2. at = "process" /\ running_proc = NULL /\ NULL \notin Pcb /\ Here = NULL
  BY <1>1, ProcFacts DEF PlaceInv, QueueInv, LinkInv, Here
<1>3. CASE pc' = "user"
  <2>1. running_proc' \in Pcb
    BY <1>3, UserShare DEF PlaceInv, QueueInv, LinkInv, TypeOK
  <2>2. tod_cache' = [tod_cache EXCEPT ![running_proc'] = TOD]
    BY <1>3 DEF launch_timed
  <2>. QED BY <1>1, <1>2, <2>1, <2>2, SwitchTimes
<1>4. CASE pc' # "user"
  <2>1. UNCHANGED <<tod_cache, running_proc>>
    BY <1>1, <1>4 DEF launch_timed, launch
  <2>2. Here' = Here
    BY <1>1, <2>1 DEF Here
  <2>. QED BY <1>1, <2>1, <2>2, KeepTimes
<1>. QED BY <1>3, <1>4

\* allocPcb clears the times of a PCB that no handler is about.
LEMMA ResetTimes ==
    ASSUME PlaceInv, SliceInv, TimeInv, reset_pcb, Here \notin Free,
           UNCHANGED <<TOD, elapsed, Here>>, at' = "process" <=> at = "process"
    PROVE  TimeInv'
<1>. HIDE DEF W
<1>1. CASE pcbFree = <<>>
  <2>1. UNCHANGED <<tod_cache, user_timer, kernel_timer, executed, spec_areas>>
    BY <1>1 DEF reset_pcb
  <2>. QED BY <2>1, KeepTimes
<1>2. CASE pcbFree # <<>>
  <2>1. Head(pcbFree) \in Proc /\ Head(pcbFree) \in Free
    BY <1>2, FirstAndRest DEF PlaceInv, QueueInv, LinkInv, TypeOK, Free
  <2>2. PICK q \in Pcb : q = Head(pcbFree) /\ q # Here /\ q # Here'
    BY <2>1, ProcFacts
  <2>3. /\ tod_cache' = [tod_cache EXCEPT ![q] = 0] /\ user_timer' = [user_timer EXCEPT ![q] = 0]
        /\ kernel_timer' = [kernel_timer EXCEPT ![q] = 0]
        /\ executed' = [executed EXCEPT ![q] = 0]
        /\ spec_areas' = [spec_areas EXCEPT ![q] = {}]
    BY <1>2, <2>2 DEF reset_pcb
  <2>4. TimeTypes'
    <3>1. 0 \in 0 .. W - 1
      BY ClockFacts
    <3>. QED BY <2>2, <2>3, <3>1 DEF TimeInv, TimeTypes
  <2>5. ASSUME NEW p \in Pcb
        PROVE  /\ user_timer[p] \in Nat /\ kernel_timer[p] \in Nat /\ Charged(p) \in Nat
               /\ p = q => /\ user_timer'[p] = 0 /\ kernel_timer'[p] = 0
                           /\ executed'[p] = 0 /\ spec_areas'[p] = {}
               /\ p # q => UNCHANGED <<user_timer[p], kernel_timer[p], tod_cache[p],
                                      executed[p], spec_areas[p]>>
    <3>1. user_timer[p] \in Nat /\ kernel_timer[p] \in Nat /\ Charged(p) \in Nat
      BY <2>5, ChargesTyped, ClockFacts DEF TimeInv, TimeTypes
    <3>. QED BY <2>2, <2>3, <2>5, <3>1 DEF TimeInv, TimeTypes, PlaceInv, SliceInv
  <2>6. /\ \A p \in Pcb \ {q} : Charged(p)' = Charged(p)
        /\ Charged(q)' = 0
    <3>1. ASSUME NEW p \in Pcb \ {q} PROVE Charged(p)' = Charged(p)
      <4>1. UNCHANGED <<user_timer[p], kernel_timer[p], tod_cache[p], TOD, Here>>
        BY <2>5, <3>1
      <4>. QED BY <4>1 DEF Charged, Since
    <3>2. user_timer'[q] = 0 /\ kernel_timer'[q] = 0 /\ q # Here'
      BY <2>2, <2>5
    <3>3. Charged(q)' = 0
      BY <3>2 DEF Charged
    <3>. QED BY <3>1, <3>3
  <2>7. Charged(q)' - Charged(q) <= elapsed' - elapsed
    <3>1. elapsed \in Nat /\ Charged(q) \in Nat
      BY <2>2, <2>5 DEF TimeInv, TimeTypes
    <3>. QED BY <2>6, <3>1
  <2>8. ASSUME NEW p \in Pcb PROVE UserCharged(p)'
    <3>1. at' = "process" => at = "process" /\ running_proc' = running_proc /\ running_proc' # q
      BY <2>2 DEF Here
    <3>2. CASE p = q
      BY <2>5, <3>1, <3>2 DEF UserCharged, UserTime
    <3>3. CASE p # q
      <4>1. UserTime(p)' = UserTime(p)
        BY <2>5, <2>8, <3>1, <3>3 DEF UserTime, Since
      <4>2. UserCharged(p)
        BY <2>8 DEF TimeInv
      <4>. QED BY <2>5, <2>8, <3>3, <4>1, <4>2 DEF UserCharged
    <3>. QED BY <3>2, <3>3
  <2>. QED BY <2>2, <2>4, <2>6, <2>7, <2>8, Recharge
<1>. QED BY <1>1, <1>2

\* A tick is charged to the process that runs, or that a handler is about.
LEMMA TickTimes == ASSUME PlaceInv, TimeInv, MAXTICKS < W, tick PROVE TimeInv'
<1>. HIDE DEF W
<1>1. /\ UNCHANGED <<tod_cache, user_timer, kernel_timer, spec_areas, running_proc, Here, at>>
      /\ pc = "user" /\ elapsed < MAXTICKS /\ elapsed' = elapsed + 1
      /\ TOD' = (TOD + 1) % W
      /\ \/ at = "process" /\ executed' = [executed EXCEPT ![running_proc] = @ + 1]
         \/ at # "process" /\ executed' = executed
  BY DEF tick, vars, timeVars, Here
<1>2. running_proc \in Pcb
  BY <1>1, UserShare DEF PlaceInv, QueueInv
<1>3. elapsed \in Nat /\ elapsed + 1 \in 0 .. MAXTICKS /\ elapsed # MAXTICKS /\ idle_proc \in Pcb
  BY <1>1, ClockAssumption, ProcFacts DEF TimeInv, TimeTypes
<1>4. ASSUME NEW p \in Pcb
      PROVE  /\ user_timer[p] \in Nat /\ kernel_timer[p] \in Nat /\ executed[p] \in Nat
             /\ Since(tod_cache[p]) \in Nat
             /\ p = Here => Since(tod_cache[p])' = Since(tod_cache[p]) + 1
  <2>1. /\ user_timer[p] \in Nat /\ kernel_timer[p] \in Nat /\ executed[p] \in Nat
        /\ Since(tod_cache[p]) \in Nat
    BY <1>4, ChargesTyped, ClockFacts DEF TimeInv, TimeTypes, PlaceInv
  <2>2. p = Here => Since(tod_cache[p]) + 1 < W
    BY <1>3, <1>4, FlushFacts
  <2>3. p = Here => Since(tod_cache[p])' = Since(tod_cache[p]) + 1
    BY <1>1, <1>4, <2>2, SinceFacts DEF Since, TimeInv, TimeTypes
  <2>. QED BY <2>1, <2>3
<1>5. TimeTypes'
  <2>1. TOD' \in 0 .. W - 1
    BY <1>1, ClockFacts DEF TimeInv, TimeTypes
  <2>. QED BY <1>1, <1>3, <2>1 DEF TimeInv, TimeTypes
<1>6. \A p \in Pcb : Charged(p)' = IF p = Here THEN Charged(p) + 1 ELSE Charged(p)
  BY <1>1, <1>4 DEF Charged
<1>7. ASSUME NEW p \in Pcb PROVE UserCharged(p)'
  <2>1. UserCharged(p)
    BY <1>7 DEF TimeInv
  <2>2. CASE at = "process" /\ p = running_proc
    <3>1. UserTime(p)' = UserTime(p) + 1 /\ UserTime(p) \in Nat
      BY <1>1, <1>4, <1>7, <2>2 DEF UserTime, Here
    <3>2. executed'[p] = executed[p] + 1
      BY <1>1, <1>7, <2>2 DEF PlaceInv
    <3>. QED BY <1>1, <1>4, <1>7, <2>1, <3>1, <3>2 DEF UserCharged
  <2>3. CASE ~(at = "process" /\ p = running_proc)
    <3>1. UserTime(p)' = UserTime(p)
      BY <1>1, <1>4, <1>7, <2>3 DEF UserTime
    <3>2. executed'[p] = executed[p]
      BY <1>1, <1>7, <2>3 DEF PlaceInv
    <3>. QED BY <1>1, <2>1, <3>1, <3>2 DEF UserCharged
  <2>. QED BY <2>2, <2>3
<1>8. \A p \in Pcb : Charged(p) \in Nat
  BY ChargesTyped DEF TimeInv
<1>9. CASE Here \in Pcb
  <2>1. PICK q \in Pcb : q = Here
    BY <1>9
  <2>2. /\ \A p \in Pcb \ {q} : Charged(p)' = Charged(p)
        /\ Charged(q)' = Charged(q) + 1
    BY <1>6, <2>1
  <2>3. Charged(q)' - Charged(q) <= elapsed' - elapsed
    BY <1>1, <1>3, <1>8, <2>2
  <2>. QED BY <1>5, <1>7, <2>2, <2>3, Recharge
<1>10. CASE Here \notin Pcb
  <2>1. \A p \in Pcb : Charged(p)' = Charged(p)
    BY <1>6, <1>10
  <2>2. Charged(idle_proc)' - Charged(idle_proc) <= elapsed' - elapsed
    BY <1>1, <1>3, <1>8, <2>1
  <2>. QED BY <1>3, <1>5, <1>7, <2>1, <2>2, Recharge
<1>. QED BY <1>9, <1>10

\* Every other step of a handler.
LEMMA HandlingTimes ==
    ASSUME PlaceInv, SliceInv, TimeInv, MAXTICKS < W, HandlerNext, ~boot, ~launch_timed, ~tick,
           ~conclude_handler, ~create_process_timed,
           ~(\E exc \in {SYS, INT} \cup Traps : start_handler(exc))
    PROVE  TimeInv'
<1>. HIDE DEF W
<1>1. /\ at \in Exceptions => interrupted_proc = running_proc /\ running_proc \in Pcb
      /\ Killing => at = "conclude"
      /\ spec_areas \in [Pcb -> SUBSET {SYS, TLB, PRG}]
  BY UserShare DEF PlaceInv, QueueInv, SliceInv
<1>2. /\ SYS \in Exceptions /\ INT \in Exceptions /\ Traps \subseteq Exceptions
      /\ "process" \notin Exceptions /\ "conclude" \notin Exceptions /\ "panic" \notin Exceptions
  BY ExceptionFacts
<1>. DEFINE Still == UNCHANGED <<TOD, elapsed, tod_cache, user_timer, kernel_timer, executed,
                                 interrupted_proc>>
<1>3. ASSUME at \in Exceptions \cup {"conclude"}, at' \in {"conclude", "panic"}, Still,
             \A p \in Pcb : spec_areas'[p] = spec_areas[p] \/ spec_areas'[p] # {}
      PROVE  TimeInv'
  <2>1. Here' = Here /\ at # "process" /\ at' # "process"
    BY <1>2, <1>3 DEF Here
  <2>. QED BY <1>3, <2>1, KeepTimes
<1>4. ASSUME NEW p, terminate_timed(p), at \in Exceptions PROVE TimeInv'
  <2>1. at' = "conclude" /\ Still /\ spec_areas' = spec_areas
    BY <1>4 DEF terminate_timed, timeVars, historyVars
  <2>. QED BY <1>3, <1>4, <2>1
<1>5. ASSUME at \in Exceptions, flush_kernel_time(running_proc),
             UNCHANGED <<TOD, elapsed, user_timer, executed, spec_areas, interrupted_proc>>,
             at' = "process" => UNCHANGED running_proc
      PROVE  TimeInv'
  <2>1. Here = running_proc /\ Here \in Pcb /\ at # "process" /\ Here' = Here
    BY <1>1, <1>2, <1>5 DEF Here
  <2>. QED BY <1>5, <2>1, FlushTimes
<1>6. CASE query \/ handle_interrupt \/ unrecognised \/ \E k \in Sem : verhogen_timed(k)
  <2>1. at \in Exceptions /\ at' \in {"conclude", "panic"} /\ Still /\ spec_areas' = spec_areas
    BY <1>2, <1>6 DEF query, handle_interrupt, verhogen_timed, unrecognised,
                      timeVars, historyVars
  <2>. QED BY <1>3, <2>1
<1>7. ASSUME NEW k \in Sem, passeren_timed(k) PROVE TimeInv'
  <2>1. /\ at \in Exceptions /\ at' = "conclude"
        /\ UNCHANGED <<TOD, elapsed, user_timer, executed, spec_areas, interrupted_proc>>
        /\ flush_kernel_time(running_proc) \/ UNCHANGED <<kernel_timer, tod_cache>>
    BY <1>2, <1>7 DEF passeren_timed, historyVars
  <2>2. CASE flush_kernel_time(running_proc)
    BY <1>5, <2>1, <2>2
  <2>. QED BY <1>3, <2>1, <2>2
<1>8. ASSUME NEW code \in Codes, specpassup(code) PROVE TimeInv'
  <2>1. at \in Exceptions
    BY <1>2, <1>8 DEF specpassup
  <2>2. CASE terminate_timed(running_proc)
    BY <1>4, <2>1, <2>2
  <2>3. CASE /\ at' = "conclude" /\ Still
             /\ spec_areas' = [spec_areas EXCEPT ![running_proc] = @ \cup {area_type(code)}]
    <3>1. \A p \in Pcb : spec_areas'[p] = spec_areas[p] \/ spec_areas'[p] # {}
      BY <1>1, <2>1, <2>3
    <3>. QED BY <1>3, <2>1, <2>3, <3>1
  <2>. QED BY <1>8, <2>2, <2>3 DEF specpassup, timeVars, historyVars
<1>9. CASE pass_up_syscall
  <2>1. at \in Exceptions /\ at = SYS
    BY <1>2, <1>9 DEF pass_up_syscall
  <2>2. CASE launch_spec_area(SYS) /\ flush_kernel_time(interrupted_proc)
    <3>1. UNCHANGED <<TOD, elapsed, user_timer, executed, spec_areas, interrupted_proc,
                      running_proc>>
      BY <2>2 DEF launch_spec_area, vars, historyVars
    <3>. QED BY <1>1, <1>5, <2>1, <2>2, <3>1
  <2>3. CASE \E p : terminate_timed(p)
    BY <1>4, <2>1, <2>3
  <2>. QED BY <1>9, <2>2, <2>3 DEF pass_up_syscall
<1>10. CASE ~unrecognised /\ (pass_up_breakpoint \/ \E exc \in Traps : pass_up_trap(exc))
  <2>1. \E exc \in Exceptions :
            /\ at = exc
            /\ \/ launch_spec_area(exc) /\ UNCHANGED <<kernel_timer, tod_cache>>
               \/ \E p : terminate_timed(p)
    BY <1>2, <1>10 DEF pass_up_breakpoint, pass_up_trap
  <2>. QED BY <1>4, <2>1, PassUpTimes
<1>11. CASE terminating_timed
  <2>1. Killing /\ Still /\ spec_areas' = spec_areas /\ at' = at
    BY <1>11 DEF terminating_timed, terminating, recursive_remove_proc, remove_child,
         remove_return, terminate_return, Killing, handlerVars, timeVars, historyVars
  <2>. QED BY <1>1, <1>3, <2>1
<1>12. CASE halted_timed
  <2>1. UNCHANGED <<vars, handlerVars>>
    BY <1>12 DEF halted_timed, halted
  <2>2. Still /\ UNCHANGED <<running_proc, at, spec_areas, Here>>
    BY <2>1 DEF vars, handlerVars, timeVars, historyVars, Here
  <2>. QED BY <2>2, KeepTimes
<1>13. CASE \E p \in Proc : at = SYS /\ terminate_timed(p)
  BY <1>2, <1>4, <1>13
<1>. QED BY <1>6, <1>7, <1>8, <1>9, <1>10, <1>11, <1>12, <1>13 DEF HandlerNext, system_call

\* A process is created, at the start or by another.
LEMMA AllocTimes ==
    ASSUME PlaceInv, SliceInv, TimeInv, boot \/ create_process_timed PROVE TimeInv'
<1>. HIDE DEF W
<1>1. /\ LinkInv /\ SYS \in Exceptions
      /\ "process" \notin Exceptions /\ "conclude" \notin Exceptions
  BY ExceptionFacts DEF PlaceInv, QueueInv
<1>2. CASE boot
  <2>1. PICK prio \in Priorities : init_proc(prio)
    BY <1>2 DEF boot
  <2>2. /\ UNCHANGED <<TOD, elapsed, Here, at>> /\ reset_pcb
        /\ pc = "init" /\ at = "process" /\ running_proc = NULL
    BY <1>1, <1>2, <2>1 DEF boot, init_proc, PlaceInv, LinkInv, Here
  <2>3. Here \notin Free
    <3>1. Free \subseteq Proc
      BY <1>1, RangeOfSeq DEF LinkInv, TypeOK, Free
    <3>. QED BY <2>2, <3>1, ProcFacts DEF Here
  <2>. QED BY <2>2, <2>3, ResetTimes
<1>3. CASE create_process_timed
  <2>1. /\ at = SYS /\ at' = "conclude" /\ reset_pcb /\ InSyscall
        /\ UNCHANGED <<TOD, elapsed, interrupted_proc>>
    BY <1>3 DEF create_process_timed, create_process
  <2>2. interrupted_proc = running_proc /\ pc = "user"
    BY <1>1, <2>1 DEF PlaceInv
  <2>3. Here = running_proc /\ Here' = Here
    BY <1>1, <2>1, <2>2 DEF Here
  <2>4. Here \notin Free
    BY <1>1, <2>1, <2>2, <2>3, UserShare
  <2>. QED BY <1>1, <2>1, <2>3, <2>4, ResetTimes
<1>. QED BY <1>2, <1>3

LEMMA TimeInvNext ==
    ASSUME MAXTICKS < W
    PROVE  PlaceInv /\ PlaceInv' /\ SliceInv /\ TimeInv /\ [HandlerNext]_allVars => TimeInv'
<1>. HIDE DEF W
<1>. SUFFICES ASSUME PlaceInv, PlaceInv', SliceInv, TimeInv, [HandlerNext]_allVars PROVE TimeInv'
  OBVIOUS
<1>1. CASE UNCHANGED allVars
  <2>1. UNCHANGED <<TOD, elapsed, tod_cache, user_timer, kernel_timer, executed, Here, at,
                    spec_areas>>
    BY <1>1 DEF allVars, vars, handlerVars, timeVars, historyVars, Here
  <2>. QED BY <2>1, KeepTimes
<1>2. ASSUME NEW exc \in {SYS, INT} \cup Traps, start_handler(exc) PROVE TimeInv'
  BY <1>2, ExceptionFacts, StartTimes
<1>. QED BY <1>1, <1>2, LaunchTimes, TickTimes, ConcludeTimes, AllocTimes, HandlingTimes

LEMMA TimeInvInit == HandlerInit => TimeInv
<1>. HIDE DEF W
<1>. SUFFICES ASSUME HandlerInit PROVE TimeInv
  OBVIOUS
<1>1. /\ W \in Nat /\ 0 \in 0 .. W - 1 /\ MAXTICKS \in Nat /\ Boot \subseteq 0 .. W - 1
      /\ idle_proc \in Pcb /\ NULL \notin Pcb
  BY ClockFacts, ClockAssumption, ProcFacts DEF W
<1>2. /\ TOD \in Boot /\ elapsed = 0 /\ tod_cache = [p \in Pcb |-> 0]
      /\ user_timer = [p \in Pcb |-> 0] /\ kernel_timer = [p \in Pcb |-> 0]
      /\ executed = [p \in Pcb |-> 0] /\ spec_areas = [p \in Pcb |-> {}]
      /\ running_proc = NULL /\ at = "process"
  BY DEF HandlerInit, Init
<1>3. TimeTypes
  BY <1>1, <1>2 DEF TimeTypes
<1>4. Here = NULL /\ \A p \in Pcb : p # running_proc /\ p # Here
  BY <1>1, <1>2 DEF Here
<1>5. \A p \in Pcb : Charged(p) = 0 /\ UserCharged(p)
  BY <1>2, <1>4 DEF Charged, UserCharged, UserTime
<1>6. Charges \in [Pcb -> Nat] /\ \A p \in Pcb : Charges[p] = 0
  BY <1>5 DEF Charges
<1>7. Total(Charges) = 0
  BY <1>6, TotalZero
<1>8. Total(Charges) <= elapsed
  BY <1>2, <1>7
<1>. QED BY <1>3, <1>5, <1>8 DEF TimeInv

\* GETCPUTIME loses no user time and counts no tick twice, whichever process
\* each handler ends in and although the TOD wraps around (handler.c:135-166,
\* scheduler.c:323-337): proved for every number of PCBs, every width of the
\* clock and every time of observation that the clock can count.
THEOREM TimesAccounted == ASSUME MAXTICKS < W PROVE HandlerSpec => []TimeAccounted
<1>. HIDE DEF W
<1>1. PlaceInv /\ TimeInv => TimeAccounted
  <2>. SUFFICES ASSUME PlaceInv, TimeInv PROVE TimeAccounted
    OBVIOUS
  <2>1. /\ LinkInv /\ SYS \in Exceptions /\ "process" \notin Exceptions
    BY ExceptionFacts DEF PlaceInv, QueueInv
  <2>2. ASSUME NEW p \in Pcb
        PROVE  /\ user_timer[p] \in Nat /\ kernel_timer[p] \in Nat /\ UserCharged(p)
    BY <2>2, ClockFacts DEF TimeInv, TimeTypes
  <2>3. ASSUME at = SYS, pc = "user"
        PROVE  /\ GETCPUTIME.user + GETCPUTIME.kernel <= elapsed
               /\ spec_areas[interrupted_proc] = {} =>
                     GETCPUTIME.user = executed[interrupted_proc]
    <3>1. /\ interrupted_proc \in Pcb /\ Here = interrupted_proc /\ at # "process"
      BY <2>1, <2>3, UserShare DEF PlaceInv, Here
    <3>2. /\ GETCPUTIME.user = user_timer[Here]
          /\ GETCPUTIME.kernel = kernel_timer[Here] + Since(tod_cache[Here])
      BY <3>1, FlushFacts DEF GETCPUTIME
    <3>3. GETCPUTIME.user + GETCPUTIME.kernel <= elapsed
      <4>1. /\ user_timer[Here] \in Nat /\ kernel_timer[Here] \in Nat
            /\ Since(tod_cache[Here]) \in Nat
        BY <2>2, <3>1, ChargesTyped, ClockFacts DEF TimeInv
      <4>2. user_timer[Here] + kernel_timer[Here] + Since(tod_cache[Here]) <= elapsed
        BY <3>1, FlushFacts
      <4>3. elapsed \in Nat
        BY DEF TimeInv, TimeTypes
      <4>. HIDE DEF Here
      <4>. QED BY <3>2, <4>1, <4>2, <4>3
    <3>4. UserTime(interrupted_proc) = user_timer[interrupted_proc]
      BY <2>2, <3>1 DEF UserTime
    <3>. QED BY <2>2, <3>1, <3>2, <3>3, <3>4 DEF UserCharged
  <2>4. ASSUME Running, NEW p \in Proc \ Free
        PROVE  LET user == user_timer[p] + IF p = running_proc THEN Since(tod_cache[p]) ELSE 0
               IN  IF spec_areas[p] = {} THEN user = executed[p] ELSE user >= executed[p]
    <3>1. p \in Pcb /\ at = "process"
      BY <2>4, ProcFacts DEF Running
    <3>. QED BY <2>2, <3>1 DEF UserCharged, UserTime
  <2>5. ASSUME Running PROVE Total([p \in Pcb |-> TimeOf(p)]) <= elapsed
    <3>1. Charges = [p \in Pcb |-> TimeOf(p)]
      BY <2>5 DEF Charges, Charged, TimeOf, Running, Here
    <3>. QED BY <3>1 DEF TimeInv
  <2>. QED BY <2>3, <2>4, <2>5 DEF TimeAccounted
<1>2. HandlerSpec => [](PlaceInv /\ SliceInv /\ TimeInv)
  BY PlaceInvInit, PlaceInvNext, SliceInvInit, SliceInvNext, TimeInvInit, TimeInvNext,
     PTL DEF HandlerSpec
<1>. QED BY <1>1, <1>2, PTL
=============================================================================
