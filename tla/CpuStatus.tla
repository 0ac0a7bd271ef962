----------------------------- MODULE CpuStatus -----------------------------
(***************************************************************************)
(* The status of the processor: the operations of system.h on the status   *)
(* word of a state_t, for uMPS and for uARM, who calls them, and where the *)
(* words go at an exception and when the handler concludes.                *)
(*                                                                         *)
(* A status is the set of its bits that are 1, the bit of CP15 for virtual *)
(* memory included.  On uMPS the bits KU (user mode), IE and VM are stacks *)
(* of a current (c), a previous (p) and an old (o) bit.  The new areas of  *)
(* the four exceptions are set alike: new_area is any of them.             *)
(***************************************************************************)
CONSTANTS
    Proc,           \* the starting processes
    idle_proc,
    Garbage,        \* what the new areas may hold before they are initialized,
    NULL            \* by target

ASSUME CpuProcAssumption == idle_proc \notin Proc /\ NULL \notin Proc \cup {idle_proc}

VARIABLES
    target,         \* "UMPS" or "UARM"
    at,             \* "boot", "init", "process" or "handler"
    status,         \* of the processor
    new_area,
    old_area,
    p_s,            \* of each PCB
    running_proc,
    interrupted_proc,
    data            \* of each populated PCB: its proc_init_data

cpuVars == <<target, at, status, new_area, old_area, p_s, running_proc, interrupted_proc, data>>

Pcb == Proc \cup {idle_proc}
Umps == target = "UMPS"

If(bits, on) == IF on THEN bits ELSE {}

-----------------------------------------------------------------------------
(* system_mps.c and system_arm.c.  The masks are those of the headers of   *)
(* the target; on uARM I and F disable the interrupts, F the timer's.      *)

UmpsBits == {"KUc", "KUp", "KUo", "IEc", "IEp", "IEo", "VMc", "VMp", "VMo",
             "IM_TIMER", "IM_OTHER"}
UarmBits == {"SYS", "USR", "I", "F", "VM"}      \* SYS, USR: the mode

reset_state == {}

\* User mode is never asked for on uMPS: it would set every bit but KUc.
set_kernel_mode_mps(s, on) == IF on THEN s \ {"KUc"} ELSE s \cup (UmpsBits \ {"KUc"})
set_virtual_mem_mps(s, on) == (s \ {"VMc"}) \cup If({"VMc"}, on)
set_interval_timer_interrupts_mps(s, on) ==
    IF on THEN s \cup {"IM_TIMER", "IEc"} ELSE s \ {"IM_TIMER"}
set_other_interrupts_mps(s, on) == IF on THEN s \cup {"IM_OTHER", "IEc"} ELSE s \ {"IM_OTHER"}

set_kernel_mode_arm(s, on) == (s \ {"SYS", "USR"}) \cup IF on THEN {"SYS"} ELSE {"USR"}
set_virtual_mem_arm(s, on) == (s \ {"VM"}) \cup If({"VM"}, on)
set_interval_timer_interrupts_arm(s, on) == IF on THEN s \ {"F"} ELSE s \cup {"F"}
set_other_interrupts_arm(s, on) == IF on THEN s \ {"I"} ELSE s \cup {"I"}

\* one of the two files is compiled
set_kernel_mode(s, on) == IF Umps THEN set_kernel_mode_mps(s, on) ELSE set_kernel_mode_arm(s, on)
set_virtual_mem(s, on) == IF Umps THEN set_virtual_mem_mps(s, on) ELSE set_virtual_mem_arm(s, on)
set_interval_timer_interrupts(s, on) ==
    IF Umps THEN set_interval_timer_interrupts_mps(s, on) ELSE set_interval_timer_interrupts_arm(s, on)
set_other_interrupts(s, on) ==
    IF Umps THEN set_other_interrupts_mps(s, on) ELSE set_other_interrupts_arm(s, on)

-----------------------------------------------------------------------------
(* The processor: an exception pushes the stacks of uMPS, LDST pops them   *)

push(s) ==
    IF Umps
    THEN (s \cap {"IM_TIMER", "IM_OTHER"})
         \cup If({"KUp"}, "KUc" \in s) \cup If({"KUo"}, "KUp" \in s)
         \cup If({"IEp"}, "IEc" \in s) \cup If({"IEo"}, "IEp" \in s)
         \cup If({"VMp"}, "VMc" \in s) \cup If({"VMo"}, "VMp" \in s)
    ELSE s

LDST(s) ==
    IF Umps
    THEN (s \cap {"IM_TIMER", "IM_OTHER", "KUo", "IEo", "VMo"})
         \cup If({"KUc"}, "KUp" \in s) \cup If({"KUp"}, "KUo" \in s)
         \cup If({"IEc"}, "IEp" \in s) \cup If({"IEp"}, "IEo" \in s)
         \cup If({"VMc"}, "VMp" \in s) \cup If({"VMp"}, "VMo" \in s)
    ELSE s

\* what a status means for the program that runs with it
Mode(s) ==
    IF Umps
    THEN [km_on |-> "KUc" \notin s, vm_on |-> "VMc" \in s,
          timer_int_on  |-> {"IEc", "IM_TIMER"} \subseteq s,
          other_ints_on |-> {"IEc", "IM_OTHER"} \subseteq s]
    ELSE [km_on |-> "SYS" \in s, vm_on |-> "VM" \in s,
          timer_int_on |-> "F" \notin s, other_ints_on |-> "I" \notin s]

-----------------------------------------------------------------------------
(* The kernel *)

proc_init_data ==
    [km_on : BOOLEAN, vm_on : BOOLEAN, timer_int_on : BOOLEAN, other_ints_on : BOOLEAN]

ASSUME NullAssumption == NULL \notin proc_init_data

idle_proc_data == [km_on |-> TRUE, vm_on |-> FALSE, timer_int_on |-> TRUE, other_ints_on |-> TRUE]

CpuInit ==
    /\ target \in {"UMPS", "UARM"}
    /\ at = "boot"
    /\ new_area \in Garbage[target]
    /\ status = {} /\ old_area = {} /\ p_s = [p \in Pcb |-> reset_state]
    /\ running_proc = NULL /\ interrupted_proc = NULL
    /\ data = [p \in Pcb |-> NULL]

\* Mutant: the timer's interrupt stays as the area had it.
init_new_area_Timer(area) ==
    set_other_interrupts(set_virtual_mem(set_kernel_mode(area, TRUE), FALSE), FALSE)

\* the area is not reset first
init_new_area(area) ==
    set_other_interrupts(
        set_interval_timer_interrupts(
            set_virtual_mem(set_kernel_mode(area, TRUE), FALSE), FALSE), FALSE)

initialize_new_areas ==
    /\ at = "boot"
    /\ at' = "init"
    /\ new_area' = init_new_area(new_area)
    /\ UNCHANGED <<target, status, old_area, p_s, running_proc, interrupted_proc, data>>

\* Mutant: the global switch is left to set_..._interrupts, which set IEc.
populated_NoPrevious(d) ==
    LET lines == set_other_interrupts(
                     set_interval_timer_interrupts(reset_state, d.timer_int_on), d.other_ints_on)
    IN  IF Umps
        THEN set_virtual_mem(lines, FALSE) \cup If({"KUp"}, ~d.km_on) \cup If({"VMp"}, d.vm_on)
        ELSE set_kernel_mode(set_virtual_mem(lines, d.vm_on), d.km_on)

\* populate_pcb on a PCB that has been reset: on uMPS it sets the previous
\* bits, which the first LDST makes the current ones
populated(d) ==
    LET lines == set_other_interrupts(
                     set_interval_timer_interrupts(reset_state, d.timer_int_on), d.other_ints_on)
    IN  IF Umps
        THEN set_virtual_mem(lines, FALSE) \cup If({"KUp"}, ~d.km_on) \cup If({"VMp"}, d.vm_on)
             \cup If({"IEp"}, d.timer_int_on \/ d.other_ints_on)
        ELSE set_kernel_mode(set_virtual_mem(lines, d.vm_on), d.km_on)

populate_pcb(p, d) ==
    /\ at = "init" /\ data[p] = NULL
    /\ p_s' = [p_s EXCEPT ![p] = populated(d)]
    /\ data' = [data EXCEPT ![p] = d]
    /\ UNCHANGED <<target, at, status, new_area, old_area, running_proc, interrupted_proc>>

\* Mutant: the idle process is not set up.
launch_NoIdle(p) ==
    /\ at = "init" /\ data[p] # NULL
    /\ at' = "process"
    /\ running_proc' = p
    /\ status' = LDST(p_s[p])
    /\ UNCHANGED <<target, new_area, old_area, p_s, interrupted_proc, data>>

\* after init_scheduler, which sets up the idle process last
launch(p) ==
    /\ at = "init" /\ data[p] # NULL /\ data[idle_proc] # NULL
    /\ at' = "process"
    /\ running_proc' = p
    /\ status' = LDST(p_s[p])
    /\ UNCHANGED <<target, new_area, old_area, p_s, interrupted_proc, data>>

\* any exception: the processor saves its state and loads the new area's
exception ==
    /\ at = "process"
    /\ at' = "handler"
    /\ interrupted_proc' = running_proc
    /\ old_area' = push(status)
    /\ status' = new_area
    /\ UNCHANGED <<target, new_area, p_s, running_proc, data>>

\* conclude_handler, with p the process that runs next
conclude_handler(p) ==
    /\ at = "handler" /\ (p = idle_proc \/ data[p] # NULL)
    /\ at' = "process"
    /\ running_proc' = p
    /\ \/ /\ p = interrupted_proc
          /\ status' = LDST(old_area)
          /\ UNCHANGED p_s
       \/ /\ p # interrupted_proc
          /\ status' = LDST(p_s[p])
          /\ p_s' = IF interrupted_proc = idle_proc THEN p_s
                    ELSE [p_s EXCEPT ![interrupted_proc] = old_area]
    /\ UNCHANGED <<target, new_area, old_area, interrupted_proc, data>>

CpuNext ==
    \/ initialize_new_areas
    \/ \E p \in Proc, d \in proc_init_data : populate_pcb(p, d)
    \/ populate_pcb(idle_proc, idle_proc_data)
    \/ \E p \in Proc : launch(p)
    \/ exception
    \/ \E p \in Pcb : conclude_handler(p)

CpuSpec == CpuInit /\ [][CpuNext]_cpuVars

-----------------------------------------------------------------------------
(* Properties *)

\* The types of the state.
CpuTypeOK ==
    /\ target \in {"UMPS", "UARM"}
    /\ at \in {"boot", "init", "process", "handler"}
    /\ p_s \in [Pcb -> SUBSET (UmpsBits \cup UarmBits)]
    /\ data \in [Pcb -> proc_init_data \cup {NULL}]
    /\ at \in {"process", "handler"} => running_proc \in Pcb /\ data[running_proc] # NULL
    /\ at = "handler" => interrupted_proc = running_proc

\* A handler runs in kernel mode, with virtual memory off and with no line
\* that could interrupt it, whatever the new area held before it was set up:
\* init_new_area clears bits one by one and leaves the others alone
\* (system.c:6), IEc among them.
HandlersAreShielded ==
    at = "handler" =>
        Mode(status) = [km_on |-> TRUE, vm_on |-> FALSE,
                        timer_int_on |-> FALSE, other_ints_on |-> FALSE]

\* A starting process runs with the mode, the virtual memory and the interrupts
\* of its proc_init_data, the first time as after any sequence of exceptions
\* and changes of process: what populate_pcb writes is what LDST pops
\* (scheduler.c:260-264).
RunsAsRequested == at = "process" => Mode(status) = data[running_proc]
=============================================================================
