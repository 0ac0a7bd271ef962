------------------------------ MODULE Handler ------------------------------
(***************************************************************************)
(* The exception handlers of handler.c around the operations of Scheduler: *)
(* what start_handler and conclude_handler do with the CPU state, the TOD, *)
(* the interval timer and the times charged to a process, and pass-up.     *)
(*                                                                         *)
(* A handler is three steps: it starts, it does its work, it concludes.    *)
(* Time passes between them.  The state of a process is abstracted to its  *)
(* position, the number of ticks it has executed; its pass-up handlers     *)
(* count as the process.  Devices belong to Nucleus: an interrupt that is  *)
(* not the interval timer's does nothing here.                             *)
(***************************************************************************)
EXTENDS Scheduler

CONSTANTS
    time_slice,     \* ticks; clock_ticks_per_time_slice
    TODBITS,        \* width of the TOD, the timers and their sums
    Boot,           \* values of the TOD at the start
    Codes,          \* exceptions that SPECPASSUP is called for: 0 SYS, 1 TLB, 2 PRG
    MAXTICKS        \* bound: how long the system is observed

W == 2 ^ TODBITS
ASSUME ClockAssumption == /\ time_slice \in Nat \ {0} /\ TODBITS \in Nat /\ MAXTICKS \in Nat
                          /\ time_slice + 1 < W /\ Boot \subseteq 0 .. W - 1
ASSUME CodesAssumption == Codes \subseteq 0 .. 2

VARIABLES
    at,                 \* "process", the exception in hand, "conclude" or "panic"
    interrupted_proc,
    TOD,
    INTERVAL_TIMER,
    timer_line,         \* the interval timer went below 0 and was not written since
    int_timer_cache,
    tod_cache, user_timer, kernel_timer, tod_at_start,  \* of each PCB
    spec_areas,         \* of each PCB: the exception types whose areas are set
    cpu,                \* the processor's state while a process runs
    old_area,           \* the old area of the exception in hand
    p_s,                \* of each PCB
    executed,           \* history: ticks a PCB has run
    dispatched,         \* history: the PCBs that have run since they were allocated
    ran,                \* history: ticks run of the current time slice
    elapsed             \* history: ticks in all

timerVars   == <<INTERVAL_TIMER, timer_line>>
timeVars    == <<tod_cache, user_timer, kernel_timer, tod_at_start>>
stateVars   == <<cpu, old_area, p_s>>
historyVars == <<executed, dispatched, ran>>
handlerVars == <<at, interrupted_proc, TOD, timerVars, int_timer_cache, timeVars,
                 spec_areas, stateVars, historyVars, elapsed>>
allVars == <<vars, handlerVars>>

\* Exception types (system.h:10), and the type that a code of SPECPASSUP stands for.
SYS == "SYS"
PRG == "PRG"
TLB == "TLB"
INT == "INT"
area_type(code) == IF code = 0 THEN SYS ELSE IF code = 1 THEN TLB ELSE PRG
Traps == {area_type(code) : code \in Codes} \ {SYS}

Since(t) == (TOD - t + W) % W

HandlerInit ==
    /\ Init
    /\ at = "process" /\ interrupted_proc = NULL
    /\ TOD \in Boot /\ INTERVAL_TIMER = 0 /\ timer_line = FALSE /\ int_timer_cache = 0
    /\ tod_cache = [p \in Pcb |-> 0] /\ tod_at_start = [p \in Pcb |-> 0]
    /\ user_timer = [p \in Pcb |-> 0] /\ kernel_timer = [p \in Pcb |-> 0]
    /\ spec_areas = [p \in Pcb |-> {}]
    /\ cpu = 0 /\ old_area = 0 /\ p_s = [p \in Pcb |-> 0]
    /\ executed = [p \in Pcb |-> 0] /\ dispatched = {} /\ ran = 0 /\ elapsed = 0

\* The timer is written, which acknowledges its interrupt.
set_timer(ticks) == INTERVAL_TIMER' = ticks /\ timer_line' = FALSE

flush_reset_time(p) == tod_cache' = [tod_cache EXCEPT ![p] = TOD]

\* Mutant: tod_cache is not brought up to date.
flush_user_time_KeepsCache(p) ==
    /\ user_timer' = [user_timer EXCEPT ![p] = (@ + Since(tod_cache[p])) % W]
    /\ UNCHANGED tod_cache

flush_user_time(p) ==
    /\ user_timer' = [user_timer EXCEPT ![p] = (@ + Since(tod_cache[p])) % W]
    /\ flush_reset_time(p)

flush_kernel_time(p) ==
    /\ kernel_timer' = [kernel_timer EXCEPT ![p] = (@ + Since(tod_cache[p])) % W]
    /\ flush_reset_time(p)

\* the fields of the PCB that allocPcb takes from the free list, if there is one
reset_pcb ==
    LET zeroed(f) == IF pcbFree = <<>> THEN f ELSE [f EXCEPT ![Head(pcbFree)] = 0]
    IN  /\ tod_cache' = zeroed(tod_cache) /\ tod_at_start' = zeroed(tod_at_start)
        /\ user_timer' = zeroed(user_timer) /\ kernel_timer' = zeroed(kernel_timer)
        /\ p_s' = zeroed(p_s) /\ executed' = zeroed(executed)
        /\ spec_areas' = IF pcbFree = <<>> THEN spec_areas
                         ELSE [spec_areas EXCEPT ![Head(pcbFree)] = {}]
        /\ dispatched' = IF pcbFree = <<>> THEN dispatched ELSE dispatched \ {Head(pcbFree)}

-----------------------------------------------------------------------------
(* Start-up *)

boot ==
    /\ \E prio \in Priorities : init_proc(prio)
    /\ reset_pcb
    /\ UNCHANGED <<at, interrupted_proc, TOD, timerVars, int_timer_cache, cpu, old_area,
                   ran, elapsed>>

launch_timed ==
    /\ launch
    /\ IF pc' = "user"
       THEN /\ tod_at_start' = [tod_at_start EXCEPT ![running_proc'] = TOD]
            /\ tod_cache' = [tod_cache EXCEPT ![running_proc'] = TOD]
            /\ set_timer(time_slice)
            /\ cpu' = p_s[running_proc']
            /\ dispatched' = {running_proc'}
       ELSE UNCHANGED <<tod_at_start, tod_cache, timerVars, cpu, dispatched>>
    /\ UNCHANGED <<at, interrupted_proc, TOD, int_timer_cache, user_timer, kernel_timer,
                   spec_areas, old_area, p_s, executed, ran, elapsed>>

-----------------------------------------------------------------------------
(* Time.  A pending timer interrupt is taken before the process goes on,   *)
(* and the handlers that keep it waiting do not take so long that the      *)
(* timer, which wrapped around, is back at the length of a slice.          *)

tick ==
    /\ pc = "user" /\ elapsed < MAXTICKS
    /\ timer_line => INTERVAL_TIMER > time_slice + 1
    /\ elapsed' = elapsed + 1
    /\ TOD' = (TOD + 1) % W
    /\ INTERVAL_TIMER' = (INTERVAL_TIMER - 1 + W) % W
    /\ timer_line' = (timer_line \/ INTERVAL_TIMER = 0)
    /\ \/ /\ at = "process" /\ ~timer_line
          /\ executed' = [executed EXCEPT ![running_proc] = @ + 1]
          /\ cpu' = cpu + 1
          /\ ran' = ran + 1
       \/ /\ at \notin {"process", "panic"}
          /\ UNCHANGED <<executed, cpu, ran>>
    /\ UNCHANGED <<vars, at, interrupted_proc, int_timer_cache, timeVars, spec_areas, old_area,
                   p_s, dispatched>>

-----------------------------------------------------------------------------
(* Handlers *)

\* Mutant: the value kept aside is not looked at.
timer_to_restore_Raw == INTERVAL_TIMER

timer_to_restore == IF INTERVAL_TIMER > time_slice THEN time_slice ELSE INTERVAL_TIMER

\* the exception, and start_handler
start_handler(exc) ==
    /\ pc = "user" /\ at = "process"
    /\ exc # INT => running_proc # idle_proc /\ ~timer_line
    /\ at' = exc
    /\ old_area' = cpu
    /\ int_timer_cache' = timer_to_restore
    /\ interrupted_proc' = running_proc
    /\ flush_user_time(running_proc)
    /\ UNCHANGED <<vars, TOD, timerVars, kernel_timer, tod_at_start, spec_areas, cpu, p_s,
                   historyVars, elapsed>>

\* consume_interrupts: is_interrupt_pending reads the line as it is now
handle_interrupt ==
    /\ at = INT
    /\ at' = "conclude"
    /\ IF timer_line THEN time_slice_callback ELSE UNCHANGED vars
    /\ UNCHANGED <<interrupted_proc, TOD, timerVars, int_timer_cache, timeVars, spec_areas,
                   stateVars, historyVars, elapsed>>

\* What GETCPUTIME returns.  GETPID returns running_proc and its p_parent.  Both
\* write to their caller's memory only.
GETCPUTIME == [user      |-> user_timer[interrupted_proc],
               kernel    |-> (kernel_timer[interrupted_proc]
                                + Since(tod_cache[interrupted_proc])) % W,
               wallclock |-> Since(tod_at_start[interrupted_proc])]

\* a call that leaves the kernel as it is
query ==
    /\ at = SYS
    /\ at' = "conclude"
    /\ UNCHANGED <<vars, interrupted_proc, TOD, timerVars, int_timer_cache, timeVars,
                   spec_areas, stateVars, historyVars, elapsed>>

create_process_timed ==
    /\ at = SYS
    /\ at' = "conclude"
    /\ \E prio \in Priorities : create_process(prio)
    /\ reset_pcb
    /\ UNCHANGED <<interrupted_proc, TOD, timerVars, int_timer_cache, cpu, old_area, ran, elapsed>>

terminate_timed(p) ==
    /\ at' = "conclude"
    /\ terminate_proc(p)
    /\ UNCHANGED <<interrupted_proc, TOD, timerVars, int_timer_cache, timeVars, spec_areas,
                   stateVars, historyVars, elapsed>>

passeren_timed(k) ==
    /\ at = SYS
    /\ at' = "conclude"
    /\ passeren(k)
    /\ IF semval[k] <= 0 THEN flush_kernel_time(running_proc)
       ELSE UNCHANGED <<kernel_timer, tod_cache>>
    /\ UNCHANGED <<interrupted_proc, TOD, timerVars, int_timer_cache, user_timer, tod_at_start,
                   spec_areas, stateVars, historyVars, elapsed>>

verhogen_timed(k) ==
    /\ at = SYS
    /\ at' = "conclude"
    /\ verhogen(k)
    /\ UNCHANGED <<interrupted_proc, TOD, timerVars, int_timer_cache, timeVars, spec_areas,
                   stateVars, historyVars, elapsed>>

\* SPECPASSUP kills a caller that has set these areas before
specpassup(code) ==
    /\ at = SYS
    /\ \/ /\ area_type(code) \notin spec_areas[running_proc]
          /\ at' = "conclude"
          /\ spec_areas' = [spec_areas EXCEPT ![running_proc] = @ \cup {area_type(code)}]
          /\ UNCHANGED <<vars, interrupted_proc, TOD, timerVars, int_timer_cache, timeVars,
                         stateVars, historyVars, elapsed>>
       \/ /\ area_type(code) \in spec_areas[running_proc]
          /\ terminate_timed(running_proc)

\* The process goes on in its own handler.  Nothing is concluded: the interval
\* timer is as it is.
launch_spec_area(exc) ==
    /\ exc \in spec_areas[running_proc]
    /\ at' = "process"
    /\ cpu' = old_area
    /\ UNCHANGED <<vars, interrupted_proc, TOD, timerVars, int_timer_cache, spec_areas,
                   old_area, p_s, historyVars, elapsed, user_timer, tod_at_start>>

\* a system call number above SYSTEM_SYSCALL_MAX
pass_up_syscall ==
    /\ at = SYS
    /\ \/ launch_spec_area(SYS) /\ flush_kernel_time(interrupted_proc)
       \/ SYS \notin spec_areas[interrupted_proc] /\ terminate_timed(interrupted_proc)

\* adderrbuf panics: a number below SYSTEM_SYSCALL_MAX that is no call, or an
\* unknown cause
unrecognised ==
    /\ at = SYS
    /\ at' = "panic"
    /\ UNCHANGED <<vars, interrupted_proc, TOD, timerVars, int_timer_cache, timeVars,
                   spec_areas, stateVars, historyVars, elapsed>>

\* and for a breakpoint that no one handles
pass_up_breakpoint ==
    /\ at = SYS
    /\ \/ launch_spec_area(SYS) /\ UNCHANGED <<kernel_timer, tod_cache>>
       \/ SYS \notin spec_areas[interrupted_proc] /\ unrecognised

\* handle_TLB and handle_trap
pass_up_trap(exc) ==
    /\ at = exc
    /\ \/ launch_spec_area(exc) /\ UNCHANGED <<kernel_timer, tod_cache>>
       \/ exc \notin spec_areas[running_proc] /\ terminate_timed(running_proc)

\* recursive_remove_proc at work
terminating_timed == terminating /\ UNCHANGED handlerVars

\* Mutant: the process that lost the CPU is not saved.
save_interrupted_Never == UNCHANGED p_s

save_interrupted ==
    p_s' = IF interrupted_proc = idle_proc THEN p_s ELSE [p_s EXCEPT ![interrupted_proc] = old_area]

conclude_handler ==
    /\ pc = "user" /\ at = "conclude"
    /\ at' = "process"
    /\ IF interrupted_proc # running_proc
       THEN /\ flush_reset_time(running_proc)
            /\ set_timer(time_slice)
            /\ save_interrupted
            /\ cpu' = p_s[running_proc]
            /\ dispatched' = dispatched \cup ({running_proc} \cap Proc)
            /\ ran' = 0
            /\ UNCHANGED kernel_timer
       ELSE /\ set_timer(int_timer_cache)
            /\ flush_kernel_time(running_proc)
            /\ cpu' = old_area
            /\ ran' = IF int_timer_cache = time_slice THEN 0 ELSE ran
            /\ UNCHANGED <<p_s, dispatched>>
    /\ UNCHANGED <<vars, interrupted_proc, TOD, int_timer_cache, user_timer, tod_at_start,
                   spec_areas, old_area, executed, elapsed>>

halted_timed == (halted \/ (at = "panic" /\ UNCHANGED vars)) /\ UNCHANGED handlerVars

system_call ==
    \/ query
    \/ create_process_timed
    \/ at = SYS /\ \E p \in Proc : terminate_timed(p)
    \/ \E k \in Sem : passeren_timed(k) \/ verhogen_timed(k)
    \/ \E code \in Codes : specpassup(code)
    \/ pass_up_syscall
    \/ pass_up_breakpoint
    \/ unrecognised

HandlerNext ==
    \/ boot
    \/ launch_timed
    \/ tick
    \/ \E exc \in {SYS, INT} \cup Traps : start_handler(exc)
    \/ handle_interrupt
    \/ system_call
    \/ \E exc \in Traps : pass_up_trap(exc)
    \/ terminating_timed
    \/ conclude_handler
    \/ halted_timed

HandlerSpec == HandlerInit /\ [][HandlerNext]_allVars

-----------------------------------------------------------------------------
(* Properties *)

Running == pc = "user" /\ at = "process"

\* Each process goes on where it stopped, whichever process and handler ran in
\* between: its position is in the processor while it runs, and in its p_s
\* while it is ready or blocked (handler.c:156, 164).
ResumesWhereItStopped ==
    Running =>
        /\ running_proc # idle_proc => cpu = executed[running_proc]
        /\ \A p \in Ready \cup Blocked : p_s[p] = executed[p]

\* what the PCB holds, and what the next flush adds to it
TimeOf(p) ==
    user_timer[p] + kernel_timer[p] + IF p = running_proc THEN Since(tod_cache[p]) ELSE 0

\* the times of all PCBs together; upTo[n] is that of the first n
Total(time) ==
    LET upTo[n \in 0 .. MAXPROC + 1] == IF n = 0 THEN 0 ELSE upTo[n - 1] + time[n - 1]
    IN  upTo[MAXPROC + 1]

\* GETCPUTIME loses no user time and counts no tick twice, although the TOD
\* wraps around and each handler may end in another process: a process is
\* charged for every tick it ran, and, unless one of its own handlers took
\* over a breakpoint or a trap, for no other as user time; all processes
\* together are charged for no more ticks than there were.  GETCPUTIME answers
\* accordingly.
TimeAccounted ==
    /\ at = SYS /\ pc = "user" =>
          /\ GETCPUTIME.user + GETCPUTIME.kernel <= elapsed
          /\ spec_areas[interrupted_proc] = {} => GETCPUTIME.user = executed[interrupted_proc]
    /\ Running =>
        /\ \A p \in Proc \ Free :
              LET user == user_timer[p] + IF p = running_proc THEN Since(tod_cache[p]) ELSE 0
              IN  IF spec_areas[p] = {} THEN user = executed[p] ELSE user >= executed[p]
        /\ Total([p \in Pcb |-> TimeOf(p)]) <= elapsed

\* A process never runs longer than a time slice before the interval timer
\* interrupts it, however many handlers run meanwhile and however long they
\* take, and only its own pass-up handlers make the slice shorter.
SliceIsExact ==
    Running /\ ~timer_line =>
        IF spec_areas[running_proc] = {} THEN ran + INTERVAL_TIMER = time_slice
        ELSE ran + INTERVAL_TIMER <= time_slice

\* tod_at_start "Holds the value of the TOD at the first execution of the
\* process" (pcb.h:40): GETCPUTIME returns the time since then as wallclock.
WallclockStartsAtDispatch ==
    [][\A p \in dispatched' \ dispatched : tod_at_start'[p] = TOD]_allVars
=============================================================================
