----------------------------- MODULE TimeSlice -----------------------------
(***************************************************************************)
(* The interval timer over Scheduler: what start_handler and               *)
(* conclude_handler do with it around every system call and interrupt, and *)
(* when time_slice_callback is called.  It is the part of module Handler   *)
(* that decides who runs in the long run: time that passes inside a        *)
(* handler is left out, since conclude_handler writes the timer in any     *)
(* case.  Processes run with timer interrupts enabled, so a system call is *)
(* not reached while one is pending.                                       *)
(***************************************************************************)
EXTENDS Scheduler

CONSTANT time_slice     \* ticks; clock_ticks_per_time_slice

ASSUME TimeSliceAssumption == time_slice \in Nat \ {0}

VARIABLE INTERVAL_TIMER \* ticks left; 0: it went below 0, the interrupt is pending

timerVars == <<vars, INTERVAL_TIMER>>

TimerInit == Init /\ INTERVAL_TIMER = time_slice

\* a process, or the idle one, runs
tick ==
    /\ pc = "user" /\ INTERVAL_TIMER > 0
    /\ INTERVAL_TIMER' = INTERVAL_TIMER - 1
    /\ UNCHANGED vars

\* start_handler: the value kept aside, full if the timer went below 0
int_timer_cache == IF INTERVAL_TIMER = 0 THEN time_slice ELSE INTERVAL_TIMER

\* a full slice for a process that takes the CPU, the rest of it for one that
\* resumes; launch resets the timer too
conclude_handler ==
    INTERVAL_TIMER' = IF running_proc' # running_proc THEN time_slice ELSE int_timer_cache

\* the interval timer interrupt
handle_timer ==
    /\ INTERVAL_TIMER = 0
    /\ time_slice_callback
    /\ conclude_handler

\* the timer around any other step of the kernel
handled ==
    /\ pc = "user" => INTERVAL_TIMER > 0
    /\ conclude_handler

\* Processes that only compute.
ComputingNext ==
    \/ tick
    \/ handle_timer
    \/ (starting \/ halted) /\ handled

\* Processes that use semaphores, and do so before their time slice ends.
call_in_time == semaphore_call /\ handled
tick_in_time == (running_proc = idle_proc \/ INTERVAL_TIMER > 1) /\ tick

InteractiveNext ==
    \/ tick_in_time
    \/ call_in_time
    \/ handle_timer
    \/ (starting \/ halted) /\ handled

\* Time passes, and a pending timer interrupt is taken at once.
ComputingSpec ==
    /\ TimerInit /\ [][ComputingNext]_timerVars
    /\ WF_timerVars(tick) /\ WF_timerVars(handle_timer)

\* Time passes, and the programs do make their calls.
InteractiveSpec ==
    /\ TimerInit /\ [][InteractiveNext]_timerVars
    /\ WF_timerVars(tick_in_time) /\ WF_timerVars(call_in_time)

-----------------------------------------------------------------------------
(* Properties *)

\* A ready process gets the CPU: aging is an "anti-starvation measure"
\* (scheduler.c:224).
ReadyRuns == \A p \in Proc : pc = "user" /\ p \in Ready ~> p \notin Ready
=============================================================================
