# A formal model of the Bikaya kernel

Bikaya is a small operating system kernel for the uMPS2 and uARM simulators
(one processor, no virtual memory): processes with priorities, semaphores,
blocking device I/O and eight system calls.  This directory holds TLA+ modules
translated from its source, TLC configurations that check them on small
instances, and proofs checked by TLAPS.  Source paths below are relative to
`src/` and `include/` of the repository; operators keep the names of the C
functions they model.

## 1. Inventory of the system

**PCB pool and process queues** (`core/processes/pcb.c`).
State: `pcbFree_table[MAXPROC]`, the free list `pcbFree_h`, and the circular
list each queue is.  Operations: `initPcbs`, `allocPcb`, `freePcb`,
`insertProcQ` (by decreasing priority, FIFO among equals), `headProcQ`,
`removeProcQ`, `outProcQ`.  Hard: a PCB has a single `p_next`, so linking it
while it is linked elsewhere corrupts that other list silently.  Correct when
every PCB is in at most one list, none is lost, and queues stay ordered.

**Process tree** (`core/processes/pcb.c`).
State: `p_parent`, `p_child`, `p_sib`.  Operations: `insertChild`,
`removeChild`, `outChild`.  Hard: `recursive_remove_proc` changes the tree
while it walks it, and `outChild` leaves `p_parent` set for all but the eldest
child.  Correct when a kill removes the offspring, all of it and nothing else.

**Active semaphore list, ASL** (`core/processes/asl.c`).
State: a pool of `MAXPROC` descriptors, the list of those in use, each with a
key (the address of the semaphore) and a queue.  Operations: `getSemd`,
`insertBlocked`, `insertBlockedFifo`, `removeBlocked`, `outBlocked`,
`headBlocked`.  Hard: the pool is finite, keys are arbitrary addresses, and
`p_semkey` in the PCB must agree with the queue the PCB is in.

**Scheduler** (`core/processes/scheduler.c`).
State: `ready_queue`, `running_proc`, `idle_proc`, priorities, `user_timer` and
`kernel_timer`.  Operations: `init_scheduler`, `launch`, `schedule_proc`,
`create_process`, `terminate_proc`, `p`, `v`, `time_slice_callback`.  Hard: each
operation dispatches on its own path; aging changes the priorities of processes
where they are queued; a kill may hit the caller, a ready process, a blocked
one, and any mixture of them below.

**System calls** (`core/exceptions/syscalls.c`).
`consume_syscall` selects by number among GETCPUTIME, CREATEPROCESS,
TERMINATEPROCESS, VERHOGEN, PASSEREN, WAITIO, SPECPASSUP and GETPID.
TERMINATEPROCESS takes the address of any PCB from the program.

**Interrupts and device waiting lists** (`core/exceptions/interrupts.c`,
`devices/devices.c`).  State: per device a `device_wait_list` with
`w_for_cmd_sem` (1 when the device is free) and `w_for_res` (whose command runs);
in each PCB `dev_w_list`, and the command to send.  Operations: `wait_io`,
`done_io`, `consume_interrupts`.  Hard: processes are created, killed, woken and
queued by priority between a command and its interrupt.  Correct when no command
is written to a busy device, each process gets the answer to its own command,
and every WAITIO returns.

**Exception handlers** (`core/exceptions/handler.c`).
State: `interrupted_proc`, `int_timer_cache`, the old areas, `spec_areas` of
each PCB.  `start_handler` saves the interval timer and charges user time;
`conclude_handler` charges kernel time, restores or resets the timer, and
resumes; TLB, trap, breakpoint and high system calls may be passed up to the
process.  Hard: the timer, the times and the old area are read at the start of a
handler and used at its end, when another process may be running; a pass-up does
not reach `conclude_handler`.  Correct when every process goes on where it
stopped, each tick is charged once and to the process that ran it, and a slice
is a slice.

**Platform layer** (`core/system/*`, `utils/utils.*`): bits of the status word,
and `memcpy`, per architecture.  Hard: the two targets encode the mode and the
interrupts in opposite ways, and uMPS shifts them through a stack at each
exception.  Correct when handlers run undisturbed and processes run as their
initialization data asks.

**Lists** (`include/utils/listx.h`): circular lists with a sentinel, from Linux.
Hard: removing an element leaves its own pointers as they were.

**Drivers and debug log** (`devices/terminal.c`, `devices/printer.c`,
`utils/debug.c`): busy-waiting output, used for logs and before a panic.

**Start-up** (`main.c`, `bikaya.c`): writes the new areas, then
`init_scheduler`, then `launch`.

**Tests** (`testing/*`): programs that run on the kernel.

### How the parts interact

All exceptions enter a handler with interrupts off.  The handler calls
`consume_syscall` or `consume_interrupts`; these call the scheduler and
`wait_io`/`done_io`, which move PCBs between the free list, the ready queue, the
CPU and the queues of the ASL; the handler then resumes `running_proc`, which may
no longer be the process it interrupted.  There is no concurrency inside the
kernel.  What interleaves is the sequence of system calls of all processes, the
interval timer and the device interrupts; the devices run in parallel with all
of it.  Nothing is persisted and no message is lost, so there is no crash
recovery to model: PANIC stops the machine.

## 2. Modules

| Module | Models | Role |
|---|---|---|
| `ProcQueue` | `insertProcQ`, `outProcQ` on sequences | pure operators |
| `Scheduler` | pcb.c, asl.c, scheduler.c and the system calls on them | the core state machine |
| `ProcessTree` | what scheduler.h promises of creation and termination | abstract specification |
| `SchedulerTree` | | refinement mapping from `Scheduler` to `ProcessTree` |
| `TimeSlice` | the interval timer of handler.c over `Scheduler` | composition with time |
| `Handler` | handler.c and the time of syscalls.c and scheduler.c over `Scheduler` | composition with the handlers |
| `ListX` | listx.h on a heap of list_heads | pure operators |
| `PcbPointers` | the pointer operations of pcb.c and asl.c, beside `Scheduler` | the detailed level below the sequences |
| `CpuStatus` | system_mps.c, system_arm.c, system.c, `populate_pcb`, the new areas | the status word, on its own |
| `MCHandler`, `MCPcbPointers`, `MCCpuStatus` | | symmetry and constants, for TLC |
| `Nucleus` | interrupts.c over `Scheduler`; the devices are external | composition with devices |
| `ExclusiveIO` | the way p2test uses devices | `Nucleus` under that discipline |
| `ProcQueue_proofs` | | lemmas about the queues |
| `Scheduler_proofs` | | theorems about the lists and semaphores of `Scheduler` |
| `SchedulerOrder_proofs` | | theorems about priorities and dispatching |
| `SchedulerTree_proofs` | | theorems about the process tree, the refinement of `ProcessTree` |
| `Nucleus_proofs` | | theorems about `Nucleus` and `ExclusiveIO` |
| `Handler_proofs` | | theorems about `Handler`, the refinement of `Scheduler` |
| `CpuStatus_proofs` | | theorems about `CpuStatus` |
| `PcbPointers_proofs` | | lemmas about the circular lists, theorems about `PcbPointers` |

### ProcQueue and Scheduler

A list is the sequence of its PCBs, first to last; `removeProcQ` and `headProcQ`
are `Tail` and `Head`, and `NULL` for the empty queue appears where the code
tests for it.  PCBs are the indices of `pcbFree_table`; `idle_proc`, which is
outside the table, is `MAXPROC`.  The descriptors of the ASL are known by their
keys: `semd_h` is the set of keys in use, and getting one more needs
`Cardinality(semd_h) < MAXPROC`.  `p_child` of a PCB is the sequence of its
children, eldest first, so it stands for `p_child` and the `p_sib` links.

The kernel is not preempted, so `create_process`, `passeren` (`p`), `verhogen`
(`v`) and `time_slice_callback` are one step each, with every call they make:
queueing, dispatching, aging.  `terminate_proc` is recursive and is stepped
through: `frames` holds the PCBs of the active calls of `recursive_remove_proc`
and `pc` says where the innermost is; no other action is enabled until it
returns.  This keeps the module free of recursion (so that it can be proved
about) and shows the intermediate states of a kill.

`pc` also names the ways the kernel stops.  `adderrbuf` prints and calls PANIC,
so each call is a location that is never left (`Panics`).  "corrupt" is reached
when `recursive_remove_proc` frees a PCB that is still linked: after that,
sequences no longer describe what the circular lists are, and the model stops.
It needs a stale `dev_w_list`, so only `Nucleus` can reach it.

`terminate_proc(p)` is enabled for every `p` in the table, live or free: the
code takes the address from the program.  Creation takes its priority from
`Priorities`.  `init_proc` is the loop of `init_scheduler`, one iteration a step.

### ProcessTree and SchedulerTree

`ProcessTree` is the contract of `create_process` and `terminate_proc` without
queues: a set of live processes with parents, creation adds a child of the
creator or changes nothing, termination removes a process and all its offspring
at once.  Under the mapping a process stops being live when the kill starts: a
PCB is live if it is neither free nor reachable from an active frame.  The steps
of the kill after the first are then stutters.

### TimeSlice

The interval timer reduced to what liveness needs.  `INTERVAL_TIMER` counts the
ticks left; 0 stands for a timer that went below 0, with its interrupt pending.
`handled` is `start_handler` and `conclude_handler` around a step of
`Scheduler`: a process that resumes gets the rest of its slice, one that takes
the CPU a full one.  `handle_timer` is the interrupt, with the callback that
ages.  Ticks inside a handler are left to `Handler`.  Two kinds of programs:
those that only compute (`ComputingSpec`), and those that make a semaphore call
before each slice ends (`InteractiveSpec`).

### Handler

A handler is three steps: `start_handler` with the exception, the work
(`handle_interrupt`, a system call, a pass-up), and `conclude_handler`.  Ticks can
fall between them.  A system call takes its action from `Scheduler` and adds what
the source does to times and areas beside it; a kill takes the several steps of
`Scheduler`.

* The TOD and the times are `TODBITS` wide and wrap around.  The timer's value
  and its interrupt line (`timer_line`) are separate: the value also wraps, which
  `start_handler` tests for, and the line stays up until the timer is written.
  `is_interrupt_pending` reads the line as it is at that moment.
* The state of a process is abstracted to its position, the number of ticks it
  has executed.  `cpu`, `old_area` and `p_s` hold positions, so a state that is
  saved to the wrong place, or not at all, shows as a wrong position.
* The areas of SPECPASSUP are the set of types that are set.  `launch_spec_area`
  goes on in the process, whose own handler counts as the process.  SPECPASSUP is
  called with the codes 0 to 2 and with areas that are not NULL.
* GETCPUTIME and GETPID write to their caller's memory only (`query`); what
  GETCPUTIME returns is the operator of that name.
* `executed`, `dispatched`, `ran` and `elapsed` are history variables.

### ListX and PcbPointers

`ListX` has the functions of `listx.h`, each from a heap to a heap.
`PcbPointers` holds the `list_head`s of all PCBs, descriptors and sentinels in
`mem`, and the key of each descriptor.  Its step is a step of `Scheduler`
together with the pointer operations of the functions that the step stands for.
Those read `mem`, keys and priorities only, never the sequences, so that the two
levels can disagree; the invariants say that they do not.  An address is a pair
of a field and an index, and `container_of` is the index.

`recursive_remove_proc` that gets a free PCB with a stale `p_sib` unlinks from
siblings that are long gone, just before it panics.  `TreeAgrees` is stated up to
there.

### CpuStatus

A status is the set of its bits that are 1, for either target.  `push` and `LDST`
are what the hardware of uMPS does to its stacks of bits at an exception and at
the load of a state.  `set_kernel_mode(s, 0)` of uMPS sets every bit but KUc
instead of KUc; no caller asks for user mode this way (`populate_pcb` sets KUp
itself), and the model keeps it as it is.  The four new areas are set up alike,
so there is one.  Processes made by CREATEPROCESS run with the state their
creator gives, and are not in this module.

### Nucleus and ExclusiveIO

A device is its waiting list: `semval[d]` is `w_for_cmd_sem`, the queue of key
`d` holds the blocked processes, `w_for_res[d]` the one whose command runs.
`wait_io` and `done_io` are one step each.  `device_ends` is the hardware: a
command ends, well or with an error, at any moment, in the middle of a kill too;
its interrupt waits until user or idle code runs.  `consume_interrupts` serves
every pending interrupt in one run of the handler; the model serves one at a
time, which is what happens when the next arrives just after, and reaches the
same states.  `issued` is a history variable: the PCBs whose last WAITIO command
was sent to the device.

`ExclusiveIO` adds no behaviour: it is `Nucleus` restricted to programs that do
what the test programs do, a mutex around each device (`print`, `term_mut`), and
no kill of a process while it or its offspring waits for a device.

## 3. What is checked

Property definitions are at the end of each module, each with the code it is
about.

| Run | Module, cfg | Checks |
|---|---|---|
| `scheduler` | `SchedulerTree`, `Scheduler.cfg` | lists, keys, priorities, values, tree, kills, `ImplementsProcessTree` |
| `nucleus` | `Nucleus`, `Nucleus.cfg` | `DeviceAgrees`, lists, tree, dispatching, `AgedNotOvertaken` |
| `exclusive_io` | `ExclusiveIO`, `ExclusiveIO.cfg` | `OneWaiter`, `NoProcessLost`, `KillsSucceed`, `IoReturns` |
| `handler` | `MCHandler`, `Handler.cfg` | `ResumesWhereItStopped`, `TimeAccounted`, `SliceIsExact`, `SemdAlwaysFound` |
| `pointers` | `MCPcbPointers`, `Pointers.cfg` | `QueuesAgree`, `SemdsAgree`, `TreeAgrees` |
| `cpu_status` | `MCCpuStatus`, `CpuStatus.cfg` | `HandlersAreShielded`, `RunsAsRequested` |
| `computing` | `TimeSlice`, `Computing.cfg` | `ReadyRuns` |
| `starvation` | `TimeSlice`, `Starvation.cfg` | `ReadyRuns` is violated |
| `device_overtaking` | `Nucleus`, `DeviceOvertaking.cfg` | `ElseMeansTerminated` is violated |
| `device_kill` | `Nucleus`, `DeviceKill.cfg` | `NoWaiterDropped` is violated |
| `terminal_error` | `ExclusiveIO`, `TerminalError.cfg` | `ErrorServed` is violated |
| `wallclock` | `Handler`, `Wallclock.cfg` | `WallclockStartsAtDispatch` is violated |

**scheduler** shows, for every interleaving of creation, P, V, time slices and
kills: a PCB is in one list at most (`LinkedOnce`) and between system calls the
only one in none is the running one (`NoProcessLost`); `p_semkey` and the ASL
agree with the queues (`SemkeyNamesQueue`); no ready process has a higher
priority than the running one (`HighestPriorityRuns`); every queue stays sorted
although aging changes priorities in place (`QueuesSorted`); waiters exist only
at value 0 (`WaitersOnlyAtZero`); the tree is consistent (`TreeConsistent`); the
panics inside a kill are reached only with a dead PCB as argument, never below
the outermost call (`KillOfLiveSucceeds`); equal priorities take turns
(`EqualsTakeTurns`); waiting never lowers a priority (`WaitingNeverDemotes`); a
process that has aged to the highest initial priority is not overtaken by one
that enters the queue later (`AgedNotOvertaken`; there are no devices in this
run, and with them there is an exception, see **nucleus**).

It also shows that the scheduler implements `ProcessTree`: a kill removes a
process with all its offspring, at once as far as anyone can see, and creation
changes nothing else.

**handler** shows, with time passing inside the handlers and a TOD that wraps
around: every process goes on where it stopped, whichever handlers and processes
ran meanwhile (`ResumesWhereItStopped`); user time is exactly the ticks a process
ran, as long as it has no handlers of its own, and all times together are no
more than the time there was (`TimeAccounted`); a system call neither lengthens
nor shortens a slice, and a pass-up can only shorten it (`SliceIsExact`).  It has more semaphores than
descriptors, so that the bound of the pool matters to P (`SemdAlwaysFound`).
The kernel time of a handler that ends in another process is charged to nobody,
as the comment in `conclude_handler` says; and since a pass-up of a breakpoint, a TLB
exception or a trap does not flush, the time of its handler becomes user time.

**pointers** shows that the free list, the ready queue, the queue of each
semaphore, the ASL and the tree, followed through the pointers, are what
`Scheduler` has as sequences and sets, and that each circle is whole in both
directions; no stale pointer that `list_del` leaves is followed, up to the panic
described above.  Four PCBs give a parent with three children, so that an
eldest, a middle and a youngest child can leave.  Two priorities and aging give
insertion at the head, in the middle and at the tail of a queue, preemption at
the end of a slice, and a V that leaves a waiter behind; a V and a kill each
take either descriptor from an ASL with two.

**cpu_status** shows, on both targets, that a handler runs in kernel mode and
with nothing enabled, and that a starting process always runs with what its
initialization data asks for.

**computing** shows that aging works for processes that
never call the kernel; **starvation** that it does not for those that do.

**nucleus** shows what survives even when processes use devices and kill freely:
the semaphore of a device, `w_for_res` and the state of the device agree
(`DeviceAgrees`), so no command is written to a busy device, until "corrupt" no
PCB is in two lists, and the process tree is consistent throughout.  It does not
hold there that no process is lost, nor that every kill succeeds: see the
findings.

It also shows what devices do to `AgedNotOvertaken`.  `stop_running_proc` and `v`
give a process its original priority back before they queue it, `wait_io` does
not: it takes the CPU from its caller with `pop_running` (interrupts.c:68), and
`done_io` hands that process to `schedule_proc` as it is (interrupts.c:95).  A
process that aged, got the CPU and called WAITIO comes back with its aged priority
and goes in front of a ready process that has aged less, or not at all.  The run
reaches this in eight steps, so without its second disjunct the property is
false of the code; what holds, and is proved, is that nobody else overtakes.  No
comment or document promises more, so this is not among the findings.

**exclusive_io** has a terminal beside another device.  It shows that under the
discipline of the tests no process is lost, all the records of a device name the
same process, no kill panics or frees a linked PCB (`KillsSucceed`), and every
WAITIO returns, with the status of an error too, except from a terminal whose
command ends in an error (`IoReturns`, and the finding `terminal_error`).
`print` of p2test drives terminal 0 and tests the status it gets back: with an
error it gets none.  A terminal that hangs so keeps its caller, and does not keep
the WAITIO of others on other devices from returning.

### Findings

* *Starvation* (`starvation`).  `scheduler.c` calls aging an anti-starvation
  measure, but the timer is reset at every change of process.  Two processes that
  pass a semaphore back and forth in less than a slice keep it from ever
  expiring, and a ready process of lower priority waits for ever.
* *Overtaking in the device queue* (`device_overtaking`).  Waiters are queued by
  priority together with the process being served.  One of higher priority gets
  in front; `done_io` removes it, sees that it is not `w_for_res`, and takes that
  for a termination.  The removed process is in no list any more, and the one
  whose command ended stays queued.
* *Kill of the process being served* (`device_kill`).  With equal priorities, so
  without overtaking: `w_for_res` still names the killed process, `done_io`
  removes the next waiter, and drops it.
* *Errors on terminals* (`terminal_error`).  Only TERM_ST_DONE is tested, so the
  interrupt of a failed terminal command stays pending for ever.  The run holds
  to the discipline of `ExclusiveIO` and to fair devices and handlers.
* *Wallclock time* (`wallclock`).  `pcb.h` says that `tod_at_start` holds the TOD
  of the first execution.  Only `launch` sets it, for one process; for every
  other GETCPUTIME returns the whole TOD as wallclock time.

Two more that follow from the models, without a run of their own.  TERMINATEPROCESS
of a process that is already dead ends in "NotFound" or "TreeBroken", a panic,
while `scheduler.h` promises -1: this is why `KillOfLiveSucceeds` is about live
processes.  And `allocPcb` does not reset `dev_w_list`: the PCB of a process that
was killed while it waited for a device, used again, is freed by a kill without
being unlinked, which is how `Nucleus` reaches "corrupt".

### Bounds, and why they are enough

* `MAXPROC` = 3 (20 in the code) gives a running, a ready and a blocked process,
  or two waiters and the one that wakes or kills them, or a parent with two
  children, and an exhausted pool in each.  Four in `pointers`, for a parent
  with three children.  There `FullPoolBound` of `MCPcbPointers` parts the
  behaviours in two: as long as the fourth PCB has never been used, three
  processes have both semaphores and the priorities 1 and 3 with aging to 3, so
  that one process can run, wake and kill while two others wait at different
  semaphores or at the same one; from its first use on, four processes have one
  semaphore with waiters at a time and equal priorities.  Queues of four entries
  with different priorities, and three descriptors on the ASL, are left to the
  theorems.
* One semaphore in `scheduler`: operations on a key read and write that key
  alone, except for the pool, which `handler` is about.  Two processes suffice
  there, since a pool of two meets three keys.  Semaphores are only compared, so
  `handler` and `pointers` use their symmetry; they check invariants only.
* `Priorities` = {1, 2} and aging to `MAXPRIO`: processes of equal and different
  original priority, equal and different current priority, and an aged process
  above a fresh one.  A step that would age a process beyond MAXPRIO is not
  taken.
* `MAXSEM` = 1: semaphores start at 0 or 1; a V beyond it is not taken.
* One device in `nucleus`.  The operations on a device touch its waiting list
  alone; a process waits for one device at a time.  `exclusive_io` has a second
  one, a terminal.  `nucleus` has no semaphores: blocking
  on one is covered by `scheduler`.  It has one priority for the processes, with
  aging to 2; `exclusive_io` has two.
* `TimeSlice`: slices of 2 or 3 ticks, so that a call can come before, after and
  between ticks.  In `computing` (three processes, priorities
  1 and 3) priorities stay below `MAXPRIO`, so the bound cuts nothing off (a
  timer interrupt it stopped would be a deadlock, and there is none).  This is
  so for these priorities only: with 1, 3 and 10 the rule of
  `time_slice_callback` makes them grow with the uptime, see the plan.
* `Handler`: a TOD of 3 bits that starts at 6, observed for `MAXTICKS` = 3 ticks,
  so that it wraps around in every position of a handler; a slice of one tick,
  so that the timer can go below 0 in a handler, and again in the next; SPECPASSUP
  for SYS and PRG (TLB is treated as PRG).  The code compares the timer with the
  slice to see that it went below 0, which is right as long as handlers do not
  keep the interrupt waiting for nearly a whole turn of the timer: a guard of
  `tick`.  In the run `MAXTICKS` is below that turn, so the guard never bites, and
  the TOD does not come round to a value it has had: `TimeAccounted` compares
  times as numbers and is meant for such runs.
* `CpuStatus`: two starting processes with all 16 initialization data each, and
  areas with every combination of the bits that matter.
* No run turns deadlock checking off.  After a panic the model stutters
  (`halted`), as the machine does.

### Fairness

* Weak fairness of `terminating`: during a kill interrupts are off and nothing
  else runs, so the processor continues with it.
* Weak fairness of `device_ends`: the hardware ends every command.
* Strong fairness of `done_io`: a device interrupt is level-triggered and stays
  pending; it is not enabled during a kill, but is taken whenever a process or
  the idle process runs.  This assumes that processes run with device interrupts
  enabled, or leave the CPU again and again to the idle process, which has them
  enabled (scheduler.c:63).  The state that a program hands to CREATEPROCESS
  decides it; p2test asks for all interrupts (`STATUS_ALL_INT_ENABLE`), and
  whether what it writes survives the pop of LDST on uMPS is not modelled.
* Weak fairness of `tick` and `handle_timer`: time passes, and the timer
  interrupt is taken.  `TimeSlice` and `Handler`, its `SliceIsExact` too, assume
  that it is enabled in every process, on the same grounds.
* `InteractiveSpec` alone assumes that programs make their calls: it is the
  assumption that makes its counterexample one of a busy system.

No other fairness is assumed of programs: nothing says that a process calls V.

## 4. What is proved

All theorems hold for any number of PCBs, semaphores, devices and priorities and
for any bounds.  The assumptions on the constants are those of the modules:

* `Scheduler`: `MAXPROC` is positive, priorities are natural numbers, `NULL` is
  neither a process nor a key, semaphores and device lists are disjoint;
* `Handler`: a slice is at least one tick and shorter than the range of the
  timer (`ClockAssumption`), and SPECPASSUP is called with the codes 0 to 2;
* `TimesAccounted` has a hypothesis of its own, `MAXTICKS < W`: the observation is
  shorter than a turn of the TOD, so that times can be compared as numbers.  The
  TOD itself may start anywhere and wrap around on the way;
* `CpuStatus`: the idle process is not a starting one, NULL is neither of them
  nor initialization data;
* `PcbPointers`: no list_head is at NULL (`PtrAssumption`).

| Theorem | Statement | Invariant it rests on |
|---|---|---|
| `TypeCorrect` | `Spec => []TypeOK` | `QueueInv` |
| `PcbsLinkedOnce` | `Spec => []LinkedOnce` | `QueueInv` |
| `PcbsNeverLost` | `Spec => []NoProcessLost` | `QueueInv` |
| `SemkeysCorrect` | `Spec => []SemkeyNamesQueue` | `QueueInv` |
| `EnoughDescriptors` | `Spec => []SemdAlwaysFound` | `QueueInv` |
| `WaitersAtZero` | `Spec => []WaitersOnlyAtZero` | `QueueInv` |
| `QueuesStaySorted` | `Spec => []QueuesSorted` | `OrderInv` |
| `HighestRuns` | `Spec => []HighestPriorityRuns` | `OrderInv` |
| `NeverDemoted` | `Spec => WaitingNeverDemotes` | `OrderInv` |
| `TakeTurns` | `Spec => EqualsTakeTurns` | `OrderInv` |
| `TreeStaysConsistent` | `Spec => []TreeConsistent` | `TreeInv` |
| `LiveKillsSucceed` | `Spec => KillOfLiveSucceeds` | `TreeInv` |
| `TreeImplemented` | `Spec => ImplementsProcessTree` | `TreeInv` |
| `NucleusTypeCorrect` | `NucleusSpec => []NucleusTypeOK` | `NucleusInv` |
| `DevicesAgree` | `NucleusSpec => []DeviceAgrees` | `NucleusInv` |
| `LinksUntilCorrupt` | `NucleusSpec => []LinkedUntilCorrupt` | `NucleusInv` |
| `NucleusSemkeys` | `NucleusSpec => []SemkeyNamesQueue` | `NucleusInv` |
| `NucleusHighestRuns` | `NucleusSpec => []HighestPriorityRuns` | `NucleusOrderInv` |
| `OvertakenOnlyFromDevice` | `NucleusSpec => AgedNotOvertaken` | `NucleusOrderInv` |
| `NucleusTakesTurns` | `NucleusSpec => EqualsTakeTurns` | `NucleusOrderInv` |
| `NucleusTreeConsistent` | `NucleusSpec => []TreeConsistent` | `TreeInv` |
| `NucleusImplementsTree` | `NucleusSpec => ImplementsProcessTree` | `TreeInv` |
| `LossesAreDoneIo` | `NucleusSpec => OnlyDoneIoLoses` | `NucleusInv` |
| `KillsFailOnlyForLost` | `NucleusSpec => KillsFailForLost` | `TreeInv` |
| `WaitIoFindsDescriptor` | `NucleusSpec => []DescriptorForDevice` | `NucleusInv` |
| `OneWaiterPerDevice` | `ExclusiveSpec => []OneWaiter` | `ExclusiveInv` |
| `ExclusiveLosesNone` | `ExclusiveSpec => []NoProcessLost` | `ExclusiveInv` |
| `ExclusiveKillsSucceed` | `ExclusiveSpec => []KillsSucceed` | `KillInv` |
| `ExclusiveDropsNone` | `ExclusiveSpec => NoWaiterDropped` | `ExclusiveInv` |
| `HandlersRunScheduler` | `HandlerSpec => Init /\ [][Next]_vars` | `PlaceInv` |
| `ProcessesResume` | `HandlerSpec => []ResumesWhereItStopped` | `PlaceInv` |
| `HandlerDescriptors` | `HandlerSpec => []SemdAlwaysFound` | `PlaceInv` |
| `SlicesAreExact` | `HandlerSpec => []SliceIsExact` | `SliceInv` |
| `TimesAccounted` | `HandlerSpec => []TimeAccounted`, if `MAXTICKS < W` | `TimeInv` |
| `CpuTypeCorrect` | `CpuSpec => []CpuTypeOK` | `CpuInv` |
| `HandlersShielded` | `CpuSpec => []HandlersAreShielded` | `CpuInv` |
| `ProcessesRunAsRequested` | `CpuSpec => []RunsAsRequested` | `CpuInv` |
| `PointersImplementScheduler` | `PtrSpec => Init /\ [][Next]_vars` | |
| `QueuesStayWhole` | `PtrSpec => []QueuesAgree` | `PtrInv` |
| `SemdsStayWhole` | `PtrSpec => []SemdsAgree` | `PtrInv` |
| `TreeStaysWhole` | `PtrSpec => []TreeAgrees` | `PtrInv` |

Each invariant is proved with the theorem `...Invariant` of its module, or inside
the proof of the property.  Below there is a lemma per action, and lemmas on what
the shared parts do (`run_first_ready`, `schedule_proc`, `insertBlocked`,
`unlinkBlocked`); those on `InsertProcQ`, `OutProcQ` and `RemoveProcQ` are in
`ProcQueue_proofs` and hold for queues of any length.

### The lists: LinkInv, Lost and QueueInv

`LinkedOnce` and `NoProcessLost` are not inductive: whether a kill unlinks a PCB
from the right queue depends on `p_semkey`.  `LinkInv` therefore says who is
blocked through `p_semkey` (`SemkeyNamesQueue`), and of the PCBs without a key
(`Unkeyed`) that the free list, the ready queue and the CPU never share one.
`Lost` is what is left of `Unkeyed`.  During a kill the CPU has no share, since
the running process is kept in the ready queue.

`QueueInv` adds to `LinkInv` that nothing is lost and that `dev_w_list` is NULL
everywhere: this is true of `Scheduler`, which has no WAITIO, and excludes the
branch that frees without unlinking.  The two are apart because with devices
only `LinkInv` is left.

`EnoughDescriptors`: the head of its queue is an injection from the keys in use
into the processes other than the running one, so fewer than MAXPROC
descriptors are in use when `p` asks for one.  `WaitIoFindsDescriptor` is the same
for WAITIO, which does not look at what `insertBlocked` returns.

### The order: OrderInv

That queues stay sorted needs no more than `InsertProcQ` and the fact that aging
raises all members of the ready queue alike; that the highest priority runs
needs three facts more.

* `RunsFirst` (the running process is not below any ready one) holds during a
  kill, too: `terminate_proc` goes back to the process that called it without
  looking at priorities, which is right only because a kill takes processes out
  of the ready queue and puts none in but the caller itself.
* An original priority is never above the aged one: the process that loses the
  CPU to another falls back to its original priority before it is queued.  (One
  that gives it up in WAITIO does not.)
* Only the queues of semaphores are sorted (`SemsSorted`).  WAITIO puts the
  process whose command it sends at the tail of the device's queue, so for
  devices it is false; `NucleusHighestRuns` shows that dispatching does not rest
  on it.  In `Scheduler` devices are not used (`DevicesUnused`), which gives
  `QueuesSorted`.

The action properties follow from `OrderInv` and from where `InsertProcQ` puts a
process.  `AgedNotOvertaken` is proved for `NucleusSpec`, where it has content
beyond the calls of `Scheduler`: a process that enters the ready queue has its
original priority, one of `Priorities`, or is the one that `done_io` schedules,
with the priority it waited with (`DoneIoEnters`).

### The tree: TreeInv and the refinement

Between system calls parents and children agree both ways.  During a kill they do
not: the children of a PCB that is free already wait in its list, but only if the
PCB is one of an active call (`frames`); and a PCB that has been entered has left
the list of its parent, though it may still name it, since `outChild` resets
`p_parent` of the eldest child only.  `TreeInv` states the tree with these two
exceptions.  `LiveKillsSucceed` comes from it and `QueueInv`: below the outermost
call `removeChild` has just taken the process from its parent, so it is live, and
a live process that is not lost is found.

Of the queues `TreeInv` needs no more than `LinkInv`, up to "corrupt"
(`LinksHold`).  A kill that does not find a process, or frees it while it is
linked, stops the machine in a state where the tree is still right, since the
process has left its parent's list before.  So the theorems about the tree hold
with devices too, for all of `NucleusSpec` (`NucleusTreeConsistent`,
`NucleusImplementsTree`); that a kill succeeds does not, and `KillsFailOnlyForLost`
says for whom it may fail: a PCB that is free, or a process that `done_io` lost.

For `TreeImplemented` the mapping makes a PCB live when it is neither free nor in
`Doomed`, what can be reached from `frames`.  At `terminate_proc` this is exactly the
offspring of the argument (`Offspring` of `ProcessTree`), since the lists of
children are whole then; every later step of the kill moves a PCB from `Doomed`
to the free list or takes a free one from `frames`, and is a stutter.  Both sets
are defined as the least sets closed under children, so that no induction is
needed: each inclusion exhibits a closed set.

### Devices: NucleusInv, and where processes are lost

`NucleusInv` is `LinkInv`, up to the step that ends in "corrupt", with
`SemkeyNamesQueue` and `DeviceAgrees` throughout.  It is inductive although
processes are lost: `done_io` removes the head of the queue cleanly and then does
nothing with it.  `LossesAreDoneIo` makes the finding on lost processes exact: of
all steps only `done_io` makes `Lost` grow, and only when the head of the queue is
not `w_for_res`.

`ExclusiveInv` says that with the discipline of the tests none of it happens: a
kill never reaches a process that waits for a device.  At `terminate_proc`
`Doomed` lies within `Family(p)`, which the discipline keeps clear of such
processes; `Doomed` only shrinks while the kill runs and no process can start to
wait meanwhile.  So the queue of a device keeps its one member, `done_io` finds
`w_for_res` at its head, and the branch that frees without unlinking is never
taken: `ExclusiveKillsSucceed`, where `KillInv` adds to `TreeInv` that the process
of the innermost call is not free yet.  `ExclusiveDropsNone` is the property that `device_kill` shows violated
without the discipline.

### Handlers: PlaceInv, SliceInv and TimeInv

`PlaceInv`: the position of each process is in its `p_s`, but for one
(`Here`), the running or, in a handler, the interrupted process, whose position
is in the processor or in the old area (`Position`).  It must say that a process
that is interrupted by another's dispatch is written back before the handler
ends, and that a kill runs at "conclude", so that nothing it does can touch the
old area.  From it every step of `Handler` is a step of `Scheduler` or leaves it
alone (`HandlersRunScheduler`), so that the theorems on `Scheduler` carry over;
`HandlerDescriptors` is the one `Handler.cfg` checks.

`SliceInv`: ticks run and ticks left make a slice while a process runs, and
between `start_handler` and `conclude_handler` the rest is in `int_timer_cache`,
or a full slice is when nothing was left.  A timer that went below 0 has wrapped
around to a value above any slice.  The proof holds for runs of any length: it
uses the guard of `tick` that a handler does not keep a pending interrupt
waiting for a whole turn of the timer, and not `MAXTICKS`.

`TimeInv` extends `TimeAccounted` to the states inside a handler.  `Charged(p)` is
what the PCB of p holds, and for the one process that the CPU is with (`Here`)
the time since its last flush; the sum over all PCBs is at most `elapsed`.  So no
sum that a flush writes reaches `W`, and `% W` never cuts anything off.  A flush
moves time within one PCB, a tick adds one to `Here`, and the rest lose at most
what was pending: a dispatch in a handler leaves the time since the last flush
to no one, and `allocPcb` clears a PCB that is not `Here`.  `UserCharged` is the
same for the user time alone: equal to the ticks executed, or above them for a
process with pass-up areas, whose handlers the next flush takes for the process.

The sum is the recursive function of `Total`.  `SumsExist` shows that there is
such a function, `TotalChanges` that two sums which differ in one PCB differ by
as much; both by the least index at which they would fail.

### The processor status: CpuInv

What a process asks for is not in the status alone: while a
handler runs it is in the old area, and while another process runs in `p_s`.  The
inductive invariant `CpuInv` therefore says of all three places that loading
them would run the process as requested, and of the new area, once it is
initialized, that it shields.  The lemmas compute each piece once: `PushPop` (an
exception and the load that follows cancel out), `NewAreaShields`,
`PopulatedRuns`, and for each target what bits make a mode.

### The pointers: Ring, Lists, Family and PtrInv

The sequences of `Scheduler` are what the pointers spell, for lists of any
length.  The argument goes up in five levels, each of which hides the one below.

1. `Ring(m, head, tag, q)`: the circle of `head` goes through the field `tag` of
   the members of `q` and back, in both directions.  `RingReads`: then `entries`,
   which is the loop of `list_for_each_entry`, gives `q`, and the circle is
   `Circular`.  `RingInsert`, `RingRemove` and `RingPop` say what
   `__list_add`, `list_del` and `list_del` of the sentinel itself make of `q`, and that
   no other address changes.
2. `Rings`: several circles through one field, with no structure on two of them.
   This is where an element linked twice would show.
3. `Queues` (through `p_next`: free list, ready queue, the queue of each
   descriptor), `Semds` (through `s_next`: ASL and free descriptors), and `Lists`,
   which joins them: the descriptors on the ASL stand for the keys in use, one
   each, and hold the queues of their keys.  `Agrees` hides which descriptor it
   is.  Each function of pcb.c and asl.c has a lemma that takes `Agrees` of the
   old sequences to `Agrees` of those that `Scheduler` assigns.  The hypothesis that the
   PCB to insert is on no list (`Loose`) comes from `LinkInv`.
4. `Family(m, p, q)`: p's `p_child` leads to the eldest of `q`, and the others are a
   `Ring` whose sentinel is the eldest's `p_sib`.  In `removeChild` the sentinel
   itself is unlinked, and the next sibling takes its place (`RingPop`).
5. `PtrInv` is `QueueInv` and `TreeInv` with `Agrees`, a `Family` for each process, and
   `SibTyped`.  The last is what makes it inductive: a kill of a PCB that is free
   already follows the `p_sib` that `list_del` left in it, and writes through it.
   All that is known then is that those pointers lead to a `p_sib` of some PCB or to
   NULL, so that the lists survive; the families may not, and `Panicking` exempts
   them from that step to the panic.

`initPcbs` and `initASL` are loops, and so is `list_for_each_entry`: they are
recursive functions in the model.  A recursive function is a CHOOSE, so the proofs
show that a function of that shape exists (`FreesExist`, `AddsExist`) or is the only
one (`EntriesUnique`), and then what it computes; each time by the least number for
which it fails (`LeastExists`).

### Only model-checked

* Liveness: `IoReturns`, `ReadyRuns`.  Fairness and ENABLED are beyond the prover.
* The properties that are shown violated.

## 5. What is not modelled

* In `Scheduler` and `Nucleus` a time slice can end at any moment, which includes
  every behaviour of the timer.  `Nucleus` is not composed with `Handler`: a
  device interrupt has no effect there on timer and times but that of any other
  handler, and `handle_interrupt` without the timer's line is one.  WAITIO flushes the
  caller's kernel time (interrupts.c:81) as a `passeren` that blocks does.
* Devices driven without WAITIO, the log of the kernel on terminal 1 among them.
  An interrupt that no process waits for is logged and not acknowledged, and is
  taken again at once; `done_io` in the model requires `w_for_res[d] # NULL`.
* The registers: `set_pc`, `set_sp`, the return register of a call, the arguments,
  the correction of the pc at a system call or an interrupt; `get_exccode`.
* `memcpy`, `set_bits` and `AREA` are used as what they compute.
* Character output: terminal, printer, debug log, and the conversions of numbers
  that only the log uses.
* The width of `int` for priorities and semaphores: they are unbounded in the
  model and cut off by `MAXPRIO` and `MAXSEM`.
* On pointers, the functions that only WAITIO and device interrupts call:
  `pop_running`, `insertBlockedFifo`, `headBlocked`.  In `Nucleus` they are part of
  `wait_io` and `done_io` (`run_first_ready`, `insertBlockedFifo`, the first of
  `left`).
* `outChildBlocked`, `list_is_last`, `list_prev` and the backward loops: no caller
  outside the phase 1 tests, or none.

## 6. Plan

Done: `ProcQueue`, `Scheduler`, `ProcessTree`, `SchedulerTree`, `Nucleus`,
`ExclusiveIO`, `TimeSlice`, `Handler`, `ListX`, `PcbPointers`, `CpuStatus`, and
the proofs of section 4.

Left to model:

1. `PriorityGrowth`: priorities at the width of `int`.  The running process keeps
   its aged priority, so it holds the CPU until a waiting one has caught up; for
   which priorities this stays bounded.
2. The number conversions of `terminal.c`, at the boundaries of `int`.
3. `insertBlockedFifo` and the device queues on pointers, and what "corrupt" leads
   to.

To prove: nothing that the runs check today, liveness apart; with the modules
above, what they add.
