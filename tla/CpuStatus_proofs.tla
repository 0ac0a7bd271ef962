-------------------------- MODULE CpuStatus_proofs --------------------------
(***************************************************************************)
(* For any set of processes and any contents of the new areas: handlers    *)
(* are shielded and processes run as requested.                            *)
(***************************************************************************)
EXTENDS CpuStatus, TLAPS

Shield == [km_on |-> TRUE, vm_on |-> FALSE, timer_int_on |-> FALSE, other_ints_on |-> FALSE]
Bits == UmpsBits \cup UarmBits
Started == at \in {"process", "handler"}

\* Where the mode of each process is kept: in the processor while it runs, in
\* the old area during a handler, in its p_s otherwise.  The idle process's
\* p_s is never written.
CpuInv ==
    /\ CpuTypeOK
    /\ at # "boot" => Mode(new_area) = Shield
    /\ at = "process" => status \in SUBSET Bits /\ Mode(status) = data[running_proc]
    /\ at = "handler" => /\ status = new_area
                         /\ old_area \in SUBSET Bits
                         /\ Mode(LDST(old_area)) = data[running_proc]
    /\ Started => data[idle_proc] # NULL
    /\ \A p \in Pcb : data[p] # NULL /\ (Started => p # running_proc \/ p = idle_proc) =>
          Mode(LDST(p_s[p])) = data[p]

-----------------------------------------------------------------------------
(* The operations on a status *)

\* What an exception pushes, LDST brings back.
LEMMA PushPop ==
    ASSUME NEW s PROVE Mode(LDST(push(s))) = Mode(s)
<1>1. CASE Umps
  BY <1>1 DEF Mode, LDST, push, If
<1>2. CASE ~Umps
  BY <1>2 DEF LDST, push
<1>. QED BY <1>1, <1>2

\* Statuses are sets of bits before and after.
LEMMA StatusType ==
    ASSUME NEW s \in SUBSET Bits
    PROVE  push(s) \in SUBSET Bits /\ LDST(s) \in SUBSET Bits
BY DEF push, LDST, If, Bits, UmpsBits, UarmBits

\* A mode is what its four parts are.
LEMMA UmpsMode ==
    ASSUME Umps, NEW s, NEW m \in proc_init_data,
           "KUc" \notin s <=> m.km_on, "VMc" \in s <=> m.vm_on,
           ("IEc" \in s /\ "IM_TIMER" \in s) <=> m.timer_int_on,
           ("IEc" \in s /\ "IM_OTHER" \in s) <=> m.other_ints_on
    PROVE  Mode(s) = m
<1>1. /\ ("KUc" \notin s) = m.km_on /\ ("VMc" \in s) = m.vm_on
      /\ ({"IEc", "IM_TIMER"} \subseteq s) = m.timer_int_on
      /\ ({"IEc", "IM_OTHER"} \subseteq s) = m.other_ints_on
  BY DEF proc_init_data
<1>. QED BY <1>1 DEF Mode, proc_init_data

LEMMA UarmMode ==
    ASSUME ~Umps, NEW s, NEW m \in proc_init_data,
           "SYS" \in s <=> m.km_on, "VM" \in s <=> m.vm_on,
           "F" \notin s <=> m.timer_int_on, "I" \notin s <=> m.other_ints_on
    PROVE  Mode(s) = m
<1>1. /\ ("SYS" \in s) = m.km_on /\ ("VM" \in s) = m.vm_on
      /\ ("F" \notin s) = m.timer_int_on /\ ("I" \notin s) = m.other_ints_on
  BY DEF proc_init_data
<1>. QED BY <1>1 DEF Mode, proc_init_data

\* init_new_area shields the handler whatever the area held.
LEMMA NewAreaShields ==
    ASSUME NEW g PROVE Mode(init_new_area(g)) = Shield
<1>. DEFINE v == set_virtual_mem(set_kernel_mode(g, TRUE), FALSE)
            a == init_new_area(g)
<1>1. /\ Shield \in proc_init_data /\ Shield.km_on = TRUE /\ Shield.vm_on = FALSE
      /\ Shield.timer_int_on = FALSE /\ Shield.other_ints_on = FALSE
  BY DEF Shield, proc_init_data
<1>2. CASE Umps
  <2>1. "KUc" \notin v /\ "VMc" \notin v
    BY <1>2 DEF set_virtual_mem, set_virtual_mem_mps, set_kernel_mode, set_kernel_mode_mps, If
  <2>2. a = (v \ {"IM_TIMER"}) \ {"IM_OTHER"}
    BY <1>2 DEF init_new_area, set_interval_timer_interrupts,
                set_interval_timer_interrupts_mps, set_other_interrupts,
                set_other_interrupts_mps
  <2>. HIDE DEF a, v
  <2>3. "KUc" \notin a /\ "VMc" \notin a /\ "IM_TIMER" \notin a /\ "IM_OTHER" \notin a
    BY <2>1, <2>2
  <2>4. Mode(a) = Shield
    BY <1>1, <1>2, <2>3, UmpsMode
  <2>. QED BY <2>4 DEF a
<1>3. CASE ~Umps
  <2>1. "SYS" \in v /\ "VM" \notin v
    BY <1>3 DEF set_virtual_mem, set_virtual_mem_arm, set_kernel_mode, set_kernel_mode_arm, If
  <2>2. a = (v \cup {"F"}) \cup {"I"}
    BY <1>3 DEF init_new_area, set_interval_timer_interrupts,
                set_interval_timer_interrupts_arm, set_other_interrupts,
                set_other_interrupts_arm
  <2>. HIDE DEF a, v
  <2>3. "SYS" \in a /\ "VM" \notin a /\ "F" \in a /\ "I" \in a
    BY <2>1, <2>2
  <2>4. Mode(a) = Shield
    BY <1>1, <1>3, <2>3, UarmMode
  <2>. QED BY <2>4 DEF a
<1>. QED BY <1>2, <1>3

\* What populate_pcb writes is what LDST loads.
LEMMA PopulatedRuns ==
    ASSUME NEW d \in proc_init_data
    PROVE  Mode(LDST(populated(d))) = d /\ populated(d) \in SUBSET Bits
<1>. d.km_on \in BOOLEAN /\ d.vm_on \in BOOLEAN /\ d.timer_int_on \in BOOLEAN
     /\ d.other_ints_on \in BOOLEAN
     /\ d = [km_on |-> d.km_on, vm_on |-> d.vm_on,
             timer_int_on |-> d.timer_int_on, other_ints_on |-> d.other_ints_on]
  BY DEF proc_init_data
<1>. DEFINE a == populated(d)
            b == LDST(a)
<1>1. CASE Umps
  <2>1. /\ "KUp" \in a <=> ~d.km_on
        /\ "VMp" \in a <=> d.vm_on
        /\ "IEp" \in a <=> (d.timer_int_on \/ d.other_ints_on)
        /\ "IM_TIMER" \in a <=> d.timer_int_on
        /\ "IM_OTHER" \in a <=> d.other_ints_on
    BY <1>1 DEF populated, set_virtual_mem, set_virtual_mem_mps, set_interval_timer_interrupts,
                set_interval_timer_interrupts_mps, set_other_interrupts,
                set_other_interrupts_mps, reset_state, If
  <2>2. a \in SUBSET Bits
    BY <1>1 DEF populated, set_virtual_mem, set_virtual_mem_mps, set_interval_timer_interrupts,
                set_interval_timer_interrupts_mps, set_other_interrupts,
                set_other_interrupts_mps, reset_state, If, Bits, UmpsBits
  <2>. HIDE DEF a
  <2>3. /\ "KUc" \in b <=> ~d.km_on
        /\ "VMc" \in b <=> d.vm_on
        /\ "IEc" \in b <=> (d.timer_int_on \/ d.other_ints_on)
        /\ "IM_TIMER" \in b <=> d.timer_int_on
        /\ "IM_OTHER" \in b <=> d.other_ints_on
    BY <1>1, <2>1 DEF LDST, If
  <2>. HIDE DEF b
  <2>4. Mode(b) = d
    BY <1>1, <2>3, UmpsMode
  <2>. QED BY <2>2, <2>4 DEF a, b
<1>2. CASE ~Umps
  <2>1. /\ "SYS" \in a <=> d.km_on
        /\ "VM" \in a <=> d.vm_on
        /\ "F" \notin a <=> d.timer_int_on
        /\ "I" \notin a <=> d.other_ints_on
    BY <1>2 DEF populated, set_virtual_mem, set_virtual_mem_arm, set_kernel_mode,
                set_kernel_mode_arm, set_interval_timer_interrupts,
                set_interval_timer_interrupts_arm, set_other_interrupts,
                set_other_interrupts_arm, reset_state, If
  <2>2. a \in SUBSET Bits
    BY <1>2 DEF populated, set_virtual_mem, set_virtual_mem_arm, set_kernel_mode,
                set_kernel_mode_arm, set_interval_timer_interrupts,
                set_interval_timer_interrupts_arm, set_other_interrupts,
                set_other_interrupts_arm, reset_state, If, Bits, UarmBits
  <2>3. b = a
    BY <1>2 DEF LDST
  <2>. HIDE DEF a, b
  <2>4. Mode(a) = d
    BY <1>2, <2>1, UarmMode
  <2>. QED BY <2>2, <2>3, <2>4 DEF a, b
<1>. QED BY <1>1, <1>2

-----------------------------------------------------------------------------
(* The inductive invariant *)

LEMMA CpuInvInit == CpuInit => CpuInv
BY DEF CpuInit, CpuInv, CpuTypeOK, Started, reset_state

LEMMA InitializeNewAreas == CpuInv /\ initialize_new_areas => CpuInv'
<1>. SUFFICES ASSUME CpuInv, initialize_new_areas PROVE CpuInv'
  OBVIOUS
<1>. USE DEF initialize_new_areas
<1>1. CpuTypeOK'
  BY DEF CpuInv, CpuTypeOK
<1>2. Mode(new_area)' = Shield
  BY NewAreaShields DEF Mode, Umps
<1>3. \A p \in Pcb : (Mode(LDST(p_s[p])) = data[p])' <=> Mode(LDST(p_s[p])) = data[p]
  BY DEF Mode, LDST, Umps
<1>. QED BY <1>1, <1>2, <1>3 DEF CpuInv, Started

LEMMA PopulatePcb ==
    ASSUME CpuInv, NEW p \in Pcb, NEW d \in proc_init_data, populate_pcb(p, d)
    PROVE  CpuInv'
<1>. USE DEF populate_pcb
<1>1. populated(d) \in SUBSET Bits /\ Mode(LDST(populated(d))) = d /\ d # NULL
  BY PopulatedRuns, NullAssumption
<1>2. CpuTypeOK'
  BY <1>1 DEF CpuInv, CpuTypeOK, Bits
<1>3. Mode(new_area)' = Mode(new_area)
  BY DEF Mode, Umps
<1>4. ASSUME NEW q \in Pcb, data'[q] # NULL PROVE Mode(LDST(p_s[q]))' = data'[q]
  <2>1. Mode(LDST(p_s[q]))' = Mode(LDST(p_s'[q]))
    BY DEF Mode, LDST, Umps
  <2>2. CASE q = p
    BY <1>1, <2>1, <2>2 DEF CpuInv, CpuTypeOK
  <2>3. CASE q # p
    BY <1>4, <2>1, <2>3 DEF CpuInv, CpuTypeOK, Started
  <2>. QED BY <2>2, <2>3
<1>. QED BY <1>2, <1>3, <1>4 DEF CpuInv, Started

LEMMA Launch ==
    ASSUME CpuInv, NEW p \in Proc, launch(p)
    PROVE  CpuInv'
<1>. USE DEF launch
<1>1. CpuTypeOK'
  BY DEF CpuInv, CpuTypeOK, Pcb
<1>2. Mode(new_area)' = Mode(new_area) /\ Mode(status)' = Mode(status')
  BY DEF Mode, Umps
<1>3. \A q \in Pcb : Mode(LDST(p_s[q]))' = Mode(LDST(p_s[q]))
  BY DEF Mode, LDST, Umps
<1>4. p \in Pcb /\ p_s[p] \in SUBSET Bits /\ Mode(LDST(p_s[p])) = data[p]
  BY DEF CpuInv, CpuTypeOK, Pcb, Bits, Started
<1>5. status' \in SUBSET Bits
  BY <1>4, StatusType
<1>. QED BY <1>1, <1>2, <1>3, <1>4, <1>5 DEF CpuInv, Started

LEMMA Exception == CpuInv /\ exception => CpuInv'
<1>. SUFFICES ASSUME CpuInv, exception PROVE CpuInv'
  OBVIOUS
<1>. USE DEF exception
<1>1. CpuTypeOK'
  BY DEF CpuInv, CpuTypeOK
<1>2. Mode(new_area)' = Mode(new_area) /\ Mode(LDST(old_area))' = Mode(LDST(old_area'))
  BY DEF Mode, LDST, Umps
<1>3. \A q \in Pcb : Mode(LDST(p_s[q]))' = Mode(LDST(p_s[q]))
  BY DEF Mode, LDST, Umps
<1>4. status \in SUBSET Bits /\ Mode(status) = data[running_proc]
  BY DEF CpuInv
<1>5. old_area' \in SUBSET Bits /\ Mode(LDST(old_area')) = data[running_proc]
  BY <1>4, StatusType, PushPop
<1>. QED BY <1>1, <1>2, <1>3, <1>5 DEF CpuInv, Started

LEMMA ConcludeHandler ==
    ASSUME CpuInv, NEW p \in Pcb, conclude_handler(p)
    PROVE  CpuInv'
<1>. USE DEF conclude_handler
<1>0. data[p] # NULL /\ interrupted_proc = running_proc /\ running_proc \in Pcb
      /\ data[running_proc] # NULL
  BY DEF CpuInv, CpuTypeOK, Started
<1>1. CpuTypeOK'
  BY <1>0 DEF CpuInv, CpuTypeOK, Bits
<1>2. Mode(new_area)' = Mode(new_area) /\ Mode(status)' = Mode(status')
  BY DEF Mode, Umps
<1>3. \A q \in Pcb : Mode(LDST(p_s[q]))' = Mode(LDST(p_s'[q]))
  BY DEF Mode, LDST, Umps
<1>4. status' \in SUBSET Bits /\ Mode(status') = data[p]
  <2>1. CASE p = interrupted_proc
    BY <1>0, <2>1, StatusType DEF CpuInv
  <2>2. CASE p # interrupted_proc
    <3>1. p_s[p] \in SUBSET Bits /\ Mode(LDST(p_s[p])) = data[p]
      BY <1>0, <2>2 DEF CpuInv, CpuTypeOK, Bits, Started
    <3>. QED BY <2>2, <3>1, StatusType
  <2>. QED BY <2>1, <2>2
<1>5. ASSUME NEW q \in Pcb, data[q] # NULL, q # p \/ q = idle_proc
      PROVE  Mode(LDST(p_s'[q])) = data[q]
  <2>1. CASE q = interrupted_proc /\ q # p /\ q # idle_proc
    BY <1>0, <2>1 DEF CpuInv, CpuTypeOK
  <2>2. CASE ~(q = interrupted_proc /\ q # p /\ q # idle_proc)
    <3>1. p_s'[q] = p_s[q]
      BY <1>5, <2>2 DEF CpuInv, CpuTypeOK
    <3>2. q # running_proc \/ q = idle_proc
      BY <1>0, <1>5, <2>2
    <3>. QED BY <1>5, <3>1, <3>2 DEF CpuInv, Started
  <2>. QED BY <2>1, <2>2
<1>. QED BY <1>1, <1>2, <1>3, <1>4, <1>5 DEF CpuInv, Started

LEMMA CpuStutter == CpuInv /\ UNCHANGED cpuVars => CpuInv'
BY DEF CpuInv, CpuTypeOK, cpuVars, Started, Mode, LDST, Umps, Pcb

LEMMA CpuInvNext == CpuInv /\ [CpuNext]_cpuVars => CpuInv'
<1>. SUFFICES ASSUME CpuInv, [CpuNext]_cpuVars PROVE CpuInv'
  OBVIOUS
<1>1. CASE initialize_new_areas
  BY <1>1, InitializeNewAreas
<1>2. ASSUME NEW p \in Proc, NEW d \in proc_init_data, populate_pcb(p, d) PROVE CpuInv'
  BY <1>2, PopulatePcb DEF Pcb
<1>3. CASE populate_pcb(idle_proc, idle_proc_data)
  <2>1. idle_proc \in Pcb /\ idle_proc_data \in proc_init_data
    BY DEF Pcb, idle_proc_data, proc_init_data
  <2>. QED BY <1>3, <2>1, PopulatePcb
<1>4. ASSUME NEW p \in Proc, launch(p) PROVE CpuInv'
  BY <1>4, Launch
<1>5. CASE exception
  BY <1>5, Exception
<1>6. ASSUME NEW p \in Pcb, conclude_handler(p) PROVE CpuInv'
  BY <1>6, ConcludeHandler
<1>7. CASE UNCHANGED cpuVars
  BY <1>7, CpuStutter
<1>. QED BY <1>1, <1>2, <1>3, <1>4, <1>5, <1>6, <1>7 DEF CpuNext

LEMMA CpuInvariant == CpuSpec => []CpuInv
BY CpuInvInit, CpuInvNext, PTL DEF CpuSpec

\* The process that runs has been set up: the idle process before launch.
THEOREM CpuTypeCorrect == CpuSpec => []CpuTypeOK
<1>1. CpuInv => CpuTypeOK
  BY DEF CpuInv
<1>. QED BY <1>1, CpuInvariant, PTL

\* Handlers are shielded from interrupts, whatever the new areas held
\* (init_new_area).
THEOREM HandlersShielded == CpuSpec => []HandlersAreShielded
<1>1. CpuInv => HandlersAreShielded
  BY DEF CpuInv, HandlersAreShielded, Shield
<1>. QED BY <1>1, CpuInvariant, PTL

\* Every process runs with the mode, memory and interrupts it was set up with
\* (populate_pcb), through all exceptions and changes of process.
THEOREM ProcessesRunAsRequested == CpuSpec => []RunsAsRequested
<1>1. CpuInv => RunsAsRequested
  BY DEF CpuInv, RunsAsRequested
<1>. QED BY <1>1, CpuInvariant, PTL
=============================================================================
