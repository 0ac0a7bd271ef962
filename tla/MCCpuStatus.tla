---------------------------- MODULE MCCpuStatus ----------------------------
(***************************************************************************)
(* CpuStatus for TLC: new areas that hold any combination of the bits that *)
(* matter.                                                                 *)
(***************************************************************************)
EXTENDS CpuStatus

MCGarbage ==
    [UMPS |-> SUBSET {"KUc", "KUp", "IEc", "VMc", "IM_TIMER", "IM_OTHER"},
     UARM |-> {mode \cup bits : mode \in {{}, {"SYS"}, {"USR"}}, bits \in SUBSET {"I", "F", "VM"}}]
=============================================================================
