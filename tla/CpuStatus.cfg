SPECIFICATION CpuSpec
CONSTANTS
    Proc = {p1, p2}
    idle_proc = idle
    Garbage <- MCGarbage
    NULL = NULL
INVARIANTS
    CpuTypeOK
    HandlersAreShielded
    RunsAsRequested
