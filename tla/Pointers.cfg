SPECIFICATION MCPtrSpec
CONSTANTS
    MAXPROC = 4
    Sem = {s1, s2}
    Dev = {}
    Priorities = {1, 3}
    MAXSEM = 0
    MAXPRIO = 3
    NULL = NULL
SYMMETRY SemSymmetry
INVARIANTS
    QueuesAgree
    SemdsAgree
    TreeAgrees
