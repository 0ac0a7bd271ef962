SPECIFICATION HandlerSpec
CONSTANTS
    MAXPROC = 2
    Sem = {s1, s2, s3}
    Dev = {}
    Priorities = {1}
    MAXSEM = 0
    MAXPRIO = 2
    time_slice = 1
    TODBITS = 3
    Boot = {6}
    Codes = {0, 2}
    MAXTICKS = 3
    NULL = NULL
SYMMETRY SemSymmetry
INVARIANTS
    ResumesWhereItStopped
    TimeAccounted
    SliceIsExact
    SemdAlwaysFound
