CONSTANTS
  MAXPROC = 3
  Sem = {}
  Dev = {}
  Priorities = {1, 3}
  MAXSEM = 0
  MAXPRIO = 9
  time_slice = 2
  NULL = NULL
SPECIFICATION ComputingSpec
PROPERTIES
  ReadyRuns
