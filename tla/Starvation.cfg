CONSTANTS
  MAXPROC = 3
  Sem = {s1}
  Dev = {}
  Priorities = {1, 2}
  MAXSEM = 0
  MAXPRIO = 4
  time_slice = 2
  NULL = NULL
SPECIFICATION InteractiveSpec
PROPERTIES
  ReadyRuns
