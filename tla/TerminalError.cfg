CONSTANTS
  MAXPROC = 2
  Sem = {}
  Dev = {d1}
  Term = {d1}
  Priorities = {1}
  MAXSEM = 0
  MAXPRIO = 1
  NULL = NULL
SPECIFICATION ExclusiveSpec
PROPERTIES
  ErrorServed
