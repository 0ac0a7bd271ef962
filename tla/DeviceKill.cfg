CONSTANTS
  MAXPROC = 3
  Sem = {}
  Dev = {d1}
  Term = {}
  Priorities = {1}
  MAXSEM = 0
  MAXPRIO = 1
  NULL = NULL
SPECIFICATION NucleusSpec
PROPERTIES
  NoWaiterDropped
