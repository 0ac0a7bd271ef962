CONSTANTS
  MAXPROC = 3
  Sem = {}
  Dev = {d1}
  Term = {}
  Priorities = {1, 2}
  MAXSEM = 0
  MAXPRIO = 2
  NULL = NULL
SPECIFICATION NucleusSpec
PROPERTIES
  ElseMeansTerminated
