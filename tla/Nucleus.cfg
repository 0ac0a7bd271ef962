CONSTANTS
  MAXPROC = 3
  Sem = {}
  Dev = {d1}
  Term = {}
  Priorities = {1}
  MAXSEM = 0
  MAXPRIO = 2
  NULL = NULL
SPECIFICATION NucleusSpec
INVARIANTS
  NucleusTypeOK
  DeviceAgrees
  LinkedUntilCorrupt
  SemkeyNamesQueue
  HighestPriorityRuns
  TreeConsistent
PROPERTIES
  AgedNotOvertaken
