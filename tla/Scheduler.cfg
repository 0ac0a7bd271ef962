CONSTANTS
  MAXPROC = 3
  Sem = {s1}
  Dev = {}
  Priorities = {1, 2}
  MAXSEM = 1
  MAXPRIO = 4
  NULL = NULL
SPECIFICATION Spec
INVARIANTS
  TypeOK
  LinkedOnce
  NoProcessLost
  SemkeyNamesQueue
  HighestPriorityRuns
  QueuesSorted
  WaitersOnlyAtZero
  TreeConsistent
PROPERTIES
  ImplementsProcessTree
  KillOfLiveSucceeds
  EqualsTakeTurns
  AgedNotOvertaken
  WaitingNeverDemotes
