CONSTANTS
  MAXPROC = 3
  Sem = {}
  Dev = {d1, t1}
  Term = {t1}
  Priorities = {1, 2}
  MAXSEM = 0
  MAXPRIO = 2
  NULL = NULL
SPECIFICATION ExclusiveSpec
INVARIANTS
  NoProcessLost
  OneWaiter
  KillsSucceed
PROPERTIES
  IoReturns
