SPECIFICATION Spec
CONSTANTS
  p1 = p1
  p2 = p2
  c1 = c1
  c2 = c2
  e1 = e1
  e2 = e2
  e3 = e3
  g1 = g1
  g2 = g2
  None = None
  Corrupt = Corrupt
  EntryIds = {e1, e2, e3}
  GroupIds = {g1, g2}
  EntryNames = {"alice", "bob"}
  GroupNames = {"ops", "dev"}
  InitialFile <- MCInitialFile
  Procs = {p1}
  Callers = {c1, c2}
  ProcOf <- MCOneProc
  Inputs <- MCTwoWrites
  Edits <- MCEdits
  MaxEdits = 0
  MaxCrashes = 0
  PollOnly = {}
INVARIANTS SynchronizedAtRest
CHECK_DEADLOCK FALSE
