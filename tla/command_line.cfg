SPECIFICATION CommandSpec
CONSTANTS
  p1 = p1
  p2 = p2
  c1 = c1
  c2 = c2
  e1 = e1
  e2 = e2
  e3 = e3
  g1 = g1
  g2 = g2
  None = None
  Corrupt = Corrupt
  EntryIds = {e1, e2, e3}
  GroupIds = {g1, g2}
  EntryNames = {"alice", "bob"}
  GroupNames = {"ops", "dev"}
  InitialFile <- MCInitialFile
  Procs = {p1, p2}
  Callers = {c1, c2}
  ProcOf <- MCTwoProcs
  Inputs <- MCConflicting
  Edits <- MCEdits
  MaxEdits = 0
  MaxCrashes = 0
  PollOnly = {p2}
  r1 = r1
  r2 = r2
  Versions = {"1.0.0", "1.1.0-beta.1"}
  Stable = {"1.0.0"}
  NodePackages <- MCNodePackages
  Crates <- MCCrates
  DependsOn <- MCDependsOn
  Private = {"webui"}
  FirstVersion = "1.0.0"
  Runs = {r1, r2}
  Selections <- MCSelections
  ShaFollowsRef = TRUE
  MaxCommits = 2
  MaxFaults = 1
SYMMETRY MCSymmetry
INVARIANTS FileWellFormed 
PROPERTIES NoLostUpdate
CHECK_DEADLOCK FALSE
