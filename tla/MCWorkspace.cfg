SPECIFICATION WorkspaceSpec
CONSTANTS
  Procs = {p1, p2, p3}
  NoProc = NoProc
  MaxRestarts = 2
  PortThreshold = 2
  Lines = {l1, l2}
  LogReaders = {r1, r2, r3}
  Path = Path
  Void = Void
  FilePaths = {f1}
  Contents = {text, Blank}
  Blank = Blank
  Absent = Absent
  Template <- TextFiles
  Savers = {s1, s2}
  Resetters = {q1, q2}
  MaxCommits = 2
  Paths = {"a", "b"}
  NoResources = NoResources
  Batches <- ShortBatches
INVARIANTS WorkspaceTypeOK OneChildInSystem OrphansOnlyByRace LinesReadOnce StateIsStaged
INVARIANTS ConflictsInOrder NeverCircular
PROPERTIES ShutdownEnds
CHECK_DEADLOCK FALSE
