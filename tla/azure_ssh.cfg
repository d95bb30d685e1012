\* Two machines, one of them may stop, the SSH fallback available, one token lost, the
\* script run twice.  The collector exits, so the system may stop.
CONSTANTS
  v1 = v1
  v2 = v2
  VMs <- TwoVMs
  Legacy <- TwoVMs
  Unsteady <- OneVM
  NL = 1
  Copies = 1
  MaxBoots = 1
  MaxSpoiled = 1
  Spoilings = {"lost"}
  Launched <- TwoLines
  MaxRuns = 2
  Faults = {"fetch"}
  SshKey = TRUE
SPECIFICATION FairSpec
INVARIANTS LoopTypeOK
PROPERTIES UndisturbedNotLost StopsAfterDeadline
CHECK_DEADLOCK FALSE
