\* Two machines, one of them with the single-line format that may stop; fetch and delete may
\* fail, one token is hit.  The collector exits, so the system may stop.
CONSTANTS
  v1 = v1
  v2 = v2
  VMs <- TwoVMs
  Legacy <- OneVM
  Unsteady <- OneVM
  NL = 1
  Copies = 2
  MaxBoots = 1
  MaxSpoiled = 1
  Spoilings = {"lost", "header"}
  Launched <- TwoLines
  MaxRuns = 1
  Faults = {"fetch", "delete"}
SPECIFICATION FairSpec
INVARIANTS FinishedSettled
PROPERTIES KeepsPromise EventuallyCollected StopsAfterDeadline
CHECK_DEADLOCK FALSE
