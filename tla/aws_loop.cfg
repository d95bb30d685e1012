\* Two instances, one prints the single-line format of probe.sh and may stop; the script is
\* run twice, describe and terminate may fail, one token is lost.
\* The collector exits, so the system may stop.
CONSTANTS
  v1 = v1
  v2 = v2
  VMs <- TwoVMs
  Legacy <- OneVM
  Unsteady <- OneVM
  NL = 1
  Copies = 2
  MaxBoots = 1
  MaxSpoiled = 1
  Spoilings = {"lost"}
  Launched <- TwoLines
  MaxRuns = 2
  Faults = {"describe", "delete"}
SPECIFICATION FairSpec
INVARIANTS TypeOK GivenUpHadNothing DeletedOnlyVerified FinishedSettled
PROPERTIES KeepsPromise EventuallyCollected
CHECK_DEADLOCK FALSE
