\* The two directories that an earlier run for a machine of the same name has left.
\* The script exits, so the system may stop.
CONSTANTS
  v1 = v1
  VMs <- OneVM
  NAME = v1
  Legacy = {}
  Unsteady <- OneVM
  NL = 2
  Copies = 2
  MaxBoots = 2
  MaxSpoiled = 1
  Spoilings = {"lost", "header", "stamp", "same_length"}
  Leftover = 2
  MaxTries = 3
  Faults = {"fetch", "stop", "start", "delete"}
SPECIFICATION FairSpec
INVARIANTS BothArchivesVerified
CHECK_DEADLOCK FALSE
