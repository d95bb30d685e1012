\* A fresh output directory; any call may fail, any damage to one token, the machine may stop and come up again by itself.
\* The script exits, so the system may stop.
CONSTANTS
  v1 = v1
  VMs <- OneVM
  NAME = v1
  Legacy = {}
  Unsteady <- OneVM
  NL = 1
  Copies = 1
  MaxBoots = 3
  MaxSpoiled = 1
  Spoilings = {"lost", "header", "stamp", "same_length"}
  Leftover = 0
  MaxTries = 3
  Faults = {"fetch", "stop", "start", "delete"}
SPECIFICATION FairSpec
INVARIANTS TypeOK BothArchivesVerified NoDeletionWithoutRestart
PROPERTIES TakenDownAfterArchive Ends
CHECK_DEADLOCK FALSE
