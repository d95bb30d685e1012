\* One machine that may stop and boot again, one copy per boot of a two-line archive, any damage to
\* two tokens, any call may fail, the script run twice.  The collector exits, so the system may stop.
CONSTANTS
  v1 = v1
  v2 = v2
  VMs <- OneVM
  Legacy = {}
  Unsteady <- OneVM
  NL = 2
  Copies = 1
  MaxBoots = 2
  MaxSpoiled = 2
  Spoilings = {"lost", "header", "stamp", "same_length"}
  Launched <- OneLine
  MaxRuns = 2
  Faults = {"fetch", "describe", "delete"}
SPECIFICATION Spec
INVARIANTS TypeOK ArchivesAuthentic DeletedOnlyVerified NoAnnouncedBootLost
CHECK_DEADLOCK FALSE
