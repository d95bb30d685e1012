\* One machine, one token hit, the SSH fallback available.  The collector exits, so the system
\* may stop.
CONSTANTS
  v1 = v1
  v2 = v2
  VMs <- OneVM
  Legacy <- OneVM
  Unsteady <- NoVM
  NL = 2
  Copies = 1
  MaxBoots = 1
  MaxSpoiled = 1
  Spoilings = {"lost"}
  Launched <- OneLine
  MaxRuns = 1
  Faults = {}
  SshKey = TRUE
SPECIFICATION Spec
INVARIANTS DeletedAfterContentChecked
CHECK_DEADLOCK FALSE
