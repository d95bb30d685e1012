\* One machine that boots twice, two copies of a two-line archive, tokens lost, headers cut
\* or given another stamp.  The probes end, so the system may stop.
CONSTANTS
  v1 = v1
  v2 = v2
  VMs <- OneVM
  Legacy = {}
  Unsteady <- OneVM
  NL = 2
  Copies = 2
  MaxBoots = 2
  MaxSpoiled = 2
  Spoilings = {"lost", "header", "stamp"}
SPECIFICATION ConsoleSpec
INVARIANTS ConsoleTypeOK SurvivesInterleaving
PROPERTIES StaysExtractable
CHECK_DEADLOCK FALSE
