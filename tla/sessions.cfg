\* Three clients of any plan, one relay, one server.  The programs end, so the system may stop.
CONSTANTS
  Clients <- MCClients
  Sentences <- MCSentences
  RelayKeys = {"guest", "other"}
SPECIFICATION FairSpec
INVARIANTS TypeOK ExporterMeansDirect KeyBinderMeansKey
PROPERTIES TalkersServed
CHECK_DEADLOCK FALSE
