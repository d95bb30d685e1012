\* Three run directories with AMD reports in any order, or one directory of another verifier; every
\* request to a service may fail.  The programs end, so the system may stop.
CONSTANTS
  Chips <- MCChips
  ProductOf <- MCProductOf
  KeysAt <- MCKeysAt
  IssuerAt <- MCIssuerAt
  DirSequences <- MCDirSequences
  Directories <- MCDirectories
  Services <- MCServices
  Sessions <- EarlySessions
SPECIFICATION Spec
INVARIANTS RowsSound GapsExplained ReadsGenuine ProgramsAgree AppraisedGenuine AcceptedInItsSession
CHECK_DEADLOCK FALSE
