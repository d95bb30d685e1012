\* Three run directories with AMD reports in any order, every request may fail.  The programs end, so the system may stop.
CONSTANTS
  Chips <- MCChips
  ProductOf <- MCProductOf
  KeysAt <- MCKeysAt
  IssuerAt <- MCIssuerAt
  DirSequences <- MCDirSequences
  Directories <- MCDirectories
  Services <- MCServices
  Sessions <- EarlySessions
SPECIFICATION Spec
INVARIANTS SeenAgainVerified
CHECK_DEADLOCK FALSE
