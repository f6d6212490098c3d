SPECIFICATION MCSpec
CONSTANTS
  Client = {c1, c2}
  Files <- MCFiles
  other = other
  MaxExtraText = 0
  Known <- TwoKeys
  Static <- StaticKeys
  Extra <- ExtraKeys
  Unknown = other
  Value <- Values
  DefaultValue <- default
  EnvKeys <- NoKeys
  EnvValue <- changed
  Failures = FALSE
  SameTick = FALSE
  MaxEntries = 1
  MaxRequests = 2
  MaxCrashes = 0
CHECK_DEADLOCK FALSE
INVARIANTS
  FileWhole
