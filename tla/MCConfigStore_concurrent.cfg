SPECIFICATION MCSpec
CONSTANTS
  Client = {c1, c2}
  Files <- MCFiles
  other = other
  MaxExtraText = 0
  Known <- TwoKeys
  Static <- StaticKeys
  Extra <- ExtraKeys
  Unknown = other
  Value <- Values
  DefaultValue <- default
  EnvKeys <- NoKeys
  EnvValue <- changed
  Failures = TRUE
  SameTick = TRUE
  MaxEntries = 1
  MaxRequests = 2
  MaxCrashes = 0
CHECK_DEADLOCK FALSE
INVARIANTS
  NoTmpLeft
PROPERTIES
  RequestsAnswered
