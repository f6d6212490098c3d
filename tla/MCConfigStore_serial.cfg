SPECIFICATION MCSpec
CONSTANTS
  Client = {c1}
  Files <- MCFiles
  other = other
  MaxExtraText = 2
  Known <- Keys
  Static <- StaticKeys
  Extra <- ExtraKeys
  Unknown = other
  Value <- Values
  DefaultValue <- default
  EnvKeys <- PlainKeys
  EnvValue <- changed
  Failures = TRUE
  SameTick = FALSE
  MaxEntries = 2
  MaxRequests = 2
  MaxCrashes = 1
CHECK_DEADLOCK FALSE
INVARIANTS
  ConfigTypeOK
  FileWhole
  SavedWhenAnswered
PROPERTIES
  ExtrasKept
  AcknowledgedSurvives
  ReplacedIsArchived
  ImplementsStore
