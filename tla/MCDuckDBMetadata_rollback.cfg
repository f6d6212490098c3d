SPECIFICATION MetadataSpec
CONSTANTS
  create = create
  wrong = wrong
  Client = {c1, c2}
  Nobody = Nobody
  Statement <- MCStatement
  Needs <- MCNeeds
  Scripts <- MCScripts
  Disconnects = TRUE
  MaxSQL = 1
INVARIANTS
  RollbackRestores
