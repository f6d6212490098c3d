\* Two clients, who may go away at any time: one that changes a setting while
\* the other one queries or changes one too, again and again.
SPECIFICATION MetadataSpec
CONSTANTS
  create = create
  wrong = wrong
  Client = {c1, c2}
  Nobody = Nobody
  Statement <- MCStatement
  Needs <- MCNeeds
  Scripts <- MCScripts
  Disconnects = TRUE
  MaxSQL = 1
INVARIANTS
  MetadataInv
  InitExecuted
PROPERTIES
  ImplementsScripts
  RequestsServed
