SPECIFICATION FairSpec
CONSTANTS
  r1 = r1
  r2 = r2
  r3 = r3
  r4 = r4
  x = x
  y = y
  old1 = old1
  old2 = old2
  Requests = {r1, r2, r3, r4}
  ExternalIds = {x, y}
  NoExternalId = NoExternalId
  NoInput = NoInput
  Existing <- TwoAccounts
  Inputs <- EveryInput
CONSTRAINT
  Meeting
INVARIANTS
  ExternalIdUnique
  NoTraceOfFailure
  SameIdSameAccount
  ImportReportsHold
PROPERTY
  EveryRequestAnswered
