\* One thread and one failing transaction.
SPECIFICATION Spec
CONSTANTS
  Proposals = {p1}
  x = x
  y = y
  Contents = {x, y}
  Requests <- MCRequests
  Candidates <- MCCandidates
  Edits = {y}
  Handlers = {h1}
  None = None
  MaxClaims = 1
  MaxTrouble = 1
CHECK_DEADLOCK FALSE
INVARIANTS
  RejectedLeavesNothing
