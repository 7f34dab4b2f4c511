\* One thread, no failure and no restart: three approvals are enough.
SPECIFICATION Spec
CONSTANTS
  Proposals = {p1, p2, p3}
  x = x
  y = y
  Contents = {x, y}
  Requests <- MCRequests
  Candidates <- MCCandidates
  Edits = {y}
  Handlers = {h1}
  None = None
  MaxClaims = 3
  MaxTrouble = 0
SYMMETRY Symmetry
CHECK_DEADLOCK FALSE
INVARIANTS
  SingleValue
