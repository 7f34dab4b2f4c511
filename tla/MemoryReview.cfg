\* Two threads, two proposals of one single-valued field, and one failing commit
\* or one restart.
SPECIFICATION Spec
CONSTANTS
  Proposals = {p1, p2}
  x = x
  y = y
  Contents = {x, y}
  Requests <- MCRequests
  Candidates <- MCCandidates
  Edits = {y}
  Handlers = {h1, h2}
  None = None
  MaxClaims = 3
  MaxTrouble = 1
SYMMETRY Symmetry
CHECK_DEADLOCK FALSE
INVARIANTS
  TypeOK
  ApprovedIsDurable
  OnlyApprovedIsRemembered
  OneClaimPerApproval
  SupersededHasSuccessor

  
