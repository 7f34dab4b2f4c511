\* Two threads, two directives of two candidates, one of them disabled; one
\* failing commit, one restart or one claim approved for the memory.
SPECIFICATION Spec
CONSTANTS
  polite = polite
  unsafe = unsafe
  private = private
  stream = stream
  Values = {polite, unsafe}
  Unsafe = {unsafe}
  Audiences = {private, stream}
  Candidates <- MCCandidates
  Handlers = {h1, h2}
  None = None
  MaxDirectives = 2
  MaxDisabled = 1
  MaxTrouble = 1
SYMMETRY Symmetry
CHECK_DEADLOCK FALSE
INVARIANTS
  TypeOK
  InForceWasApproved
  WithdrawnStaysOut
  RowsMatchAtRest
  InForceHasClaim
