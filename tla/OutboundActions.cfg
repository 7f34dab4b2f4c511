\* Two actions, two threads, two failing commits and one restart.
SPECIFICATION Spec
CONSTANTS
  Actions = {a1, a2}
  Texts = {short, long}
  Overlong = {long}
  Handlers = {h1, h2}
  None = None
  MaxPosts = 2
  MaxFaults = 2
  MaxCrashes = 1
SYMMETRY Symmetry
INVARIANTS
  TypeOK
  PostedTextWasApproved
  RowNeverAhead
  SentRowWasPosted
  AuditMatchesRow
PROPERTIES
  ClosedStaysClosed
  ImplementsApproval
