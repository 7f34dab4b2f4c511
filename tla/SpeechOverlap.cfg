\* Two responses are enough.
SPECIFICATION Spec
CONSTANTS
  p1 = p1
  p2 = p2
  p3 = p3
  Plans <- MCPlans
  Priority <- MCPriority
  Calm <- MCCalm
  Handlers = {h1}
  None = None
  MaxJobs = 2
  MaxRaises = 0
  MaxCancels = 0
CHECK_DEADLOCK FALSE
INVARIANTS
  OneVoice
