\* Three responses, two handler threads, a worker thread per job.
SPECIFICATION Spec
CONSTANTS
  p1 = p1
  p2 = p2
  p3 = p3
  Plans <- MCPlans
  Priority <- MCPriority
  Calm <- MCCalm
  Handlers = {h1, h2}
  None = None
  MaxJobs = 3
  MaxRaises = 1
  MaxCancels = 1
\* The system is idle when every response was published and voiced, or a worker
\* waits in get() for a job that never comes.
CHECK_DEADLOCK FALSE
INVARIANTS
  TypeOK
  NobodyWaitsInVain
  CancelIsHonoured
  VoicedOnce
  QuietIsIdle
PROPERTIES
  ReleasedIsVoiced
