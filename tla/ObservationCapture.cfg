\* Two threads, three requests, none to OBS after its first three; one fault; a
\* list of one observation.
SPECIFICATION Spec
CONSTANTS
  Threads = {t1, t2}
  Frames = {fixture, screen}
  Fixture = fixture
  Enabled = TRUE
  MaxFrames = 1
  TTL = 1
  MaxArrivals = 3
  MaxAsked = 3
  MaxFaults = 1
SYMMETRY Symmetry
CHECK_DEADLOCK FALSE
INVARIANTS
  TypeOK
  AnswerIsOwn
  EvidenceIsCurrent
