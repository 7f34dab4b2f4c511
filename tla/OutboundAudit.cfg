\* No disk failure at all: one restart is enough.
SPECIFICATION Spec
CONSTANTS
  Actions = {a1}
  Texts = {short}
  Overlong = {}
  Handlers = {h1}
  None = None
  MaxPosts = 1
  MaxFaults = 0
  MaxCrashes = 1
INVARIANTS
  PostedIsDurablyAudited
