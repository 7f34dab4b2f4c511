\* Two providers, two flows, two threads and one restart, with and without the
\* token file.
SPECIFICATION Spec
CONSTANTS
  Providers = {youtube, twitch}
  States = {s1, s2}
  Handlers = {h1, h2}
  None = None
  MaxTokens = 2
  MaxCrashes = 1
SYMMETRY Symmetry
CHECK_DEADLOCK FALSE
INVARIANTS
  TypeOK
  ExchangedOnceAsBegun
  FileStaysReadable
  TokensAreAsAnswered
