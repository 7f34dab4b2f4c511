SPECIFICATION Spec
CONSTANTS
  Threads = {t1, t2}
  text = text
  zai = zai
  mock = mock
  Providers = {text, zai, mock}
  Order <- MCOrder
  Capable = {zai, mock}
  MaxRetries = 1
  Threshold = 2
  Cooldown = 2
INVARIANTS
  TypeOK
  OpenShields
  FailingIsContained
PROPERTIES
  FirstComesBack
