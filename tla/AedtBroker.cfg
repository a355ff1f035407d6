CONSTANTS
  Threads = {t1, t2}
  Keys = {pid, port}
  Brokers = {1, 2, 3}
  NoThread = NoThread
  NoBroker = NoBroker
  NoKey = NoKey
  Aliases <- OneDesktop
  MaxEvents = 3
SPECIFICATION Spec
INVARIANTS OwnAnswer RegistryRight
PROPERTY CallsEnd
CHECK_DEADLOCK FALSE
