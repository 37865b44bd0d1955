SPECIFICATION PrefixSpec
CONSTANTS
  Nets <- AllNets
  Options <- AllOptions
INVARIANTS
  ConcurrencySound
  ConcurrencyComplete
  ConcurrencyCount
  HistoriesSound
  NoDuplicateEvents
  NoDuplicateHistories
  IInv
  PrefixInv
  CutoffsJustified
  OrderIsPreorder
  CutoffEvents
  Complete
  UnsafeIsUnsafe
  SafeCuts
  RoundTrip
PROPERTIES
  PopsInOrder
  QuotaStops
  Terminates
CHECK_DEADLOCK FALSE
