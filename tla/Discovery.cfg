SPECIFICATION MCSpec
CONSTANTS
  Serials = {"s"}
  MaxTags = 2
  Places = {"p", "q"}
  PlaceByIP = "p"
  RestThreads = {"t"}
  MaxQueue = 1
  MaxRequests = 2
  Base = 2
  Digits = 3
  WordDigits = 4
INVARIANTS StoredCachedListed SearchesExact
PROPERTIES ConnectedDevicesDiscovered OwnerSettles
CHECK_DEADLOCK FALSE
