SPECIFICATION MCSpec
CONSTANTS
  Addresses = {"a1", "a2"}
  Lease = "lease"
  NoAddress = "none"
  Thresholds <- MCThresholds
  MaxEdits = 1
  MaxDrops = 1
  MaxFaults = 1
  Size = 2
  MaxBegins = 2
  MaxRefusals = 1
  Others = {"protocols", "web"}
  Broken = "protocols"
  MaxRestarts = 1
INVARIANTS
  OtaIsTrue
  AlwaysAWayBack
PROPERTY
  ServicesSettle
