SPECIFICATION FairSpec
CONSTANTS
  p1 = p1
  p2 = p2
  r1 = r1
  r2 = r2
  Ports = {p1, p2}
  DipPort = NoPort
  Regs = {r1, r2}
  Zero = Zero
  NoValue = NoValue
  Wires = {w1}
  Configs <- MCConfigs
  Error = Error
  Closed = Closed
  NoGen = NoGen
  MaxItems = 2
  MaxRetry = 0
  MaxChanges = 2
  MaxSettings = 1
  MaxFaults = 1
INVARIANTS ResultsAreTrue
