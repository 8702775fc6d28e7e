SPECIFICATION TcpSpec
CONSTANTS
  PortSets <- MCPortSets
  NumSlots = 2
  MaxConnections = 2
  MaxAccepts = 2
  PartialLimit = 1
  None = None
  Watched = 2
  MaxIds = 3
  MaxUpsets = 2
INVARIANTS WaitsItsTurn ListenersMatch SlowSenderIsTimed
