CONSTANTS
  Peers <- MCPeers
  Names <- MCNames
  HostCounters <- MCHostCounters
  Loopback = lo
  GameTimeout = 1
  MaxTime = 3
SPECIFICATION RegSpec
INVARIANT ViewIsSnapshot
PROPERTY ImplementsLeases
