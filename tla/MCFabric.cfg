CONSTANTS
  Peers <- MCPeers
  Names <- MCNames
  Loopback = lo
  h1 = h1
  h2 = h2
  HostCounters <- MCHostCounters
  Conns <- MCConns
  GameTimeout = 1
  MaxTime = 1
  ProbeVersion = 26
  ReadErrors = FALSE
SPECIFICATION Spec
SYMMETRY HcSymmetry
INVARIANT TypeOK
INVARIANT ProxyDialsOverlayPeer
