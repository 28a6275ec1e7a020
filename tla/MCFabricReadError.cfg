CONSTANTS
  Peers <- MCPeers
  Names <- MCNames
  Loopback = lo
  h1 = h1
  h2 = h2
  HostCounters <- MCHostCounters1
  Conns <- MCConns0
  GameTimeout = 1
  MaxTime = 1
  ProbeVersion = 26
  ReadErrors = TRUE
SPECIFICATION FairSpec
PROPERTY HostedEventuallyListed
