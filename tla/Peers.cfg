SPECIFICATION FairSpec
CONSTANTS
  c1 = c1
  c2 = c2
  c3 = c3
  r1 = r1
  r3 = r3
  n1 = n1
  n2 = n2
  a1 = a1
  PeerID = {n1, n2}
  Addr = {a1}
  Delta <- MCDelta
  BanDuration = 1
  MaxTime = 3
  Conn = {c1, c2, c3}
  Inbound = {c1, c2}
  Remote <- MCRemote
  IP <- MCIP
  NodeID <- MCNodeID
  NoConn = NoConn
  NeedsGrant = {n1}
  MaxPeers = 2
  MaxPerIP = 2
INVARIANTS TypeOK InboundCounted GrantBeforeBlocks AddressStaysBanned
PROPERTY BansEnd
CHECK_DEADLOCK FALSE
