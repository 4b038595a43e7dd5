SPECIFICATION Spec
CONSTANTS
  alice = alice
  gina = gina
  me = me
  u1 = u1
  u2 = u2
  w1 = w1
  x1 = x1
  g1 = g1
  g2 = g2
  m1 = m1
  none = none
  p1 = p1
  p2 = p2
  Addr <- MCAddr
  MaxUint = 1000
  Block <- ChainBlock
  NoBlock = none
  Vertex <- ChainVertex
  Peers = {p1, p2}
  Miner = me
  GenesisBalance <- MCBalance
  GenesisStake <- MCStake
  GenesisGrant <- MCGrant
  Founders = {me}
  MinStakeRequired = 1
  DoubleSignSlashPercent = 50
  JailDuration = 3
  KeepRounds = 2
  BaseReward = 2
  MaxMessages = 1
  MaxRestarts = 0
INVARIANTS
  PaidOnce
CHECK_DEADLOCK FALSE
