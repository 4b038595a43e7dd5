CONSTANTS
  g = g
  x = x
  y = y
  t = t
  u = u
  alice = alice
  bob = bob
  carol = carol
  NoAddr = NoAddr
  NoHash = NoHash
  Hash <- MCHash
  Author <- MCAuthor
  Parents <- MCParents
  Timestamp <- MCTimestamp
  MinConfirmations = 2
  MinAge = 1
  MinStakePercent = 20
  KeepRecent = 1
  MaxTime = 1
  Txs <- MCTxs
  From <- MCFrom
  To <- MCTo
  Client = {c1, c2}
  MaxHistoryPerAddress = 2
  MaxAddressesTracked = 2
  MaxTxIndexSize = 1
  MaxBlockIndexSize = 2
  Faulty = {c1}
SPECIFICATION FairExplorer
INVARIANTS ExplorerTypeOK ConfirmationsExact FinalityEarned CachesKeepRecent TxHasRecord FeedComplete
PROPERTIES EveryVertexIndexed CallbacksEnd
CHECK_DEADLOCK FALSE
