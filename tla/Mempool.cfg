SPECIFICATION FairPool
CONSTANTS
  a = a
  b = b
  t1 = t1
  t2 = t2
  t3 = t3
  t4 = t4
  t5 = t5
  Sig = {t1, t2, t3, t4, t5}
  Tx <- MCTx
  Nonce <- MCNonce
  MinFee = 1
  MaxMempoolSize = 2
  TxTTL = 2
  TxMaxAge = 1
  Limit = 1
  MaxPoolTime = 6
PROPERTIES EvictsCheapestWhenFull NothingStays
CHECK_DEADLOCK FALSE
