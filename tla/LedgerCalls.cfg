CONSTANTS
  alice = alice
  bob = bob
  Addr <- MCAddr
  GenesisBalance <- MCGenesisBalance
  GenesisStake <- MCGenesisStake
  MaxUint = 3
  MinStakeForGrantAuthority = 3
  MinValidatorStakeForDelegation = 3
  UnbondingPeriod = 0
  InitialReward = 2
  HalvingPeriod = 1
  GenesisTime = 0
  MaxSkew = 0
  Amounts = {1}
  Fees = {1}
  MaxNonce = 2
  MaxTime = 0
  Founders <- MCFounders
  MaxCrashes = 1
  MaxFailures = 1
SPECIFICATION Spec
INVARIANTS CrashNeverMints ReplaysBounded
PROPERTY AtomicCalls
CHECK_DEADLOCK FALSE
