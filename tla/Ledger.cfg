CONSTANTS
  alice = alice
  bob = bob
  Addr <- MCAddr
  GenesisBalance <- MCGenesisBalance
  GenesisStake <- MCGenesisStake
  MaxUint = 4
  MinStakeForGrantAuthority = 2
  MinValidatorStakeForDelegation = 2
  UnbondingPeriod = 2
  InitialReward = 3
  HalvingPeriod = 1
  GenesisTime = 1
  MaxSkew = 1
  Amounts = {1}
  Fees = {0, 1}
  MaxNonce = 2
  MaxTime = 2
SPECIFICATION Spec
INVARIANTS UnbondingHeld RewardHalves
PROPERTIES ValueConserved OwnerSpends
CHECK_DEADLOCK FALSE
