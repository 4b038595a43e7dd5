CONSTANTS
  Address = {w1}
  Pass = {p1, p2}
  Requests = {r1, r2, r3}
  Slot <- MCSlot
  NoPass = NoPass
  Torn = Torn
  MaxCalls = 5
  MaxReloads = 1
SPECIFICATION WalletSpec
SYMMETRY MCSymmetry
INVARIANTS KeepsPromise LockHolds SendFindsKey
CHECK_DEADLOCK FALSE
