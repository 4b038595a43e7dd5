------------------------------- MODULE Ledger -------------------------------
(***************************************************************************)
(* core/execution/executor.go: what one call of Execute or                 *)
(* ApplyBlockReward does to the accounts when no other call runs at the    *)
(* same time and the process does not stop in the middle (LedgerCalls      *)
(* models the single reads and writes, and the crashes between them).      *)
(*                                                                         *)
(* A call of Execute that returns false leaves every account as it was, so *)
(* it is a stuttering step; the actions are the calls that return true.    *)
(* ProcessBatch runs the transactions of a block one after the other, so   *)
(* it is a sequence of these steps.                                        *)
(***************************************************************************)
EXTENDS Accounts, FiniteSets

CONSTANTS
  GenesisBalance, GenesisStake,     \* the allocation main.go makes
  MinStakeForGrantAuthority,        \* stake that may grant licences
  MinValidatorStakeForDelegation,   \* stake that may receive delegations
  UnbondingPeriod,                  \* 14 days
  InitialReward,                    \* 500 NVN
  HalvingPeriod,                    \* two years
  GenesisTime,                      \* 2025-01-01
  MaxSkew,    \* how far a block's timestamp may lie behind the latest one
  Amounts, Fees,          \* bound: amounts and fees of transactions, and the
                          \* fees collected by a block
  MaxNonce,                         \* bound: transactions per account
  MaxTime                           \* bound: timestamps

ASSUME LedgerAssumption ==
  /\ GenesisBalance \in [Addr -> Uint]
  /\ GenesisStake \in [Addr -> Uint]
  /\ MinStakeForGrantAuthority \in Uint
  /\ MinValidatorStakeForDelegation \in Uint
  /\ UnbondingPeriod \in Nat
  /\ InitialReward \in Uint \ {0}
  /\ HalvingPeriod \in Nat \ {0}
  /\ GenesisTime \in Nat
  /\ MaxSkew \in Nat
  /\ Amounts \subseteq Uint
  /\ Fees \subseteq Uint
  /\ MaxNonce \in Nat
  /\ MaxTime \in Nat

VARIABLES
  accounts,     \* StateManager.Accounts
  now,          \* history: the latest timestamp executed so far
  unstakedAt    \* history: latest timestamp at which funds that are still
                \* unbonding were unstaked

vars == <<accounts, now, unstakedAt>>

TxType == {"Transfer", "Stake", "Unstake", "Delegate", "Withdraw", "Grant",
           "BuyLicense"}

Transaction ==
  [Type : TxType, From : Addr, To : Addr, Amount : Amounts, Fee : Fees,
   Nonce : 1 .. MaxNonce]

Time == 0 .. MaxTime

\* The timestamps a call may carry: blocks of different producers are not
\* executed in timestamp order, but none lies more than MaxSkew behind.
Timestamps == {t \in Time : t >= now - MaxSkew}

Later(s, t) == IF s >= t THEN s ELSE t

-----------------------------------------------------------------------------

\* "Big Bang": the allocation main.go writes before the node starts.
Init ==
  /\ accounts = [a \in Addr |->
                   [NewAccount EXCEPT !.Balance = GenesisBalance[a],
                                      !.Stake = GenesisStake[a]]]
  /\ now = 0
  /\ unstakedAt = [a \in Addr |-> 0]

\* The mutated form: the nonce is not stored.
CommitMutant(st, tx) == accounts' = st

\* The end of a successful Execute: the sender's nonce becomes the
\* transaction's.
Commit(st, tx) == accounts' = SetNonce(st, tx.From, tx.Nonce)

executeTransfer(tx) ==
  LET cost == tx.Amount + tx.Fee
      debited == SetBalance(accounts, tx.From, GetBalance(accounts, tx.From) - cost)
  IN  /\ tx.Type = "Transfer"
      /\ tx.Amount # 0
      /\ tx.From # tx.To
      /\ SafeAddOk(tx.Amount, tx.Fee)
      /\ GetBalance(accounts, tx.From) >= cost
      /\ SafeAddOk(GetBalance(debited, tx.To), tx.Amount)
      /\ Commit(SetBalance(debited, tx.To, GetBalance(debited, tx.To) + tx.Amount), tx)
      /\ UNCHANGED unstakedAt

executeStake(tx) ==
  LET paid == SetBalance(accounts, tx.From,
                         GetBalance(accounts, tx.From) - tx.Amount)
  IN  /\ tx.Type = "Stake"
      /\ tx.Amount # 0
      /\ GetBalance(accounts, tx.From) >= tx.Amount
      /\ SafeAddOk(GetStake(accounts, tx.From), tx.Amount)
      /\ Commit(SetStake(paid, tx.From, GetStake(accounts, tx.From) + tx.Amount), tx)
      /\ UNCHANGED unstakedAt

\* The release time is overwritten for the whole unbonding balance.
executeUnstake(tx, t) ==
  LET unbonding == GetUnbonding(accounts, tx.From)[1]
      taken == SetStake(accounts, tx.From, GetStake(accounts, tx.From) - tx.Amount)
  IN  /\ tx.Type = "Unstake"
      /\ tx.Amount # 0
      /\ GetStake(accounts, tx.From) >= tx.Amount
      /\ SafeAddOk(unbonding, tx.Amount)
      /\ Commit(SetUnbonding(taken, tx.From, unbonding + tx.Amount,
                             t + UnbondingPeriod), tx)
      /\ unstakedAt' = [unstakedAt EXCEPT ![tx.From] =
                          IF unbonding = 0 THEN t ELSE Later(@, t)]

\* The mutated form: the unbonding balance is not cleared.
executeWithdrawMutant(tx, t) ==
  /\ tx.Type = "Withdraw"
  /\ accounts[tx.From].UnbondingBalance # 0
  /\ t >= accounts[tx.From].UnbondingRelease
  /\ SafeAddOk(GetBalance(accounts, tx.From), accounts[tx.From].UnbondingBalance)
  /\ Commit(SetBalance(accounts, tx.From, GetBalance(accounts, tx.From)
                         + accounts[tx.From].UnbondingBalance), tx)
  /\ UNCHANGED unstakedAt

executeWithdraw(tx, t) ==
  LET unbonding == GetUnbonding(accounts, tx.From)[1]
      release == GetUnbonding(accounts, tx.From)[2]
      cleared == SetUnbonding(accounts, tx.From, 0, 0)
  IN  /\ tx.Type = "Withdraw"
      /\ unbonding # 0
      /\ t >= release
      /\ SafeAddOk(GetBalance(accounts, tx.From), unbonding)
      /\ Commit(SetBalance(cleared, tx.From,
                           GetBalance(accounts, tx.From) + unbonding), tx)
      /\ UNCHANGED unstakedAt

\* Locked stake for another account; no amount check, a grant of 0 succeeds.
executeGrant(tx) ==
  LET cost == tx.Amount + tx.Fee
      paid == SetBalance(accounts, tx.From, GetBalance(accounts, tx.From) - cost)
      voting == GetStake(accounts, tx.From) + GetGrantStake(accounts, tx.From)
  IN  /\ tx.Type = "Grant"
      /\ SafeAddOk(GetStake(accounts, tx.From), GetGrantStake(accounts, tx.From))
      /\ voting >= MinStakeForGrantAuthority
      /\ tx.From # tx.To
      /\ SafeAddOk(tx.Amount, tx.Fee)
      /\ GetBalance(accounts, tx.From) >= cost
      /\ SafeAddOk(GetGrantStake(accounts, tx.To), tx.Amount)
      /\ Commit(SetGrantStake(paid, tx.To,
                              GetGrantStake(accounts, tx.To) + tx.Amount), tx)
      /\ UNCHANGED unstakedAt

executeBuyLicense(tx) ==
  LET cost == tx.Amount + tx.Fee
      paid == SetBalance(accounts, tx.From, GetBalance(accounts, tx.From) - cost)
  IN  /\ tx.Type = "BuyLicense"
      /\ SafeAddOk(tx.Amount, tx.Fee)
      /\ GetBalance(accounts, tx.From) >= cost
      /\ SafeAddOk(GetGrantStake(accounts, tx.From), tx.Amount)
      /\ Commit(SetGrantStake(paid, tx.From,
                              GetGrantStake(accounts, tx.From) + tx.Amount), tx)
      /\ UNCHANGED unstakedAt

executeDelegate(tx) ==
  LET voting == GetStake(accounts, tx.To) + GetGrantStake(accounts, tx.To)
      paid == SetBalance(accounts, tx.From,
                         GetBalance(accounts, tx.From) - tx.Amount)
      pooled == SetStake(paid, tx.To, GetStake(accounts, tx.To) + tx.Amount)
  IN  /\ tx.Type = "Delegate"
      /\ tx.Amount # 0
      /\ tx.From # tx.To
      /\ SafeAddOk(GetStake(accounts, tx.To), GetGrantStake(accounts, tx.To))
      /\ voting >= MinValidatorStakeForDelegation
      /\ GetBalance(accounts, tx.From) >= tx.Amount
      /\ SafeAddOk(GetStake(accounts, tx.To), tx.Amount)
      /\ SafeAddOk(GetDelegation(accounts, tx.From, tx.To), tx.Amount)
      /\ Commit(SetDelegation(pooled, tx.From, tx.To,
                              GetDelegation(accounts, tx.From, tx.To) + tx.Amount), tx)
      /\ UNCHANGED unstakedAt

\* A call of Execute that returns true.
Execute(tx, t) ==
  /\ tx.Nonce = GetNonce(accounts, tx.From) + 1
  /\ \/ executeTransfer(tx)
     \/ executeStake(tx)
     \/ executeUnstake(tx, t)
     \/ executeDelegate(tx)
     \/ executeWithdraw(tx, t)
     \/ executeGrant(tx)
     \/ executeBuyLicense(tx)
  /\ now' = Later(now, t)

-----------------------------------------------------------------------------

\* The mutated form: no tail emission.
baseRewardMutant(t) ==
  LET elapsed == IF t < GenesisTime THEN 0 ELSE t - GenesisTime
  IN  ShiftRight(InitialReward, elapsed \div HalvingPeriod)

\* The base reward at time t: halved every HalvingPeriod, never below 1.
baseReward(t) ==
  LET elapsed == IF t < GenesisTime THEN 0 ELSE t - GenesisTime
      shifted == ShiftRight(InitialReward, elapsed \div HalvingPeriod)
  IN  IF shifted = 0 THEN 1 ELSE shifted

\* Half of the fees go to the author, the rest is burned.  A sum that does
\* not fit falls back to the base reward; a balance that does not fit loses
\* the reward.
ApplyBlockReward(author, collectedFees, t) ==
  LET share == collectedFees \div 2
      total == IF SafeAddOk(baseReward(t), share) THEN baseReward(t) + share
               ELSE baseReward(t)
  IN  /\ accounts' = IF SafeAddOk(GetBalance(accounts, author), total)
                     THEN SetBalance(accounts, author,
                                     GetBalance(accounts, author) + total)
                     ELSE accounts
      /\ now' = Later(now, t)
      /\ UNCHANGED unstakedAt

Next ==
  \E t \in Timestamps :
    \/ \E tx \in Transaction : Execute(tx, t)
    \/ \E author \in Addr, fees \in Fees : ApplyBlockReward(author, fees, t)

Spec == Init /\ [][Next]_vars

-----------------------------------------------------------------------------

\* Every amount of every account is a uint64: no operation of the executor
\* overflows or underflows, whatever sequence of transactions and rewards
\* runs (the SafeAdd and SafeSub checks of executor.go).
TypeOK ==
  /\ accounts \in [Addr -> Account]
  /\ now \in Time
  /\ unstakedAt \in [Addr -> Time]

\* What the executor charges for tx: only three types pay their fee.
Charged(tx) == IF tx.Type \in {"Transfer", "Grant", "BuyLicense"} THEN tx.Fee ELSE 0

\* A successful transaction moves value between its sender and its receiver
\* and destroys exactly the fee it is charged: no value is created, none is
\* lost and no third account changes (executeTransfer .. executeDelegate).
ValueMoved(tx) ==
  /\ \A a \in Addr \ {tx.From, tx.To} : accounts'[a] = accounts[a]
  /\ IF tx.From = tx.To
     THEN Wealth(accounts'[tx.From]) = Wealth(accounts[tx.From]) - Charged(tx)
     ELSE Wealth(accounts'[tx.From]) + Wealth(accounts'[tx.To])
            = Wealth(accounts[tx.From]) + Wealth(accounts[tx.To]) - Charged(tx)

ValueConserved ==
  [][\A tx \in Transaction :
       (\E t \in Time : Execute(tx, t)) => ValueMoved(tx)]_vars

\* The balance, the stake and the unbonding funds of an account together only
\* shrink in a step that uses up that account's next nonce: nobody else's
\* transaction and no reward takes from it, and a transaction that was
\* executed cannot take again (the nonce check of Execute).
OwnerSpends ==
  [][\A a \in Addr :
       \/ accounts'[a].Nonce = accounts[a].Nonce + 1
       \/ /\ accounts'[a].Nonce = accounts[a].Nonce
          /\ accounts'[a].Balance >= accounts[a].Balance
          /\ accounts'[a].Stake >= accounts[a].Stake
          /\ accounts'[a].UnbondingBalance = accounts[a].UnbondingBalance
          /\ accounts'[a].UnbondingRelease = accounts[a].UnbondingRelease]_vars

\* A licence is locked forever: no transaction type and no reward ever takes
\* granted stake away ("NVN Locked Forever", executeGrant).
LicencesPermanent ==
  [][\A a \in Addr : accounts'[a].GrantStake >= accounts[a].GrantStake]_vars

\* Funds that are unbonding cannot be withdrawn before the unbonding period,
\* shortened by the clock skew between blocks, has passed since the LAST
\* unstake that put funds into the balance, even when several unstakes share
\* the one release time (executeUnstake overwrites it).
UnbondingHeld ==
  \A a \in Addr :
    accounts[a].UnbondingBalance > 0 =>
      accounts[a].UnbondingRelease >= unstakedAt[a] + UnbondingPeriod - MaxSkew

\* One halving period later the base reward is half of what it is now, down
\* to the tail emission of 1 and never above the initial reward (the
\* "Supernova Curve" of ApplyBlockReward).
RewardHalves ==
  /\ baseReward(now) \in 1 .. InitialReward
  /\ now >= GenesisTime =>
       baseReward(now + HalvingPeriod) = Later(1, baseReward(now) \div 2)

=============================================================================
