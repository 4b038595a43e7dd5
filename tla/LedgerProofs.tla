---------------------------- MODULE LedgerProofs ----------------------------
(***************************************************************************)
(* Proofs about Ledger, for every set of addresses, every width of the     *)
(* integers and every value of the protocol parameters.                    *)
(***************************************************************************)
EXTENDS Ledger, AccountsProofs, FiniteSetTheorems, TLAPS

\* Most steps have no arithmetic: Zenon is tried before the SMT solver.
USE ZenonT(2), SMTT(20), ZenonT(20)

-----------------------------------------------------------------------------

\* The base reward lies between the tail emission and the initial reward,
\* however many halvings have passed (ApplyBlockReward).
LEMMA BaseRewardType ==
  ASSUME NEW t \in Nat
  PROVE  baseReward(t) \in 1 .. InitialReward
<1> DEFINE elapsed == IF t < GenesisTime THEN 0 ELSE t - GenesisTime
           h == elapsed \div HalvingPeriod
<1>1. InitialReward \in Nat /\ InitialReward # 0
  BY MaxUintAssumption, LedgerAssumption DEF Uint
<1>2. h \in Nat
  BY LedgerAssumption
<1>3. ShiftRight(InitialReward, h) \in 0 .. InitialReward
  <2> HIDE DEF h
  <2> QED BY <1>1, <1>2, ShiftValues
<1>4. baseReward(t) = IF ShiftRight(InitialReward, h) = 0 THEN 1 ELSE ShiftRight(InitialReward, h)
  BY DEF baseReward
<1> HIDE DEF h
<1> QED BY <1>1, <1>3, <1>4

\* One halving period later the base reward is half of it, down to the tail
\* emission (ApplyBlockReward).
LEMMA BaseRewardHalves ==
  ASSUME NEW t \in Nat, t >= GenesisTime
  PROVE  baseReward(t + HalvingPeriod) = Later(1, baseReward(t) \div 2)
<1> DEFINE h == (t - GenesisTime) \div HalvingPeriod
           s == ShiftRight(InitialReward, h)
<1>1. InitialReward \in Nat /\ HalvingPeriod \in Nat \ {0} /\ GenesisTime \in Nat
  BY MaxUintAssumption, LedgerAssumption DEF Uint
<1>2. h \in Nat
  BY <1>1
<1>3. ((t + HalvingPeriod) - GenesisTime) \div HalvingPeriod = h + 1
  <2> DEFINE e == t - GenesisTime
             r == e % HalvingPeriod
             q == e \div HalvingPeriod
  <2>1. e \in Nat /\ e = HalvingPeriod * q + r /\ r \in 0 .. (HalvingPeriod - 1) /\ q \in Nat
    BY <1>1
  <2>2. (t + HalvingPeriod) - GenesisTime = e + HalvingPeriod
    BY <1>1
  <2> HIDE DEF e, r, q
  <2>3. e + HalvingPeriod = HalvingPeriod * (q + 1) + r
    BY <1>1, <2>1
  <2>4. (e + HalvingPeriod) \div HalvingPeriod = q + 1
    BY <1>1, <2>1, <2>3
  <2> QED BY <2>2, <2>4 DEF q, e
<1>4. /\ ~ (t < GenesisTime) /\ ~ (t + HalvingPeriod < GenesisTime)
  BY <1>1
<1>5. baseReward(t) = IF s = 0 THEN 1 ELSE s
  BY <1>4 DEF baseReward
<1>6. baseReward(t + HalvingPeriod) =
        LET s2 == ShiftRight(InitialReward, h + 1) IN IF s2 = 0 THEN 1 ELSE s2
  BY <1>3, <1>4 DEF baseReward
<1> HIDE DEF h
<1>7. s \in 0 .. InitialReward /\ ShiftRight(InitialReward, h + 1) = s \div 2
  BY <1>1, <1>2, ShiftValues
<1> HIDE DEF s
<1>8. s \in Nat /\ s \div 2 \in Nat
  BY <1>1, <1>7
<1> QED BY <1>5, <1>6, <1>7, <1>8 DEF Later

-----------------------------------------------------------------------------
(* Type correctness: no operation of the executor overflows. *)

\* The genesis accounts are typed.
LEMMA InitType == Init => TypeOK
<1>1. 0 \in Uint /\ 0 \in Time /\ 0 \in Nat /\ 0 \in Int
  BY MaxUintAssumption, LedgerAssumption DEF Uint, Time
<1>2. NewAccount \in Account
  BY <1>1 DEF NewAccount, Account
<1>3. \A b, s \in Uint : [NewAccount EXCEPT !.Balance = b, !.Stake = s] \in Account
  BY <1>2 DEF Account
<1> SUFFICES ASSUME Init PROVE TypeOK
  OBVIOUS
<1>4. accounts \in [Addr -> Account]
  BY <1>3, LedgerAssumption DEF Init
<1>5. now \in Time /\ unstakedAt \in [Addr -> Time]
  BY <1>1 DEF Init
<1> QED BY <1>4, <1>5 DEF TypeOK

\* A timestamp and the clock it advances.
LEMMA LaterType ==
  ASSUME NEW s \in Time, NEW t \in Time
  PROVE  Later(s, t) \in Time /\ Later(s, t) >= s /\ Later(s, t) >= t
BY LedgerAssumption DEF Later, Time

\* A field of a transaction, as the executor sees it.
LEMMA TransactionType ==
  ASSUME NEW tx \in Transaction
  PROVE  /\ tx.From \in Addr /\ tx.To \in Addr
         /\ tx.Amount \in Uint /\ tx.Fee \in Uint /\ tx.Nonce \in Nat
BY LedgerAssumption DEF Transaction

\* Every successful Execute leaves well-typed accounts.
LEMMA ExecuteType ==
  ASSUME TypeOK, NEW tx \in Transaction, NEW t \in Time, Execute(tx, t)
  PROVE  TypeOK'
<1> USE TransactionType
<1>1. accounts \in [Addr -> Account] /\ now \in Time /\ unstakedAt \in [Addr -> Time]
  BY DEF TypeOK
<1>2. now' \in Time
  BY <1>1, LaterType DEF Execute
<1>3. tx.Amount + tx.Fee \in Nat
  BY MaxUintAssumption DEF Uint
<1>a. tx.Amount \in Nat /\ tx.Fee \in Nat
  BY MaxUintAssumption DEF Uint
<1>4. CASE executeTransfer(tx)
  <2> DEFINE cost == tx.Amount + tx.Fee
             debited == SetBalance(accounts, tx.From, GetBalance(accounts, tx.From) - cost)
             credited == SetBalance(debited, tx.To, GetBalance(debited, tx.To) + tx.Amount)
  <2>1. debited \in [Addr -> Account]
    BY <1>1, <1>3, <1>4, GetterTypes, SetBalanceType, SafeResults DEF executeTransfer
  <2>2. credited \in [Addr -> Account]
    <3> HIDE DEF debited
    <3>1. GetBalance(debited, tx.To) + tx.Amount \in Uint
      BY <1>4, <1>a, <2>1, GetterTypes, SafeResults DEF executeTransfer, debited
    <3> QED BY <2>1, <3>1, SetBalanceType
  <2>3. accounts' = SetNonce(credited, tx.From, tx.Nonce) /\ unstakedAt' = unstakedAt
    BY <1>4 DEF executeTransfer, Commit
  <2> HIDE DEF credited
  <2> QED BY <1>1, <1>2, <2>2, <2>3, SetNonceType DEF TypeOK
<1>5. CASE executeStake(tx)
  <2>1. /\ GetBalance(accounts, tx.From) - tx.Amount \in Uint
        /\ GetStake(accounts, tx.From) + tx.Amount \in Uint
    BY <1>1, <1>5, <1>a, GetterTypes, SafeResults DEF executeStake
  <2> DEFINE paid == SetBalance(accounts, tx.From, GetBalance(accounts, tx.From) - tx.Amount)
             staked == SetStake(paid, tx.From, GetStake(accounts, tx.From) + tx.Amount)
  <2>2. staked \in [Addr -> Account]
    BY <1>1, <2>1, SetStakeType, SetBalanceType
  <2>3. accounts' = SetNonce(staked, tx.From, tx.Nonce) /\ unstakedAt' = unstakedAt
    BY <1>5 DEF executeStake, Commit
  <2> HIDE DEF staked
  <2> QED BY <1>1, <1>2, <2>2, <2>3, SetNonceType DEF TypeOK
<1>6. CASE executeUnstake(tx, t)
  <2>1. /\ GetStake(accounts, tx.From) - tx.Amount \in Uint
        /\ GetUnbonding(accounts, tx.From)[1] + tx.Amount \in Uint
        /\ t + UnbondingPeriod \in Int
    BY <1>1, <1>6, <1>a, GetterTypes, SafeResults, LedgerAssumption
       DEF executeUnstake, Time
  <2>2. unstakedAt' \in [Addr -> Time]
    BY <1>1, <1>6, LaterType DEF executeUnstake
  <2> QED BY <1>1, <1>2, <1>6, <2>1, <2>2,
     SetNonceType, SetStakeType, SetUnbondingType
     DEF executeUnstake, Commit, TypeOK
<1>7. CASE executeDelegate(tx)
  <2>1. /\ GetBalance(accounts, tx.From) - tx.Amount \in Uint
        /\ GetStake(accounts, tx.To) + tx.Amount \in Uint
        /\ GetDelegation(accounts, tx.From, tx.To) + tx.Amount \in Uint
    BY <1>1, <1>7, <1>a, GetterTypes, SafeResults DEF executeDelegate
  <2> QED BY <1>1, <1>2, <1>7, <2>1,
     SetNonceType, SetStakeType, SetBalanceType, SetDelegationType
     DEF executeDelegate, Commit, TypeOK
<1>8. CASE executeWithdraw(tx, t)
  <2>1. GetUnbonding(accounts, tx.From)[1] \in Nat
    BY <1>1, GetterTypes DEF Uint
  <2>2. GetBalance(accounts, tx.From) + GetUnbonding(accounts, tx.From)[1] \in Uint
    BY <1>1, <1>8, <2>1, GetterTypes, SafeResults DEF executeWithdraw
  <2>3. 0 \in Uint /\ 0 \in Int
    BY MaxUintAssumption DEF Uint
  <2> QED BY <1>1, <1>2, <1>8, <2>2, <2>3,
     SetNonceType, SetBalanceType, SetUnbondingType
     DEF executeWithdraw, Commit, TypeOK
<1>9. CASE executeGrant(tx)
  <2>1. /\ GetBalance(accounts, tx.From) - (tx.Amount + tx.Fee) \in Uint
        /\ GetGrantStake(accounts, tx.To) + tx.Amount \in Uint
    BY <1>1, <1>3, <1>9, <1>a, GetterTypes, SafeResults DEF executeGrant
  <2> QED BY <1>1, <1>2, <1>9, <2>1,
     SetNonceType, SetBalanceType, SetGrantStakeType
     DEF executeGrant, Commit, TypeOK
<1>10. CASE executeBuyLicense(tx)
  <2>1. /\ GetBalance(accounts, tx.From) - (tx.Amount + tx.Fee) \in Uint
        /\ GetGrantStake(accounts, tx.From) + tx.Amount \in Uint
    BY <1>1, <1>3, <1>10, <1>a, GetterTypes, SafeResults DEF executeBuyLicense
  <2> QED BY <1>1, <1>2, <1>10, <2>1,
     SetNonceType, SetBalanceType, SetGrantStakeType
     DEF executeBuyLicense, Commit, TypeOK
<1> QED BY <1>4, <1>5, <1>6, <1>7, <1>8, <1>9, <1>10 DEF Execute

\* A block reward leaves well-typed accounts.
LEMMA RewardType ==
  ASSUME TypeOK, NEW author \in Addr, NEW fees \in Fees, NEW t \in Time,
         ApplyBlockReward(author, fees, t)
  PROVE  TypeOK'
<1> DEFINE share == fees \div 2
           total == IF SafeAddOk(baseReward(t), share) THEN baseReward(t) + share
                    ELSE baseReward(t)
<1>1. accounts \in [Addr -> Account] /\ now \in Time /\ unstakedAt \in [Addr -> Time]
  BY DEF TypeOK
<1>2. baseReward(t) \in Nat
  BY BaseRewardType, LedgerAssumption DEF Time, Uint
<1>3. share \in Nat
  BY LedgerAssumption DEF Uint
<1>4. total \in Nat
  BY <1>2, <1>3
<1>5. SafeAddOk(GetBalance(accounts, author), total) =>
        SetBalance(accounts, author, GetBalance(accounts, author) + total)
          \in [Addr -> Account]
  <2> HIDE DEF total
  <2> QED BY <1>1, <1>4, GetterTypes, SetBalanceType, SafeResults
<1>6. accounts' \in [Addr -> Account] /\ unstakedAt' = unstakedAt /\ now' = Later(now, t)
  BY <1>1, <1>5 DEF ApplyBlockReward
<1> QED BY <1>1, <1>6, LaterType DEF TypeOK

\* Every transaction and every reward keeps the types.
LEMMA NextType == TypeOK /\ [Next]_vars => TypeOK'
<1> SUFFICES ASSUME TypeOK, [Next]_vars PROVE TypeOK'
  OBVIOUS
<1>1. CASE Next
  BY <1>1, ExecuteType, RewardType DEF Next, Timestamps
<1>2. CASE UNCHANGED vars
  BY <1>2 DEF vars, TypeOK
<1> QED BY <1>1, <1>2

\* No transaction and no reward, in any order, makes an amount overflow or
\* underflow (executor.go, safe.go).
THEOREM TypeCorrect == Spec => []TypeOK
BY InitType, NextType, PTL DEF Spec

\* The base reward of any reachable time is at least the tail emission and at
\* most the initial reward, and halves every halving period
\* (ApplyBlockReward).
THEOREM RewardsHalve == Spec => []RewardHalves
<1>1. TypeOK => RewardHalves
  <2> SUFFICES ASSUME TypeOK PROVE RewardHalves
    OBVIOUS
  <2>1. now \in Nat
    BY LedgerAssumption DEF TypeOK, Time
  <2> QED BY <2>1, BaseRewardType, BaseRewardHalves DEF RewardHalves
<1> QED BY <1>1, TypeCorrect, PTL

-----------------------------------------------------------------------------
(* Action properties. *)

\* The changes of account a's balance, stake, licence and unbonding funds.
Moves(a, b, s, g, u) ==
  /\ accounts'[a].Balance = accounts[a].Balance + b
  /\ accounts'[a].Stake = accounts[a].Stake + s
  /\ accounts'[a].GrantStake = accounts[a].GrantStake + g
  /\ accounts'[a].UnbondingBalance = accounts[a].UnbondingBalance + u

\* Account a's nonce and release time stay.
Keeps(a) ==
  /\ accounts'[a].Nonce = accounts[a].Nonce
  /\ accounts'[a].UnbondingRelease = accounts[a].UnbondingRelease

\* The accounts outside S stay.
Others(S) == \A a \in Addr \ S : accounts'[a] = accounts[a]

\* What each successful operation does, account by account.
LEMMA TransferEffect ==
  ASSUME TypeOK, NEW tx \in Transaction, executeTransfer(tx)
  PROVE  /\ tx.Type = "Transfer" /\ tx.From # tx.To
         /\ Moves(tx.From, 0 - (tx.Amount + tx.Fee), 0, 0, 0)
         /\ Moves(tx.To, tx.Amount, 0, 0, 0) /\ Keeps(tx.To)
         /\ accounts'[tx.From].Nonce = tx.Nonce
         /\ accounts'[tx.From].UnbondingRelease = accounts[tx.From].UnbondingRelease
         /\ Others({tx.From, tx.To})
<1> USE TransactionType
<1>1. accounts \in [Addr -> Account] /\ tx.From # tx.To /\ tx.Type = "Transfer"
  BY DEF TypeOK, executeTransfer
<1>2. accounts' = [accounts EXCEPT
                     ![tx.From].Balance = accounts[tx.From].Balance - (tx.Amount + tx.Fee),
                     ![tx.To].Balance = accounts[tx.To].Balance + tx.Amount,
                     ![tx.From].Nonce = tx.Nonce]
  BY <1>1 DEF executeTransfer, Commit, SetNonce, GetBalance, SetBalance
<1>3. accounts'[tx.From] = [accounts[tx.From] EXCEPT
                              !.Balance = accounts[tx.From].Balance - (tx.Amount + tx.Fee),
                              !.Nonce = tx.Nonce]
  BY <1>1, <1>2
<1>4. accounts'[tx.To] = [accounts[tx.To] EXCEPT !.Balance = accounts[tx.To].Balance + tx.Amount]
  BY <1>1, <1>2
<1>5. Others({tx.From, tx.To})
  BY <1>1, <1>2 DEF Others
<1>6. /\ Moves(tx.From, 0 - (tx.Amount + tx.Fee), 0, 0, 0)
      /\ accounts'[tx.From].Nonce = tx.Nonce
      /\ accounts'[tx.From].UnbondingRelease = accounts[tx.From].UnbondingRelease
  BY <1>1, <1>3 DEF Moves, Account, Uint
<1>7. Moves(tx.To, tx.Amount, 0, 0, 0) /\ Keeps(tx.To)
  BY <1>1, <1>4 DEF Moves, Keeps, Account, Uint
<1> QED BY <1>1, <1>5, <1>6, <1>7

\* What executeStake does to the accounts.
LEMMA StakeEffect ==
  ASSUME TypeOK, NEW tx \in Transaction, executeStake(tx)
  PROVE  /\ tx.Type = "Stake"
         /\ Moves(tx.From, 0 - tx.Amount, tx.Amount, 0, 0)
         /\ accounts'[tx.From].Nonce = tx.Nonce
         /\ accounts'[tx.From].UnbondingRelease = accounts[tx.From].UnbondingRelease
         /\ Others({tx.From})
<1> DEFINE acc == [accounts[tx.From] EXCEPT
                     !.Balance = accounts[tx.From].Balance - tx.Amount,
                     !.Stake = accounts[tx.From].Stake + tx.Amount,
                     !.Nonce = tx.Nonce]
<1> USE TransactionType
<1>1. accounts \in [Addr -> Account] /\ tx.Type = "Stake"
  BY DEF TypeOK, executeStake
<1>2. accounts' = [accounts EXCEPT ![tx.From] = acc]
  BY <1>1 DEF executeStake, Commit, SetNonce, GetBalance, SetBalance, GetStake, SetStake
<1>3. accounts'[tx.From] = acc /\ Others({tx.From})
  BY <1>1, <1>2 DEF Others
<1> QED BY <1>1, <1>3 DEF Moves, Account, Uint

\* What executeUnstake does to the accounts.
LEMMA UnstakeEffect ==
  ASSUME TypeOK, NEW tx \in Transaction, NEW t \in Time, executeUnstake(tx, t)
  PROVE  /\ tx.Type = "Unstake"
         /\ Moves(tx.From, 0, 0 - tx.Amount, 0, tx.Amount)
         /\ accounts'[tx.From].Nonce = tx.Nonce
         /\ accounts'[tx.From].UnbondingRelease = t + UnbondingPeriod
         /\ Others({tx.From})
<1> DEFINE acc == [accounts[tx.From] EXCEPT
                     !.Stake = accounts[tx.From].Stake - tx.Amount,
                     !.UnbondingBalance = accounts[tx.From].UnbondingBalance + tx.Amount,
                     !.UnbondingRelease = t + UnbondingPeriod,
                     !.Nonce = tx.Nonce]
<1> USE TransactionType
<1>1. accounts \in [Addr -> Account] /\ tx.Type = "Unstake"
  BY DEF TypeOK, executeUnstake
<1>2. accounts' = [accounts EXCEPT ![tx.From] = acc]
  BY <1>1 DEF executeUnstake, Commit, SetNonce, GetStake, SetStake, GetUnbonding, SetUnbonding
<1>3. accounts'[tx.From] = acc /\ Others({tx.From})
  BY <1>1, <1>2 DEF Others
<1> QED BY <1>1, <1>3 DEF Moves, Account, Uint

\* What executeWithdraw does to the accounts.
LEMMA WithdrawEffect ==
  ASSUME TypeOK, NEW tx \in Transaction, NEW t \in Time, executeWithdraw(tx, t)
  PROVE  /\ tx.Type = "Withdraw"
         /\ Moves(tx.From, accounts[tx.From].UnbondingBalance, 0, 0,
                  0 - accounts[tx.From].UnbondingBalance)
         /\ accounts'[tx.From].Nonce = tx.Nonce
         /\ Others({tx.From})
<1> DEFINE acc == [accounts[tx.From] EXCEPT
                     !.UnbondingBalance = 0, !.UnbondingRelease = 0,
                     !.Balance = accounts[tx.From].Balance + accounts[tx.From].UnbondingBalance,
                     !.Nonce = tx.Nonce]
<1> USE TransactionType
<1>1. accounts \in [Addr -> Account] /\ tx.Type = "Withdraw"
  BY DEF TypeOK, executeWithdraw
<1>2. accounts' = [accounts EXCEPT ![tx.From] = acc]
  BY <1>1 DEF executeWithdraw, Commit, SetNonce, GetBalance, SetBalance, GetUnbonding,
              SetUnbonding
<1>3. accounts'[tx.From] = acc /\ Others({tx.From})
  BY <1>1, <1>2 DEF Others
<1> QED BY <1>1, <1>3 DEF Moves, Account, Uint

\* What executeGrant does to the accounts.
LEMMA GrantEffect ==
  ASSUME TypeOK, NEW tx \in Transaction, executeGrant(tx)
  PROVE  /\ tx.Type = "Grant" /\ tx.From # tx.To
         /\ Moves(tx.From, 0 - (tx.Amount + tx.Fee), 0, 0, 0)
         /\ Moves(tx.To, 0, 0, tx.Amount, 0) /\ Keeps(tx.To)
         /\ accounts'[tx.From].Nonce = tx.Nonce
         /\ accounts'[tx.From].UnbondingRelease = accounts[tx.From].UnbondingRelease
         /\ Others({tx.From, tx.To})
<1> USE TransactionType
<1>1. accounts \in [Addr -> Account] /\ tx.From # tx.To /\ tx.Type = "Grant"
  BY DEF TypeOK, executeGrant
<1>2. accounts' = [accounts EXCEPT
                     ![tx.From].Balance = accounts[tx.From].Balance - (tx.Amount + tx.Fee),
                     ![tx.To].GrantStake = accounts[tx.To].GrantStake + tx.Amount,
                     ![tx.From].Nonce = tx.Nonce]
  BY <1>1 DEF executeGrant, Commit, SetNonce, GetBalance, SetBalance, GetGrantStake,
              SetGrantStake
<1>3. accounts'[tx.From] = [accounts[tx.From] EXCEPT
                              !.Balance = accounts[tx.From].Balance - (tx.Amount + tx.Fee),
                              !.Nonce = tx.Nonce]
  BY <1>1, <1>2
<1>4. accounts'[tx.To] = [accounts[tx.To] EXCEPT
                            !.GrantStake = accounts[tx.To].GrantStake + tx.Amount]
  BY <1>1, <1>2
<1>5. Others({tx.From, tx.To})
  BY <1>1, <1>2 DEF Others
<1>6. /\ Moves(tx.From, 0 - (tx.Amount + tx.Fee), 0, 0, 0)
      /\ accounts'[tx.From].Nonce = tx.Nonce
      /\ accounts'[tx.From].UnbondingRelease = accounts[tx.From].UnbondingRelease
  BY <1>1, <1>3 DEF Moves, Account, Uint
<1>7. Moves(tx.To, 0, 0, tx.Amount, 0) /\ Keeps(tx.To)
  BY <1>1, <1>4 DEF Moves, Keeps, Account, Uint
<1> QED BY <1>1, <1>5, <1>6, <1>7

\* What executeBuyLicense does to the accounts.
LEMMA BuyLicenseEffect ==
  ASSUME TypeOK, NEW tx \in Transaction, executeBuyLicense(tx)
  PROVE  /\ tx.Type = "BuyLicense"
         /\ Moves(tx.From, 0 - (tx.Amount + tx.Fee), 0, tx.Amount, 0)
         /\ accounts'[tx.From].Nonce = tx.Nonce
         /\ accounts'[tx.From].UnbondingRelease = accounts[tx.From].UnbondingRelease
         /\ Others({tx.From})
<1> DEFINE acc == [accounts[tx.From] EXCEPT
                     !.Balance = accounts[tx.From].Balance - (tx.Amount + tx.Fee),
                     !.GrantStake = accounts[tx.From].GrantStake + tx.Amount,
                     !.Nonce = tx.Nonce]
<1> USE TransactionType
<1>1. accounts \in [Addr -> Account] /\ tx.Type = "BuyLicense"
  BY DEF TypeOK, executeBuyLicense
<1>2. accounts' = [accounts EXCEPT ![tx.From] = acc]
  BY <1>1 DEF executeBuyLicense, Commit, SetNonce, GetBalance, SetBalance, GetGrantStake,
              SetGrantStake
<1>3. accounts'[tx.From] = acc /\ Others({tx.From})
  BY <1>1, <1>2 DEF Others
<1> QED BY <1>1, <1>3 DEF Moves, Account, Uint

\* What executeDelegate does to the accounts.
LEMMA DelegateEffect ==
  ASSUME TypeOK, NEW tx \in Transaction, executeDelegate(tx)
  PROVE  /\ tx.Type = "Delegate" /\ tx.From # tx.To
         /\ Moves(tx.From, 0 - tx.Amount, 0, 0, 0)
         /\ Moves(tx.To, 0, tx.Amount, 0, 0) /\ Keeps(tx.To)
         /\ accounts'[tx.From].Nonce = tx.Nonce
         /\ accounts'[tx.From].UnbondingRelease = accounts[tx.From].UnbondingRelease
         /\ Others({tx.From, tx.To})
<1> DEFINE paid == SetBalance(accounts, tx.From, GetBalance(accounts, tx.From) - tx.Amount)
           pooled == SetStake(paid, tx.To, GetStake(accounts, tx.To) + tx.Amount)
           d == GetDelegation(accounts, tx.From, tx.To) + tx.Amount
<1> USE TransactionType
<1>1. accounts \in [Addr -> Account] /\ tx.From # tx.To /\ tx.Type = "Delegate"
  BY DEF TypeOK, executeDelegate
<1>2. accounts' = SetNonce(SetDelegation(pooled, tx.From, tx.To, d), tx.From, tx.Nonce)
  BY DEF executeDelegate, Commit
<1>3. pooled = [accounts EXCEPT
                  ![tx.From].Balance = accounts[tx.From].Balance - tx.Amount,
                  ![tx.To].Stake = accounts[tx.To].Stake + tx.Amount]
  BY DEF SetBalance, SetStake, GetBalance, GetStake
<1> HIDE DEF paid, pooled, d
<1>4. accounts' = [pooled EXCEPT ![tx.From].Delegations[tx.To] = d,
                                 ![tx.From].Nonce = tx.Nonce]
  BY <1>2, SMTT(30) DEF SetDelegation, SetNonce
<1>6. Moves(tx.From, 0 - tx.Amount, 0, 0, 0)
  <2>1. pooled[tx.From] = [accounts[tx.From] EXCEPT !.Balance = accounts[tx.From].Balance - tx.Amount]
    BY <1>1, <1>3
  <2>2. accounts'[tx.From] = [pooled[tx.From] EXCEPT !.Delegations[tx.To] = d, !.Nonce = tx.Nonce]
    BY <1>1, <1>3, <1>4
  <2>3. accounts[tx.From] \in Account
    BY <1>1
  <2> QED BY <2>1, <2>2, <2>3 DEF Moves, Account, Uint
<1>7. Moves(tx.To, 0, tx.Amount, 0, 0) /\ Keeps(tx.To)
  <2>1. accounts'[tx.To] = pooled[tx.To]
    BY <1>1, <1>3, <1>4
  <2>2. pooled[tx.To] = [accounts[tx.To] EXCEPT !.Stake = accounts[tx.To].Stake + tx.Amount]
    BY <1>1, <1>3
  <2> QED BY <1>1, <2>1, <2>2 DEF Moves, Keeps, Account, Uint
<1>8. /\ accounts'[tx.From].Nonce = tx.Nonce
      /\ accounts'[tx.From].UnbondingRelease = accounts[tx.From].UnbondingRelease
      /\ Others({tx.From, tx.To})
  <2>1. \A a \in Addr : a # tx.From => accounts'[a] = pooled[a]
    BY <1>1, <1>3, <1>4
  <2>2. \A a \in Addr \ {tx.From, tx.To} : pooled[a] = accounts[a]
    BY <1>1, <1>3
  <2>3. pooled[tx.From] = [accounts[tx.From] EXCEPT
                             !.Balance = accounts[tx.From].Balance - tx.Amount]
    BY <1>1, <1>3
  <2>4. accounts'[tx.From] = [pooled[tx.From] EXCEPT !.Delegations[tx.To] = d, !.Nonce = tx.Nonce]
    BY <1>1, <1>3, <1>4
  <2>5. /\ accounts'[tx.From].Nonce = tx.Nonce
        /\ accounts'[tx.From].UnbondingRelease = accounts[tx.From].UnbondingRelease
    BY <1>1, <2>3, <2>4 DEF Account
  <2> QED BY <2>1, <2>2, <2>5 DEF Others
<1> QED BY <1>1, <1>6, <1>7, <1>8

\* The reward is 0 when the author's balance would overflow.
LEMMA RewardEffect ==
  ASSUME TypeOK, NEW author \in Addr, NEW fees \in Fees, NEW t \in Time,
         ApplyBlockReward(author, fees, t)
  PROVE  \E r \in Nat : /\ Moves(author, r, 0, 0, 0)
                        /\ Keeps(author)
                        /\ Others({author})
<1> DEFINE share == fees \div 2
           total == IF SafeAddOk(baseReward(t), share) THEN baseReward(t) + share
                    ELSE baseReward(t)
<1>1. baseReward(t) \in Nat /\ share \in Nat
  BY BaseRewardType, LedgerAssumption DEF Time, Uint
<1>2. total \in Nat
  BY <1>1
<1>3. accounts' = IF SafeAddOk(GetBalance(accounts, author), total)
                  THEN SetBalance(accounts, author, GetBalance(accounts, author) + total)
                  ELSE accounts
  BY DEF ApplyBlockReward
<1>4. accounts \in [Addr -> Account]
  BY DEF TypeOK
<1> USE DEF Moves, Keeps, Others
<1> HIDE DEF total
<1>5. CASE SafeAddOk(GetBalance(accounts, author), total)
  <2> WITNESS total \in Nat
  <2> QED BY <1>3, <1>4, <1>5 DEF SetBalance, GetBalance, Account, Uint
<1>6. CASE ~ SafeAddOk(GetBalance(accounts, author), total)
  <2> WITNESS 0 \in Nat
  <2> QED BY <1>3, <1>4, <1>6 DEF Account, Uint
<1> QED BY <1>5, <1>6

\* A successful Execute moves value between sender and receiver only.
LEMMA ExecuteMoves ==
  ASSUME TypeOK, NEW tx \in Transaction, NEW t \in Time, Execute(tx, t)
  PROVE  ValueMoved(tx)
<1>0. tx.From \in Addr /\ tx.To \in Addr
  BY TransactionType
<1>1. accounts \in [Addr -> Account]
  BY DEF TypeOK
<1>2. tx.Amount \in Nat /\ tx.Fee \in Nat
  BY TransactionType DEF Uint
<1>3. \A a \in Addr :
        /\ accounts[a].Balance \in Nat /\ accounts[a].Stake \in Nat
        /\ accounts[a].GrantStake \in Nat /\ accounts[a].UnbondingBalance \in Nat
  BY <1>1 DEF Account, Uint
<1>from. /\ accounts[tx.From].Balance \in Nat /\ accounts[tx.From].Stake \in Nat
         /\ accounts[tx.From].GrantStake \in Nat
         /\ accounts[tx.From].UnbondingBalance \in Nat
  BY <1>0, <1>3
<1>to. /\ accounts[tx.To].Balance \in Nat /\ accounts[tx.To].Stake \in Nat
       /\ accounts[tx.To].GrantStake \in Nat
       /\ accounts[tx.To].UnbondingBalance \in Nat
  BY <1>0, <1>3
<1>wealth. Wealth(accounts[tx.From]) \in Nat /\ Wealth(accounts[tx.To]) \in Nat
  BY <1>from, <1>to DEF Wealth
<1>4. CASE executeTransfer(tx)
  <2>1. /\ tx.Type = "Transfer" /\ tx.From # tx.To
        /\ Moves(tx.From, 0 - (tx.Amount + tx.Fee), 0, 0, 0)
        /\ Moves(tx.To, tx.Amount, 0, 0, 0)
        /\ Others({tx.From, tx.To})
    BY <1>4, TransferEffect
  <2>2. Charged(tx) = tx.Fee
    BY <2>1 DEF Charged
  <2>3. Wealth(accounts'[tx.From]) = Wealth(accounts[tx.From]) - tx.Amount - tx.Fee
    BY <1>2, <1>from, <2>1 DEF Moves, Wealth
  <2>4. Wealth(accounts'[tx.To]) = Wealth(accounts[tx.To]) + tx.Amount
    BY <1>2, <1>to, <2>1 DEF Moves, Wealth
  <2> QED BY <1>0, <1>2, <1>wealth, <2>1, <2>2, <2>3, <2>4 DEF ValueMoved, Others
<1>5. CASE executeStake(tx)
  <2>1. /\ tx.Type = "Stake"
        /\ Moves(tx.From, 0 - tx.Amount, tx.Amount, 0, 0)
        /\ Others({tx.From})
    BY <1>5, StakeEffect
  <2>2. Charged(tx) = 0
    BY <2>1 DEF Charged
  <2>3. Wealth(accounts'[tx.From]) = Wealth(accounts[tx.From]) + 0
    BY <1>2, <1>from, <2>1 DEF Moves, Wealth
  <2> QED BY <1>0, <1>2, <1>wealth, <2>1, <2>2, <2>3 DEF ValueMoved, Others
<1>6. CASE executeUnstake(tx, t)
  <2>1. /\ tx.Type = "Unstake"
        /\ Moves(tx.From, 0, 0 - tx.Amount, 0, tx.Amount)
        /\ Others({tx.From})
    BY <1>6, UnstakeEffect
  <2>2. Charged(tx) = 0
    BY <2>1 DEF Charged
  <2>3. Wealth(accounts'[tx.From]) = Wealth(accounts[tx.From]) + 0
    BY <1>2, <1>from, <2>1 DEF Moves, Wealth
  <2> QED BY <1>0, <1>2, <1>wealth, <2>1, <2>2, <2>3 DEF ValueMoved, Others
<1>7. CASE executeDelegate(tx)
  <2>1. /\ tx.Type = "Delegate" /\ tx.From # tx.To
        /\ Moves(tx.From, 0 - tx.Amount, 0, 0, 0)
        /\ Moves(tx.To, 0, tx.Amount, 0, 0)
        /\ Others({tx.From, tx.To})
    BY <1>7, DelegateEffect
  <2>2. Charged(tx) = 0
    BY <2>1 DEF Charged
  <2>3. Wealth(accounts'[tx.From]) = Wealth(accounts[tx.From]) - tx.Amount
    BY <1>2, <1>from, <2>1 DEF Moves, Wealth
  <2>4. Wealth(accounts'[tx.To]) = Wealth(accounts[tx.To]) + tx.Amount
    BY <1>2, <1>to, <2>1 DEF Moves, Wealth
  <2> QED BY <1>0, <1>2, <1>wealth, <2>1, <2>2, <2>3, <2>4 DEF ValueMoved, Others
<1>8. CASE executeWithdraw(tx, t)
  <2>1. /\ tx.Type = "Withdraw"
        /\ Moves(tx.From, accounts[tx.From].UnbondingBalance, 0, 0,
                       0 - accounts[tx.From].UnbondingBalance)
        /\ Others({tx.From})
    BY <1>8, WithdrawEffect
  <2>2. Charged(tx) = 0
    BY <2>1 DEF Charged
  <2>3. Wealth(accounts'[tx.From]) = Wealth(accounts[tx.From]) + 0
    BY <1>2, <1>from, <2>1 DEF Moves, Wealth
  <2> QED BY <1>0, <1>2, <1>wealth, <2>1, <2>2, <2>3 DEF ValueMoved, Others
<1>9. CASE executeGrant(tx)
  <2>1. /\ tx.Type = "Grant" /\ tx.From # tx.To
        /\ Moves(tx.From, 0 - (tx.Amount + tx.Fee), 0, 0, 0)
        /\ Moves(tx.To, 0, 0, tx.Amount, 0)
        /\ Others({tx.From, tx.To})
    BY <1>9, GrantEffect
  <2>2. Charged(tx) = tx.Fee
    BY <2>1 DEF Charged
  <2>3. Wealth(accounts'[tx.From]) = Wealth(accounts[tx.From]) - tx.Amount - tx.Fee
    BY <1>2, <1>from, <2>1 DEF Moves, Wealth
  <2>4. Wealth(accounts'[tx.To]) = Wealth(accounts[tx.To]) + tx.Amount
    BY <1>2, <1>to, <2>1 DEF Moves, Wealth
  <2> QED BY <1>0, <1>2, <1>wealth, <2>1, <2>2, <2>3, <2>4 DEF ValueMoved, Others
<1>10. CASE executeBuyLicense(tx)
  <2>1. /\ tx.Type = "BuyLicense"
        /\ Moves(tx.From, 0 - (tx.Amount + tx.Fee), 0, tx.Amount, 0)
        /\ Others({tx.From})
    BY <1>10, BuyLicenseEffect
  <2>2. Charged(tx) = tx.Fee
    BY <2>1 DEF Charged
  <2>3. Wealth(accounts'[tx.From]) = Wealth(accounts[tx.From]) - tx.Fee
    BY <1>2, <1>from, <2>1 DEF Moves, Wealth
  <2> QED BY <1>0, <1>2, <1>wealth, <2>1, <2>2, <2>3 DEF ValueMoved, Others
<1> QED BY <1>4, <1>5, <1>6, <1>7, <1>8, <1>9, <1>10 DEF Execute

\* No transaction type creates or loses value, whatever the amounts
\* (executeTransfer .. executeDelegate).
THEOREM ValueIsConserved == Spec => ValueConserved
<1>1. TypeOK /\ [Next]_vars =>
        [\A tx \in Transaction :
           (\E t \in Time : Execute(tx, t)) => ValueMoved(tx)]_vars
  BY ExecuteMoves
<1> QED BY <1>1, TypeCorrect, PTL DEF Spec, ValueConserved

\* Account a only gains, and its nonce and its unbonding funds stay.
OnlyGains(a) ==
  /\ accounts'[a].Nonce = accounts[a].Nonce
  /\ accounts'[a].Balance >= accounts[a].Balance
  /\ accounts'[a].Stake >= accounts[a].Stake
  /\ accounts'[a].UnbondingBalance = accounts[a].UnbondingBalance
  /\ accounts'[a].UnbondingRelease = accounts[a].UnbondingRelease

\* A successful Execute uses up the sender's next nonce, takes from nobody
\* else and takes no licence away.
LEMMA ExecuteOwner ==
  ASSUME TypeOK, NEW tx \in Transaction, NEW t \in Time, Execute(tx, t),
         NEW a \in Addr
  PROVE  /\ accounts'[a].GrantStake >= accounts[a].GrantStake
         /\ \/ a = tx.From /\ accounts'[a].Nonce = accounts[a].Nonce + 1
            \/ a # tx.From /\ OnlyGains(a)
<1>0. tx.From \in Addr /\ tx.To \in Addr
  BY TransactionType
<1>1. tx.Amount \in Nat /\ tx.Fee \in Nat
  BY TransactionType DEF Uint
<1>2. /\ accounts[a].Balance \in Nat /\ accounts[a].Stake \in Nat
      /\ accounts[a].GrantStake \in Nat /\ accounts[a].UnbondingBalance \in Nat
  BY DEF TypeOK, Account, Uint
<1>3. tx.Nonce = accounts[tx.From].Nonce + 1
  BY DEF Execute, GetNonce
<1> DEFINE Sender == /\ accounts'[tx.From].Nonce = tx.Nonce
                     /\ a = tx.From => accounts'[a].GrantStake >= accounts[a].GrantStake
           Receiver == a = tx.To => /\ OnlyGains(a)
                                    /\ accounts'[a].GrantStake >= accounts[a].GrantStake
<1>4. /\ Sender
      /\ Others({tx.From}) \/ (Others({tx.From, tx.To}) /\ Receiver)
  <2>1. CASE executeTransfer(tx)
    <3>1. /\ Moves(tx.From, 0 - (tx.Amount + tx.Fee), 0, 0, 0)
          /\ accounts'[tx.From].Nonce = tx.Nonce
          /\ Others({tx.From, tx.To})
          /\ Moves(tx.To, tx.Amount, 0, 0, 0) /\ Keeps(tx.To)
      BY <2>1, TransferEffect
    <3> QED BY <1>1, <1>2, <3>1 DEF Moves, Keeps, OnlyGains
  <2>2. CASE executeStake(tx)
    <3>1. /\ Moves(tx.From, 0 - tx.Amount, tx.Amount, 0, 0)
          /\ accounts'[tx.From].Nonce = tx.Nonce
          /\ Others({tx.From})
      BY <2>2, StakeEffect
    <3>2. Sender
      BY <1>1, <1>2, <3>1 DEF Moves
    <3> QED BY <3>1, <3>2
  <2>3. CASE executeUnstake(tx, t)
    <3>1. /\ Moves(tx.From, 0, 0 - tx.Amount, 0, tx.Amount)
          /\ accounts'[tx.From].Nonce = tx.Nonce
          /\ Others({tx.From})
      BY <2>3, UnstakeEffect
    <3>2. Sender
      BY <1>1, <1>2, <3>1 DEF Moves
    <3> QED BY <3>1, <3>2
  <2>4. CASE executeDelegate(tx)
    <3>1. /\ Moves(tx.From, 0 - tx.Amount, 0, 0, 0)
          /\ accounts'[tx.From].Nonce = tx.Nonce
          /\ Others({tx.From, tx.To})
          /\ Moves(tx.To, 0, tx.Amount, 0, 0) /\ Keeps(tx.To)
      BY <2>4, DelegateEffect
    <3> QED BY <1>1, <1>2, <3>1 DEF Moves, Keeps, OnlyGains
  <2>5. CASE executeWithdraw(tx, t)
    <3>1. /\ Moves(tx.From, accounts[tx.From].UnbondingBalance, 0, 0,
                 0 - accounts[tx.From].UnbondingBalance)
          /\ accounts'[tx.From].Nonce = tx.Nonce
          /\ Others({tx.From})
      BY <2>5, WithdrawEffect
    <3>2. Sender
      BY <1>1, <1>2, <3>1 DEF Moves
    <3> QED BY <3>1, <3>2
  <2>6. CASE executeGrant(tx)
    <3>1. /\ Moves(tx.From, 0 - (tx.Amount + tx.Fee), 0, 0, 0)
          /\ accounts'[tx.From].Nonce = tx.Nonce
          /\ Others({tx.From, tx.To})
          /\ Moves(tx.To, 0, 0, tx.Amount, 0) /\ Keeps(tx.To)
      BY <2>6, GrantEffect
    <3> QED BY <1>1, <1>2, <3>1 DEF Moves, Keeps, OnlyGains
  <2>7. CASE executeBuyLicense(tx)
    <3>1. /\ Moves(tx.From, 0 - (tx.Amount + tx.Fee), 0, tx.Amount, 0)
          /\ accounts'[tx.From].Nonce = tx.Nonce
          /\ Others({tx.From})
      BY <2>7, BuyLicenseEffect
    <3>2. Sender
      BY <1>1, <1>2, <3>1 DEF Moves
    <3> QED BY <3>1, <3>2
  <2> QED BY <2>1, <2>2, <2>3, <2>4, <2>5, <2>6, <2>7 DEF Execute
<1>5. CASE a = tx.From
  BY <1>3, <1>4, <1>5
<1>6. CASE a # tx.From
  <2>1. CASE Others({tx.From})
    BY <1>2, <1>6, <2>1 DEF Others, OnlyGains
  <2>2. CASE Others({tx.From, tx.To}) /\ Receiver
    BY <1>2, <1>6, <2>2 DEF Others, OnlyGains
  <2> QED BY <1>4, <1>6, <2>1, <2>2
<1> QED BY <1>5, <1>6

\* A reward takes from nobody.
LEMMA RewardOwner ==
  ASSUME TypeOK, NEW author \in Addr, NEW fees \in Fees, NEW t \in Time,
         ApplyBlockReward(author, fees, t), NEW a \in Addr
  PROVE  OnlyGains(a) /\ accounts'[a].GrantStake >= accounts[a].GrantStake
<1>1. /\ accounts[a].Balance \in Nat /\ accounts[a].Stake \in Nat
      /\ accounts[a].GrantStake \in Nat /\ accounts[a].UnbondingBalance \in Nat
  BY DEF TypeOK, Account, Uint
<1>2. PICK r \in Nat : Moves(author, r, 0, 0, 0) /\ Keeps(author) /\ Others({author})
  BY RewardEffect
<1>3. CASE a = author
  BY <1>1, <1>2, <1>3 DEF Moves, Keeps, OnlyGains
<1>4. CASE a # author
  BY <1>1, <1>2, <1>4 DEF Others, OnlyGains
<1> QED BY <1>3, <1>4

\* No step lowers a granted stake, and one that uses no nonce of an account only adds to it.
LEMMA NextOwner ==
  ASSUME TypeOK, Next, NEW a \in Addr
  PROVE  /\ accounts'[a].GrantStake >= accounts[a].GrantStake
         /\ accounts'[a].Nonce = accounts[a].Nonce + 1 \/ OnlyGains(a)
<1>1. PICK t \in Time : \/ \E tx \in Transaction : Execute(tx, t)
                        \/ \E author \in Addr, fees \in Fees : ApplyBlockReward(author, fees, t)
  BY DEF Next, Timestamps
<1>2. CASE \E tx \in Transaction : Execute(tx, t)
  BY <1>2, ExecuteOwner
<1>3. CASE \E author \in Addr, fees \in Fees : ApplyBlockReward(author, fees, t)
  BY <1>3, RewardOwner
<1> QED BY <1>1, <1>2, <1>3

\* Only a transaction with the owner's next nonce takes from an account
\* (Execute, ApplyBlockReward).
THEOREM OnlyOwnerSpends == Spec => OwnerSpends
<1>1. TypeOK /\ [Next]_vars =>
        [\A a \in Addr :
           \/ accounts'[a].Nonce = accounts[a].Nonce + 1
           \/ /\ accounts'[a].Nonce = accounts[a].Nonce
              /\ accounts'[a].Balance >= accounts[a].Balance
              /\ accounts'[a].Stake >= accounts[a].Stake
              /\ accounts'[a].UnbondingBalance = accounts[a].UnbondingBalance
              /\ accounts'[a].UnbondingRelease = accounts[a].UnbondingRelease]_vars
  BY NextOwner DEF OnlyGains
<1> QED BY <1>1, TypeCorrect, PTL DEF Spec, OwnerSpends

\* Granted stake is never taken away (executeGrant, executeBuyLicense).
THEOREM LicencesArePermanent == Spec => LicencesPermanent
<1>1. TypeOK /\ [Next]_vars =>
        [\A a \in Addr : accounts'[a].GrantStake >= accounts[a].GrantStake]_vars
  BY NextOwner
<1> QED BY <1>1, TypeCorrect, PTL DEF Spec, LicencesPermanent

-----------------------------------------------------------------------------
(* The unbonding period. *)

\* The inductive invariant: the unstake times lie in the past, so the last
\* unstake is at most MaxSkew earlier than any other that is still unbonding.
UnbondingInv ==
  /\ TypeOK
  /\ \A a \in Addr : unstakedAt[a] <= now
  /\ UnbondingHeld

\* Nothing is unbonding at first.
LEMMA InitUnbonding == Init => UnbondingInv
<1> SUFFICES ASSUME Init PROVE UnbondingInv
  OBVIOUS
<1>1. \A a \in Addr : accounts[a].UnbondingBalance = 0
  BY DEF Init, NewAccount
<1>2. UnbondingHeld
  BY <1>1 DEF UnbondingHeld
<1>3. now = 0 /\ \A a \in Addr : unstakedAt[a] = 0
  BY DEF Init
<1>4. \A a \in Addr : unstakedAt[a] <= now
  BY <1>3
<1> QED BY <1>2, <1>4, InitType DEF UnbondingInv

\* A step in which account a's unbonding funds and their history stay.
LEMMA HeldWhenKept ==
  ASSUME UnbondingInv, NEW a \in Addr,
         accounts'[a].UnbondingBalance = accounts[a].UnbondingBalance,
         accounts'[a].UnbondingRelease = accounts[a].UnbondingRelease,
         unstakedAt'[a] = unstakedAt[a]
  PROVE  accounts'[a].UnbondingBalance > 0 =>
           accounts'[a].UnbondingRelease >= unstakedAt'[a] + UnbondingPeriod - MaxSkew
BY DEF UnbondingInv, UnbondingHeld

\* Every step keeps the release time of unbonding funds late enough.
LEMMA NextUnbonding == UnbondingInv /\ [Next]_vars => UnbondingInv'
<1> SUFFICES ASSUME UnbondingInv, [Next]_vars PROVE UnbondingInv'
  OBVIOUS
<1>0. TypeOK /\ TypeOK'
  BY NextType DEF UnbondingInv
<1>1. CASE UNCHANGED vars
  BY <1>0, <1>1 DEF vars, UnbondingInv, UnbondingHeld
<1>2. ASSUME NEW t \in Timestamps, NEW author \in Addr, NEW fees \in Fees,
             ApplyBlockReward(author, fees, t)
      PROVE  UnbondingInv'
  <2>1. t \in Time
    BY DEF Timestamps
  <2>2. \A a \in Addr : OnlyGains(a)
    BY <1>0, <1>2, <2>1, RewardOwner
  <2>3. unstakedAt' = unstakedAt /\ now' >= now /\ now \in Int /\ now' \in Int
    BY <1>0, <1>2, <2>1, LaterType DEF ApplyBlockReward, TypeOK, Time
  <2>4. \A a \in Addr : unstakedAt[a] \in Int
    BY <1>0 DEF TypeOK, Time
  <2>5. \A a \in Addr : unstakedAt'[a] <= now'
    BY <2>3, <2>4 DEF UnbondingInv
  <2>6. UnbondingHeld'
    BY <2>2, <2>3, HeldWhenKept DEF UnbondingHeld, OnlyGains
  <2> QED BY <1>0, <2>5, <2>6 DEF UnbondingInv
<1>3. ASSUME NEW t \in Timestamps, NEW tx \in Transaction, Execute(tx, t)
      PROVE  UnbondingInv'
  <2>1. t \in Time /\ t \in Int /\ t >= now - MaxSkew
    BY DEF Timestamps, Time
  <2>2. /\ now' >= now /\ now' >= t /\ now \in Int /\ now' \in Int
        /\ \A a \in Addr : unstakedAt[a] \in Int
    BY <1>0, <1>3, <2>1, LaterType DEF Execute, TypeOK, Time
  <2>3. tx.From \in Addr
    BY TransactionType
  <2>4. \A a \in Addr : a # tx.From =>
          /\ accounts'[a].UnbondingBalance = accounts[a].UnbondingBalance
          /\ accounts'[a].UnbondingRelease = accounts[a].UnbondingRelease
    BY <1>0, <1>3, <2>1, ExecuteOwner DEF OnlyGains
  <2>5. CASE executeUnstake(tx, t)
    <3>1. accounts'[tx.From].UnbondingRelease = t + UnbondingPeriod
      BY <1>0, <2>1, <2>5, UnstakeEffect
    <3>2. /\ \A a \in Addr : a # tx.From => unstakedAt'[a] = unstakedAt[a]
          /\ unstakedAt'[tx.From] = t \/ unstakedAt'[tx.From] = Later(unstakedAt[tx.From], t)
      BY <1>0, <2>3, <2>5 DEF executeUnstake, TypeOK
    <3>3. unstakedAt[tx.From] <= now
      BY <2>3 DEF UnbondingInv
    <3>4. /\ unstakedAt'[tx.From] <= now'
          /\ t + UnbondingPeriod >= unstakedAt'[tx.From] + UnbondingPeriod - MaxSkew
      BY <2>1, <2>2, <2>3, <3>2, <3>3, LedgerAssumption DEF Later
    <3>5. \A a \in Addr : unstakedAt'[a] <= now'
      BY <2>2, <3>2, <3>4 DEF UnbondingInv
    <3>6. UnbondingHeld'
      BY <2>4, <3>1, <3>2, <3>4, HeldWhenKept DEF UnbondingHeld
    <3> QED BY <1>0, <3>5, <3>6 DEF UnbondingInv
  <2>6. CASE ~ executeUnstake(tx, t)
    <3>1. unstakedAt' = unstakedAt
      BY <1>3, <2>6 DEF Execute, executeTransfer, executeStake, executeDelegate,
                        executeWithdraw, executeGrant, executeBuyLicense
    <3>2. \/ accounts'[tx.From].UnbondingBalance = 0
          \/ /\ accounts'[tx.From].UnbondingBalance = accounts[tx.From].UnbondingBalance
             /\ accounts'[tx.From].UnbondingRelease = accounts[tx.From].UnbondingRelease
      <4>1. accounts[tx.From].UnbondingBalance \in Nat
        BY <1>0, <2>3 DEF TypeOK, Account, Uint
      <4>2. CASE executeWithdraw(tx, t)
        <5>1. Moves(tx.From, accounts[tx.From].UnbondingBalance, 0, 0,
                    0 - accounts[tx.From].UnbondingBalance)
          BY <1>0, <2>1, <4>2, WithdrawEffect
        <5> QED BY <4>1, <5>1 DEF Moves
      <4>3. CASE executeTransfer(tx)
        <5>1. /\ Moves(tx.From, 0 - (tx.Amount + tx.Fee), 0, 0, 0)
              /\ accounts'[tx.From].UnbondingRelease = accounts[tx.From].UnbondingRelease
          BY <1>0, <4>3, TransferEffect
        <5> QED BY <4>1, <5>1 DEF Moves
      <4>4. CASE executeStake(tx)
        <5>1. /\ Moves(tx.From, 0 - tx.Amount, tx.Amount, 0, 0)
              /\ accounts'[tx.From].UnbondingRelease = accounts[tx.From].UnbondingRelease
          BY <1>0, <4>4, StakeEffect
        <5> QED BY <4>1, <5>1 DEF Moves
      <4>5. CASE executeDelegate(tx)
        <5>1. /\ Moves(tx.From, 0 - tx.Amount, 0, 0, 0)
              /\ accounts'[tx.From].UnbondingRelease = accounts[tx.From].UnbondingRelease
          BY <1>0, <4>5, DelegateEffect
        <5> QED BY <4>1, <5>1 DEF Moves
      <4>6. CASE executeGrant(tx)
        <5>1. /\ Moves(tx.From, 0 - (tx.Amount + tx.Fee), 0, 0, 0)
              /\ accounts'[tx.From].UnbondingRelease = accounts[tx.From].UnbondingRelease
          BY <1>0, <4>6, GrantEffect
        <5> QED BY <4>1, <5>1 DEF Moves
      <4>7. CASE executeBuyLicense(tx)
        <5>1. /\ Moves(tx.From, 0 - (tx.Amount + tx.Fee), 0, tx.Amount, 0)
              /\ accounts'[tx.From].UnbondingRelease = accounts[tx.From].UnbondingRelease
          BY <1>0, <4>7, BuyLicenseEffect
        <5> QED BY <4>1, <5>1 DEF Moves
      <4> QED BY <1>3, <2>6, <4>2, <4>3, <4>4, <4>5, <4>6, <4>7 DEF Execute
    <3>3. \A a \in Addr : unstakedAt'[a] <= now'
      BY <2>2, <3>1 DEF UnbondingInv
    <3>4. UnbondingHeld'
      BY <2>4, <3>1, <3>2, HeldWhenKept DEF UnbondingHeld
    <3> QED BY <1>0, <3>3, <3>4 DEF UnbondingInv
  <2> QED BY <2>5, <2>6
<1> QED BY <1>1, <1>2, <1>3 DEF Next

\* Funds stay unbonding for the period less the clock skew, counted from the
\* last unstake (executeUnstake, executeWithdraw).
THEOREM UnbondingIsHeld == Spec => []UnbondingHeld
<1>1. UnbondingInv => UnbondingHeld
  BY DEF UnbondingInv
<1> QED BY <1>1, InitUnbonding, NextUnbonding, PTL DEF Spec
=============================================================================
