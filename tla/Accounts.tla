------------------------------ MODULE Accounts ------------------------------
(***************************************************************************)
(* core/execution/state.go: the accounts of the ledger and the accessors   *)
(* of StateManager.  Every accessor of the code holds the mutex for the    *)
(* whole of one read or one write, so each is one operator here.  A getter *)
(* on an address without an account returns the zero value, which is what  *)
(* an absent account is represented by.                                    *)
(***************************************************************************)
EXTENDS SafeMath

CONSTANT Addr      \* the addresses (public keys)

Account ==
  [Balance : Uint, Stake : Uint, GrantStake : Uint,
   UnbondingBalance : Uint, UnbondingRelease : Int, Nonce : Nat,
   Delegations : [Addr -> Uint]]

\* getOrCreateAccountLocked: a fresh account, and what the getters answer for
\* an address that has none.
NewAccount ==
  [Balance |-> 0, Stake |-> 0, GrantStake |-> 0,
   UnbondingBalance |-> 0, UnbondingRelease |-> 0, Nonce |-> 0,
   Delegations |-> [v \in Addr |-> 0]]

GetBalance(st, a) == st[a].Balance
SetBalance(st, a, amount) == [st EXCEPT ![a].Balance = amount]

GetStake(st, a) == st[a].Stake
SetStake(st, a, amount) == [st EXCEPT ![a].Stake = amount]

GetUnbonding(st, a) == <<st[a].UnbondingBalance, st[a].UnbondingRelease>>

\* The mutated form: a second unstake keeps the first one's release time.
SetUnbondingMutant(st, a, amount, releaseTime) ==
  [st EXCEPT ![a].UnbondingBalance = amount,
             ![a].UnbondingRelease = IF @ > 0 /\ amount > 0 THEN @ ELSE releaseTime]

SetUnbonding(st, a, amount, releaseTime) ==
  [st EXCEPT ![a].UnbondingBalance = amount, ![a].UnbondingRelease = releaseTime]

GetGrantStake(st, a) == st[a].GrantStake
SetGrantStake(st, a, amount) == [st EXCEPT ![a].GrantStake = amount]

GetDelegation(st, d, v) == st[d].Delegations[v]
SetDelegation(st, d, v, amount) == [st EXCEPT ![d].Delegations[v] = amount]

GetNonce(st, a) == st[a].Nonce
SetNonce(st, a, nonce) == [st EXCEPT ![a].Nonce = nonce]

\* Everything account acc holds: liquid, staked, licensed and unbonding.
Wealth(acc) == acc.Balance + acc.Stake + acc.GrantStake + acc.UnbondingBalance

=============================================================================
