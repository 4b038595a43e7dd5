----------------------------- MODULE LedgerCalls -----------------------------
(***************************************************************************)
(* core/execution/executor.go one write at a time.  Every setter of        *)
(* StateManager changes one account in memory and saves that account to    *)
(* the database before it returns, so a call of Execute is a sequence of   *)
(* durable writes and the process may stop between any two of them.  A     *)
(* save may fail; the setters ignore that, and memory goes on alone.  The  *)
(* calls themselves run one after the other (ProcessBatch), so the reads   *)
(* and checks of a call see what the call before it left.                  *)
(*                                                                         *)
(* A start loads the accounts and main.go makes its genesis allocation     *)
(* again, with the same setters, before anything else runs.  The code      *)
(* loads an account when it is first used; here all are loaded at once.    *)
(*                                                                         *)
(* While it runs, the node implements Ledger: the abstract accounts are    *)
(* those of the last call that returned.                                   *)
(***************************************************************************)
EXTENDS Accounts, FiniteSets, FiniteSetsExt, Sequences

CONSTANTS
  GenesisBalance, GenesisStake, MinStakeForGrantAuthority,
  MinValidatorStakeForDelegation, UnbondingPeriod, InitialReward,
  HalvingPeriod, GenesisTime, MaxSkew, Amounts, Fees, MaxNonce, MaxTime,
                 \* as in Ledger
  Founders,      \* the addresses main.go allocates to at every start, in order
  MaxCrashes,    \* bound: crashes
  MaxFailures    \* bound: saves and loads that fail

ASSUME LedgerCallsAssumption ==
  /\ IsFiniteSet(Addr)
  /\ GenesisBalance \in [Addr -> Uint]
  /\ GenesisStake \in [Addr -> Uint]
  /\ UnbondingPeriod \in Nat
  /\ InitialReward \in Uint \ {0}
  /\ HalvingPeriod \in Nat \ {0}
  /\ GenesisTime \in Nat
  /\ MaxSkew \in Nat
  /\ Amounts \subseteq Uint /\ Fees \subseteq Uint
  /\ MaxNonce \in Nat /\ MaxTime \in Nat
  /\ MaxCrashes \in Nat /\ MaxFailures \in Nat

ASSUME FoundersAssumption == Founders \in Seq(Addr)

VARIABLES
  accounts,      \* StateManager.Accounts
  disk,          \* the accounts in the database
  todo,          \* the writes the running call has still to make
  call,          \* the successful call that is running: <<tx, t>>, or <<>>
  before,        \* history: the accounts when the running call began
  now, unstakedAt,   \* history, as in Ledger
  applied,       \* history: how often each nonce's effects were all written
  boot,          \* how many setters of the genesis allocation have run
  unsaved,       \* history: accounts whose last save, or whose load, failed
  unread,        \* history: accounts that ever failed to load
  crashes, failures

history == <<now, unstakedAt>>
vars == <<accounts, disk, todo, call, before, now, unstakedAt, applied, boot,
          unsaved, unread, crashes, failures>>

\* The accounts between two calls, with the history of the calls.
L == INSTANCE Ledger WITH accounts <- before

\* main.go has made its allocation, two setters for each founder.
Booted == boot = 2 * Len(Founders)

\* The first start, with the allocation saved.
Init ==
  /\ L!Init
  /\ accounts = before
  /\ disk = before
  /\ todo = <<>>
  /\ call = <<>>
  /\ applied = [a \in Addr |-> [n \in 1 .. MaxNonce |-> 0]]
  /\ Booted
  /\ unsaved = {}
  /\ unread = {}
  /\ crashes = 0
  /\ failures = 0

Bal(a) == GetBalance(accounts, a)
Stk(a) == GetStake(accounts, a)
Grt(a) == GetGrantStake(accounts, a)

\* One call of a setter: the account it saves, and the accounts in memory after
\* it.
Write(a, st) == [addr |-> a, accounts |-> st]

-----------------------------------------------------------------------------

\* The checks of a call have passed; these are its writes, and the nonce.
Succeed(tx, t, writes) ==
  LET done == writes[Len(writes)].accounts
  IN  /\ todo' = Append(writes, Write(tx.From, SetNonce(done, tx.From, tx.Nonce)))
      /\ call' = <<tx, t>>

\* The mutated form: the sender is not restored.
RestoreMutant(tx) ==
  todo' = <<Write(tx.From, SetBalance(accounts, tx.From, Bal(tx.From) - tx.Amount - tx.Fee))>>

\* The receiver's balance would overflow: the sender is debited, then restored.
Restore(tx) ==
  LET debited == SetBalance(accounts, tx.From, Bal(tx.From) - tx.Amount - tx.Fee)
  IN  todo' = << Write(tx.From, debited),
                 Write(tx.From, SetBalance(debited, tx.From, Bal(tx.From))) >>

executeTransfer(tx, t) ==
  LET debited == SetBalance(accounts, tx.From, Bal(tx.From) - (tx.Amount + tx.Fee)) IN
  /\ tx.Type = "Transfer" /\ tx.Amount # 0 /\ tx.From # tx.To
  /\ SafeAddOk(tx.Amount, tx.Fee)
  /\ Bal(tx.From) >= tx.Amount + tx.Fee
  /\ IF SafeAddOk(GetBalance(debited, tx.To), tx.Amount)
     THEN Succeed(tx, t, << Write(tx.From, debited),
                            Write(tx.To, SetBalance(debited, tx.To,
                                           GetBalance(debited, tx.To) + tx.Amount)) >>)
     ELSE Restore(tx) /\ UNCHANGED call

executeStake(tx, t) ==
  LET paid == SetBalance(accounts, tx.From, Bal(tx.From) - tx.Amount) IN
  /\ tx.Type = "Stake" /\ tx.Amount # 0
  /\ Bal(tx.From) >= tx.Amount
  /\ SafeAddOk(Stk(tx.From), tx.Amount)
  /\ Succeed(tx, t, << Write(tx.From, paid),
                       Write(tx.From, SetStake(paid, tx.From, Stk(tx.From) + tx.Amount)) >>)

executeUnstake(tx, t) ==
  LET unbonding == GetUnbonding(accounts, tx.From)[1]
      taken == SetStake(accounts, tx.From, Stk(tx.From) - tx.Amount)
  IN
  /\ tx.Type = "Unstake" /\ tx.Amount # 0
  /\ Stk(tx.From) >= tx.Amount
  /\ SafeAddOk(unbonding, tx.Amount)
  /\ Succeed(tx, t, << Write(tx.From, taken),
                       Write(tx.From, SetUnbonding(taken, tx.From, unbonding + tx.Amount,
                                                   t + UnbondingPeriod)) >>)

\* The mutated form: the balance is credited before the unbonding funds are
\* cleared.
executeWithdrawMutant(tx, t) ==
  LET unbonding == GetUnbonding(accounts, tx.From)[1]
      credited == SetBalance(accounts, tx.From, Bal(tx.From) + unbonding)
  IN
  /\ tx.Type = "Withdraw" /\ unbonding # 0
  /\ t >= GetUnbonding(accounts, tx.From)[2]
  /\ SafeAddOk(Bal(tx.From), unbonding)
  /\ Succeed(tx, t, << Write(tx.From, credited),
                       Write(tx.From, SetUnbonding(credited, tx.From, 0, 0)) >>)

executeWithdraw(tx, t) ==
  LET unbonding == GetUnbonding(accounts, tx.From)[1]
      cleared == SetUnbonding(accounts, tx.From, 0, 0)
  IN
  /\ tx.Type = "Withdraw" /\ unbonding # 0
  /\ t >= GetUnbonding(accounts, tx.From)[2]
  /\ SafeAddOk(Bal(tx.From), unbonding)
  /\ Succeed(tx, t, << Write(tx.From, cleared),
                       Write(tx.From, SetBalance(cleared, tx.From, Bal(tx.From) + unbonding)) >>)

executeGrant(tx, t) ==
  LET paid == SetBalance(accounts, tx.From, Bal(tx.From) - (tx.Amount + tx.Fee)) IN
  /\ tx.Type = "Grant"
  /\ SafeAddOk(Stk(tx.From), Grt(tx.From))
  /\ Stk(tx.From) + Grt(tx.From) >= MinStakeForGrantAuthority
  /\ tx.From # tx.To
  /\ SafeAddOk(tx.Amount, tx.Fee)
  /\ Bal(tx.From) >= tx.Amount + tx.Fee
  /\ SafeAddOk(Grt(tx.To), tx.Amount)
  /\ Succeed(tx, t, << Write(tx.From, paid),
                       Write(tx.To, SetGrantStake(paid, tx.To, Grt(tx.To) + tx.Amount)) >>)

executeBuyLicense(tx, t) ==
  LET paid == SetBalance(accounts, tx.From, Bal(tx.From) - (tx.Amount + tx.Fee)) IN
  /\ tx.Type = "BuyLicense"
  /\ SafeAddOk(tx.Amount, tx.Fee)
  /\ Bal(tx.From) >= tx.Amount + tx.Fee
  /\ SafeAddOk(Grt(tx.From), tx.Amount)
  /\ Succeed(tx, t, << Write(tx.From, paid),
                       Write(tx.From, SetGrantStake(paid, tx.From, Grt(tx.From) + tx.Amount)) >>)

executeDelegate(tx, t) ==
  LET paid == SetBalance(accounts, tx.From, Bal(tx.From) - tx.Amount)
      pooled == SetStake(paid, tx.To, Stk(tx.To) + tx.Amount)
      delegated == GetDelegation(accounts, tx.From, tx.To) + tx.Amount
  IN
  /\ tx.Type = "Delegate" /\ tx.Amount # 0 /\ tx.From # tx.To
  /\ SafeAddOk(Stk(tx.To), Grt(tx.To))
  /\ Stk(tx.To) + Grt(tx.To) >= MinValidatorStakeForDelegation
  /\ Bal(tx.From) >= tx.Amount
  /\ SafeAddOk(Stk(tx.To), tx.Amount)
  /\ SafeAddOk(GetDelegation(accounts, tx.From, tx.To), tx.Amount)
  /\ Succeed(tx, t, << Write(tx.From, paid),
                       Write(tx.To, pooled),
                       Write(tx.From, SetDelegation(pooled, tx.From, tx.To, delegated)) >>)

\* Execute is called and its checks pass (a call that they stop writes
\* nothing).
Execute(tx, t) ==
  /\ Booted /\ todo = <<>>
  /\ tx.Nonce = GetNonce(accounts, tx.From) + 1
  /\ \/ executeTransfer(tx, t)
     \/ executeStake(tx, t)
     \/ executeUnstake(tx, t)
     \/ executeDelegate(tx, t)
     \/ executeWithdraw(tx, t)
     \/ executeGrant(tx, t)
     \/ executeBuyLicense(tx, t)
  /\ UNCHANGED <<accounts, disk, before, history, applied, boot, unsaved, unread, crashes, failures>>

\* The call that is running returns with this write.
Return(written) ==
  LET tx == call[1]
      t == call[2]
  IN  /\ before' = written
      /\ now' = L!Later(now, t)
      /\ unstakedAt' = IF tx.Type # "Unstake" THEN unstakedAt
                       ELSE [unstakedAt EXCEPT ![tx.From] =
                               IF before[tx.From].UnbondingBalance = 0 THEN t
                               ELSE L!Later(@, t)]
      /\ call' = <<>>

\* The mutated form: the nonce is not saved.
persistAccountMutant(a, written) ==
  \/ /\ disk' = [disk EXCEPT ![a] = [written[a] EXCEPT !.Nonce = disk[a].Nonce]]
     /\ unsaved' = unsaved \ {a}
     /\ UNCHANGED failures
  \/ /\ failures + Cardinality(unread) < MaxFailures
     /\ failures' = failures + 1
     /\ unsaved' = unsaved \cup {a}
     /\ UNCHANGED disk

\* The whole account is saved, or the save fails and is not repeated.
persistAccount(a, written) ==
  \/ /\ disk' = [disk EXCEPT ![a] = written[a]]
     /\ unsaved' = unsaved \ {a}
     /\ UNCHANGED failures
  \/ /\ failures + Cardinality(unread) < MaxFailures
     /\ failures' = failures + 1
     /\ unsaved' = unsaved \cup {a}
     /\ UNCHANGED disk

\* The next setter of the running call: memory, then persistAccount.
Set ==
  LET w == Head(todo)
      written == w.accounts
  IN  /\ todo # <<>>
      /\ accounts' = written
      /\ persistAccount(w.addr, written)
      /\ todo' = Tail(todo)
      /\ IF call # <<>> /\ todo' = <<>> THEN Return(written)
         ELSE UNCHANGED <<before, history, call>>
      /\ applied' = IF call # <<>> /\ Len(todo) = 2
                    THEN [applied EXCEPT ![call[1].From][call[1].Nonce] = @ + 1]
                    ELSE applied
      /\ UNCHANGED <<boot, unread, crashes>>

\* A reward is one write, or none if the balance would overflow.
ApplyBlockReward(author, fees, t) ==
  /\ Booted /\ todo = <<>>
  /\ L!ApplyBlockReward(author, fees, t)
  /\ accounts' = before'
  /\ IF accounts' = accounts THEN UNCHANGED <<disk, unsaved, failures>>
     ELSE persistAccount(author, accounts')
  /\ UNCHANGED <<todo, call, applied, boot, unread, crashes>>

\* The process stops and starts again.  An account that cannot be read or
\* decoded is taken for a new one (loadAccountFromDB, getOrCreateAccountLocked).
Restart(lost) ==
  LET loaded == [a \in Addr |-> IF a \in lost THEN L!NewAccount ELSE disk[a]]
  IN  /\ crashes < MaxCrashes
      /\ failures + Cardinality(unread \cup lost) <= MaxFailures
      /\ accounts' = loaded
      /\ before' = loaded
      /\ todo' = <<>>
      /\ call' = <<>>
      /\ boot' = 0
      /\ unsaved' = lost
      /\ unread' = unread \cup lost
      /\ crashes' = crashes + 1
      /\ UNCHANGED <<disk, history, applied, failures>>

\* The next setter of main.go's allocation: the balance of a founder, then the
\* stake.
Allocate ==
  LET a == Founders[boot \div 2 + 1]
      written == IF boot % 2 = 0 THEN SetBalance(accounts, a, GenesisBalance[a])
                 ELSE SetStake(accounts, a, GenesisStake[a])
  IN  /\ ~ Booted
      /\ boot' = boot + 1
      /\ accounts' = written
      /\ before' = written
      /\ persistAccount(a, written)
      /\ UNCHANGED <<todo, call, history, applied, unread, crashes>>

Next ==
  \/ \E t \in L!Timestamps :
       \/ \E tx \in L!Transaction : Execute(tx, t)
       \/ \E author \in Addr, fees \in Fees : ApplyBlockReward(author, fees, t)
  \/ Set
  \/ \E lost \in SUBSET Addr : Restart(lost)
  \/ Allocate

Spec == Init /\ [][Next]_vars

-----------------------------------------------------------------------------

\* The sum of the values f has on S.
SumOver(f, S) == MapThenSumSet(LAMBDA x : f[x], S)

TotalWealth(st) == SumOver([a \in Addr |-> Wealth(st[a])], Addr)

\* The step of Ledger that a step here stands for: the transaction whose call
\* returns, or a reward; both are disjuncts of its Next.
LedgerStep ==
  IF call # <<>> THEN L!Execute(call[1], call[2])
  ELSE \E t \in L!Timestamps, author \in Addr, fees \in Fees : L!ApplyBlockReward(author, fees, t)

\* The calls implement the atomic operations of Ledger: while the node runs the
\* writes of a call, done one by one, leave exactly the accounts the atomic
\* operation leaves, also on what a crash left behind and whatever saves fail,
\* and a transfer that fails halfway puts the sender back (executeTransfer).
\* Only a start changes the accounts in another way.
AtomicCalls == L!Init /\ [][crashes' = crashes /\ boot' = boot => LedgerStep]_(L!vars)

\* What the accounts that memory and database do not agree on, because their
\* last save or their load failed, have in the database and not in memory.
StaleWealth ==
  SumOver([a \in Addr |-> IF Wealth(disk[a]) > Wealth(accounts[a])
                          THEN Wealth(disk[a]) - Wealth(accounts[a]) ELSE 0], unsaved)

\* Wherever the process stops inside a call, the database never holds more
\* value than when the call began, beyond what failed saves and failed loads
\* left behind and no later save of the same account replaced: every operation
\* debits before it credits, and every save saves the whole account
\* (persistAccount).
CrashNeverMints == TotalWealth(disk) <= TotalWealth(before) + StaleWealth

\* Nonces do not protect from a replay after a crash, but a crash brings back at
\* most the one call it cut short, and a failed save at most the one call it
\* belonged to (Execute writes the nonce last, persistAccount).  Only an account
\* that failed to load forgets its nonces, whichever start or save is cut short.
ReplaysBounded ==
  LET replays == [p \in Addr \X (1 .. MaxNonce) |->
                    IF p[1] \notin unread /\ applied[p[1]][p[2]] > 1
                    THEN applied[p[1]][p[2]] - 1 ELSE 0]
  IN  SumOver(replays, Addr \X (1 .. MaxNonce)) <= crashes + failures
=============================================================================
