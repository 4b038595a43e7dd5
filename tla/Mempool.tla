------------------------------- MODULE Mempool -------------------------------
(***************************************************************************)
(* core/tpu/mempool.go: the pending transactions.  The UDP workers, the    *)
(* readers of the peers and the explorer call Add, the miner calls         *)
(* GetBatch, a ticker calls RemoveExpired; each holds the mutex throughout.*)
(* A transaction is identified by its signature.  The node never executes  *)
(* transactions, so the nonces of the accounts are those of the database.  *)
(***************************************************************************)
EXTENDS Integers, FiniteSets

CONSTANTS
  Sig,             \* the transactions, by their signatures
  Tx,              \* the fields of each transaction
  Nonce,           \* StateManager.GetNonce
  MinFee,          \* 1000
  MaxMempoolSize,  \* 10000
  TxTTL,           \* an hour
  TxMaxAge,        \* five minutes
  Limit,           \* 100
  MaxPoolTime          \* bound: the clock

ASSUME MempoolAssumption ==
  /\ Tx \in [Sig -> [From : DOMAIN Nonce, Nonce : Nat, Fee : Nat, Timestamp : Nat]]
  /\ \A a \in DOMAIN Nonce : Nonce[a] \in Nat
  /\ MinFee \in Nat
  /\ MaxMempoolSize \in Nat \ {0}
  /\ TxTTL \in Nat
  /\ TxMaxAge \in Nat
  /\ Limit \in Nat
  /\ MaxPoolTime \in Nat \ {0}

VARIABLES
  Pending,      \* the signatures in the pool
  ExpiresAt,    \* when each of them expires
  time,          \* the clock
  stopped       \* stopCleanup is closed

poolVars == <<Pending, ExpiresAt, time, stopped>>

Fee(s) == Tx[s].Fee

PoolInit ==
  /\ Pending = {}
  /\ ExpiresAt = [s \in Sig |-> 0]
  /\ time = 1
  /\ stopped = FALSE

-----------------------------------------------------------------------------

\* A timestamp of 0 is a legacy transaction.
IsExpired(s, t) ==
  /\ Tx[s].Timestamp # 0
  /\ t - Tx[s].Timestamp > TxMaxAge \/ Tx[s].Timestamp - t > TxMaxAge

\* The transactions evictLowestFee may choose from (the map iteration decides).
Lowest(pool) == {s \in pool : \A r \in pool : Fee(s) <= Fee(r)}

\* The mutated form: a transaction with the same fee is evicted too.
evictLowestFeeMutant(newFee) ==
  {Pending \ {s} : s \in {r \in Lowest(Pending) : newFee >= Fee(r)}}

\* The pools evictLowestFee may leave; none when it returns false.
evictLowestFee(newFee) ==
  {Pending \ {s} : s \in {r \in Lowest(Pending) : newFee > Fee(r)}}

\* The pools in which there is room for a transaction with this fee.
Room(newFee) ==
  IF Cardinality(Pending) >= MaxMempoolSize THEN evictLowestFee(newFee) ELSE {Pending}

Acceptable(s, pool) ==
  /\ Fee(s) >= MinFee
  /\ ~ IsExpired(s, time)
  /\ Tx[s].Nonce > Nonce[Tx[s].From]
  /\ s \notin pool

\* Room is made before the transaction is checked.
Add(s) ==
  /\ time + TxTTL < MaxPoolTime
  /\ \E pool \in Room(Fee(s)) :
       IF Acceptable(s, pool)
       THEN /\ Pending' = pool \cup {s}
            /\ ExpiresAt' = [ExpiresAt EXCEPT ![s] = time + TxTTL]
       ELSE /\ Pending' = pool
            /\ UNCHANGED ExpiresAt
  /\ UNCHANGED <<time, stopped>>

\* The transactions GetBatch may take: the highest fees, up to Limit of them.
Best ==
  {txs \in SUBSET Pending :
     /\ Cardinality(txs) <= Limit
     /\ Cardinality(txs) = Limit \/ txs = Pending
     /\ \A s \in txs, r \in Pending \ txs : Fee(s) >= Fee(r)}

GetBatch ==
  /\ Pending # {}
  /\ \E txs \in Best : Pending' = Pending \ txs
  /\ UNCHANGED <<ExpiresAt, time, stopped>>

\* The mutated form: entries without a legacy timestamp never expire.
ExpiredMutant == {s \in Pending : time > ExpiresAt[s] /\ Tx[s].Timestamp = 0}

Expired == {s \in Pending : time > ExpiresAt[s]}

\* The ticker of cleanupLoop.
RemoveExpired ==
  /\ ~ stopped
  /\ Expired # {}
  /\ Pending' = Pending \ Expired
  /\ UNCHANGED <<ExpiresAt, time, stopped>>

StopPool ==
  /\ ~ stopped
  /\ stopped' = TRUE
  /\ UNCHANGED <<Pending, ExpiresAt, time>>

PoolTick ==
  /\ time < MaxPoolTime
  /\ time' = time + 1
  /\ UNCHANGED <<Pending, ExpiresAt, stopped>>

PoolNext == (\E s \in Sig : Add(s)) \/ GetBatch \/ RemoveExpired \/ StopPool \/ PoolTick

PoolSpec == PoolInit /\ [][PoolNext]_poolVars

\* The clock goes on and the ticker of the cleanup fires.
FairPool == PoolSpec /\ WF_poolVars(PoolTick) /\ WF_poolVars(RemoveExpired)

-----------------------------------------------------------------------------

\* The type invariant: the pool never exceeds MaxMempoolSize and holds only
\* transactions that pay the minimum fee and are not yet executed (Add).
PoolTypeOK ==
  /\ Pending \subseteq Sig /\ IsFiniteSet(Pending)
  /\ Cardinality(Pending) <= MaxMempoolSize
  /\ \A s \in Pending : Fee(s) >= MinFee /\ Tx[s].Nonce > Nonce[Tx[s].From]
  /\ ExpiresAt \in [Sig -> Nat]
  /\ time \in Nat /\ stopped \in BOOLEAN

\* What an Add pushes out.
Evicted == Pending \ Pending'

\* Add pushes a transaction out only of a full pool, and then exactly one, that
\* pays less than the offered one and no more than any it leaves in
\* (evictLowestFee).  It makes the room before it checks the offered one: one
\* that is refused then (a duplicate, too old, already executed) has cost a
\* transaction of the pool its place and leaves the pool one short of full, so
\* that no further one is pushed out until the place is taken.
EvictsCheapestWhenFull ==
  [][\A s \in Sig : Add(s) /\ Evicted # {} =>
       /\ Cardinality(Pending) = MaxMempoolSize
       /\ Cardinality(Evicted) = 1
       /\ \A e \in Evicted : Fee(e) < Fee(s) /\ \A r \in Pending' : Fee(e) <= Fee(r)
       /\ s \in Pending' \ Pending \/ Cardinality(Pending') = MaxMempoolSize - 1]_poolVars

\* Every transaction leaves the pool, mined, evicted or expired, as long as the
\* pool is not stopped (cleanupLoop).
NothingStays == \A s \in Sig : s \in Pending ~> (s \notin Pending \/ stopped)
=============================================================================
