--------------------------- MODULE PipelineProofs ---------------------------
(***************************************************************************)
(* Proofs about what transactions and blocks pass through in a node.       *)
(*                                                                         *)
(* Mempool: the pool never exceeds its size and holds only transactions    *)
(* that pay the minimum fee, and only a full pool loses one to an Add, one *)
(* that pays less than the offered one and no more than those left.        *)
(*                                                                         *)
(* Ingest: the queue stays within its capacity, every packet received is   *)
(* in exactly one place, no worker holds a packet once Stop has returned,  *)
(* and no sender gets more than two windows less one within a minute.      *)
(*                                                                         *)
(* Dag, for every DAG of vertices and any number of threads and crashes:   *)
(* the tips are the wavefront, every known vertex is saved, being saved or *)
(* one whose save failed, and the saved tips cover the saved vertices.     *)
(***************************************************************************)
EXTENDS Mempool, Ingest, Dag, FiniteSetTheorems, WellFoundedInduction, TLAPS

\* Most steps have no arithmetic: Zenon is tried before the SMT solver.
USE ZenonT(2), SMTT(20), ZenonT(20)

-----------------------------------------------------------------------------
(* Mempool. *)

\* What Add may do to the pool.
LEMMA AddEffect ==
  ASSUME NEW s \in Sig, Add(s)
  PROVE  \E pool \in Room(Fee(s)) :
           \/ /\ Acceptable(s, pool)
              /\ Pending' = pool \cup {s}
              /\ ExpiresAt' = [ExpiresAt EXCEPT ![s] = time + TxTTL]
           \/ Pending' = pool /\ ExpiresAt' = ExpiresAt
  BY DEF Add

\* The room that is made: there is space for one more, and only a transaction
\* of the lowest fee has gone.
LEMMA RoomEffect ==
  ASSUME PoolTypeOK, NEW newFee, NEW pool \in Room(newFee)
  PROVE  /\ pool \subseteq Pending /\ IsFiniteSet(pool)
         /\ Cardinality(pool) + 1 <= MaxMempoolSize
         /\ \/ pool = Pending
            \/ \E e \in Lowest(Pending) : newFee > Fee(e) /\ pool = Pending \ {e}
<1>1. Cardinality(Pending) \in Nat /\ MaxMempoolSize \in Nat
  BY FS_CardinalityType, MempoolAssumption DEF PoolTypeOK
<1>2. CASE Cardinality(Pending) >= MaxMempoolSize
  <2>1. PICK e \in Lowest(Pending) : newFee > Fee(e) /\ pool = Pending \ {e}
    BY <1>2 DEF Room, evictLowestFee
  <2>2. e \in Pending
    BY DEF Lowest
  <2>3. IsFiniteSet(pool) /\ Cardinality(pool) = Cardinality(Pending) - 1
    BY <2>1, <2>2, FS_RemoveElement DEF PoolTypeOK
  <2> QED
    BY <2>1, <2>3, <1>1 DEF PoolTypeOK
<1>3. CASE ~ (Cardinality(Pending) >= MaxMempoolSize)
  <2>1. pool = Pending
    BY <1>3 DEF Room
  <2> QED
    BY <2>1, <1>1, <1>3 DEF PoolTypeOK
<1> QED
  BY <1>2, <1>3

\* The empty pool is typed.
LEMMA PoolTypeInit == PoolInit => PoolTypeOK
<1> SUFFICES ASSUME PoolInit PROVE PoolTypeOK
  OBVIOUS
<1>1. Pending = {} /\ IsFiniteSet(Pending) /\ Cardinality(Pending) = 0
  BY FS_EmptySet DEF PoolInit
<1>2. Cardinality(Pending) <= MaxMempoolSize
  BY <1>1, MempoolAssumption
<1>3. ExpiresAt \in [Sig -> Nat] /\ time \in Nat /\ stopped \in BOOLEAN
  BY DEF PoolInit
<1> QED
  BY <1>1, <1>2, <1>3 DEF PoolTypeOK

\* A part of the pool keeps the bound and the fees.
LEMMA SmallerPool ==
  ASSUME PoolTypeOK, NEW pool, pool \subseteq Pending
  PROVE  /\ pool \subseteq Sig /\ IsFiniteSet(pool)
         /\ Cardinality(pool) <= MaxMempoolSize
         /\ \A s \in pool : Fee(s) >= MinFee /\ Tx[s].Nonce > Nonce[Tx[s].From]
<1>1. IsFiniteSet(pool) /\ Cardinality(pool) <= Cardinality(Pending)
  BY FS_Subset DEF PoolTypeOK
<1>2. Cardinality(pool) \in Nat /\ Cardinality(Pending) \in Nat /\ MaxMempoolSize \in Nat
  BY <1>1, FS_CardinalityType, MempoolAssumption DEF PoolTypeOK
<1> QED
  BY <1>1, <1>2 DEF PoolTypeOK

\* Add keeps the pool within its size, eviction included.
LEMMA AddType == ASSUME PoolTypeOK, NEW s \in Sig, Add(s) PROVE PoolTypeOK'
<1>1. PICK pool \in Room(Fee(s)) :
        \/ /\ Acceptable(s, pool)
           /\ Pending' = pool \cup {s}
           /\ ExpiresAt' = [ExpiresAt EXCEPT ![s] = time + TxTTL]
        \/ Pending' = pool /\ ExpiresAt' = ExpiresAt
  BY AddEffect
<1>2. /\ pool \subseteq Pending /\ IsFiniteSet(pool)
      /\ Cardinality(pool) + 1 <= MaxMempoolSize
  BY RoomEffect
<1>3. UNCHANGED <<time, stopped>>
  BY DEF Add
<1>4. CASE /\ Acceptable(s, pool)
           /\ Pending' = pool \cup {s}
           /\ ExpiresAt' = [ExpiresAt EXCEPT ![s] = time + TxTTL]
  <2>1. IsFiniteSet(Pending') /\ Cardinality(Pending') = Cardinality(pool) + 1
    BY <1>2, <1>4, FS_AddElement DEF Acceptable
  <2>2. \A r \in Pending' : Fee(r) >= MinFee /\ Tx[r].Nonce > Nonce[Tx[r].From]
    BY <1>2, <1>4 DEF Acceptable, PoolTypeOK
  <2>3. ExpiresAt' \in [Sig -> Nat]
    BY <1>4, MempoolAssumption DEF PoolTypeOK
  <2> QED
    BY <1>2, <1>3, <1>4, <2>1, <2>2, <2>3 DEF PoolTypeOK, Fee
<1>5. CASE Pending' = pool /\ ExpiresAt' = ExpiresAt
  BY <1>2, <1>3, <1>5, SmallerPool DEF PoolTypeOK, Fee
<1> QED
  BY <1>1, <1>4, <1>5

\* Every call of the pool keeps its types.
LEMMA PoolTypeNext == PoolTypeOK /\ [PoolNext]_poolVars => PoolTypeOK'
<1> SUFFICES ASSUME PoolTypeOK, [PoolNext]_poolVars PROVE PoolTypeOK'
  OBVIOUS
<1>1. ASSUME NEW s \in Sig, Add(s) PROVE PoolTypeOK'
  BY <1>1, AddType
<1>2. CASE GetBatch
  <2>1. PICK txs \in Best : Pending' = Pending \ txs
    BY <1>2 DEF GetBatch
  <2>2. Pending' \subseteq Pending /\ UNCHANGED <<ExpiresAt, time, stopped>>
    BY <1>2, <2>1 DEF GetBatch
  <2> QED
    BY <2>2, SmallerPool DEF PoolTypeOK, Fee
<1>3. CASE RemoveExpired
  <2>1. Pending' \subseteq Pending /\ UNCHANGED <<ExpiresAt, time, stopped>>
    BY <1>3 DEF RemoveExpired
  <2> QED
    BY <2>1, SmallerPool DEF PoolTypeOK, Fee
<1>4. CASE StopPool
  BY <1>4 DEF StopPool, PoolTypeOK, Fee
<1>5. CASE PoolTick
  BY <1>5 DEF PoolTick, PoolTypeOK, Fee
<1>6. CASE UNCHANGED poolVars
  BY <1>6 DEF poolVars, PoolTypeOK, Fee
<1> QED
  BY <1>1, <1>2, <1>3, <1>4, <1>5, <1>6 DEF PoolNext

\* The pool never exceeds MaxMempoolSize and every transaction in it pays the
\* minimum fee and has a nonce above the account's (Add).
THEOREM PoolTypeCorrect == PoolSpec => []PoolTypeOK
  BY PoolTypeInit, PoolTypeNext, PTL DEF PoolSpec

-----------------------------------------------------------------------------

\* Add pushes a transaction out only of a full pool, exactly one, of the lowest
\* fee and below that of the offered one, which is in the pool afterwards or, when
\* it was refused, leaves the pool one short of full (evictLowestFee, Add).
THEOREM EvictionsTakeCheapest == PoolSpec => EvictsCheapestWhenFull
<1> DEFINE Fair(s) ==
      /\ Cardinality(Pending) = MaxMempoolSize
      /\ Cardinality(Evicted) = 1
      /\ \A e \in Evicted : Fee(e) < Fee(s) /\ \A r \in Pending' : Fee(e) <= Fee(r)
      /\ s \in Pending' \ Pending \/ Cardinality(Pending') = MaxMempoolSize - 1
<1>1. PoolTypeOK /\ [PoolNext]_poolVars => [\A s \in Sig : Add(s) /\ Evicted # {} => Fair(s)]_poolVars
  <2> SUFFICES ASSUME PoolTypeOK, NEW s \in Sig, Add(s), Evicted # {} PROVE Fair(s)
    OBVIOUS
  <2>0. \A r \in Sig : Fee(r) \in Nat
    BY MempoolAssumption DEF Fee
  <2>1. PICK pool \in Room(Fee(s)) :
          (Acceptable(s, pool) /\ Pending' = pool \cup {s}) \/ Pending' = pool
    BY AddEffect
  <2>2. PICK e \in Lowest(Pending) : Fee(s) > Fee(e) /\ pool = Pending \ {e}
    BY <2>1, RoomEffect DEF Evicted
  <2>3. Evicted = {e} /\ e \in Pending /\ Pending' \subseteq Pending \cup {s}
    BY <2>1, <2>2 DEF Evicted, Lowest
  <2>4. Cardinality({e}) = 1
    BY FS_Singleton
  <2>5. \A r \in Pending' : Fee(e) <= Fee(r)
    BY <2>0, <2>2, <2>3 DEF Lowest, PoolTypeOK
  <2>6. Cardinality(Pending) = MaxMempoolSize /\ Cardinality(pool) = MaxMempoolSize - 1
    <3>1. Cardinality(Pending) \in Nat /\ MaxMempoolSize \in Nat
      BY FS_CardinalityType, MempoolAssumption DEF PoolTypeOK
    <3>2. Cardinality(pool) = Cardinality(Pending) - 1
      BY <2>2, <2>3, FS_RemoveElement DEF PoolTypeOK
    <3>3. Cardinality(Pending) >= MaxMempoolSize
      BY <2>2, <2>3 DEF Room
    <3> QED BY <3>1, <3>2, <3>3 DEF PoolTypeOK
  <2>7. s # e
    BY <2>0, <2>2, <2>3 DEF PoolTypeOK
  <2>8. s \in Pending' \ Pending \/ Cardinality(Pending') = MaxMempoolSize - 1
    BY <2>1, <2>2, <2>6, <2>7 DEF Acceptable
  <2> QED
    BY <2>0, <2>2, <2>3, <2>4, <2>5, <2>6, <2>8 DEF PoolTypeOK
<1> QED
  BY <1>1, PoolTypeCorrect, PTL DEF PoolSpec, EvictsCheapestWhenFull

-----------------------------------------------------------------------------
(* The receive loop, the workers and Stop. *)

\* Nothing is queued before the receive loop runs, and when it runs every worker
\* was started: a worker that starts after Stop has returned finds no packet.
StartInv ==
  /\ rx.pc \in {"new", "spawn"} => packetQueue = <<>>
  /\ rx.pc \notin {"new", "spawn"} => \A w \in Workers : worker[w].pc # "new"

\* The channels are closed in order; after the wait the workers have no packet,
\* and those that have not left find none.
StopInv ==
  /\ stop \in {"none", "shutdown"} => ~ shutdown
  /\ stop = "wait" => queueClosed
  /\ stop = "returned" /\ shutdown =>
       /\ queueClosed
       /\ \A w \in Workers : /\ worker[w].packet = <<>>
                             /\ packetQueue # <<>> => worker[w].pc = "done"

\* The admissions s of a sender come in groups, each within a window of its first
\* one.  The last group begins at g; the entry e counts it until it is forgotten.
LastGroup(s, e, t, g) ==
  /\ Len(s) - g + 1 <= MaxTxPerAddressPerMinute
  /\ g > MaxTxPerAddressPerMinute => s[g - MaxTxPerAddressPerMinute] + RateLimitWindow < s[g]
  /\ \/ e = NoEntry /\ s[g] + RateLimitWindow < t
     \/ e = [count |-> Len(s) - g + 1, resetTime |-> s[g] + RateLimitWindow]

\* The admissions are in order, any two groups of them less one take longer than a
\* window, and the entry belongs to the last group.
RateInv(s, e, t) ==
  /\ \A i, j \in 1..Len(s) : i <= j => s[i] <= s[j]
  /\ \A i \in 1..Len(s) : s[i] <= t
  /\ \A i \in 1..Len(s) :
       i + 2 * MaxTxPerAddressPerMinute - 1 <= Len(s) =>
         s[i] + RateLimitWindow < s[i + 2 * MaxTxPerAddressPerMinute - 1]
  /\ \/ s = <<>> /\ e = NoEntry
     \/ \E g \in 1..Len(s) : LastGroup(s, e, t, g)

\* The entry of every sender belongs to its last group of admissions.
RatesInv == \A a \in Sender : RateInv(admitted[a], rateLimiter[a], now)

\* The inductive invariant.
IngestInv == TypeOK /\ PacketsAccounted /\ StartInv /\ StopInv /\ RatesInv

\* A goroutine holds a packet exactly in the steps that handle one (TypeOK).
RxOK(r) ==
  /\ r \in [pc : {"new", "spawn", "check", "read", "send", "done", "panic"}, packet : Held]
  /\ (r.packet # <<>>) <=> r.pc \in {"send", "panic"}

WorkersOK(ws) ==
  /\ ws \in [Workers -> [pc : WorkerPc, packet : Held]]
  /\ \A w \in Workers : (ws[w].packet # <<>>) <=> ws[w].pc \in {"verify", "limit", "add"}

\* What the checks of TypeOK rest on.
LEMMA IngestConstants ==
  /\ PacketQueueSize \in Nat /\ PacketQueueSize > 0
  /\ MaxTxPerAddressPerMinute \in Nat /\ MaxTxPerAddressPerMinute > 0
  /\ RateLimitWindow \in Nat /\ RateLimitWindow > 0
  BY IngestAssumption

\* The first state.
LEMMA TypeInit == Init => TypeOK
<1> SUFFICES ASSUME Init PROVE TypeOK
  OBVIOUS
<1>1. rx \in [pc : {"new", "spawn", "check", "read", "send", "done", "panic"}, packet : Held]
      /\ ((rx.packet # <<>>) <=> rx.pc \in {"send", "panic"})
  BY DEF Init, Held
<1>2. worker \in [Workers -> [pc : WorkerPc, packet : Held]]
  BY DEF Init, Held, WorkerPc
<1>3. \A w \in Workers : (worker[w].packet # <<>>) <=> worker[w].pc \in {"verify", "limit", "add"}
  BY DEF Init
<1>4. packetQueue \in Seq(Packet) /\ Len(packetQueue) <= PacketQueueSize
  BY IngestConstants DEF Init
<1>5. rateLimiter \in [Sender -> [count : 0..MaxTxPerAddressPerMinute, resetTime : Nat]]
  BY IngestConstants DEF Init, NoEntry
<1>6. count \in [{"received", "dropped", "processed", "invalid"} -> Nat]
  BY DEF Init
<1>7. now \in Nat /\ admitted \in [Sender -> Seq(Nat)]
  BY DEF Init
<1>8. {running, shutdown, connClosed, queueClosed} \subseteq BOOLEAN
      /\ cleaner = "new" /\ stop = "none"
  BY DEF Init
<1> QED
  BY <1>1, <1>2, <1>3, <1>4, <1>5, <1>6, <1>7, <1>8 DEF TypeOK

\* The steps of Start.
LEMMA StartType ==
  ASSUME TypeOK, Start \/ (\E w \in Workers : SpawnWorker(w)) \/ SpawnCleaner
  PROVE  TypeOK'
<1>1. UnchangedByStart
  BY DEF Start, SpawnWorker, SpawnCleaner
<1>2. RxOK(rx')
  BY DEF Start, SpawnWorker, SpawnCleaner, TypeOK, RxOK
<1>3. WorkersOK(worker')
  <2>1. CASE worker' = worker
    BY <2>1 DEF TypeOK, WorkersOK
  <2>2. ASSUME NEW w \in Workers, SpawnWorker(w) PROVE WorkersOK(worker')
    <3>1. worker[w].pc = "new" /\ worker' = [worker EXCEPT ![w].pc = "idle"]
      BY <2>2 DEF SpawnWorker
    <3>2. worker[w] \in [pc : WorkerPc, packet : Held] /\ worker[w].packet = <<>>
      BY <3>1 DEF TypeOK
    <3>3. [worker[w] EXCEPT !.pc = "idle"] = [pc |-> "idle", packet |-> <<>>]
      BY <3>2
    <3>4. worker' = [worker EXCEPT ![w] = [pc |-> "idle", packet |-> <<>>]]
      BY <3>1, <3>3
    <3> QED
      BY <3>4 DEF TypeOK, WorkersOK, WorkerPc, Held
  <2> QED
    BY <2>1, <2>2 DEF Start, SpawnCleaner
<1>4. cleaner' \in {"new", "idle", "done"} /\ running' \in BOOLEAN
  BY DEF Start, SpawnWorker, SpawnCleaner, TypeOK
<1> QED
  BY <1>1, <1>2, <1>3, <1>4 DEF TypeOK, RxOK, WorkersOK, UnchangedByStart

\* A metric goes up.
LEMMA CountedType ==
  ASSUME TypeOK, NEW metric \in {"received", "dropped", "processed", "invalid"}, Counted(metric)
  PROVE  count' \in [{"received", "dropped", "processed", "invalid"} -> Nat]
  BY DEF TypeOK, Counted

\* The steps of the receive loop.
LEMMA RxType ==
  ASSUME TypeOK, CheckShutdown \/ ReadFails \/ Enqueue \/ \E p \in Packet : ReadFromUDP(p)
  PROVE  TypeOK'
<1>1. UnchangedByRx
  BY DEF CheckShutdown, ReadFails, Enqueue, ReadFromUDP
<1>2. RxOK(rx')
  <2>1. CASE CheckShutdown \/ ReadFails
    BY <2>1 DEF CheckShutdown, ReadFails, TypeOK, RxOK
  <2>2. CASE Enqueue
    <3>1. rx' = [pc |-> "check", packet |-> <<>>] \/ rx' = [rx EXCEPT !.pc = "panic"]
      BY <2>2 DEF Enqueue
    <3>2. rx.packet # <<>>
      BY <2>2 DEF Enqueue, TypeOK
    <3> QED
      BY <3>1, <3>2 DEF TypeOK, Held, RxOK
  <2>3. ASSUME NEW p \in Packet, ReadFromUDP(p) PROVE RxOK(rx')
    BY <2>3 DEF ReadFromUDP, Held, RxOK
  <2> QED
    BY <2>1, <2>2, <2>3
<1>3. count' \in [{"received", "dropped", "processed", "invalid"} -> Nat]
  <2>1. count' = count \/ Counted("dropped") \/ Counted("received")
    BY DEF CheckShutdown, ReadFails, Enqueue, ReadFromUDP, Drop
  <2> QED
    BY <2>1, CountedType DEF TypeOK
<1>4. packetQueue' \in Seq(Packet) /\ Len(packetQueue') <= PacketQueueSize
  <2>1. CASE packetQueue' = packetQueue
    BY <2>1 DEF TypeOK
  <2>2. CASE Enqueue /\ ~ QueueFull /\ packetQueue' = packetQueue \o rx.packet
    <3>1. PICK p \in Packet : rx.packet = <<p>>
      BY <2>2 DEF Enqueue, TypeOK, Held
    <3>2. packetQueue' \in Seq(Packet) /\ Len(packetQueue') = Len(packetQueue) + 1
      BY <2>2, <3>1 DEF TypeOK
    <3> QED
      BY <2>2, <3>2, IngestConstants DEF TypeOK, QueueFull
  <2> QED
    BY <2>1, <2>2 DEF CheckShutdown, ReadFails, Enqueue, ReadFromUDP
<1> QED
  BY <1>1, <1>2, <1>3, <1>4 DEF TypeOK, RxOK, UnchangedByRx

\* A worker goes to another step, with a packet or without.
LEMMA MoveType ==
  ASSUME TypeOK, NEW w \in Workers, NEW pc \in WorkerPc, NEW packet \in Held,
         (packet # <<>>) <=> pc \in {"verify", "limit", "add"},
         MoveTo(w, pc, packet)
  PROVE  WorkersOK(worker')
  BY DEF TypeOK, WorkersOK, MoveTo

\* The packet a worker holds, and its sender.
LEMMA HeldPacket ==
  ASSUME TypeOK, NEW w \in Workers, worker[w].pc \in {"verify", "limit", "add"}
  PROVE  /\ worker[w].packet = <<worker[w].packet[1]>>
         /\ worker[w].packet[1] \in Packet
         /\ From[worker[w].packet[1]] \in Sender
  BY DEF TypeOK, Held, Sender

\* What the rate limit makes of an entry.
LEMMA RateLimitType ==
  ASSUME TypeOK, NEW entry \in [count : 0..MaxTxPerAddressPerMinute, resetTime : Nat]
  PROVE  /\ checkAndIncrementRateLimit(entry).ok \in BOOLEAN
         /\ checkAndIncrementRateLimit(entry).entry
              \in [count : 0..MaxTxPerAddressPerMinute, resetTime : Nat]
<1>1. NewEntry \in [count : 0..MaxTxPerAddressPerMinute, resetTime : Nat]
  BY IngestConstants DEF NewEntry, TypeOK
<1>2. ~ LimitReached(entry) =>
        [entry EXCEPT !.count = @ + 1] \in [count : 0..MaxTxPerAddressPerMinute, resetTime : Nat]
  BY IngestConstants DEF LimitReached
<1> QED
  BY <1>1, <1>2 DEF checkAndIncrementRateLimit

\* A worker's pass through the rate limit, step by step: it lets the packet pass
\* and notes the time, or drops it.
LEMMA RateLimitEffect ==
  ASSUME NEW w \in Workers, RateLimit(w),
         NEW p, p = worker[w].packet[1], NEW a, a = From[p],
         NEW r, r = checkAndIncrementRateLimit(rateLimiter[a])
  PROVE  /\ rateLimiter' = [rateLimiter EXCEPT ![a] = r.entry]
         /\ \/ /\ r.ok
               /\ MoveTo(w, "add", <<p>>)
               /\ admitted' = [admitted EXCEPT ![a] = Append(@, now)]
               /\ count' = count
            \/ /\ ~ r.ok
               /\ MoveTo(w, "idle", <<>>)
               /\ Counted("dropped")
               /\ admitted' = admitted
         /\ packetQueue' = packetQueue
  BY DEF RateLimit

\* The steps of a worker.
LEMMA WorkType == ASSUME TypeOK, NEW w \in Workers, Work(w) PROVE TypeOK'
<1> USE DEF WorkerPc, Held
<1>1. UnchangedByWorker
  BY DEF Work, Take, Leave, Verify, RateLimit, AddToMempool
<1>2. CASE Take(w)
  <2>1. Head(packetQueue) \in Packet /\ Tail(packetQueue) \in Seq(Packet)
        /\ Len(Tail(packetQueue)) = Len(packetQueue) - 1
    BY <1>2 DEF Take, TypeOK
  <2>2. WorkersOK(worker')
    BY <1>2, <2>1, MoveType DEF Take
  <2>3. packetQueue' \in Seq(Packet) /\ Len(packetQueue') <= PacketQueueSize
    BY <1>2, <2>1, IngestConstants DEF Take, TypeOK
  <2> QED
    BY <1>1, <1>2, <2>2, <2>3 DEF Take, TypeOK, WorkersOK, UnchangedByWorker
<1>3. CASE Leave(w)
  <2>1. WorkersOK(worker')
    BY <1>3, MoveType DEF Leave
  <2> QED
    BY <1>1, <1>3, <2>1 DEF Leave, TypeOK, WorkersOK, UnchangedByWorker
<1>4. CASE Verify(w)
  <2>1. worker[w].packet[1] \in Packet
    BY <1>4, HeldPacket DEF Verify
  <2>2. WorkersOK(worker')
    BY <1>4, <2>1, MoveType DEF Verify
  <2>3. count' \in [{"received", "dropped", "processed", "invalid"} -> Nat]
    BY <1>4, CountedType DEF Verify, TypeOK
  <2> QED
    BY <1>1, <1>4, <2>2, <2>3 DEF Verify, TypeOK, WorkersOK, UnchangedByWorker
<1>5. CASE RateLimit(w)
  <2>1. PICK p, a, r : p = worker[w].packet[1] /\ a = From[p]
                       /\ r = checkAndIncrementRateLimit(rateLimiter[a])
    OBVIOUS
  <2>2. p \in Packet /\ a \in Sender
    BY <1>5, <2>1, HeldPacket DEF RateLimit
  <2>3. r.entry \in [count : 0..MaxTxPerAddressPerMinute, resetTime : Nat]
    BY <2>1, <2>2, RateLimitType DEF TypeOK
  <2>4. WorkersOK(worker')
    <3>1. MoveTo(w, "add", <<p>>) \/ MoveTo(w, "idle", <<>>)
      BY <1>5, <2>1, RateLimitEffect
    <3> QED
      BY <2>2, <3>1, MoveType
  <2>5. count' \in [{"received", "dropped", "processed", "invalid"} -> Nat]
    BY <1>5, <2>1, RateLimitEffect, CountedType DEF TypeOK
  <2>6. rateLimiter' \in [Sender -> [count : 0..MaxTxPerAddressPerMinute, resetTime : Nat]]
    <3>1. rateLimiter' = [rateLimiter EXCEPT ![a] = r.entry]
      BY <1>5, <2>1 DEF RateLimit
    <3> QED
      BY <2>2, <2>3, <3>1 DEF TypeOK
  <2>7. admitted' \in [Sender -> Seq(Nat)]
    <3>1. admitted[a] \in Seq(Nat) /\ Append(admitted[a], now) \in Seq(Nat)
      BY <2>2 DEF TypeOK
    <3>2. admitted' = [admitted EXCEPT ![a] = Append(@, now)] \/ admitted' = admitted
      BY <1>5, <2>1, RateLimitEffect
    <3> QED
      BY <3>1, <3>2 DEF TypeOK
  <2>8. packetQueue' = packetQueue
    BY <1>5 DEF RateLimit
  <2> QED
    BY <1>1, <2>4, <2>5, <2>6, <2>7, <2>8 DEF TypeOK, WorkersOK, UnchangedByWorker
<1>6. CASE AddToMempool(w)
  <2>1. WorkersOK(worker')
    BY <1>6, MoveType DEF AddToMempool
  <2>2. count' \in [{"received", "dropped", "processed", "invalid"} -> Nat]
    BY <1>6, CountedType DEF AddToMempool
  <2> QED
    BY <1>1, <1>6, <2>1, <2>2 DEF AddToMempool, TypeOK, WorkersOK, UnchangedByWorker
<1> QED
  BY <1>2, <1>3, <1>4, <1>5, <1>6 DEF Work

\* The steps of the cleanup of the rate limits.
LEMMA CleanerType == ASSUME TypeOK, cleanupRateLimits \/ CleanerLeaves PROVE TypeOK'
<1>1. rateLimiter' \in [Sender -> [count : 0..MaxTxPerAddressPerMinute, resetTime : Nat]]
  <2>1. NoEntry \in [count : 0..MaxTxPerAddressPerMinute, resetTime : Nat]
    BY IngestConstants DEF NoEntry
  <2> QED
    BY <2>1 DEF cleanupRateLimits, CleanerLeaves, TypeOK
<1> QED
  BY <1>1 DEF cleanupRateLimits, CleanerLeaves, UnchangedByCleaner, TypeOK

\* The steps of Stop.
LEMMA StopType == ASSUME TypeOK, StopBegins \/ Stop PROVE TypeOK'
  BY DEF StopBegins, Stop, CloseShutdown, CloseConn, CloseQueue, Wait, UnchangedByStop, TypeOK

\* Every step keeps the type invariant.
LEMMA TypeNext == ASSUME TypeOK, [Next]_vars PROVE TypeOK'
<1>1. CASE Tick
  BY <1>1 DEF Tick, TypeOK
<1>2. CASE UNCHANGED vars
  BY <1>2 DEF vars, TypeOK
<1> QED
  BY <1>1, <1>2, StartType, RxType, WorkType, CleanerType, StopType DEF Next

-----------------------------------------------------------------------------
(* Every packet is in one place. *)

\* The numbers that PacketsAccounted adds up.
LEMMA AccountTypes ==
  ASSUME TypeOK
  PROVE  /\ count.received \in Nat /\ count.dropped \in Nat
         /\ count.processed \in Nat /\ count.invalid \in Nat
         /\ Len(packetQueue) \in Nat
         /\ IsFiniteSet(Busy) /\ Cardinality(Busy) \in Nat
         /\ Len(rx.packet) \in Nat
         /\ rx.packet = <<>> => Len(rx.packet) = 0
         /\ rx.packet # <<>> => Len(rx.packet) = 1
<1>1. IsFiniteSet(Busy) /\ Cardinality(Busy) \in Nat
  BY IngestAssumption, FS_Subset, FS_CardinalityType DEF Busy
<1>2. rx.packet = <<>> \/ \E p \in Packet : rx.packet = <<p>>
  BY DEF TypeOK, Held
<1>3. /\ rx.packet = <<>> => Len(rx.packet) = 0
      /\ rx.packet # <<>> => Len(rx.packet) = 1
  <2>1. ASSUME NEW p \in Packet, rx.packet = <<p>> PROVE Len(rx.packet) = 1
    BY <2>1
  <2>2. Len(<<>>) = 0
    OBVIOUS
  <2> QED
    BY <1>2, <2>1, <2>2
<1>4. /\ count.received \in Nat /\ count.dropped \in Nat
      /\ count.processed \in Nat /\ count.invalid \in Nat
  BY DEF TypeOK
<1>5. Len(packetQueue) \in Nat
  BY DEF TypeOK
<1> QED
  BY <1>1, <1>3, <1>4, <1>5

\* One metric goes up, the others stay.
LEMMA CountedEffect ==
  ASSUME TypeOK, NEW metric \in {"received", "dropped", "processed", "invalid"}, Counted(metric)
  PROVE  /\ count'.received = IF metric = "received" THEN count.received + 1 ELSE count.received
         /\ count'.dropped = IF metric = "dropped" THEN count.dropped + 1 ELSE count.dropped
         /\ count'.processed = IF metric = "processed" THEN count.processed + 1 ELSE count.processed
         /\ count'.invalid = IF metric = "invalid" THEN count.invalid + 1 ELSE count.invalid
  BY DEF TypeOK, Counted

\* A worker takes a packet, keeps one or is done with it.
LEMMA BusyMoves ==
  ASSUME TypeOK, NEW w \in Workers, NEW pc, NEW packet, MoveTo(w, pc, packet)
  PROVE  /\ packet # <<>> /\ worker[w].packet = <<>> => Cardinality(Busy') = Cardinality(Busy) + 1
         /\ packet = <<>> /\ worker[w].packet # <<>> => Cardinality(Busy') = Cardinality(Busy) - 1
         /\ (packet = <<>> <=> worker[w].packet = <<>>) => Busy' = Busy
<1>1. /\ worker'[w].packet = packet
      /\ \A v \in Workers \ {w} : worker'[v] = worker[v]
  BY DEF TypeOK, MoveTo
<1>2. packet # <<>> /\ worker[w].packet = <<>> => w \notin Busy /\ Busy' = Busy \cup {w}
  BY <1>1 DEF Busy
<1>3. packet = <<>> /\ worker[w].packet # <<>> => w \in Busy /\ Busy' = Busy \ {w}
  BY <1>1 DEF Busy
<1>4. (packet = <<>> <=> worker[w].packet = <<>>) => Busy' = Busy
  BY <1>1 DEF Busy
<1> QED
  BY <1>2, <1>3, <1>4, AccountTypes, FS_AddElement, FS_RemoveElement

\* The receive loop receives a packet, drops it or puts it into the queue.
LEMMA RxAccounts ==
  ASSUME TypeOK, PacketsAccounted,
         CheckShutdown \/ ReadFails \/ Enqueue \/ \E p \in Packet : ReadFromUDP(p)
  PROVE  PacketsAccounted'
<1> DEFINE busy == Cardinality(Busy)
<1>1. Busy' = Busy
  BY DEF CheckShutdown, ReadFails, Enqueue, ReadFromUDP, UnchangedByRx, Busy
<1>2. /\ count.received \in Nat /\ count.dropped \in Nat /\ count.processed \in Nat
      /\ count.invalid \in Nat /\ Len(packetQueue) \in Nat /\ busy \in Nat
  BY AccountTypes
<1> HIDE DEF busy
<1>3. CASE CheckShutdown \/ ReadFails
  <2>1. rx'.packet = rx.packet /\ packetQueue' = packetQueue /\ count' = count
    BY <1>3 DEF CheckShutdown, ReadFails, TypeOK
  <2> QED
    BY <1>1, <2>1 DEF PacketsAccounted
<1>4. CASE Enqueue
  <2>1. PICK p \in Packet : rx.packet = <<p>> /\ Len(rx.packet) = 1
    BY <1>4 DEF Enqueue, TypeOK, Held
  <2>2. CASE Drop /\ rx' = [pc |-> "check", packet |-> <<>>] /\ packetQueue' = packetQueue
    <3>1. /\ count'.dropped = count.dropped + 1 /\ count'.received = count.received
          /\ count'.processed = count.processed /\ count'.invalid = count.invalid
      BY <2>2, CountedEffect DEF Drop
    <3>2. Len(rx'.packet) = 0
      BY <2>2
    <3>3. Len(packetQueue') = Len(packetQueue) /\ Len(rx.packet) = 1
      BY <2>1, <2>2
    <3> QED
      BY <1>1, <1>2, <3>1, <3>2, <3>3 DEF PacketsAccounted, busy
  <2>3. CASE rx' = [rx EXCEPT !.pc = "panic"] /\ UNCHANGED <<packetQueue, count>>
    <3>1. rx'.packet = rx.packet
      BY <2>3 DEF TypeOK
    <3> QED
      BY <1>1, <2>3, <3>1 DEF PacketsAccounted
  <2>4. CASE /\ packetQueue' = packetQueue \o rx.packet
             /\ rx' = [pc |-> "check", packet |-> <<>>]
             /\ UNCHANGED count
    <3>1. Len(packetQueue') = Len(packetQueue) + 1
      BY <2>1, <2>4 DEF TypeOK
    <3>2. Len(rx'.packet) = 0
      BY <2>4
    <3>3. count' = count /\ Len(rx.packet) = 1
      BY <2>1, <2>4
    <3>4. count.received = count.dropped + count.processed + count.invalid + Len(packetQueue) + busy + 1
      BY <3>3 DEF PacketsAccounted, busy
    <3>5. count.received = count.dropped + count.processed + count.invalid + (Len(packetQueue) + 1) + busy + 0
      BY <1>2, <3>4
    <3> QED
      BY <1>1, <3>1, <3>2, <3>3, <3>5 DEF PacketsAccounted, busy
  <2> QED
    BY <1>4, <2>2, <2>3, <2>4 DEF Enqueue
<1>5. ASSUME NEW p \in Packet, ReadFromUDP(p) PROVE PacketsAccounted'
  <2>1. /\ count'.received = count.received + 1 /\ count'.dropped = count.dropped
        /\ count'.processed = count.processed /\ count'.invalid = count.invalid
    BY <1>5, CountedEffect DEF ReadFromUDP
  <2>2. Len(rx.packet) = 0 /\ Len(rx'.packet) = 1 /\ packetQueue' = packetQueue
    BY <1>5 DEF ReadFromUDP, TypeOK
  <2> QED
    BY <1>1, <1>2, <2>1, <2>2 DEF PacketsAccounted, busy
<1> QED
  BY <1>3, <1>4, <1>5

\* A worker takes a packet from the queue, or is done with one and counts it.
LEMMA WorkAccounts ==
  ASSUME TypeOK, PacketsAccounted, NEW w \in Workers, Work(w)
  PROVE  PacketsAccounted'
<1> DEFINE busy == Cardinality(Busy)
           held == Len(rx.packet)
           queued == Len(packetQueue)
<1>1. rx' = rx
  BY DEF Work, Take, Leave, Verify, RateLimit, AddToMempool, UnchangedByWorker
<1>2. /\ count.received \in Nat /\ count.dropped \in Nat /\ count.processed \in Nat
      /\ count.invalid \in Nat /\ queued \in Nat /\ busy \in Nat /\ held \in Nat
  BY AccountTypes
<1>3. count.received = count.dropped + count.processed + count.invalid + queued + busy + held
  BY DEF PacketsAccounted
<1> HIDE DEF busy, held, queued
<1>4. ASSUME NEW metric \in {"dropped", "processed", "invalid"}, Counted(metric),
             NEW pc, MoveTo(w, pc, <<>>), worker[w].packet # <<>>, packetQueue' = packetQueue
      PROVE  PacketsAccounted'
  <2>1. Cardinality(Busy') = busy - 1
    BY <1>4, BusyMoves DEF busy
  <2>2. /\ count'.received = count.received
        /\ \/ /\ count'.dropped = count.dropped + 1
              /\ count'.processed = count.processed /\ count'.invalid = count.invalid
           \/ /\ count'.processed = count.processed + 1
              /\ count'.dropped = count.dropped /\ count'.invalid = count.invalid
           \/ /\ count'.invalid = count.invalid + 1
              /\ count'.dropped = count.dropped /\ count'.processed = count.processed
    BY <1>4, CountedEffect
  <2>3. count'.received = count'.dropped + count'.processed + count'.invalid + queued + (busy - 1) + held
    BY <1>2, <1>3, <2>2
  <2> QED
    BY <1>1, <1>4, <2>1, <2>3 DEF PacketsAccounted, held, queued
<1>5. CASE Take(w)
  <2>1. worker[w].packet = <<>> /\ Len(packetQueue') = queued - 1
    <3>1. worker[w].packet = <<>>
      BY <1>5 DEF Take, TypeOK
    <3>2. packetQueue \in Seq(Packet) /\ packetQueue # <<>> /\ packetQueue' = Tail(packetQueue)
      BY <1>5 DEF Take, TypeOK
    <3>3. Len(Tail(packetQueue)) = Len(packetQueue) - 1
      BY <3>2
    <3> QED
      BY <3>1, <3>2, <3>3 DEF queued
  <2>2. <<Head(packetQueue)>> # <<>>
    OBVIOUS
  <2>3. Cardinality(Busy') = busy + 1 /\ count' = count
    BY <1>5, <2>1, <2>2, BusyMoves DEF Take, busy
  <2>4. count.received = count.dropped + count.processed + count.invalid + (queued - 1) + (busy + 1) + held
    BY <1>2, <1>3
  <2> QED
    BY <1>1, <2>1, <2>3, <2>4 DEF PacketsAccounted, held
<1>6. CASE Leave(w)
  <2>1. worker[w].packet = <<>> /\ count' = count /\ packetQueue' = packetQueue
    BY <1>6 DEF Leave, TypeOK
  <2>2. Busy' = Busy
    BY <1>6, <2>1, BusyMoves DEF Leave
  <2> QED
    BY <1>1, <2>1, <2>2 DEF PacketsAccounted
<1>7. ASSUME NEW pc, NEW p, MoveTo(w, pc, <<p>>), worker[w].packet # <<>>,
             count' = count, packetQueue' = packetQueue
      PROVE  PacketsAccounted'
  <2>1. <<p>> # <<>>
    OBVIOUS
  <2>2. Busy' = Busy
    BY <1>7, <2>1, BusyMoves
  <2> QED
    BY <1>1, <1>7, <2>2 DEF PacketsAccounted
<1>8. CASE Verify(w)
  <2>1. worker[w].packet # <<>> /\ packetQueue' = packetQueue
    BY <1>8 DEF Verify, TypeOK
  <2>2. \/ MoveTo(w, "idle", <<>>) /\ Counted("invalid")
        \/ MoveTo(w, "limit", <<worker[w].packet[1]>>) /\ count' = count
    BY <1>8 DEF Verify
  <2> QED
    BY <1>4, <1>7, <2>1, <2>2
<1>9. CASE RateLimit(w)
  <2>1. worker[w].packet # <<>> /\ packetQueue' = packetQueue
    BY <1>9 DEF RateLimit, TypeOK
  <2>2. \/ MoveTo(w, "idle", <<>>) /\ Counted("dropped")
        \/ MoveTo(w, "add", <<worker[w].packet[1]>>) /\ count' = count
    BY <1>9, RateLimitEffect
  <2> QED
    BY <1>4, <1>7, <2>1, <2>2
<1>10. CASE AddToMempool(w)
  <2>1. worker[w].packet # <<>> /\ packetQueue' = packetQueue
    BY <1>10 DEF AddToMempool, TypeOK
  <2>2. MoveTo(w, "idle", <<>>) /\ (Counted("processed") \/ Counted("dropped"))
    BY <1>10 DEF AddToMempool
  <2> QED
    BY <1>4, <2>1, <2>2
<1> QED
  BY <1>5, <1>6, <1>8, <1>9, <1>10 DEF Work

\* Every packet received is in one of the metrics, in the queue or in the hands
\* of a goroutine, after every step.
LEMMA AccountsNext == ASSUME TypeOK, PacketsAccounted, [Next]_vars PROVE PacketsAccounted'
<1>1. ASSUME Busy' = Busy, rx'.packet = rx.packet, UNCHANGED <<count, packetQueue>>
      PROVE  PacketsAccounted'
  BY <1>1 DEF PacketsAccounted
<1>2. CASE Start \/ SpawnCleaner
  <2>1. worker' = worker /\ rx'.packet = rx.packet /\ UNCHANGED <<count, packetQueue>>
    BY <1>2 DEF Start, SpawnCleaner, UnchangedByStart, TypeOK
  <2> QED
    BY <1>1, <2>1 DEF Busy
<1>3. ASSUME NEW w \in Workers, SpawnWorker(w) PROVE PacketsAccounted'
  <2>1. rx' = rx /\ worker' = [worker EXCEPT ![w].pc = "idle"] /\ UNCHANGED <<count, packetQueue>>
    BY <1>3 DEF SpawnWorker, UnchangedByStart
  <2>2. \A v \in Workers : worker'[v].packet = worker[v].packet
    BY <2>1 DEF TypeOK
  <2> QED
    BY <1>1, <2>1, <2>2 DEF Busy
<1>4. CASE cleanupRateLimits \/ CleanerLeaves
  BY <1>1, <1>4 DEF cleanupRateLimits, CleanerLeaves, UnchangedByCleaner, Busy
<1>5. CASE StopBegins \/ Stop
  BY <1>1, <1>5 DEF StopBegins, Stop, CloseShutdown, CloseConn, CloseQueue, Wait, UnchangedByStop, Busy
<1>6. CASE Tick \/ UNCHANGED vars
  BY <1>1, <1>6 DEF Tick, vars, Busy
<1> QED
  BY <1>2, <1>3, <1>4, <1>5, <1>6, RxAccounts, WorkAccounts DEF Next

-----------------------------------------------------------------------------
(* Start and Stop. *)

\* Before the receive loop runs nothing is queued, and it runs only when every
\* worker was started.
LEMMA StartNext == ASSUME TypeOK, StartInv, [Next]_vars PROVE StartInv'
<1>1. CASE Start
  BY <1>1 DEF Start, UnchangedByStart, StartInv, TypeOK
<1>2. ASSUME NEW w \in Workers, SpawnWorker(w) PROVE StartInv'
  BY <1>2 DEF SpawnWorker, UnchangedByStart, StartInv, TypeOK
<1>3. CASE SpawnCleaner
  BY <1>3 DEF SpawnCleaner, UnchangedByStart, StartInv, TypeOK
<1>4. CASE CheckShutdown \/ ReadFails \/ Enqueue \/ \E p \in Packet : ReadFromUDP(p)
  <2>1. rx.pc \notin {"new", "spawn"} /\ rx'.pc \notin {"new", "spawn"} /\ worker' = worker
    BY <1>4 DEF CheckShutdown, ReadFails, Enqueue, ReadFromUDP, UnchangedByRx, TypeOK
  <2> QED
    BY <2>1 DEF StartInv
<1>5. ASSUME NEW w \in Workers, Work(w) PROVE StartInv'
  <2>1. rx' = rx /\ (packetQueue' = packetQueue \/ packetQueue # <<>>)
    BY <1>5 DEF Work, Take, Leave, Verify, RateLimit, AddToMempool, UnchangedByWorker
  <2>2. \A v \in Workers : worker'[v].pc = "new" => worker[v].pc = "new"
    <3>1. PICK pc, packet : pc # "new" /\ MoveTo(w, pc, packet)
      BY <1>5, RateLimitEffect DEF Work, Take, Leave, Verify, AddToMempool
    <3> QED
      BY <3>1 DEF MoveTo, TypeOK
  <2> QED
    BY <2>1, <2>2 DEF StartInv
<1>6. CASE UNCHANGED <<rx, worker, packetQueue>>
  BY <1>6 DEF StartInv
<1> QED
  BY <1>1, <1>2, <1>3, <1>4, <1>5, <1>6
  DEF Next, cleanupRateLimits, CleanerLeaves, UnchangedByCleaner, StopBegins, Stop, CloseShutdown,
      CloseConn, CloseQueue, Wait, UnchangedByStop, Tick, vars

\* The workers have no packet after Stop, and what is left in the queue stays
\* there.
LEMMA StopNext == ASSUME TypeOK, StartInv, StopInv, [Next]_vars PROVE StopInv'
<1>1. CASE Start \/ SpawnCleaner
  BY <1>1 DEF Start, SpawnCleaner, UnchangedByStart, StopInv
<1>2. ASSUME NEW w \in Workers, SpawnWorker(w) PROVE StopInv'
  <2>1. packetQueue = <<>> /\ worker' = [worker EXCEPT ![w].pc = "idle"] /\ UnchangedByStart
    BY <1>2 DEF SpawnWorker, StartInv
  <2>2. \A v \in Workers : worker'[v].packet = worker[v].packet
    BY <2>1 DEF TypeOK
  <2> QED
    BY <2>1, <2>2 DEF UnchangedByStart, StopInv
<1>3. CASE CheckShutdown \/ ReadFails \/ Enqueue \/ \E p \in Packet : ReadFromUDP(p)
  <2>1. UnchangedByRx /\ (packetQueue' = packetQueue \/ ~ queueClosed)
    BY <1>3 DEF CheckShutdown, ReadFails, Enqueue, ReadFromUDP
  <2> QED
    BY <2>1 DEF UnchangedByRx, StopInv
<1>4. ASSUME NEW w \in Workers, Work(w) PROVE StopInv'
  <2>1. UNCHANGED <<stop, shutdown, queueClosed>>
    BY <1>4 DEF Work, Take, Leave, Verify, RateLimit, AddToMempool, UnchangedByWorker
  <2>2. CASE stop = "returned" /\ shutdown
    <3>1. worker[w].pc = "idle" /\ packetQueue = <<>>
      BY <1>4, <2>2 DEF Work, Take, Leave, Verify, RateLimit, AddToMempool, StopInv, TypeOK
    <3>2. Leave(w)
      BY <1>4, <3>1 DEF Work, Take, Verify, RateLimit, AddToMempool
    <3>3. MoveTo(w, "done", <<>>) /\ packetQueue' = packetQueue
      BY <3>2 DEF Leave
    <3>4. \A v \in Workers : worker'[v].packet = <<>>
      BY <2>2, <3>3 DEF MoveTo, TypeOK, StopInv
    <3> QED
      BY <2>1, <2>2, <3>1, <3>3, <3>4 DEF StopInv
  <2> QED
    BY <2>1, <2>2 DEF StopInv
<1>5. CASE StopBegins
  BY <1>5 DEF StopBegins, UnchangedByStop, StopInv, TypeOK
<1>6. CASE CloseShutdown \/ CloseConn \/ CloseQueue
  BY <1>6 DEF CloseShutdown, CloseConn, CloseQueue, UnchangedByStop, StopInv, TypeOK
<1>7. CASE Wait
  <2>1. /\ stop = "wait" /\ stop' = "returned" /\ queueClosed' /\ UnchangedByStop
        /\ \A w \in Workers : worker[w].pc \in {"new", "done"}
    BY <1>7 DEF Wait, Joined, StopInv
  <2>2. \A w \in Workers : worker[w].packet = <<>>
    BY <2>1 DEF TypeOK
  <2>3. packetQueue # <<>> => \A w \in Workers : worker[w].pc = "done"
    BY <2>1 DEF StartInv
  <2> QED
    BY <2>1, <2>2, <2>3 DEF UnchangedByStop, StopInv
<1>8. CASE UNCHANGED <<stop, shutdown, queueClosed, worker, packetQueue>>
  BY <1>8 DEF StopInv
<1> QED
  BY <1>1, <1>2, <1>3, <1>4, <1>5, <1>6, <1>7, <1>8
  DEF Next, cleanupRateLimits, CleanerLeaves, UnchangedByCleaner, Stop, Tick, vars

-----------------------------------------------------------------------------
(* The rate limit. *)

\* Time passes.
LEMMA RateLater ==
  ASSUME NEW s \in Seq(Nat), NEW e, NEW t \in Nat, NEW u \in Nat, t <= u, RateInv(s, e, t)
  PROVE  RateInv(s, e, u)
<1>1. \A i \in 1..Len(s) : s[i] \in Nat
  OBVIOUS
<1>2. \A i \in 1..Len(s) : s[i] <= u
  BY <1>1 DEF RateInv
<1>3. \A g \in 1..Len(s) : LastGroup(s, e, t, g) => LastGroup(s, e, u, g)
  BY <1>1, IngestConstants DEF LastGroup
<1> QED
  BY <1>2, <1>3 DEF RateInv

\* The cleanup forgets an entry whose window has passed.
LEMMA RateForgets ==
  ASSUME NEW s \in Seq(Nat), NEW e, NEW t \in Nat, RateInv(s, e, t), t > e.resetTime
  PROVE  RateInv(s, NoEntry, t)
<1>1. ASSUME NEW g \in 1..Len(s), LastGroup(s, e, t, g) PROVE LastGroup(s, NoEntry, t, g)
  <2>1. s[g] \in Nat
    OBVIOUS
  <2>2. CASE e = NoEntry
    BY <1>1, <2>2
  <2>3. CASE e = [count |-> Len(s) - g + 1, resetTime |-> s[g] + RateLimitWindow]
    <3>1. e.resetTime = s[g] + RateLimitWindow
      BY <2>3
    <3>2. s[g] + RateLimitWindow < t
      BY <2>1, <3>1, IngestConstants
    <3> QED
      BY <1>1, <3>2 DEF LastGroup
  <2> QED
    BY <1>1, <2>2, <2>3 DEF LastGroup
<1> QED
  BY <1>1 DEF RateInv

\* An admission in a new window: the last group began more than a window ago.
LEMMA RateStarts ==
  ASSUME NEW s \in Seq(Nat), NEW e, NEW t \in Nat, RateInv(s, e, t),
         e = NoEntry \/ t > e.resetTime
  PROVE  RateInv(Append(s, t), [count |-> 1, resetTime |-> t + RateLimitWindow], t)
<1> DEFINE n == Len(s)
           r == Append(s, t)
           new == [count |-> 1, resetTime |-> t + RateLimitWindow]
           Max == MaxTxPerAddressPerMinute
<1>1. n \in Nat /\ Max \in Nat /\ Max > 0 /\ RateLimitWindow \in Nat
  BY IngestConstants
<1>2. Len(r) = n + 1 /\ r[n + 1] = t /\ \A i \in 1..n : r[i] = s[i] /\ s[i] \in Nat
  OBVIOUS
<1>3. RateInv(s, NoEntry, t)
  BY RateForgets
<1>4. /\ \A i, j \in 1..n : i <= j => s[i] <= s[j]
      /\ \A i \in 1..n : s[i] <= t
      /\ \A i \in 1..n : i + 2 * Max - 1 <= n => s[i] + RateLimitWindow < s[i + 2 * Max - 1]
  BY DEF RateInv
<1>5. \A i \in 1..n : i <= n + 1 - Max => s[i] + RateLimitWindow < t
  <2> SUFFICES ASSUME NEW i \in 1..n, i <= n + 1 - Max PROVE s[i] + RateLimitWindow < t
    OBVIOUS
  <2>1. PICK g \in 1..n : LastGroup(s, NoEntry, t, g)
    BY <1>3 DEF RateInv
  <2>2. n - g + 1 <= Max
    BY <2>1 DEF LastGroup
  <2>3. s[g] + RateLimitWindow < t
    <3>1. NoEntry # [count |-> n - g + 1, resetTime |-> s[g] + RateLimitWindow]
      <4>1. n - g + 1 # 0
        BY <1>1
      <4> QED
        BY <4>1 DEF NoEntry
    <3> QED
      BY <2>1, <3>1 DEF LastGroup
  <2>4. i <= g
    BY <1>1, <2>2
  <2>5. s[i] <= s[g] /\ s[i] \in Nat /\ s[g] \in Nat
    BY <1>4, <2>4
  <2> QED
    BY <1>1, <2>3, <2>5
<1> HIDE DEF n, r, new, Max
<1>6. \A i, j \in 1..Len(r) : i <= j => r[i] <= r[j]
  BY <1>1, <1>2, <1>4
<1>7. \A i \in 1..Len(r) : r[i] <= t
  BY <1>1, <1>2, <1>4
<1>8. \A i \in 1..Len(r) : i + 2 * Max - 1 <= Len(r) => r[i] + RateLimitWindow < r[i + 2 * Max - 1]
  <2> SUFFICES ASSUME NEW i \in 1..Len(r), i + 2 * Max - 1 <= Len(r)
               PROVE  r[i] + RateLimitWindow < r[i + 2 * Max - 1]
    OBVIOUS
  <2>1. i \in 1..n
    BY <1>1, <1>2
  <2>2. CASE i + 2 * Max - 1 <= n
    BY <1>1, <1>2, <1>4, <2>1, <2>2
  <2>3. CASE i + 2 * Max - 1 = n + 1
    <3>1. i <= n + 1 - Max
      BY <1>1, <2>1, <2>3
    <3>2. s[i] + RateLimitWindow < t
      BY <1>5, <2>1, <3>1
    <3> QED
      BY <1>2, <2>1, <2>3, <3>2
  <2> QED
    BY <1>1, <1>2, <2>1, <2>2, <2>3
<1>9. LastGroup(r, new, t, n + 1)
  <2>1. n + 1 > Max => r[n + 1 - Max] + RateLimitWindow < r[n + 1]
    BY <1>1, <1>2, <1>5
  <2>2. new = [count |-> Len(r) - (n + 1) + 1, resetTime |-> r[n + 1] + RateLimitWindow]
    BY <1>1, <1>2 DEF new
  <2> QED
    BY <1>1, <1>2, <2>1, <2>2 DEF LastGroup, Max
<1> QED
  BY <1>1, <1>2, <1>6, <1>7, <1>8, <1>9 DEF RateInv, Max, r, new

\* Another admission in the same window: the group before began more than a
\* window before this one.
LEMMA RateGrows ==
  ASSUME NEW s \in Seq(Nat), NEW e, NEW t \in Nat, RateInv(s, e, t),
         e # NoEntry, ~ LimitReached(e)
  PROVE  RateInv(Append(s, t), [e EXCEPT !.count = @ + 1], t)
<1> DEFINE n == Len(s)
           r == Append(s, t)
           new == [e EXCEPT !.count = @ + 1]
           Max == MaxTxPerAddressPerMinute
<1>1. n \in Nat /\ Max \in Nat /\ Max > 0 /\ RateLimitWindow \in Nat
  BY IngestConstants
<1>2. Len(r) = n + 1 /\ r[n + 1] = t /\ \A i \in 1..n : r[i] = s[i] /\ s[i] \in Nat
  OBVIOUS
<1>3. /\ \A i, j \in 1..n : i <= j => s[i] <= s[j]
      /\ \A i \in 1..n : s[i] <= t
      /\ \A i \in 1..n : i + 2 * Max - 1 <= n => s[i] + RateLimitWindow < s[i + 2 * Max - 1]
  BY DEF RateInv
<1>4. PICK g \in 1..n : LastGroup(s, e, t, g)
  BY DEF RateInv
<1>5. e = [count |-> n - g + 1, resetTime |-> s[g] + RateLimitWindow]
  BY <1>4 DEF LastGroup
<1>6. n - g + 1 < Max
  <2>1. e.count = n - g + 1
    BY <1>5
  <2> QED
    BY <1>1, <2>1 DEF LimitReached
<1>7. g > Max => s[g - Max] + RateLimitWindow < s[g]
  BY <1>4 DEF LastGroup
<1>8. new = [count |-> n - g + 1 + 1, resetTime |-> s[g] + RateLimitWindow]
  BY <1>5
<1> HIDE DEF n, r, new, Max
<1>9. \A i, j \in 1..Len(r) : i <= j => r[i] <= r[j]
  BY <1>1, <1>2, <1>3
<1>10. \A i \in 1..Len(r) : r[i] <= t
  BY <1>1, <1>2, <1>3
<1>11. \A i \in 1..Len(r) : i + 2 * Max - 1 <= Len(r) => r[i] + RateLimitWindow < r[i + 2 * Max - 1]
  <2> SUFFICES ASSUME NEW i \in 1..Len(r), i + 2 * Max - 1 <= Len(r)
               PROVE  r[i] + RateLimitWindow < r[i + 2 * Max - 1]
    OBVIOUS
  <2>1. i \in 1..n
    BY <1>1, <1>2
  <2>2. CASE i + 2 * Max - 1 <= n
    BY <1>1, <1>2, <1>3, <2>1, <2>2
  <2>3. CASE i + 2 * Max - 1 = n + 1
    <3>1. g - Max \in 1..n /\ i <= g - Max /\ g > Max
      BY <1>1, <1>6, <2>1, <2>3
    <3>2. s[i] <= s[g - Max] /\ s[g - Max] + RateLimitWindow < s[g] /\ s[g] <= t
      BY <1>3, <1>7, <2>1, <3>1
    <3>3. s[i] \in Nat /\ s[g - Max] \in Nat /\ s[g] \in Nat
      BY <1>2, <2>1, <3>1
    <3>4. \A x, y, z \in Nat :
            x <= y /\ y + RateLimitWindow < z /\ z <= t => x + RateLimitWindow < t
      BY <1>1
    <3>5. s[i] + RateLimitWindow < t
      BY <3>2, <3>3, <3>4
    <3> QED
      BY <1>2, <2>1, <2>3, <3>5
  <2> QED
    BY <1>1, <1>2, <2>1, <2>2, <2>3
<1>12. LastGroup(r, new, t, g)
  <2>1. Len(r) - g + 1 <= Max
    BY <1>1, <1>2, <1>6
  <2>2. g > Max => r[g - Max] + RateLimitWindow < r[g]
    BY <1>1, <1>2, <1>7
  <2>3. Len(r) - g + 1 = n - g + 1 + 1
    BY <1>1, <1>2
  <2>4. new = [count |-> Len(r) - g + 1, resetTime |-> r[g] + RateLimitWindow]
    BY <1>2, <1>8, <2>3
  <2> QED
    BY <2>1, <2>2, <2>4 DEF LastGroup, Max
<1>13. g \in 1..Len(r)
  BY <1>1, <1>2
<1> QED
  BY <1>9, <1>10, <1>11, <1>12, <1>13 DEF RateInv, Max, r, new

\* A request to the rate limit.
LEMMA RateChecked ==
  ASSUME NEW s \in Seq(Nat), NEW e, now \in Nat, RateInv(s, e, now)
  PROVE  LET r == checkAndIncrementRateLimit(e)
         IN  RateInv(IF r.ok THEN Append(s, now) ELSE s, r.entry, now)
<1>1. CASE e = NoEntry \/ now > e.resetTime
  BY <1>1, RateStarts DEF checkAndIncrementRateLimit, NewEntry
<1>2. CASE ~ (e = NoEntry \/ now > e.resetTime) /\ LimitReached(e)
  BY <1>2 DEF checkAndIncrementRateLimit
<1>3. CASE ~ (e = NoEntry \/ now > e.resetTime) /\ ~ LimitReached(e)
  BY <1>3, RateGrows DEF checkAndIncrementRateLimit
<1> QED
  BY <1>1, <1>2, <1>3

\* Every step keeps the entries in line with the admissions.
LEMMA RatesNext == ASSUME TypeOK, RatesInv, [Next]_vars PROVE RatesInv'
<1>1. CASE UNCHANGED <<admitted, rateLimiter, now>>
  BY <1>1 DEF RatesInv
<1>2. CASE Tick
  <2>1. admitted' = admitted /\ rateLimiter' = rateLimiter /\ now' = now + 1
    BY <1>2 DEF Tick
  <2>2. now \in Nat /\ now' \in Nat /\ now <= now' /\ \A a \in Sender : admitted[a] \in Seq(Nat)
    BY <2>1 DEF TypeOK
  <2> QED
    BY <2>1, <2>2, RateLater DEF RatesInv
<1>3. CASE cleanupRateLimits
  <2>1. admitted' = admitted /\ now' = now
    BY <1>3 DEF cleanupRateLimits, UnchangedByCleaner
  <2>2. \A a \in Sender : rateLimiter'[a] = IF now > rateLimiter[a].resetTime THEN NoEntry ELSE rateLimiter[a]
    BY <1>3 DEF cleanupRateLimits
  <2>3. now \in Nat /\ \A a \in Sender : admitted[a] \in Seq(Nat)
    BY DEF TypeOK
  <2> QED
    BY <2>1, <2>2, <2>3, RateForgets DEF RatesInv
<1>4. ASSUME NEW w \in Workers, RateLimit(w) PROVE RatesInv'
  <2>1. PICK p, a, r : p = worker[w].packet[1] /\ a = From[p]
                       /\ r = checkAndIncrementRateLimit(rateLimiter[a])
    OBVIOUS
  <2>2. a \in Sender /\ now \in Nat /\ admitted[a] \in Seq(Nat)
    BY <1>4, <2>1, HeldPacket DEF RateLimit, TypeOK
  <2>3. RateInv(IF r.ok THEN Append(admitted[a], now) ELSE admitted[a], r.entry, now)
    BY <2>1, <2>2, RateChecked DEF RatesInv
  <2>4. now' = now /\ rateLimiter' = [rateLimiter EXCEPT ![a] = r.entry]
    BY <1>4, <2>1 DEF RateLimit, UnchangedByWorker
  <2>5. admitted' = [admitted EXCEPT ![a] = IF r.ok THEN Append(admitted[a], now) ELSE admitted[a]]
    <3>1. \/ r.ok /\ admitted' = [admitted EXCEPT ![a] = Append(@, now)]
          \/ ~ r.ok /\ admitted' = admitted
      BY <1>4, <2>1 DEF RateLimit
    <3> QED
      BY <2>2, <3>1 DEF TypeOK
  <2> QED
    BY <2>2, <2>3, <2>4, <2>5 DEF RatesInv, TypeOK
<1> QED
  BY <1>1, <1>2, <1>3, <1>4
  DEF Next, Start, SpawnWorker, SpawnCleaner, UnchangedByStart, CheckShutdown, ReadFails, Enqueue,
      ReadFromUDP, UnchangedByRx, Work, Take, Leave, Verify, AddToMempool, UnchangedByWorker,
      CleanerLeaves, UnchangedByCleaner, StopBegins, Stop, CloseShutdown, CloseConn, CloseQueue,
      Wait, UnchangedByStop, vars

\* A set of numbers has a least one.
LEMMA LeastIndex ==
  ASSUME NEW T \in SUBSET Nat, T # {}
  PROVE  \E n \in T : \A m \in T : n <= m
<1>1. IsWellFoundedOn({ss \in Nat \X Nat : ss[1] < ss[2]}, Nat)
  BY NatLessThanWellFounded DEF OpToRel
<1>2. PICK n \in T : \A m \in T : ~ (<<m, n>> \in {ss \in Nat \X Nat : ss[1] < ss[2]})
  BY <1>1, WFMin
<1>3. \A m \in T : m \in Nat /\ n \in Nat /\ ~ (m < n)
  BY <1>2
<1> QED
  BY <1>3

\* Fewer than two windows of admissions fit between a time and the end of the
\* window that begins there: those from the first one on are consecutive, and a
\* whole two windows of consecutive ones take longer.
LEMMA WindowBound ==
  ASSUME NEW s \in Seq(Nat), NEW e, NEW u \in Nat, NEW t \in Nat, RateInv(s, e, u)
  PROVE  Cardinality({i \in DOMAIN s : t <= s[i] /\ s[i] <= t + RateLimitWindow})
           <= 2 * MaxTxPerAddressPerMinute - 1
<1> DEFINE n == Len(s)
           Max == MaxTxPerAddressPerMinute
           In == {i \in DOMAIN s : t <= s[i] /\ s[i] <= t + RateLimitWindow}
<1>1. n \in Nat /\ Max \in Nat /\ Max > 0 /\ RateLimitWindow \in Nat /\ DOMAIN s = 1..n
  BY IngestConstants
<1>2. CASE In = {}
  <2>1. Cardinality(In) = 0
    BY <1>2, FS_EmptySet
  <2> QED
    BY <1>1, <2>1
<1>3. CASE In # {}
  <2>1. PICK i \in In : \A j \in In : i <= j
    <3>1. In \subseteq Nat
      BY <1>1
    <3> HIDE DEF In
    <3> QED
      BY <1>3, <3>1, LeastIndex
  <2>2. In \subseteq i..(i + 2 * Max - 2)
    <3> SUFFICES ASSUME NEW j \in In, j > i + 2 * Max - 2 PROVE FALSE
      BY <1>1, <2>1
    <3> DEFINE k == i + 2 * Max - 1
    <3>1. i \in 1..n /\ j \in 1..n /\ k \in 1..n /\ k <= j
      BY <1>1
    <3>2. s[i] + RateLimitWindow < s[k] /\ s[k] <= s[j]
      <4>1. i + 2 * MaxTxPerAddressPerMinute - 1 <= Len(s)
        BY <3>1
      <4> QED
        BY <3>1, <4>1 DEF RateInv
    <3>3. t <= s[i] /\ s[j] <= t + RateLimitWindow
      OBVIOUS
    <3>4. s[i] \in Nat /\ s[j] \in Nat /\ s[k] \in Nat
      BY <3>1
    <3> HIDE DEF k, In
    <3> QED
      BY <1>1, <3>2, <3>3, <3>4
  <2>3. i \in Nat
    BY <1>1
  <2> HIDE DEF In, Max
  <2>4. /\ IsFiniteSet(i..(i + 2 * Max - 2))
        /\ Cardinality(i..(i + 2 * Max - 2)) = 2 * Max - 1
    <3>1. i \in Int /\ i + 2 * Max - 2 \in Int /\ i + 2 * Max - 2 >= i
          /\ (i + 2 * Max - 2) - i + 1 = 2 * Max - 1
      BY <1>1, <2>3
    <3> QED
      BY <3>1, FS_Interval
  <2>5. Cardinality(In) <= Cardinality(i..(i + 2 * Max - 2))
    BY <2>2, <2>4, FS_Subset
  <2> QED
    BY <2>4, <2>5 DEF In, Max
<1> QED
  BY <1>2, <1>3

-----------------------------------------------------------------------------
(* The theorems. *)

\* The inductive invariant holds.
LEMMA IngestInvariant == Spec => []IngestInv
<1>1. Init => IngestInv
  <2> SUFFICES ASSUME Init PROVE IngestInv
    OBVIOUS
  <2>1. PacketsAccounted
    <3>1. Busy = {}
      BY DEF Init, Busy
    <3>2. Cardinality(Busy) = 0
      BY <3>1, FS_EmptySet
    <3>3. /\ count.received = 0 /\ count.dropped = 0 /\ count.processed = 0 /\ count.invalid = 0
          /\ Len(packetQueue) = 0 /\ Len(rx.packet) = 0
      BY DEF Init
    <3> QED
      BY <3>2, <3>3 DEF PacketsAccounted
  <2>2. StartInv /\ StopInv
    BY DEF Init, StartInv, StopInv
  <2>3. RatesInv
    BY DEF Init, RatesInv, RateInv
  <2> QED
    BY <2>1, <2>2, <2>3, TypeInit DEF IngestInv
<1>2. IngestInv /\ [Next]_vars => IngestInv'
  BY TypeNext, AccountsNext, StartNext, StopNext, RatesNext DEF IngestInv
<1> QED
  BY <1>1, <1>2, PTL DEF Spec

\* A goroutine holds a packet exactly in the steps that handle one, and neither
\* the queue nor an entry of the rate limiter exceeds its limit.
THEOREM IngestTypeCorrect == Spec => []TypeOK
<1>1. IngestInv => TypeOK
  BY DEF IngestInv
<1> QED
  BY <1>1, IngestInvariant, PTL

\* Every packet that ReadFromUDP received is counted in one metric, queued, or in
\* the hands of one goroutine, for any number of workers and any queue.
THEOREM EveryPacketAccounted == Spec => []PacketsAccounted
<1>1. IngestInv => PacketsAccounted
  BY DEF IngestInv
<1> QED
  BY <1>1, IngestInvariant, PTL

\* When a Stop that stopped the server has returned, no worker holds a packet or
\* will take one, also when it overtook a Start that was still spawning them.
THEOREM WorkersRestAfterStop == Spec => []NoWorkAfterStop
<1>1. IngestInv => NoWorkAfterStop
  BY DEF IngestInv, StopInv, NoWorkAfterStop, Busy
<1> QED
  BY <1>1, IngestInvariant, PTL

\* In any minute a sender gets less than twice its limit, whatever the cleanup
\* forgets in between (checkAndIncrementRateLimit, cleanupRateLimits).
THEOREM BurstsAreBounded == Spec => []BurstBound
<1>1. IngestInv => BurstBound
  <2> SUFFICES ASSUME IngestInv, NEW a \in Sender, NEW t \in 0..now
               PROVE  Cardinality(InWindow(a, t)) <= 2 * MaxTxPerAddressPerMinute - 1
    BY DEF BurstBound
  <2>1. admitted[a] \in Seq(Nat) /\ now \in Nat /\ t \in Nat
        /\ RateInv(admitted[a], rateLimiter[a], now)
    BY DEF IngestInv, TypeOK, RatesInv
  <2> QED
    BY <2>1, WindowBound DEF InWindow
<1> QED
  BY <1>1, IngestInvariant, PTL

-----------------------------------------------------------------------------
(* Dag: type correctness. *)

\* The recent list after a vertex was added is bounded, and in between the two
\* writes it is longer by at most one.
LEMMA RecentAfterType ==
  ASSUME NEW h \in Hash, Recent \in RecentList
  PROVE  /\ RecentAfter(h) \in RecentList /\ Len(RecentAfter(h)) <= MaxRecent
         /\ Len(Recent) <= MaxRecent => RecentLonger(h) \in RecentList
<1> DEFINE T == Hash \cup {NoHash}
           longer == RecentLonger(h)
<1>1. Recent \in Seq(T) /\ Len(Recent) \in Nat /\ Len(Recent) <= MaxRecent + 1
  BY DEF RecentList
<1>2. longer \in Seq(T) /\ Len(longer) = Len(Recent) + 1
  BY <1>1 DEF RecentLonger
<1>3. MaxRecent \in Nat /\ MaxRecent >= 1
  BY DagAssumption
<1>5. RecentAfter(h) = IF Len(longer) > MaxRecent THEN SubSeq(longer, 1, MaxRecent)
                       ELSE longer
  BY DEF RecentAfter
<1> HIDE DEF longer, T
<1>4. Len(longer) > MaxRecent => /\ SubSeq(longer, 1, MaxRecent) \in Seq(T)
                                 /\ Len(SubSeq(longer, 1, MaxRecent)) = MaxRecent
  BY <1>1, <1>2, <1>3
<1>6. RecentAfter(h) \in Seq(T) /\ Len(RecentAfter(h)) <= MaxRecent
  BY <1>1, <1>2, <1>3, <1>4, <1>5
<1>7. Len(RecentAfter(h)) <= MaxRecent + 1
  <2>1. Len(RecentAfter(h)) \in Nat
    BY <1>6
  <2> QED BY <2>1, <1>3, <1>6
<1>8. Len(Recent) <= MaxRecent => Len(longer) <= MaxRecent + 1
  BY <1>1, <1>2, <1>3
<1> QED BY <1>2, <1>6, <1>7, <1>8 DEF RecentList, T, longer

\* A torn read of bounded lists yields a list of hashes within the bound.
LEMMA TornRecentType ==
  ASSUME NEW seen \in SUBSET RecentList
  PROVE  TornRecent(seen) \subseteq RecentList
<1> DEFINE T == Hash \cup {NoHash}
<1> SUFFICES ASSUME NEW p \in seen, NEW n \in seen
             PROVE  [i \in 1 .. Len(n) |-> IF i <= Len(p) THEN p[i] ELSE NoHash] \in RecentList
  BY DEF TornRecent
<1> DEFINE torn == [i \in 1 .. Len(n) |-> IF i <= Len(p) THEN p[i] ELSE NoHash]
<1>1. /\ p \in Seq(T) /\ n \in Seq(T) /\ Len(n) \in Nat /\ Len(p) \in Nat
      /\ Len(n) <= MaxRecent + 1
  BY DEF RecentList
<1>2. torn \in [1 .. Len(n) -> T]
  BY <1>1
<1>3. torn \in Seq(T) /\ Len(torn) = Len(n)
  BY <1>1, <1>2
<1> QED BY <1>1, <1>3 DEF RecentList

\* The empty store is typed.
LEMMA DagTypeInit == DagInit => DagTypeOK
<1>1. <<>> \in RecentList
  BY DagAssumption DEF RecentList
<1>2. Idle \in ThreadState
  BY <1>1 DEF ThreadState, Idle
<1> SUFFICES ASSUME DagInit PROVE DagTypeOK
  OBVIOUS
<1>3. thread \in [Threads -> ThreadState] /\ \A t \in Threads : At(t, "idle") /\ thread[t] = Idle
  BY <1>2 DEF DagInit, Idle, At
<1>4. disk \in [v : SUBSET Hash, tips : SUBSET Hash, recent : RecentList]
  BY <1>1 DEF DagInit
<1> QED BY <1>1, <1>3, <1>4 DEF DagInit, DagTypeOK

\* A step that changes the record of one thread only, and keeps its vertex
\* known, keeps the types.
LEMMA ThreadStepType ==
  ASSUME DagTypeOK, NEW t \in Threads, NEW r \in ThreadState,
         r = Idle \/ (r.pc # "idle" /\ r.v \in Vertices),
         thread' = [thread EXCEPT ![t] = r],
         UNCHANGED <<memory, late, overlapped, unread>>,
         disk' \in [v : SUBSET Hash, tips : SUBSET Hash, recent : RecentList],
         failed' \subseteq Hash
  PROVE  DagTypeOK'
<1>1. thread' \in [Threads -> ThreadState]
  BY DEF DagTypeOK
<1>2. \A u \in Threads : IF At(u, "idle")' THEN thread'[u] = Idle ELSE thread'[u].v \in Vertices
  <2> TAKE u \in Threads
  <2>1. CASE u = t
    <3>1. thread'[u] = r
      BY <2>1 DEF DagTypeOK
    <3>2. Idle.pc = "idle"
      BY DEF Idle
    <3> QED BY <3>1, <3>2 DEF At
  <2>2. CASE u # t
    <3>1. thread'[u] = thread[u]
      BY <2>2 DEF DagTypeOK
    <3> QED BY <3>1 DEF DagTypeOK, At
  <2> QED BY <2>1, <2>2
<1> QED BY <1>1, <1>2 DEF DagTypeOK, memory

\* Every step of the threads, and a restart, keeps the types.
LEMMA DagTypeNext == DagTypeOK /\ [DagNext]_dagVars => DagTypeOK'
<1> SUFFICES ASSUME DagTypeOK, [DagNext]_dagVars PROVE DagTypeOK'
  OBVIOUS
<1>0. <<>> \in RecentList /\ Idle \in ThreadState /\ Idle.pc = "idle" /\ Len(<<>>) <= MaxRecent
  BY DagAssumption DEF RecentList, ThreadState, Idle
<1>d. disk \in [v : SUBSET Hash, tips : SUBSET Hash, recent : RecentList] /\ failed \subseteq Hash
  BY DEF DagTypeOK
<1>1. ASSUME NEW t \in Threads, NEW h \in Hash, Insert(t, h) PROVE DagTypeOK'
  <2>1. TipsAfter(h) \subseteq Hash
    BY <1>1 DEF DagTypeOK, TipsAfter
  <2>2. Recent' \in RecentList /\ Len(Recent') <= MaxRecent
    BY <1>1, RecentAfterType DEF Insert, DagTypeOK
  <2>a. RecentAfter(h) \in RecentList
    BY RecentAfterType DEF DagTypeOK
  <2>b. Vertices # {} => RecentLonger(h) \in RecentList
    BY RecentAfterType DEF DagTypeOK
  <2>3. ASSUME NEW u \in Threads PROVE Overtaken(thread[u], h) \in ThreadState
    <3>1. thread[u] \in ThreadState /\ (thread[u].pc = "idle" \/ Vertices # {})
      BY DEF DagTypeOK, At
    <3>2. ASSUME NEW r \in ThreadState, r.pc = "idle" \/ Vertices # {}
          PROVE  Overtaken(r, h) \in ThreadState
      <4> HIDE DEF TipsAfter, RecentAfter, RecentLonger, RecentList
      <4>1. CASE r.pc = "recent"
        BY <2>a, <2>b, <3>2, <4>1 DEF ThreadState, Overtaken
      <4>2. CASE r.pc # "recent"
        BY <2>1, <3>2, <4>2 DEF ThreadState, Overtaken
      <4> QED BY <4>1, <4>2
    <3> QED BY <3>1, <3>2
  <2>4. [Idle EXCEPT !.pc = "persist", !.v = h] \in ThreadState
    BY <1>0 DEF ThreadState
  <2>5. thread' \in [Threads -> ThreadState]
    BY <1>1, <2>3, <2>4 DEF Insert
  <2>6. ASSUME NEW u \in Threads
        PROVE  IF At(u, "idle")' THEN thread'[u] = Idle ELSE thread'[u].v \in Vertices'
    <3>1. CASE u = t
      BY <1>1, <3>1 DEF Insert, At, Idle
    <3>2. CASE u # t
      <4> DEFINE r == thread[u]
      <4>1. r \in ThreadState /\ IF r.pc = "idle" THEN r = Idle ELSE r.v \in Vertices
        BY DEF DagTypeOK, At
      <4>2. thread'[u] = Overtaken(r, h) /\ Vertices \subseteq Vertices'
        BY <1>1, <3>2 DEF Insert
      <4> HIDE DEF r
      <4>3. Overtaken(r, h).v = r.v /\ Overtaken(r, h).pc = r.pc
        BY <4>1 DEF ThreadState, Overtaken
      <4>4. r.pc = "idle" => Overtaken(r, h) = Idle
        BY <4>1 DEF Idle, Overtaken
      <4> QED BY <4>1, <4>2, <4>3, <4>4 DEF At
    <3> QED BY <3>1, <3>2
  <2> QED BY <1>1, <2>1, <2>2, <2>5, <2>6 DEF Insert, DagTypeOK
<1>2. ASSUME NEW t \in Threads, BeginTxn(t) PROVE DagTypeOK'
  <2> DEFINE r == [thread[t] EXCEPT !.pc = "tips", !.must = Tips, !.may = Tips]
  <2>1. thread[t] \in ThreadState /\ thread[t].v \in Vertices
    BY <1>2 DEF BeginTxn, DagTypeOK, At
  <2>2. r \in ThreadState /\ r.pc # "idle" /\ r.v \in Vertices
    BY <2>1 DEF DagTypeOK, ThreadState
  <2>3. thread' = [thread EXCEPT ![t] = r]
    BY <1>2 DEF BeginTxn, DagTypeOK
  <2> HIDE DEF r
  <2> QED BY <1>2, <1>d, <2>2, <2>3, ThreadStepType DEF BeginTxn
<1>3. ASSUME NEW t \in Threads, saveTipsTxn(t) PROVE DagTypeOK'
  <2>0. PICK tips \in SUBSET thread[t].may :
          thread' = [thread EXCEPT ![t].pc = "recent", ![t].tips = tips, ![t].seen = {Recent}]
    BY <1>3 DEF saveTipsTxn
  <2> DEFINE r == [thread[t] EXCEPT !.pc = "recent", !.tips = tips, !.seen = {Recent}]
  <2>1. thread[t] \in ThreadState /\ thread[t].v \in Vertices
    BY <1>3 DEF saveTipsTxn, DagTypeOK, At
  <2>2. r \in ThreadState /\ r.pc # "idle" /\ r.v \in Vertices
    BY <2>1, <2>0 DEF DagTypeOK, ThreadState
  <2>3. thread' = [thread EXCEPT ![t] = r]
    BY <1>3, <2>0 DEF saveTipsTxn, DagTypeOK
  <2> HIDE DEF r
  <2> QED BY <1>3, <1>d, <2>2, <2>3, ThreadStepType DEF saveTipsTxn
<1>4. ASSUME NEW t \in Threads, saveRecentTxn(t) PROVE DagTypeOK'
  <2>0. PICK recent \in TornRecent(thread[t].seen) :
          thread' = [thread EXCEPT ![t].pc = "commit", ![t].recent = recent]
    BY <1>4 DEF saveRecentTxn
  <2> DEFINE r == [thread[t] EXCEPT !.pc = "commit", !.recent = recent]
  <2>1. thread[t] \in ThreadState /\ thread[t].v \in Vertices
    BY <1>4 DEF saveRecentTxn, DagTypeOK, At
  <2>5. thread[t].seen \in SUBSET RecentList
    BY <2>1 DEF ThreadState
  <2>6. recent \in RecentList
    BY <2>0, <2>5, TornRecentType
  <2>2. r \in ThreadState /\ r.pc # "idle" /\ r.v \in Vertices
    BY <2>1, <2>6 DEF ThreadState
  <2>3. thread' = [thread EXCEPT ![t] = r]
    BY <1>4, <2>0 DEF saveRecentTxn, DagTypeOK
  <2> HIDE DEF r
  <2> QED BY <1>4, <1>d, <2>2, <2>3, ThreadStepType DEF saveRecentTxn
<1>5. ASSUME NEW t \in Threads, Commit(t) PROVE DagTypeOK'
  <2>3. thread[t] \in ThreadState /\ thread[t].v \in Hash
    BY <1>5 DEF DagTypeOK, Commit, At
  <2>4. disk' \in [v : SUBSET Hash, tips : SUBSET Hash, recent : RecentList]
    BY <1>5, <2>3 DEF Commit, DagTypeOK, ThreadState
  <2>5. thread' = [thread EXCEPT ![t] = Idle] /\ failed' \subseteq Hash
    BY <1>5, <1>d DEF Commit
  <2>6. UNCHANGED <<memory, late, overlapped, unread>>
    BY <1>5 DEF Commit
  <2> QED BY <1>0, <2>4, <2>5, <2>6, ThreadStepType
<1>8. ASSUME NEW t \in Threads, FailedUpdate(t) PROVE DagTypeOK'
  <2>1. thread[t].v \in Hash
    BY <1>8 DEF DagTypeOK, FailedUpdate, At
  <2>2. thread' = [thread EXCEPT ![t] = Idle] /\ failed' \subseteq Hash
    BY <1>8, <1>d, <2>1 DEF FailedUpdate
  <2>3. UNCHANGED <<memory, disk, late, overlapped, unread>>
    BY <1>8 DEF FailedUpdate
  <2> QED BY <1>0, <1>d, <2>2, <2>3, ThreadStepType
<1>6. CASE Restart
  BY <1>0, <1>6 DEF Restart, LoadTips, DagTypeOK, Idle, At
<1>7. CASE UNCHANGED dagVars
  BY <1>7 DEF dagVars, memory, DagTypeOK, At
<1> QED BY <1>1, <1>2, <1>3, <1>4, <1>5, <1>6, <1>7, <1>8 DEF DagNext

\* Everything keeps its type; the recent list is longer than MaxRecent by at
\* most one, and only until a vertex is added, although it is saved without the
\* mutex and may be read between the two writes of AddVertex (saveRecentTxn).
THEOREM DagTypeCorrect == DagSpec => []DagTypeOK
BY DagTypeInit, DagTypeNext, PTL DEF DagSpec

-----------------------------------------------------------------------------
(* The tips are the wavefront. *)

\* Every step keeps the tips over the wavefront.
LEMMA WavefrontNext ==
  DagTypeOK /\ Wavefront /\ [DagNext]_dagVars => Wavefront'
<1> SUFFICES ASSUME DagTypeOK, Wavefront, [DagNext]_dagVars PROVE Wavefront'
  OBVIOUS
<1>1. ASSUME NEW t \in Threads, NEW h \in Hash, Insert(t, h) PROVE Wavefront'
  <2>1. /\ Vertices' = Vertices \cup {h} /\ Tips' = (Tips \cup {h}) \ Parents[h]
        /\ late' = IF KnownChildren(h) # {} THEN late \cup {h} ELSE late
    BY <1>1 DEF Insert, TipsAfter
  <2>2. h \notin Parents[h]
    BY DagAssumption
  <2>3. ASSUME NEW g \in Vertices', KnownChildren(g)' = {} PROVE g \in Tips'
    <3>1. g \notin Parents[h]
      BY <2>1, <2>3 DEF KnownChildren
    <3>2. CASE g = h
      BY <2>1, <2>2, <3>2
    <3>3. CASE g # h
      <4>1. KnownChildren(g) = {}
        BY <2>1, <2>3 DEF KnownChildren
      <4> QED BY <2>1, <3>1, <3>3, <4>1 DEF Wavefront
    <3> QED BY <3>2, <3>3
  <2>4. ASSUME NEW g \in Tips' PROVE KnownChildren(g)' = {} \/ g \in late'
    <3>1. KnownChildren(g)' = KnownChildren(g)
      BY <2>1 DEF KnownChildren
    <3>2. CASE g = h
      BY <2>1, <3>1, <3>2
    <3>3. CASE g # h
      BY <2>1, <3>1, <3>3 DEF Wavefront
    <3> QED BY <3>2, <3>3
  <2> QED BY <2>3, <2>4 DEF Wavefront
<1>2. ASSUME NEW t \in Threads,
             \/ BeginTxn(t) \/ saveTipsTxn(t) \/ saveRecentTxn(t)
             \/ Commit(t) \/ FailedUpdate(t)
      PROVE  Wavefront'
  BY <1>2 DEF BeginTxn, saveTipsTxn, saveRecentTxn, Commit, FailedUpdate, memory, Wavefront,
              KnownChildren
<1>3. CASE Restart
  BY <1>3 DEF Restart, Wavefront, KnownChildren
<1>4. CASE UNCHANGED dagVars
  BY <1>4 DEF dagVars, memory, Wavefront, KnownChildren
<1> QED BY <1>1, <1>2, <1>3, <1>4 DEF DagNext

\* Every known vertex without a known child is a tip, and the only other tips
\* are those that came after a child, for any order of arrival and any number
\* of threads (AddVertex).
THEOREM TipsCoverWavefront == DagSpec => []Wavefront
<1>1. DagInit => Wavefront
  BY DEF DagInit, Wavefront
<1> QED BY <1>1, DagTypeInit, DagTypeNext, WavefrontNext, PTL DEF DagSpec

\* What the steps of a save before its end do to the threads.
LEMMA SavingStep ==
  ASSUME thread \in [Threads -> ThreadState], NEW t \in Threads,
         BeginTxn(t) \/ saveTipsTxn(t) \/ saveRecentTxn(t)
  PROVE  /\ thread[t].pc # "idle" /\ thread'[t].pc # "idle"
         /\ \A u \in Threads : thread'[u].v = thread[u].v
         /\ \A u \in Threads \ {t} : thread'[u] = thread[u]
         /\ thread'[t].pc = "tips" => thread'[t].must = Tips /\ thread'[t].may = Tips
         /\ thread'[t].pc = "recent" =>
              thread[t].pc = "tips" /\ thread[t].must \subseteq thread'[t].tips
                                    /\ thread'[t].tips \subseteq thread[t].may
         /\ thread'[t].pc = "commit" =>
              thread[t].pc = "recent" /\ thread'[t].tips = thread[t].tips
<1>1. CASE BeginTxn(t)
  BY <1>1 DEF BeginTxn, At, ThreadState
<1>2. CASE saveTipsTxn(t)
  <2>1. PICK tips \in SUBSET thread[t].may :
          /\ thread[t].must \subseteq tips
          /\ thread' = [thread EXCEPT ![t].pc = "recent", ![t].tips = tips, ![t].seen = {Recent}]
    BY <1>2 DEF saveTipsTxn
  <2> DEFINE r == [thread[t] EXCEPT !.pc = "recent", !.tips = tips, !.seen = {Recent}]
  <2>2. thread' = [thread EXCEPT ![t] = r]
    BY <2>1
  <2>3. r.pc = "recent" /\ r.tips = tips /\ r.v = thread[t].v
    BY DEF ThreadState
  <2>4. thread[t].pc = "tips"
    BY <1>2 DEF saveTipsTxn, At
  <2> HIDE DEF r
  <2>5. thread'[t] = r /\ \A u \in Threads \ {t} : thread'[u] = thread[u]
    BY <2>2
  <2> QED BY <2>1, <2>3, <2>4, <2>5
<1>3. CASE saveRecentTxn(t)
  <2>1. PICK recent \in TornRecent(thread[t].seen) :
          thread' = [thread EXCEPT ![t].pc = "commit", ![t].recent = recent]
    BY <1>3 DEF saveRecentTxn
  <2> DEFINE r == [thread[t] EXCEPT !.pc = "commit", !.recent = recent]
  <2>2. thread' = [thread EXCEPT ![t] = r]
    BY <2>1
  <2>3. r.pc = "commit" /\ r.tips = thread[t].tips /\ r.v = thread[t].v
    BY DEF ThreadState
  <2>4. thread[t].pc = "recent"
    BY <1>3 DEF saveRecentTxn, At
  <2> HIDE DEF r
  <2>5. thread'[t] = r /\ \A u \in Threads \ {t} : thread'[u] = thread[u]
    BY <2>2
  <2> QED BY <2>3, <2>4, <2>5
<1> QED BY <1>1, <1>2, <1>3

\* Every known vertex is saved, being saved, or one whose transaction failed,
\* however the threads interleave and whatever order the transactions end in
\* (AddVertex).
THEOREM KnownVerticesAreSaved == DagSpec => []KnownIsSaved
<1>1. DagInit => KnownIsSaved
  BY DEF DagInit, KnownIsSaved
<1>2. DagTypeOK /\ KnownIsSaved /\ [DagNext]_dagVars => KnownIsSaved'
  <2> SUFFICES ASSUME DagTypeOK, KnownIsSaved, [DagNext]_dagVars PROVE KnownIsSaved'
    OBVIOUS
  <2>0. thread \in [Threads -> ThreadState]
    BY DEF DagTypeOK
  <2>k. \A g \in Vertices : g \in disk.v \/ g \in failed \/ \E u \in Threads : thread[u].v = g
    BY DEF KnownIsSaved
  <2>g. SUFFICES ASSUME NEW g \in Vertices'
                 PROVE  g \in disk'.v \/ g \in failed' \/ \E u \in Threads : thread'[u].v = g
    BY DEF KnownIsSaved
  <2>1. ASSUME NEW t \in Threads, Commit(t) \/ FailedUpdate(t)
        PROVE  g \in disk'.v \/ g \in failed' \/ \E u \in Threads : thread'[u].v = g
    <3>1. Vertices' = Vertices /\ disk.v \cup failed \cup {thread[t].v} \subseteq disk'.v \cup failed'
      BY <2>1 DEF Commit, FailedUpdate, memory
    <3>2. \A u \in Threads \ {t} : thread'[u] = thread[u]
      BY <2>0, <2>1 DEF Commit, FailedUpdate
    <3> QED BY <2>k, <2>g, <3>1, <3>2
  <2>2. ASSUME NEW t \in Threads, NEW h \in Hash, Insert(t, h)
        PROVE  g \in disk'.v \/ g \in failed' \/ \E u \in Threads : thread'[u].v = g
    <3>1. Vertices' = Vertices \cup {h} /\ disk' = disk /\ failed' = failed
      BY <2>2 DEF Insert
    <3>2. thread'[t].v = h /\ \A u \in Threads \ {t} : thread'[u].v = thread[u].v
      BY <2>0, <2>2 DEF Insert, Overtaken, Idle, ThreadState
    <3>3. CASE g = h
      BY <3>2, <3>3
    <3>4. CASE g # h
      <4>1. thread[t].v \notin Vertices
        BY <2>2, DagAssumption DEF Insert, DagTypeOK, Idle
      <4> QED BY <2>k, <2>g, <3>1, <3>2, <3>4, <4>1
    <3> QED BY <3>3, <3>4
  <2>3. ASSUME NEW t \in Threads, BeginTxn(t) \/ saveTipsTxn(t) \/ saveRecentTxn(t)
        PROVE  g \in disk'.v \/ g \in failed' \/ \E u \in Threads : thread'[u].v = g
    <3>1. \A u \in Threads : thread'[u].v = thread[u].v
      BY <2>3, SavingStep DEF DagTypeOK
    <3> QED BY <2>k, <2>g, <2>3, <3>1 DEF BeginTxn, saveTipsTxn, saveRecentTxn, memory
  <2>4. CASE Restart
    BY <2>g, <2>4 DEF Restart
  <2>5. CASE UNCHANGED dagVars
    BY <2>k, <2>g, <2>5 DEF dagVars, memory
  <2> QED BY <2>1, <2>2, <2>3, <2>4, <2>5 DEF DagNext
<1> QED BY <1>1, <1>2, DagTypeInit, DagTypeNext, PTL DEF DagSpec

-----------------------------------------------------------------------------
(* The saved tips cover the saved vertices when no two AddVertex overlap. *)

\* The vertices of S that no vertex of U has as a parent.
Childless(S, U) == {h \in S : \A u \in U : h \notin Parents[u]}

\* Adding a vertex to a covered set, as AddVertex does, covers the larger one.
LEMMA CoverStep ==
  ASSUME NEW S \in SUBSET Hash, NEW U, NEW h \in Hash, Childless(S, U) \subseteq Tips
  PROVE  Childless(S \cup {h}, U \cup {h}) \subseteq TipsAfter(h)
BY DagAssumption DEF Childless, TipsAfter

\* The inductive invariant.  At most one thread is in AddVertex; what is saved or
\* in memory is covered by the tips in memory; what is saved is covered by the
\* saved tips, but for the children that could not be saved; everything in memory
\* but the vertex being added is saved or could not be; the tips about to be
\* saved are those in memory.
SoloInv ==
  /\ \A t, u \in Threads : ~ At(t, "idle") /\ ~ At(u, "idle") => t = u
  /\ Childless(disk.v \cup Vertices, disk.v \cup Vertices \cup failed) \subseteq Tips
  /\ Childless(disk.v, disk.v \cup failed) \subseteq disk.tips
  /\ (\A t \in Threads : At(t, "idle")) => Vertices \subseteq disk.v \cup failed
  /\ \A t \in Threads :
       /\ ~ At(t, "idle") => /\ Vertices \subseteq disk.v \cup failed \cup {thread[t].v}
                             /\ thread[t].v \in Vertices
       /\ At(t, "tips") => thread[t].must = Tips /\ thread[t].may = Tips
       /\ At(t, "recent") \/ At(t, "commit") => thread[t].tips = Tips

Excused == overlapped \/ unread

\* Every step keeps the saved tips over the saved vertices as long as no two saves
\* overlap and the tips can be read.
LEMMA SoloNext ==
  ASSUME DagTypeOK, Excused \/ SoloInv, [DagNext]_dagVars
  PROVE  (Excused \/ SoloInv)'
<1> SUFFICES ASSUME ~ overlapped', ~ unread' PROVE SoloInv'
  BY DEF Excused
<1>0. thread \in [Threads -> ThreadState] /\ disk.v \subseteq Hash
  BY DEF DagTypeOK
<1>s. SoloInv
  BY DEF DagNext, dagVars, Insert, BeginTxn, saveTipsTxn, saveRecentTxn, Commit,
         FailedUpdate, Restart, LoadTips, Excused
<1>1. ASSUME NEW t \in Threads, NEW h \in Hash, Insert(t, h) PROVE SoloInv'
  <2>0. \A u \in Threads : thread[u].pc = "idle"
    BY <1>1 DEF Insert, At
  <2>1. /\ Vertices' = Vertices \cup {h} /\ Tips' = TipsAfter(h) /\ disk' = disk
        /\ failed' = failed /\ Vertices \subseteq disk.v \cup failed
    BY <1>1, <1>s, <2>0 DEF Insert, SoloInv, At
  <2>2. thread'[t].pc = "persist" /\ thread'[t].v = h
    BY <1>1 DEF Insert, Idle
  <2>3. \A u \in Threads \ {t} : thread'[u].pc = "idle"
    BY <1>0, <1>1, <2>0 DEF Insert, Overtaken, ThreadState
  <2>4. Childless((disk.v \cup Vertices) \cup {h}, (disk.v \cup Vertices \cup failed) \cup {h})
          \subseteq TipsAfter(h)
    BY <1>0, <1>s, CoverStep DEF SoloInv, DagTypeOK
  <2>5. /\ disk'.v \cup Vertices' = (disk.v \cup Vertices) \cup {h}
        /\ disk'.v \cup Vertices' \cup failed' = (disk.v \cup Vertices \cup failed) \cup {h}
    BY <2>1
  <2>6. Childless(disk'.v \cup Vertices', disk'.v \cup Vertices' \cup failed') \subseteq Tips'
    BY <2>1, <2>4, <2>5
  <2>7. Childless(disk'.v, disk'.v \cup failed') \subseteq disk'.tips
    BY <1>s, <2>1 DEF SoloInv
  <2>8. \A u, w \in Threads : ~ At(u, "idle")' /\ ~ At(w, "idle")' => u = w
    BY <2>3 DEF At
  <2>9. ~ (\A u \in Threads : At(u, "idle")')
    BY <2>2 DEF At
  <2>10. ASSUME NEW u \in Threads
         PROVE  /\ ~ At(u, "idle")' => /\ Vertices' \subseteq disk'.v \cup failed' \cup {thread'[u].v}
                                       /\ thread'[u].v \in Vertices'
                /\ ~ At(u, "tips")' /\ ~ At(u, "recent")' /\ ~ At(u, "commit")'
    <3>1. CASE u = t
      BY <2>1, <2>2, <3>1 DEF At
    <3>2. CASE u # t
      BY <2>3, <3>2 DEF At
    <3> QED BY <3>1, <3>2
  <2>11. Childless(disk.v \cup Vertices, disk.v \cup Vertices \cup failed)' \subseteq Tips'
         /\ Childless(disk.v, disk.v \cup failed)' \subseteq disk'.tips
    BY <2>6, <2>7 DEF Childless
  <2> QED BY <2>8, <2>9, <2>10, <2>11 DEF SoloInv
<1>2. ASSUME NEW t \in Threads, BeginTxn(t) \/ saveTipsTxn(t) \/ saveRecentTxn(t)
      PROVE  SoloInv'
  <2>1. /\ thread[t].pc # "idle" /\ thread'[t].pc # "idle" /\ thread'[t].v = thread[t].v
        /\ \A u \in Threads \ {t} : thread'[u] = thread[u]
        /\ thread'[t].pc = "tips" => thread'[t].must = Tips /\ thread'[t].may = Tips
    BY <1>0, <1>2, SavingStep
  <2>2. thread'[t].pc \in {"recent", "commit"} => thread'[t].tips = Tips
    <3>1. /\ thread[t].pc = "tips" => thread[t].must = Tips /\ thread[t].may = Tips
          /\ thread[t].pc = "recent" => thread[t].tips = Tips
      BY <1>s DEF SoloInv, At
    <3>2. /\ thread'[t].pc = "recent" =>
               thread[t].pc = "tips" /\ thread[t].must \subseteq thread'[t].tips
                                     /\ thread'[t].tips \subseteq thread[t].may
          /\ thread'[t].pc = "commit" =>
               thread[t].pc = "recent" /\ thread'[t].tips = thread[t].tips
      BY <1>0, <1>2, SavingStep
    <3> QED BY <3>1, <3>2
  <2>3. Vertices' = Vertices /\ Tips' = Tips /\ disk' = disk /\ failed' = failed
    BY <1>2 DEF BeginTxn, saveTipsTxn, saveRecentTxn, memory
  <2>4. /\ Childless(disk.v \cup Vertices, disk.v \cup Vertices \cup failed)'
             = Childless(disk.v \cup Vertices, disk.v \cup Vertices \cup failed)
        /\ Childless(disk.v, disk.v \cup failed)' = Childless(disk.v, disk.v \cup failed)
    BY <2>3 DEF Childless
  <2>5. \A u \in Threads : (thread'[u].pc = "idle" <=> thread[u].pc = "idle")
                           /\ thread'[u].v = thread[u].v
    BY <2>1
  <2>6. \A u \in Threads : u = t \/ thread[u].pc = "idle"
    BY <1>s, <2>1 DEF SoloInv, At
  <2> QED BY <1>s, <2>1, <2>2, <2>3, <2>4, <2>5, <2>6 DEF SoloInv, At
<1>3. ASSUME NEW t \in Threads, Commit(t) \/ FailedUpdate(t) PROVE SoloInv'
  <2>0. ~ At(t, "idle") /\ thread[t].v \in Vertices
        /\ Vertices \subseteq disk.v \cup failed \cup {thread[t].v}
    BY <1>3, <1>s DEF Commit, FailedUpdate, SoloInv, At
  <2>1. /\ Vertices' = Vertices /\ Tips' = Tips
        /\ disk'.v \cup failed' = disk.v \cup failed \cup {thread[t].v}
        /\ disk.v \subseteq disk'.v /\ disk'.v \subseteq disk.v \cup {thread[t].v}
    <3>1. CASE Commit(t)
      BY <3>1 DEF Commit, memory
    <3>2. CASE FailedUpdate(t)
      BY <3>2 DEF FailedUpdate, memory
    <3> QED BY <1>3, <3>1, <3>2
  <2>2. \A u \in Threads : thread'[u].pc = "idle"
    <3>1. thread' = [thread EXCEPT ![t] = Idle]
      BY <1>3 DEF Commit, FailedUpdate
    <3>2. \A u \in Threads : u = t \/ thread[u].pc = "idle"
      BY <1>s, <2>0 DEF SoloInv, At
    <3> QED BY <1>0, <3>1, <3>2 DEF Idle
  <2>3. /\ Vertices' \subseteq disk'.v \cup failed'
        /\ disk'.v \cup Vertices' = disk.v \cup Vertices
        /\ disk'.v \cup Vertices' \cup failed' = disk.v \cup Vertices \cup failed
        /\ disk'.v \cup failed' = disk.v \cup Vertices \cup failed
    BY <2>0, <2>1
  <2>4. Childless(disk'.v \cup Vertices', disk'.v \cup Vertices' \cup failed') \subseteq Tips'
    BY <1>s, <2>1, <2>3 DEF SoloInv
  <2>5. Childless(disk'.v, disk'.v \cup failed') \subseteq disk'.tips
    <3>1. CASE Commit(t)
      <4>1. disk'.tips = Tips
        BY <1>s, <3>1 DEF Commit, SoloInv
      <4>2. Childless(disk'.v, disk.v \cup Vertices \cup failed) \subseteq Tips
        BY <1>s, <2>0, <2>1 DEF SoloInv, Childless
      <4> QED BY <2>3, <4>1, <4>2
    <3>2. CASE FailedUpdate(t)
      <4>1. disk' = disk /\ failed \subseteq failed'
        BY <3>2 DEF FailedUpdate
      <4> QED BY <1>s, <4>1 DEF SoloInv, Childless
    <3> QED BY <1>3, <3>1, <3>2
  <2>11. Childless(disk.v \cup Vertices, disk.v \cup Vertices \cup failed)' \subseteq Tips'
         /\ Childless(disk.v, disk.v \cup failed)' \subseteq disk'.tips
    BY <2>4, <2>5 DEF Childless
  <2> QED BY <2>2, <2>3, <2>11 DEF SoloInv, At
<1>4. CASE Restart
  <2>1. disk' = disk /\ failed' = failed /\ Vertices' = {} /\ Tips' = disk.tips
    BY <1>4 DEF Restart, LoadTips
  <2>2. \A u \in Threads : thread'[u].pc = "idle"
    BY <1>4 DEF Restart, Idle
  <2>3. disk'.v \cup Vertices' = disk.v /\ disk'.v \cup Vertices' \cup failed' = disk.v \cup failed
    BY <2>1
  <2>4. /\ Childless(disk'.v \cup Vertices', disk'.v \cup Vertices' \cup failed') \subseteq Tips'
        /\ Childless(disk'.v, disk'.v \cup failed') \subseteq disk'.tips
    BY <1>s, <2>1, <2>3 DEF SoloInv
  <2>11. Childless(disk.v \cup Vertices, disk.v \cup Vertices \cup failed)' \subseteq Tips'
         /\ Childless(disk.v, disk.v \cup failed)' \subseteq disk'.tips
    BY <2>4 DEF Childless
  <2> QED BY <2>1, <2>2, <2>11 DEF SoloInv, At
<1>5. CASE UNCHANGED dagVars
  BY <1>s, <1>5 DEF dagVars, memory, SoloInv, Childless, At
<1> QED BY <1>1, <1>2, <1>3, <1>4, <1>5 DEF DagNext

\* While no two AddVertex have overlapped and every start could read the saved
\* tips, the tips in the database cover the vertices in the database after any
\* crash, but for those whose children could not be saved (AddVertex saves a
\* vertex and the tips in one transaction).
THEOREM SavedTipsCoverSaved == DagSpec => []DiskWavefront
<1>1. ASSUME DagInit PROVE SoloInv
  <2>1. \A t \in Threads : thread[t].pc = "idle"
    BY <1>1 DEF DagInit, Idle
  <2>2. Vertices = {} /\ disk.v = {}
    BY <1>1 DEF DagInit
  <2>3. /\ Childless(disk.v \cup Vertices, disk.v \cup Vertices \cup failed) = {}
        /\ Childless(disk.v, disk.v \cup failed) = {}
    BY <2>2 DEF Childless
  <2> QED BY <2>1, <2>2, <2>3 DEF SoloInv, At
<1>2. DagTypeOK /\ (Excused \/ SoloInv) /\ [DagNext]_dagVars => (Excused \/ SoloInv)'
  BY SoloNext
<1>3. Excused \/ SoloInv => DiskWavefront
  BY DEF SoloInv, DiskWavefront, Childless, Excused
<1> QED BY <1>1, <1>2, <1>3, DagTypeInit, DagTypeNext, PTL DEF DagSpec

=============================================================================
