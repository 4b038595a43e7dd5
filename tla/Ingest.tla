-------------------------------- MODULE Ingest --------------------------------
(***************************************************************************)
(* core/tpu/ingest.go: the UDP server.  A receive loop puts the packets    *)
(* into a channel, workers take them, check them and give them to the      *)
(* mempool, another goroutine forgets expired rate limits, and Stop closes *)
(* the channels and waits for all of them but the receive loop.            *)
(***************************************************************************)
EXTENDS Integers, Sequences, FiniteSets

CONSTANTS
  Packet, From,        \* the packets that can come, and who signed each
  Oversized,           \* those above MaxTxSize
  Invalid,             \* those that do not decode or whose signature is wrong
  Workers,             \* runtime.NumCPU() * 2 of them
  PacketQueueSize,     \* 10000
  MaxTxPerAddressPerMinute,  \* 10
  RateLimitWindow,     \* 60 seconds
  MaxPackets, MaxTime  \* bounds: the packets that arrive, the clock

ASSUME IngestAssumption ==
  /\ Oversized \cup Invalid \subseteq Packet
  /\ IsFiniteSet(Workers)
  /\ {PacketQueueSize, MaxTxPerAddressPerMinute, RateLimitWindow} \subseteq Nat \ {0}
  /\ {MaxPackets, MaxTime} \subseteq Nat

VARIABLES
  rx,           \* the receive loop, and the packet it holds
  worker,       \* each worker, and the packet it holds
  cleaner,      \* rateLimitCleanupLoop
  stop,         \* the goroutine that calls Stop
  running,
  shutdown, connClosed, queueClosed,
  packetQueue,
  rateLimiter,  \* count and resetTime of each sender
  count,        \* the metrics
  now,
  admitted      \* history: when the packets of each sender passed the limit

vars == <<rx, worker, cleaner, stop, running, shutdown, connClosed, queueClosed,
          packetQueue, rateLimiter, count, now, admitted>>

Sender == {From[p] : p \in Packet}
NoEntry == [count |-> 0, resetTime |-> 0]
Held == {<<p>> : p \in Packet} \cup {<<>>}

Init ==
  /\ rx = [pc |-> "new", packet |-> <<>>]
  /\ worker = [w \in Workers |-> [pc |-> "new", packet |-> <<>>]]
  /\ cleaner = "new"
  /\ stop = "none"
  /\ running = FALSE
  /\ shutdown = FALSE /\ connClosed = FALSE /\ queueClosed = FALSE
  /\ packetQueue = <<>>
  /\ rateLimiter = [a \in Sender |-> NoEntry]
  /\ count = [received |-> 0, dropped |-> 0, processed |-> 0, invalid |-> 0]
  /\ now = 0
  /\ admitted = [a \in Sender |-> <<>>]

\* A goroutine that panics takes the node down.
Alive == rx.pc # "panic"

Counted(metric) == count' = [count EXCEPT ![metric] = @ + 1]

-----------------------------------------------------------------------------
(* Start: the goroutines, then the receive loop. *)

UnchangedByStart == UNCHANGED <<stop, shutdown, connClosed, queueClosed, packetQueue,
                                rateLimiter, count, now, admitted>>

Start ==
  /\ rx.pc = "new"
  /\ rx' = [rx EXCEPT !.pc = "spawn"]
  /\ running' = TRUE
  /\ UNCHANGED <<worker, cleaner>> /\ UnchangedByStart

SpawnWorker(w) ==
  /\ rx.pc = "spawn"
  /\ worker[w].pc = "new"
  /\ worker' = [worker EXCEPT ![w].pc = "idle"]
  /\ UNCHANGED <<rx, running, cleaner>> /\ UnchangedByStart

SpawnCleaner ==
  /\ rx.pc = "spawn"
  /\ \A w \in Workers : worker[w].pc # "new"
  /\ cleaner' = "idle"
  /\ rx' = [rx EXCEPT !.pc = "check"]
  /\ UNCHANGED <<running, worker>> /\ UnchangedByStart

UnchangedByRx == UNCHANGED <<worker, cleaner, stop, running, shutdown, connClosed,
                             queueClosed, rateLimiter, now, admitted>>

CheckShutdown ==
  /\ rx.pc = "check"
  /\ rx' = [rx EXCEPT !.pc = IF shutdown THEN "done" ELSE "read"]
  /\ UNCHANGED <<packetQueue, count>> /\ UnchangedByRx

\* The deadline passes, or the connection is closed.
ReadFails ==
  /\ rx.pc = "read"
  /\ rx' = [rx EXCEPT !.pc = IF connClosed /\ shutdown THEN "done" ELSE "check"]
  /\ UNCHANGED <<packetQueue, count>> /\ UnchangedByRx

ReadFromUDP(p) ==
  /\ rx.pc = "read" /\ ~ connClosed
  /\ count.received < MaxPackets
  /\ rx' = [pc |-> "send", packet |-> <<p>>]
  /\ Counted("received")
  /\ UNCHANGED packetQueue /\ UnchangedByRx

\* The mutated form: a packet that finds the queue full is not counted.
DropMutant == UNCHANGED count

Drop == Counted("dropped")

\* The mutated form: one packet too many.
QueueFullMutant == Len(packetQueue) > PacketQueueSize

QueueFull == Len(packetQueue) >= PacketQueueSize

\* A packet that is too large or finds the queue full is dropped; a send on the
\* closed channel panics, also in a select with a default.
Enqueue ==
  /\ rx.pc = "send"
  /\ \/ /\ rx.packet[1] \in Oversized
        /\ Drop
        /\ rx' = [pc |-> "check", packet |-> <<>>]
        /\ UNCHANGED packetQueue
     \/ /\ rx.packet[1] \notin Oversized /\ queueClosed
        /\ rx' = [rx EXCEPT !.pc = "panic"]
        /\ UNCHANGED <<packetQueue, count>>
     \/ /\ rx.packet[1] \notin Oversized /\ ~ queueClosed
        /\ ~ QueueFull
        /\ packetQueue' = packetQueue \o rx.packet
        /\ rx' = [pc |-> "check", packet |-> <<>>]
        /\ UNCHANGED count
     \/ /\ rx.packet[1] \notin Oversized /\ ~ queueClosed
        /\ QueueFull
        /\ Drop
        /\ rx' = [pc |-> "check", packet |-> <<>>]
        /\ UNCHANGED packetQueue
  /\ UnchangedByRx

-----------------------------------------------------------------------------
(* worker and processPacket. *)

UnchangedByWorker == UNCHANGED <<rx, cleaner, stop, running, shutdown, connClosed,
                                 queueClosed, now>>

MoveTo(w, pc, packet) == worker' = [worker EXCEPT ![w] = [pc |-> pc, packet |-> packet]]

\* The select takes a packet also when the shutdown channel is closed.
Take(w) ==
  /\ worker[w].pc = "idle"
  /\ packetQueue # <<>>
  /\ MoveTo(w, "verify", <<Head(packetQueue)>>)
  /\ packetQueue' = Tail(packetQueue)
  /\ UNCHANGED <<rateLimiter, count, admitted>> /\ UnchangedByWorker

Leave(w) ==
  /\ worker[w].pc = "idle"
  /\ shutdown \/ (queueClosed /\ packetQueue = <<>>)
  /\ MoveTo(w, "done", <<>>)
  /\ UNCHANGED <<packetQueue, rateLimiter, count, admitted>> /\ UnchangedByWorker

Verify(w) ==
  /\ worker[w].pc = "verify"
  /\ LET p == worker[w].packet[1] IN
       IF p \in Invalid
       THEN MoveTo(w, "idle", <<>>) /\ Counted("invalid")
       ELSE MoveTo(w, "limit", <<p>>) /\ UNCHANGED count
  /\ UNCHANGED <<packetQueue, rateLimiter, admitted>> /\ UnchangedByWorker

NewEntry == [count |-> 1, resetTime |-> now + RateLimitWindow]

LimitReached(entry) == entry.count >= MaxTxPerAddressPerMinute

\* What checkAndIncrementRateLimit makes of an entry, and whether it lets pass.
checkAndIncrementRateLimit(entry) ==
  IF entry = NoEntry \/ now > entry.resetTime THEN [ok |-> TRUE, entry |-> NewEntry]
  ELSE IF LimitReached(entry) THEN [ok |-> FALSE, entry |-> entry]
  ELSE [ok |-> TRUE, entry |-> [entry EXCEPT !.count = @ + 1]]

RateLimit(w) ==
  /\ worker[w].pc = "limit"
  /\ LET p == worker[w].packet[1]
         a == From[p]
         r == checkAndIncrementRateLimit(rateLimiter[a]) IN
       /\ rateLimiter' = [rateLimiter EXCEPT ![a] = r.entry]
       /\ IF r.ok
          THEN /\ MoveTo(w, "add", <<p>>)
               /\ admitted' = [admitted EXCEPT ![a] = Append(@, now)]
               /\ UNCHANGED count
          ELSE /\ MoveTo(w, "idle", <<>>)
               /\ Counted("dropped")
               /\ UNCHANGED admitted
  /\ UNCHANGED packetQueue /\ UnchangedByWorker

\* The mempool accepts the transaction or not (Add of module Mempool).
AddToMempool(w) ==
  /\ worker[w].pc = "add"
  /\ MoveTo(w, "idle", <<>>)
  /\ Counted("processed") \/ Counted("dropped")
  /\ UNCHANGED <<packetQueue, rateLimiter, admitted>> /\ UnchangedByWorker

Work(w) == Take(w) \/ Leave(w) \/ Verify(w) \/ RateLimit(w) \/ AddToMempool(w)

-----------------------------------------------------------------------------
(* rateLimitCleanupLoop. *)

UnchangedByCleaner == UNCHANGED <<rx, worker, stop, running, shutdown, connClosed,
                                  queueClosed, packetQueue, count, now, admitted>>

\* The mutated form: windows that are still open are forgotten too.
cleanupRateLimitsMutant ==
  /\ cleaner = "idle"
  /\ rateLimiter' = [a \in Sender |-> NoEntry]
  /\ UNCHANGED cleaner /\ UnchangedByCleaner

cleanupRateLimits ==
  /\ cleaner = "idle"
  /\ rateLimiter' = [a \in Sender |-> IF now > rateLimiter[a].resetTime THEN NoEntry
                                      ELSE rateLimiter[a]]
  /\ UNCHANGED cleaner /\ UnchangedByCleaner

CleanerLeaves ==
  /\ cleaner = "idle"
  /\ shutdown
  /\ cleaner' = "done"
  /\ UNCHANGED rateLimiter /\ UnchangedByCleaner

-----------------------------------------------------------------------------
(* Stop. *)

UnchangedByStop == UNCHANGED <<rx, worker, cleaner, packetQueue, rateLimiter, count, now,
                               admitted>>

StopBegins ==
  /\ stop = "none"
  /\ stop' = IF running THEN "shutdown" ELSE "returned"
  /\ running' = FALSE
  /\ UNCHANGED <<shutdown, connClosed, queueClosed>> /\ UnchangedByStop

\* The mutated form: the shutdown channel is not closed.
CloseShutdownMutant ==
  /\ stop = "shutdown"
  /\ stop' = "conn"
  /\ UNCHANGED <<running, shutdown, connClosed, queueClosed>> /\ UnchangedByStop

CloseShutdown ==
  /\ stop = "shutdown"
  /\ shutdown' = TRUE
  /\ stop' = "conn"
  /\ UNCHANGED <<running, connClosed, queueClosed>> /\ UnchangedByStop

CloseConn ==
  /\ stop = "conn"
  /\ connClosed' = TRUE
  /\ stop' = "queue"
  /\ UNCHANGED <<running, shutdown, queueClosed>> /\ UnchangedByStop

CloseQueue ==
  /\ stop = "queue"
  /\ queueClosed' = TRUE
  /\ stop' = "wait"
  /\ UNCHANGED <<running, shutdown, connClosed>> /\ UnchangedByStop

\* The mutated form: the workers are not in the wait group.
JoinedMutant == cleaner \in {"new", "done"}

\* The wait group holds the goroutines that Start has spawned so far, and not
\* the receive loop.
Joined ==
  /\ cleaner \in {"new", "done"}
  /\ \A w \in Workers : worker[w].pc \in {"new", "done"}

Wait ==
  /\ stop = "wait"
  /\ Joined
  /\ stop' = "returned"
  /\ UNCHANGED <<running, shutdown, connClosed, queueClosed>> /\ UnchangedByStop

Stop == CloseShutdown \/ CloseConn \/ CloseQueue \/ Wait

Tick ==
  /\ now < MaxTime
  /\ now' = now + 1
  /\ UNCHANGED <<rx, worker, cleaner, stop, running, shutdown, connClosed, queueClosed,
                 packetQueue, rateLimiter, count, admitted>>

Next ==
  /\ Alive
  /\ \/ Start \/ (\E w \in Workers : SpawnWorker(w)) \/ SpawnCleaner
     \/ CheckShutdown \/ ReadFails \/ Enqueue
     \/ \E p \in Packet : ReadFromUDP(p)
     \/ \E w \in Workers : Work(w)
     \/ cleanupRateLimits \/ CleanerLeaves
     \/ StopBegins \/ Stop
     \/ Tick

Spec == Init /\ [][Next]_vars

\* Every goroutine that can take a step takes one; nothing is asked of the network.
FairSpec ==
  /\ Spec
  /\ \A w \in Workers : WF_vars(Alive /\ Work(w))
  /\ WF_vars(Alive /\ CleanerLeaves)
  /\ WF_vars(Alive /\ Stop)

-----------------------------------------------------------------------------

WorkerPc == {"new", "idle", "verify", "limit", "add", "done"}

\* The type invariant: a goroutine holds a packet exactly in the steps that
\* handle one, and the queue stays within its capacity.
TypeOK ==
  /\ rx \in [pc : {"new", "spawn", "check", "read", "send", "done", "panic"}, packet : Held]
  /\ (rx.packet # <<>>) <=> rx.pc \in {"send", "panic"}
  /\ worker \in [Workers -> [pc : WorkerPc, packet : Held]]
  /\ \A w \in Workers : (worker[w].packet # <<>>) <=> worker[w].pc \in {"verify", "limit", "add"}
  /\ cleaner \in {"new", "idle", "done"}
  /\ stop \in {"none", "shutdown", "conn", "queue", "wait", "returned"}
  /\ {running, shutdown, connClosed, queueClosed} \subseteq BOOLEAN
  /\ packetQueue \in Seq(Packet) /\ Len(packetQueue) <= PacketQueueSize
  /\ rateLimiter \in [Sender -> [count : 0..MaxTxPerAddressPerMinute, resetTime : Nat]]
  /\ count \in [{"received", "dropped", "processed", "invalid"} -> Nat]
  /\ now \in Nat /\ admitted \in [Sender -> Seq(Nat)]

Busy == {w \in Workers : worker[w].packet # <<>>}

\* Every packet received is in exactly one of the metrics, in the queue, or in
\* the hands of a goroutine (packetsReceived and the other counters).
PacketsAccounted ==
  count.received = count.dropped + count.processed + count.invalid + Len(packetQueue)
                   + Cardinality(Busy) + Len(rx.packet)

\* After a Stop that stopped the server no worker has a packet, so none asks the
\* mempool, which reads the accounts from the database main closes next; also
\* when Stop overtakes a Start that is still spawning the workers (wg.Wait).
NoWorkAfterStop == stop = "returned" /\ shutdown => Busy = {}

\* Stop returns, however many packets are queued (worker and
\* rateLimitCleanupLoop select on the shutdown channel), unless the process dies
\* meanwhile of the receive loop's send on the queue that Stop has closed.
StopReturns == stop = "shutdown" ~> (stop = "returned" \/ ~ Alive)

\* The packets of a sender that passed the limit within a window from t on.
InWindow(a, t) ==
  {i \in DOMAIN admitted[a] : t <= admitted[a][i] /\ admitted[a][i] <= t + RateLimitWindow}

\* In any minute a sender gets at most a whole window and all but the first of
\* the window before, also when the cleanup forgets the sender in between
\* (checkAndIncrementRateLimit, cleanupRateLimits).
BurstBound ==
  \A a \in Sender, t \in 0..now :
    Cardinality(InWindow(a, t)) <= 2 * MaxTxPerAddressPerMinute - 1
=============================================================================
