------------------------------ MODULE Explorer -------------------------------
(***************************************************************************)
(* explorer.go: the indexes, the finality tracker and the websocket feed   *)
(* that follow the vertex store.  The node is already running when the     *)
(* explorer starts: it indexes a snapshot of the store, then installs its  *)
(* callback, then wraps it with the finality tracker.  AddVertex starts a  *)
(* goroutine per new vertex with the callback it finds (store.go); the     *)
(* goroutines run in any order and hand the vertex to one broadcaster over *)
(* an unbuffered channel, which writes it to one client after the other    *)
(* without a deadline.                                                     *)
(***************************************************************************)
EXTENDS Caches, Finality

CONSTANTS
  Txs,                   \* the transactions of each vertex, in order
  From, To,              \* the addresses of a transaction
  NoAddr,                \* the zero address
  NoHash,                \* the broadcaster has no vertex
  Client,                \* websocket connections
  MaxHistoryPerAddress,  \* 1000
  MaxAddressesTracked,   \* 10000
  MaxTxIndexSize,        \* 50000
  MaxBlockIndexSize,     \* 10000
  Faulty                 \* the clients that may close or stop reading

ASSUME ExplorerAssumption ==
  /\ NoHash \notin Hash
  /\ Txs \in [Hash -> Seq(DOMAIN From)] /\ DOMAIN To = DOMAIN From
  /\ \A t \in DOMAIN From : From[t] # NoAddr
  /\ {MaxHistoryPerAddress, MaxAddressesTracked, MaxTxIndexSize, MaxBlockIndexSize} \subseteq Nat \ {0}
  /\ Faulty \subseteq Client

VARIABLES
  phase,     \* how far startExplorerAPI is
  snapshot,  \* the vertices it found in the store
  task,      \* the callback goroutine of each vertex
  index,     \* blockIndex, txIndex and history, with what was ever put there
  hub,       \* the broadcaster: its vertex and the clients still to be written to
  clients,   \* the websocket hub's set
  away,      \* clients that have gone; the hub learns it from a failed write
  stalled,   \* clients that do not read: a write to them does not return
  gap,       \* history: vertices added between the snapshot and the callback
  owed       \* history: what was broadcast to each client and not written yet

service == <<hub, clients, away, stalled, owed>>
explorerVars == <<Vertices, tracker, phase, snapshot, task, index, service, gap>>

Address == {From[t] : t \in DOMAIN From} \cup {To[t] : t \in DOMAIN To} \cup {Author[h] : h \in Hash}
Waiting == [v |-> NoHash, peers |-> {}, copied |-> FALSE]

\* blockUses and txUses (history) are the keys in order of use without the
\* bound, log all records of an address, dropped those made before its slice.
ExplorerInit ==
  /\ FinalityInit
  /\ Vertices = {}
  /\ phase = "start"
  /\ snapshot = {}
  /\ task = [h \in Hash |-> "none"]
  /\ index = [blockIndex |-> <<>>, txIndex |-> <<>>, history |-> EmptyMap,
              blockUses |-> <<>>, txUses |-> <<>>,
              log |-> [x \in Address |-> <<>>], dropped |-> [x \in Address |-> 0]]
  /\ hub = Waiting
  /\ clients = {} /\ away = {} /\ stalled = {}
  /\ gap = {}
  /\ owed = [c \in Client |-> {}]

-----------------------------------------------------------------------------

\* startExplorerAPI and the goroutine of a vertex go from one step to the next.
Goes(from, to) == phase = from /\ phase' = to
Moves(v, from, to) == task[v] = from /\ task' = [task EXCEPT ![v] = to]

\* A loop over a sequence: what Op makes of start, one element after the other.
InOrder(Op(_, _), start, seq) ==
  LET after[i \in 0 .. Len(seq)] == IF i = 0 THEN start ELSE Op(after[i - 1], seq[i])
  IN  after[Len(seq)]

MiningEntry(v) == <<Author[v], [hash |-> v, block |-> v]>>

TxEntries(v, t) ==
  LET record == [hash |-> t, block |-> v]
  IN  IF To[t] = NoAddr THEN <<<<From[t], record>>>>
      ELSE <<<<From[t], record>>, <<To[t], record>>>>

PayloadEntries(v) == InOrder(LAMBDA entries, t : entries \o TxEntries(v, t), <<>>, Txs[v])

UseTx(ix, t) ==
  [ix EXCEPT !.txIndex = LruSet(@, t, MaxTxIndexSize), !.txUses = ToFront(@, t)]

UseBlock(ix, v) ==
  [ix EXCEPT !.blockIndex = LruSet(@, v, MaxBlockIndexSize), !.blockUses = ToFront(@, v)]

AppendEntry(ix, e) ==
  [ix EXCEPT !.history = MapAppend(@, e[1], e[2], MaxHistoryPerAddress, MaxAddressesTracked),
             !.log[e[1]] = Append(@, e[2]),
             !.dropped[e[1]] = IF e[1] \in DOMAIN ix.history.data THEN @ ELSE Len(ix.log[e[1]])]

\* The indexes after a vertex, with its history entries in this order.
Indexed(ix, v, entries) == InOrder(AppendEntry, InOrder(UseTx, UseBlock(ix, v), Txs[v]), entries)

RebuildVertex(ix, v) == Indexed(ix, v, <<MiningEntry(v)>> \o PayloadEntries(v))

\* startExplorerAPI reads the vertices of the store ...
Rebuild ==
  /\ Goes("start", "rebuild")
  /\ snapshot' = Vertices
  /\ UNCHANGED <<Vertices, tracker, task, index, service, gap>>

\* ... indexes them, in the order of a map, and installs the callback.
Subscribe ==
  /\ Goes("rebuild", "index")
  /\ \E order \in Bijection(1 .. Cardinality(snapshot), snapshot) :
       index' = InOrder(RebuildVertex, index, order)
  /\ UNCHANGED <<Vertices, tracker, snapshot, task, service, gap>>

\* The callback is wrapped; the HTTP server starts.
Track ==
  /\ Goes("index", "track")
  /\ UNCHANGED <<Vertices, tracker, snapshot, task, index, service, gap>>

\* The mutated form: the wrapped callback only records the vertex.
FirstStepMutant == CASE phase = "track" -> "send" [] phase = "index" -> "index" [] OTHER -> "none"

\* What the goroutine of a new vertex begins with.
FirstStep == CASE phase = "track" -> "record" [] phase = "index" -> "index" [] OTHER -> "none"

\* VertexStore.AddVertex starts a goroutine with the callback it finds.
AddVertex(v) ==
  /\ v \notin Vertices
  /\ Vertices' = Vertices \cup {v}
  /\ task' = [task EXCEPT ![v] = FirstStep]
  /\ gap' = IF phase = "rebuild" THEN gap \cup {v} ELSE gap
  /\ UNCHANGED <<tracker, phase, snapshot, index, service>>

\* The outer callback: the finality tracker, under its own lock.
TaskRecord(v) ==
  /\ Moves(v, "record", "index")
  /\ RecordVertex(v)
  /\ UNCHANGED <<Vertices, phase, snapshot, index, service, gap>>

\* The mutated form: the sender's history is left out when there is a receiver.
CallbackEntriesMutant(v) ==
  Append(SelectSeq(PayloadEntries(v), LAMBDA e : e[2].hash # e[2].block /\ To[e[2].hash] \in {NoAddr, e[1]}),
         MiningEntry(v))

\* The callback appends the transactions first.
CallbackEntries(v) == Append(PayloadEntries(v), MiningEntry(v))

\* The callback's critical section.
TaskIndex(v) ==
  /\ Moves(v, "index", "send")
  /\ index' = Indexed(index, v, CallbackEntries(v))
  /\ UNCHANGED <<Vertices, tracker, phase, snapshot, service, gap>>

Received(v) == hub.v = NoHash /\ Moves(v, "send", "sent")

\* The unbuffered channel: the callback waits until the broadcaster receives.
TaskSend(v) ==
  /\ Received(v)
  /\ hub' = [Waiting EXCEPT !.v = v]
  /\ UNCHANGED <<Vertices, tracker, phase, snapshot, index, clients, away, stalled, gap, owed>>

-----------------------------------------------------------------------------

\* The mutated form: without clients the broadcaster keeps the vertex.
CopyClientsMutant ==
  /\ hub.v # NoHash /\ ~ hub.copied
  /\ hub' = [hub EXCEPT !.peers = clients, !.copied = TRUE]
  /\ owed' = [c \in Client |-> IF c \in clients \ away THEN owed[c] \cup {hub.v} ELSE {}]
  /\ UNCHANGED <<Vertices, tracker, phase, snapshot, task, index, clients, away, stalled, gap>>

\* The broadcaster copies the set of clients under clientsMu.
CopyClients ==
  /\ hub.v # NoHash /\ ~ hub.copied
  /\ hub' = IF clients = {} THEN Waiting ELSE [hub EXCEPT !.peers = clients, !.copied = TRUE]
  /\ owed' = [c \in Client |-> IF c \in clients \ away THEN owed[c] \cup {hub.v} ELSE {}]
  /\ UNCHANGED <<Vertices, tracker, phase, snapshot, task, index, clients, away, stalled, gap>>

\* The broadcaster after it is done with a client.
HubAfter(c) == IF hub.peers = {c} THEN Waiting ELSE [hub EXCEPT !.peers = @ \ {c}]

\* WriteJSON to a client that reads.
WriteJSON(c) ==
  /\ c \in hub.peers \ (stalled \cup away)
  /\ owed' = [owed EXCEPT ![c] = @ \ {hub.v}]
  /\ hub' = HubAfter(c)
  /\ UNCHANGED <<Vertices, tracker, phase, snapshot, task, index, clients, away, stalled, gap>>

\* The mutated form: the broadcaster gives the vertex up.
HubAfterErrorMutant(c) == Waiting

\* The broadcaster goes on with the other clients after an error.
HubAfterError(c) == HubAfter(c)

\* WriteJSON to a client that has gone: buffered, or an error after which the
\* client is closed and removed.
WriteFails(c) ==
  /\ c \in hub.peers \cap away
  /\ \/ hub' = HubAfter(c) /\ UNCHANGED clients
     \/ hub' = HubAfterError(c) /\ clients' = clients \ {c}
  /\ UNCHANGED <<Vertices, tracker, phase, snapshot, task, index, away, stalled, gap, owed>>

\* /ws
Join(c) ==
  /\ phase = "track"
  /\ c \notin clients \cup away
  /\ clients' = clients \cup {c}
  /\ UNCHANGED <<Vertices, tracker, phase, snapshot, task, index, hub, away, stalled, gap, owed>>

\* The far end of a connection closes, stops reading or reads again.
Leave(c) ==
  /\ c \in (clients \cap Faulty) \ away
  /\ away' = away \cup {c}
  /\ stalled' = stalled \ {c}
  /\ owed' = [owed EXCEPT ![c] = {}]
  /\ UNCHANGED <<Vertices, tracker, phase, snapshot, task, index, hub, clients, gap>>

Stall(c) ==
  /\ c \in (clients \cap Faulty) \ away
  /\ stalled' = IF c \in stalled THEN stalled \ {c} ELSE stalled \cup {c}
  /\ UNCHANGED <<Vertices, tracker, phase, snapshot, task, index, hub, clients, away, gap, owed>>

-----------------------------------------------------------------------------

\* /api/block and /api/search for a block that is in the index; a miss changes
\* nothing.
LookupBlock(v) ==
  /\ phase = "track"
  /\ Contains(index.blockIndex, v)
  /\ index' = [index EXCEPT !.blockIndex = LruGet(@, v), !.blockUses = ToFront(@, v)]
  /\ UNCHANGED <<Vertices, tracker, phase, snapshot, task, service, gap>>

\* /api/transaction and /api/search.
LookupTx(t) ==
  /\ phase = "track"
  /\ Contains(index.txIndex, t)
  /\ index' = [index EXCEPT !.txIndex = LruGet(@, t), !.txUses = ToFront(@, t)]
  /\ UNCHANGED <<Vertices, tracker, phase, snapshot, task, service, gap>>

\* The calls of the finality tracker that are not the callback's.
TrackerCall ==
  /\ phase = "track"
  /\ (\E h \in Hash : IsFinalized(h) \/ SetFinalized(h)) \/ Cleanup \/ Tick
  /\ UNCHANGED <<Vertices, phase, snapshot, task, index, service, gap>>

ExplorerNext ==
  \/ Rebuild \/ Subscribe \/ Track
  \/ \E v \in Hash : AddVertex(v) \/ TaskRecord(v) \/ TaskIndex(v) \/ TaskSend(v) \/ LookupBlock(v)
  \/ \E t \in DOMAIN From : LookupTx(t)
  \/ CopyClients
  \/ \E c \in Client : WriteJSON(c) \/ WriteFails(c) \/ Join(c) \/ Leave(c) \/ Stall(c)
  \/ TrackerCall

ExplorerSpec == ExplorerInit /\ [][ExplorerNext]_explorerVars

\* The start and the goroutines run; senders wait in the channel's queue, first
\* in, first out.  A write to a client that does not read need not return.
Fairness ==
  /\ WF_phase(Goes("start", "rebuild")) /\ WF_phase(Goes("rebuild", "index"))
  /\ \A v \in Hash : /\ WF_task(Moves(v, "record", "index")) /\ WF_task(Moves(v, "index", "send"))
                     /\ SF_task(Received(v))
  /\ WF_explorerVars(CopyClients)
  /\ WF_explorerVars(\E c \in Client : WriteJSON(c) \/ WriteFails(c))

FairExplorer == ExplorerSpec /\ Fairness

-----------------------------------------------------------------------------

\* The type invariant: the caches are bounded, hold no key twice, and the slices
\* of the history are those of the keys in the order of eviction.
ExplorerTypeOK ==
  /\ FinalityTypeOK
  /\ Vertices \subseteq Hash /\ snapshot \subseteq Vertices /\ gap \subseteq Vertices
  /\ phase \in {"start", "rebuild", "index", "track"}
  /\ task \in [Hash -> {"none", "record", "index", "send", "sent"}]
  /\ IsInjective(index.blockIndex) /\ Len(index.blockIndex) <= MaxBlockIndexSize
  /\ IsInjective(index.txIndex) /\ Len(index.txIndex) <= MaxTxIndexSize
  /\ IsInjective(index.history.keyOrder) /\ Len(index.history.keyOrder) <= MaxAddressesTracked
  /\ Range(index.history.keyOrder) = DOMAIN index.history.data
  /\ \A k \in DOMAIN index.history.data : Len(index.history.data[k]) \in 1 .. MaxHistoryPerAddress
  /\ hub.v \in Hash \cup {NoHash} /\ hub.peers \subseteq clients
  /\ clients \subseteq Client /\ away \subseteq Client /\ stalled \subseteq clients

\* The latest n of a sequence, and the first n.
LastOf(s, n) == IF Len(s) <= n THEN s ELSE SubSeq(s, Len(s) - n + 1, Len(s))
FirstOf(s, n) == IF Len(s) <= n THEN s ELSE SubSeq(s, 1, n)

\* The caches hold exactly what was used last, as if they had never been cut. The
\* block and the transaction index: the keys that a callback stored or a request
\* found (LRU.Get, LRU.Set).  The history of an address: the latest records since
\* the address was last new to the map, in the order the callbacks ran
\* (BoundedMap.Append, BoundedSlice.Append).
CachesKeepRecent ==
  /\ index.blockIndex = FirstOf(index.blockUses, MaxBlockIndexSize)
  /\ index.txIndex = FirstOf(index.txUses, MaxTxIndexSize)
  /\ \A k \in DOMAIN index.history.data :
       index.history.data[k] =
         LastOf(LastOf(index.log[k], Len(index.log[k]) - index.dropped[k]), MaxHistoryPerAddress)

\* A transaction that is in the index has its record in the history of its
\* sender, which /api/transaction looks up in a second step, unless that history
\* is full or was evicted since: every vertex is indexed in one critical section.
TxHasRecord ==
  \A t \in Range(index.txIndex) :
    \/ From[t] \notin DOMAIN index.history.data
    \/ index.dropped[From[t]] > 0
    \/ LET records == index.history.data[From[t]]
       IN  Len(records) = MaxHistoryPerAddress \/ \E i \in DOMAIN records : records[i].hash = t

\* A client that stays is sent every vertex that is broadcast while it is
\* connected, before the next one and whichever other clients have gone (the
\* broadcaster): it lacks at most the vertex that is being written.
FeedComplete ==
  \A c \in clients \ away : owed[c] = IF c \in hub.peers THEN {hub.v} ELSE {}

\* Every vertex of the store is indexed, unless it was added between the snapshot
\* and the installation of the callback (startExplorerAPI, OnNewVertex).
EveryVertexIndexed ==
  \A v \in Hash : v \in Vertices ~> (v \in Range(index.blockUses) \/ v \in gap)

\* The callbacks that wait for the broadcaster do not pile up: again and again
\* there is none, unless a client does not read (the broadcaster has no
\* deadline).
CallbacksEnd == []<>(stalled # {} \/ \A v \in Hash : task[v] # "send")
=============================================================================
