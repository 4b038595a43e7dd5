-------------------------------- MODULE Peers --------------------------------
(***************************************************************************)
(* core/p2p/server.go: the connections of a node, from acceptLoop and      *)
(* Connect over handleConn and readLoop to RemovePeer, with the reputation *)
(* manager they consult and the callback of main.go that grants stake to   *)
(* new peers.  acceptLoop is one goroutine; every connection has its own.  *)
(* A step is what a goroutine does under one lock.  The blocks and the     *)
(* transactions a message carries are modelled in BlockHandler and Mempool.*)
(***************************************************************************)
EXTENDS Reputation, FiniteSets

CONSTANTS
  Conn,              \* the connections
  Inbound,           \* those the other side opened
  Remote,            \* RemoteAddr() of each, host and port
  IP,                \* the host of a remote address
  NodeID,            \* who answers the handshake
  NoConn,
  NeedsGrant,        \* the nodes with less stake than they need
  MaxPeers, MaxPerIP \* 100 and 5

ASSUME PeersAssumption ==
  /\ Inbound \subseteq Conn
  /\ Remote \in [Conn -> DOMAIN IP]
  /\ IP \in [DOMAIN IP -> Addr]
  /\ NodeID \in [Conn -> PeerID]
  /\ NoConn \notin Conn
  /\ NeedsGrant \subseteq PeerID
  /\ MaxPeers \in Nat /\ MaxPerIP \in Nat
  /\ IsFiniteSet(Conn)

VARIABLES
  conn,          \* where the goroutine of each connection is
  cut,           \* the connections RemovePeer closed
  PeerAt,        \* Peers: the connection listed under a remote address
  KnownPeers,
  ConnCount,
  grantedPeers,
  grants         \* how often AddGrantStake ran for each node

connVars == <<conn, cut, PeerAt, KnownPeers, ConnCount, grantedPeers, grants>>
vars == <<connVars, repVars>>

RemoteAddr == DOMAIN IP
IPOf(c) == IP[Remote[c]]
Listed == {r \in RemoteAddr : PeerAt[r] # NoConn}

Init ==
  /\ RepInit
  /\ conn = [c \in Conn |-> "none"]
  /\ cut = {}
  /\ PeerAt = [r \in RemoteAddr |-> NoConn]
  /\ KnownPeers = {}
  /\ ConnCount = [ip \in Addr |-> 0]
  /\ grantedPeers = {}
  /\ grants = [n \in PeerID |-> 0]

Goto(c, pc) == conn' = [conn EXCEPT ![c] = pc]

-----------------------------------------------------------------------------
(* acceptLoop: one connection at a time. *)

Accept(c) ==
  /\ c \in Inbound /\ conn[c] = "none"
  /\ \A d \in Conn : conn[d] \notin {"checkBan", "checkIP"}
  /\ Goto(c, IF Cardinality(Listed) >= MaxPeers THEN "closed" ELSE "checkBan")
  /\ UNCHANGED <<cut, PeerAt, KnownPeers, ConnCount, grantedPeers, grants, repVars>>

CheckBan(c) ==
  /\ conn[c] = "checkBan"
  /\ Goto(c, IF IsAddressBanned(IPOf(c)) THEN "closed" ELSE "checkIP")
  /\ UNCHANGED <<cut, PeerAt, KnownPeers, ConnCount, grantedPeers, grants, repVars>>

Full(ip) == ConnCount[ip] >= MaxPerIP

CheckIP(c) ==
  /\ conn[c] = "checkIP"
  /\ IF Full(IPOf(c))
     THEN Goto(c, "closed") /\ UNCHANGED ConnCount
     ELSE /\ Goto(c, "handshake")
          /\ ConnCount' = [ConnCount EXCEPT ![IPOf(c)] = @ + 1]
  /\ UNCHANGED <<cut, PeerAt, KnownPeers, grantedPeers, grants, repVars>>

-----------------------------------------------------------------------------
(* Connect: called by main at the start and by handleAddr. *)

Connect(c) ==
  /\ c \notin Inbound /\ conn[c] = "none"
  /\ Goto(c, "handshake")
  /\ UNCHANGED <<cut, PeerAt, KnownPeers, ConnCount, grantedPeers, grants, repVars>>

\* A peer names an address the node does not know.
handleAddr(p, c) ==
  /\ conn[p] = "reading" /\ p \notin cut
  /\ c \notin Inbound /\ conn[c] = "none"
  /\ Remote[c] \notin KnownPeers
  /\ KnownPeers' = KnownPeers \cup {Remote[c]}
  /\ Goto(c, "handshake")
  /\ UNCHANGED <<cut, PeerAt, ConnCount, grantedPeers, grants, repVars>>

-----------------------------------------------------------------------------
(* handleConn. *)

\* The dial, the exchange or the genesis hash: the connection is closed, and
\* nothing else is.
HandshakeFails(c) ==
  /\ conn[c] = "handshake"
  /\ Goto(c, "closed")
  /\ UNCHANGED <<cut, PeerAt, KnownPeers, ConnCount, grantedPeers, grants, repVars>>

Handshake(c) ==
  /\ conn[c] = "handshake"
  /\ Goto(c, IF IsBanned(NodeID[c]) THEN "closed" ELSE "create")
  /\ UNCHANGED <<cut, PeerAt, KnownPeers, ConnCount, grantedPeers, grants, repVars>>

Register(c) ==
  /\ conn[c] = "create"
  /\ GetOrCreate(NodeID[c], IPOf(c))
  /\ Goto(c, "add")
  /\ UNCHANGED <<cut, PeerAt, KnownPeers, ConnCount, grantedPeers, grants>>

\* The mutated form: the read loop starts before the callback has run.
AddPeerMutant(c) ==
  /\ conn[c] = "add"
  /\ PeerAt' = [PeerAt EXCEPT ![Remote[c]] = c]
  /\ KnownPeers' = KnownPeers \cup {Remote[c]}
  /\ Goto(c, "reading")
  /\ UNCHANGED <<cut, ConnCount, grantedPeers, grants, repVars>>

\* A connection to the same remote address is replaced.
AddPeer(c) ==
  /\ conn[c] = "add"
  /\ PeerAt' = [PeerAt EXCEPT ![Remote[c]] = c]
  /\ KnownPeers' = KnownPeers \cup {Remote[c]}
  /\ Goto(c, "granted?")
  /\ UNCHANGED <<cut, ConnCount, grantedPeers, grants, repVars>>

-----------------------------------------------------------------------------
(* OnPeerConnected of main.go, at the node that grants. *)

CheckGranted(c) ==
  /\ conn[c] = "granted?"
  /\ Goto(c, IF NodeID[c] \in grantedPeers THEN "reading" ELSE "stake?")
  /\ UNCHANGED <<cut, PeerAt, KnownPeers, ConnCount, grantedPeers, grants, repVars>>

\* One grant is more than the stake a node needs.
CheckStake(c) ==
  /\ conn[c] = "stake?"
  /\ Goto(c, IF NodeID[c] \in NeedsGrant /\ grants[NodeID[c]] = 0 THEN "grant" ELSE "reading")
  /\ UNCHANGED <<cut, PeerAt, KnownPeers, ConnCount, grantedPeers, grants, repVars>>

AddGrantStake(c) ==
  /\ conn[c] = "grant"
  /\ grants' = [grants EXCEPT ![NodeID[c]] = @ + 1]
  /\ Goto(c, "mark")
  /\ UNCHANGED <<cut, PeerAt, KnownPeers, ConnCount, grantedPeers, repVars>>

MarkGranted(c) ==
  /\ conn[c] = "mark"
  /\ grantedPeers' = grantedPeers \cup {NodeID[c]}
  /\ Goto(c, "reading")
  /\ UNCHANGED <<cut, PeerAt, KnownPeers, ConnCount, grants, repVars>>

-----------------------------------------------------------------------------
(* readLoop. *)

\* What handleMessage makes of the sender's score; a banned peer is not cut off.
handleMessage(c, delta) ==
  /\ conn[c] = "reading" /\ c \notin cut
  /\ AdjustScore(NodeID[c], delta)
  /\ UNCHANGED connVars

\* The connection breaks, or RemovePeer of another one closed it.
Disconnect(c) ==
  /\ conn[c] = "reading"
  /\ AdjustScore(NodeID[c], ScoreDisconnect)
  /\ Goto(c, "remove")
  /\ UNCHANGED <<cut, PeerAt, KnownPeers, ConnCount, grantedPeers, grants>>

\* The mutated form: the entry of the address is deleted.
ReleasedMutant(c) == [ConnCount EXCEPT ![IPOf(c)] = 0]

\* The mutated form: a connection that was dialled is taken off the count too.
ReleasedBelowMutant(c) ==
  IF PeerAt[Remote[c]] = NoConn THEN ConnCount ELSE [ConnCount EXCEPT ![IPOf(c)] = @ - 1]

\* The count after RemovePeer.
Released(c) ==
  IF PeerAt[Remote[c]] = NoConn THEN ConnCount
  ELSE [ConnCount EXCEPT ![IPOf(c)] = IF @ > 0 THEN @ - 1 ELSE @]

\* RemovePeer goes by the remote address: it closes the connection listed there,
\* which may be a later one, whose reads then fail.
RemovePeer(c) ==
  /\ conn[c] = "remove"
  /\ Goto(c, "closed")
  /\ cut' = cut \cup ({PeerAt[Remote[c]]} \ {NoConn})
  /\ PeerAt' = [PeerAt EXCEPT ![Remote[c]] = NoConn]
  /\ ConnCount' = Released(c)
  /\ UNCHANGED <<KnownPeers, grantedPeers, grants, repVars>>

-----------------------------------------------------------------------------

ConnStep(c) ==
  \/ Accept(c) \/ CheckBan(c) \/ CheckIP(c) \/ Connect(c)
  \/ HandshakeFails(c) \/ Handshake(c) \/ Register(c) \/ AddPeer(c)
  \/ CheckGranted(c) \/ CheckStake(c) \/ AddGrantStake(c) \/ MarkGranted(c)
  \/ Disconnect(c) \/ RemovePeer(c)

Next ==
  \/ \E c \in Conn : ConnStep(c)
  \/ \E p, c \in Conn : handleAddr(p, c)
  \/ \E c \in Conn, delta \in Delta : handleMessage(c, delta)
  \/ cleanupExpiredBans /\ UNCHANGED connVars
  \/ Tick /\ UNCHANGED connVars

Spec == Init /\ [][Next]_vars

\* The clock goes on and the ticker of cleanupLoop fires.
FairSpec ==
  /\ Spec
  /\ WF_vars(Tick /\ UNCHANGED connVars)
  /\ WF_vars(cleanupExpiredBans /\ UNCHANGED connVars)

-----------------------------------------------------------------------------

Pc == {"none", "checkBan", "checkIP", "handshake", "create", "add", "granted?", "stake?",
       "grant", "mark", "reading", "remove", "closed"}

\* The type invariant of the connections.
TypeOK ==
  /\ RepTypeOK
  /\ conn \in [Conn -> Pc] /\ cut \subseteq Conn
  /\ PeerAt \in [RemoteAddr -> Conn \cup {NoConn}]
  /\ Listed \subseteq KnownPeers /\ KnownPeers \subseteq RemoteAddr
  /\ ConnCount \in [Addr -> 0..MaxPerIP]
  /\ grantedPeers \subseteq PeerID
  /\ grants \in [PeerID -> Nat]

\* The connections of an address that have passed acceptLoop or Connect.
Open(ip) == {c \in Conn : IPOf(c) = ip /\ conn[c] \notin {"none", "checkBan", "checkIP", "closed"}}

\* The addresses the node itself has dialled.
Dialled == {IPOf(c) : c \in {d \in Conn \ Inbound : conn[d] # "none"}}

\* Of an address it has not dialled, a node never has more connections open than
\* it has counted, so never more than MaxPerIP, also when a connection replaces
\* another of the same remote address (acceptLoop, RemovePeer).
InboundCounted == \A ip \in Addr \ Dialled : Cardinality(Open(ip)) <= ConnCount[ip]

\* The comment of handleConn: the callback is synchronous "to ensure grant is
\* applied BEFORE processing blocks", also for a node that connects twice.
GrantBeforeBlocks ==
  \A c \in Conn : conn[c] = "reading" /\ NodeID[c] \in NeedsGrant => grants[NodeID[c]] > 0
=============================================================================
