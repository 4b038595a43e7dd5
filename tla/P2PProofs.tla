------------------------------ MODULE P2PProofs ------------------------------
(***************************************************************************)
(* Proofs about package p2p.  Reputation and Peers, which uses it: the     *)
(* scores stay within their bounds, a peer at or below the threshold is    *)
(* marked as banned, the address of a banned node is banned unless someone *)
(* bans or pardons there by hand, connections are counted, and stake is    *)
(* granted before blocks are read.  Gossip, for every set of nodes and     *)
(* connections: a node that has mined one block is slashed nowhere.        *)
(***************************************************************************)
EXTENDS Peers, Gossip, FiniteSetTheorems, TLAPS

\* Most steps have no arithmetic: Zenon is tried before the SMT solver.
USE ZenonT(2), SMTT(20), ZenonT(20)

-----------------------------------------------------------------------------
(* Reputation and Peers. *)

\* AdjustScore clamps.
LEMMA AdjustedInScore == ASSUME NEW s \in Score, NEW d \in Int PROVE Adjusted(s, d) \in Score
  BY DEF Adjusted, Score, MaxReputation, MinReputation

\* The first score of a peer is within the bounds.
LEMMA InitialInScore == InitialReputation \in Score /\ 0 \in Score
  BY DEF InitialReputation, Score, MaxReputation, MinReputation

\* A peer that was never scored has a typed record.
LEMMA NoReputationType == ASSUME NEW a \in Addr PROVE NoReputation(a) \in Rep
  BY InitialInScore DEF NoReputation, Rep

\* The changes of a score are integers.
LEMMA DeltaInt == Delta \subseteq Int
  BY ReputationAssumption DEF ScoreValidBlock, ScoreInvalidBlock, ScoreValidTx,
     ScoreInvalidTx, ScoreTimeout, ScoreDisconnect, ScoreProtocolError

\* A ban keeps the types.
LEMMA BanType ==
  ASSUME RepTypeOK, NEW n \in PeerID, NEW s \in Score, NEW until \in Nat, Ban(n, s, until)
  PROVE  peers' \in [PeerID -> Rep] /\ banned' \in [Addr -> Nat] /\ peers[n].Address \in Addr
<1>1. peers[n].Address \in Addr
  BY DEF RepTypeOK, Rep
<1> DEFINE r == [[[peers[n] EXCEPT !.Score = s] EXCEPT !.IsBanned = TRUE] EXCEPT !.BannedUntil = until]
<1>2. r \in Rep
  BY DEF RepTypeOK, Rep
<1>3. peers' = [peers EXCEPT ![n] = r]
  BY DEF Ban, RepTypeOK, Rep
<1>4. banned' \in [Addr -> Nat]
  BY <1>1 DEF Ban, RepTypeOK
<1> HIDE DEF r
<1> QED
  BY <1>1, <1>2, <1>3, <1>4 DEF RepTypeOK

\* The manager starts typed.
LEMMA RepTypeInit == RepInit => RepTypeOK
  BY NoReputationType DEF RepInit, RepTypeOK

\* AdjustScore keeps the types.
LEMMA AdjustType ==
  ASSUME RepTypeOK, NEW n \in PeerID, NEW delta \in Int, AdjustScore(n, delta)
  PROVE  RepTypeOK'
<1>1. peers[n].Score \in Score
  BY DEF RepTypeOK, Rep
<1> DEFINE s == Adjusted(peers[n].Score, delta)
<1>2. s \in Score
  BY <1>1, AdjustedInScore
<1>3. now' = now /\ touched' = touched
  BY DEF AdjustScore
<1> HIDE DEF s
<1>4. CASE peers[n].known /\ Bans(s, peers[n])
  <2>1. Ban(n, s, now + BanDuration)
    BY <1>4 DEF AdjustScore, s
  <2>2. now + BanDuration \in Nat
    BY ReputationAssumption DEF RepTypeOK
  <2> QED
    BY <2>1, <2>2, <1>2, <1>3, BanType DEF RepTypeOK
<1>5. CASE ~ (peers[n].known /\ Bans(s, peers[n]))
  <2>1. /\ peers' = [peers EXCEPT ![n].Score = IF peers[n].known THEN s ELSE @]
        /\ banned' = banned
    BY <1>5 DEF AdjustScore, s
  <2> QED
    BY <2>1, <1>2, <1>3 DEF RepTypeOK, Rep
<1> QED
  BY <1>4, <1>5

\* Every call of the reputation manager, without the bounds on the clock.
RepStep ==
  \/ \E n \in PeerID, a \in Addr : GetOrCreate(n, a)
  \/ \E n \in PeerID, delta \in Int : AdjustScore(n, delta)
  \/ cleanupExpiredBans
  \/ \E n \in PeerID, d \in 1..BanDuration : BanPeer(n, d)
  \/ \E n \in PeerID : UnbanPeer(n)
  \/ Tick

\* A step of the manager alone is a step it may take inside the node.
LEMMA RepNextIsRepStep == [RepNext]_repVars => [RepStep]_repVars
<1>1. ASSUME NEW n \in PeerID, NEW delta \in Delta, AdjustScore(n, delta) PROVE RepStep
  BY <1>1, DeltaInt DEF RepStep
<1>2. CASE RepNext
  BY <1>1, <1>2 DEF RepNext, RepStep
<1> QED BY <1>2

\* Every call of the manager keeps the types.
LEMMA RepTypeNext == RepTypeOK /\ [RepStep]_repVars => RepTypeOK'
<1> SUFFICES ASSUME RepTypeOK, [RepStep]_repVars PROVE RepTypeOK'
  OBVIOUS
<1>1. ASSUME NEW n \in PeerID, NEW a \in Addr, GetOrCreate(n, a) PROVE RepTypeOK'
  <2> DEFINE fresh == [NoReputation(a) EXCEPT !.known = TRUE]
  <2>1. fresh \in Rep
    BY InitialInScore DEF Rep, NoReputation
  <2>2. peers' = [peers EXCEPT ![n] = IF peers[n].known THEN peers[n] ELSE fresh]
    BY <1>1 DEF GetOrCreate, RepTypeOK
  <2> HIDE DEF fresh
  <2> QED
    BY <2>1, <2>2, <1>1 DEF GetOrCreate, RepTypeOK
<1>2. ASSUME NEW n \in PeerID, NEW delta \in Int, AdjustScore(n, delta) PROVE RepTypeOK'
  BY <1>2, AdjustType
<1>3. CASE cleanupExpiredBans
  BY <1>3, InitialInScore DEF cleanupExpiredBans, RepTypeOK, Rep
<1>4. ASSUME NEW n \in PeerID, NEW d \in 1..BanDuration, BanPeer(n, d) PROVE RepTypeOK'
  <2>1. peers[n].Score \in Score /\ now + d \in Nat
    BY ReputationAssumption DEF RepTypeOK, Rep
  <2> QED
    BY <2>1, <1>4, BanType DEF BanPeer, RepTypeOK
<1>5. ASSUME NEW n \in PeerID, UnbanPeer(n) PROVE RepTypeOK'
  <2> DEFINE r == [[peers[n] EXCEPT !.IsBanned = FALSE] EXCEPT !.Score = InitialReputation]
  <2>1. r \in Rep /\ peers[n].Address \in Addr
    BY InitialInScore DEF RepTypeOK, Rep
  <2>2. peers' = [peers EXCEPT ![n] = r]
    BY <1>5 DEF UnbanPeer, RepTypeOK, Rep
  <2> HIDE DEF r
  <2> QED
    BY <2>1, <2>2, <1>5 DEF UnbanPeer, RepTypeOK
<1>6. CASE Tick
  BY <1>6 DEF Tick, RepTypeOK
<1>7. CASE UNCHANGED repVars
  BY <1>7 DEF repVars, RepTypeOK
<1> QED
  BY <1>1, <1>2, <1>3, <1>4, <1>5, <1>6, <1>7 DEF RepStep

\* The scores of all peers stay within their bounds and the bans are times,
\* whatever is recorded about the peers (AdjustScore).
THEOREM RepTypeCorrect == RepSpec => []RepTypeOK
  BY RepTypeInit, RepNextIsRepStep, RepTypeNext, PTL DEF RepSpec

-----------------------------------------------------------------------------

\* No first score is at the threshold.
LEMMA LowScoreInit == RepInit => LowScoreIsBanned
  BY DEF RepInit, LowScoreIsBanned, NoReputation, InitialReputation, BanThreshold

\* Every call that lowers a score to the threshold marks the ban.
LEMMA LowScoreNext == RepTypeOK /\ LowScoreIsBanned /\ [RepStep]_repVars => LowScoreIsBanned'
<1> SUFFICES ASSUME RepTypeOK, LowScoreIsBanned, [RepStep]_repVars, NEW m \in PeerID
             PROVE  peers'[m].Score <= BanThreshold => peers'[m].IsBanned
  BY DEF LowScoreIsBanned
<1> DEFINE Goal == peers'[m].Score <= BanThreshold => peers'[m].IsBanned
<1>0. peers[m].Score <= BanThreshold => peers[m].IsBanned
  BY DEF LowScoreIsBanned
<1>1. ASSUME NEW n \in PeerID, NEW a \in Addr, GetOrCreate(n, a) PROVE Goal
  BY <1>1, <1>0 DEF GetOrCreate, NoReputation, RepTypeOK, InitialReputation, BanThreshold
<1>2. ASSUME NEW n \in PeerID, NEW delta \in Int, AdjustScore(n, delta) PROVE Goal
  BY <1>2, <1>0 DEF AdjustScore, Ban, Bans, RepTypeOK, Rep
<1>3. CASE cleanupExpiredBans
  <2>1. CASE m \in Forgiven
    <3>1. peers'[m] = [peers[m] EXCEPT !.IsBanned = FALSE, !.Score = 0]
      BY <1>3, <2>1 DEF cleanupExpiredBans
    <3>2. peers'[m].Score = 0
      BY <3>1 DEF RepTypeOK, Rep
    <3> QED
      BY <3>2 DEF BanThreshold
  <2>2. CASE m \notin Forgiven
    BY <1>3, <2>2, <1>0 DEF cleanupExpiredBans
  <2> QED
    BY <2>1, <2>2
<1>4. ASSUME NEW n \in PeerID, NEW d \in 1..BanDuration, BanPeer(n, d) PROVE Goal
  BY <1>4, <1>0 DEF BanPeer, Ban, RepTypeOK, Rep
<1>5. ASSUME NEW n \in PeerID, UnbanPeer(n) PROVE Goal
  BY <1>5, <1>0 DEF UnbanPeer, RepTypeOK, Rep, InitialReputation, BanThreshold
<1>6. CASE Tick
  BY <1>6, <1>0 DEF Tick
<1>7. CASE UNCHANGED repVars
  BY <1>7, <1>0 DEF repVars
<1> QED
  BY <1>1, <1>2, <1>3, <1>4, <1>5, <1>6, <1>7 DEF RepStep

\* No peer is left at or below the threshold unbanned (AdjustScore).
THEOREM LowScoresAreBanned == RepSpec => []LowScoreIsBanned
  BY RepTypeInit, RepNextIsRepStep, RepTypeNext, LowScoreInit, LowScoreNext, PTL DEF RepSpec

-----------------------------------------------------------------------------

\* The strengthening of AddressStaysBanned: no ban ends later than one that
\* would start now, and the ban of the address ends no earlier than the node's.
BanInv ==
  \A n \in PeerID : peers[n].IsBanned /\ peers[n].Address \notin touched =>
    /\ peers[n].BannedUntil <= now + BanDuration
    /\ now < peers[n].BannedUntil => peers[n].BannedUntil <= banned[peers[n].Address]

\* Nobody is banned at first.
LEMMA BanInvInit == RepInit => BanInv
  BY DEF RepInit, BanInv, NoReputation

\* Every call keeps the end of an address's ban at or after those of its nodes.
LEMMA BanInvNext == RepTypeOK /\ BanInv /\ [RepStep]_repVars => BanInv'
<1> SUFFICES ASSUME RepTypeOK, BanInv, [RepStep]_repVars, NEW m \in PeerID, peers'[m].IsBanned,
                    peers'[m].Address \notin touched'
             PROVE  /\ peers'[m].BannedUntil <= now' + BanDuration
                    /\ now' < peers'[m].BannedUntil =>
                         peers'[m].BannedUntil <= banned'[peers'[m].Address]
  BY DEF BanInv
<1> DEFINE Goal == /\ peers'[m].BannedUntil <= now' + BanDuration
                   /\ now' < peers'[m].BannedUntil =>
                        peers'[m].BannedUntil <= banned'[peers'[m].Address]
<1>0. /\ peers[m].IsBanned /\ peers[m].Address \notin touched =>
           /\ peers[m].BannedUntil <= now + BanDuration
           /\ now < peers[m].BannedUntil => peers[m].BannedUntil <= banned[peers[m].Address]
      /\ peers[m].BannedUntil \in Nat /\ now \in Nat /\ BanDuration \in Nat
      /\ peers[m].Address \in Addr /\ banned[peers[m].Address] \in Nat
  BY ReputationAssumption DEF BanInv, RepTypeOK, Rep
<1>1. ASSUME NEW n \in PeerID, NEW a \in Addr, GetOrCreate(n, a) PROVE Goal
  BY <1>1, <1>0 DEF GetOrCreate, NoReputation, RepTypeOK
<1>2. ASSUME NEW n \in PeerID, NEW delta \in Int, AdjustScore(n, delta) PROVE Goal
  <2> DEFINE s == Adjusted(peers[n].Score, delta)
  <2> HIDE DEF s
  <2>1. CASE peers[n].known /\ Bans(s, peers[n])
    <3>1. Ban(n, s, now + BanDuration) /\ now' = now /\ touched' = touched
      BY <2>1, <1>2 DEF AdjustScore, s
    <3>2. CASE m = n
      BY <3>1, <3>2, <1>0 DEF Ban, RepTypeOK, Rep
    <3>3. CASE m # n
      <4>1. peers'[m] = peers[m]
        BY <3>1, <3>3 DEF Ban, RepTypeOK
      <4>2. banned'[peers[m].Address] = banned[peers[m].Address]
            \/ banned'[peers[m].Address] = now + BanDuration
        BY <3>1, <1>0 DEF Ban, RepTypeOK
      <4> QED
        BY <4>1, <4>2, <3>1, <1>0
    <3> QED
      BY <3>2, <3>3
  <2>2. CASE ~ (peers[n].known /\ Bans(s, peers[n]))
    <3>1. /\ peers' = [peers EXCEPT ![n].Score = IF peers[n].known THEN s ELSE @]
          /\ banned' = banned /\ now' = now /\ touched' = touched
      BY <2>2, <1>2 DEF AdjustScore, s
    <3> QED
      BY <3>1, <1>0 DEF RepTypeOK, Rep
  <2> QED
    BY <2>1, <2>2
<1>3. CASE cleanupExpiredBans
  <2>1. peers'[m] = peers[m] /\ now' = now /\ touched' = touched
    BY <1>3 DEF cleanupExpiredBans, RepTypeOK, Rep
  <2>2. banned'[peers[m].Address] = IF now > banned[peers[m].Address] THEN 0
                                    ELSE banned[peers[m].Address]
    BY <1>3, <1>0 DEF cleanupExpiredBans, ExpiredAddresses
  <2> QED
    BY <2>1, <2>2, <1>0
<1>4. ASSUME NEW n \in PeerID, NEW d \in 1..BanDuration, BanPeer(n, d) PROVE Goal
  <2>1. peers'[m].Address = peers[m].Address
    BY <1>4 DEF BanPeer, Ban, RepTypeOK, Rep
  <2>2. m # n /\ peers[m].Address # peers[n].Address /\ peers[m].Address \notin touched
    BY <1>4, <2>1 DEF BanPeer
  <2>3. peers'[m] = peers[m] /\ banned'[peers[m].Address] = banned[peers[m].Address] /\ now' = now
    BY <1>4, <2>2, <1>0 DEF BanPeer, Ban, RepTypeOK
  <2> QED
    BY <2>2, <2>3, <1>0
<1>5. ASSUME NEW n \in PeerID, UnbanPeer(n) PROVE Goal
  <2>1. peers'[m].Address = peers[m].Address
    BY <1>5 DEF UnbanPeer, RepTypeOK, Rep
  <2>2. m # n /\ peers[m].Address # peers[n].Address /\ peers[m].Address \notin touched
    BY <1>5, <2>1 DEF UnbanPeer
  <2>3. peers'[m] = peers[m] /\ banned'[peers[m].Address] = banned[peers[m].Address] /\ now' = now
    BY <1>5, <2>2, <1>0 DEF UnbanPeer, RepTypeOK
  <2> QED
    BY <2>2, <2>3, <1>0
<1>6. CASE Tick
  BY <1>6, <1>0 DEF Tick
<1>7. CASE UNCHANGED repVars
  BY <1>7, <1>0 DEF repVars
<1> QED
  BY <1>1, <1>2, <1>3, <1>4, <1>5, <1>6, <1>7 DEF RepStep

\* The strengthened invariant implies that addresses stay banned.
LEMMA BanInvBans == RepTypeOK /\ BanInv => AddressStaysBanned
<1> SUFFICES ASSUME RepTypeOK, BanInv, NEW n \in PeerID, IsBanned(n),
                    peers[n].Address \notin touched
             PROVE  now < banned[peers[n].Address]
  BY DEF AddressStaysBanned, IsAddressBanned
<1>1. now \in Nat /\ peers[n].BannedUntil \in Nat /\ banned[peers[n].Address] \in Nat
  BY DEF RepTypeOK, Rep
<1> QED
  BY <1>1 DEF BanInv, IsBanned

\* The address of a banned node is banned, unless someone banned or pardoned a
\* node of that address by hand (AdjustScore, cleanupExpiredBans).
THEOREM AddressesStayBanned == RepSpec => []AddressStaysBanned
  BY RepTypeInit, RepNextIsRepStep, RepTypeNext, BanInvInit, BanInvNext, BanInvBans, PTL DEF RepSpec

-----------------------------------------------------------------------------
(* The connections. *)

\* Every step of a node is one call of its reputation manager, or none.
LEMMA NextIsRepStep == [Next]_vars => [RepStep]_repVars
<1> SUFFICES ASSUME [Next]_vars PROVE [RepStep]_repVars
  OBVIOUS
<1>0. ScoreDisconnect \in Int
  BY DEF ScoreDisconnect
<1>1. ASSUME NEW c \in Conn, ConnStep(c) PROVE [RepStep]_repVars
  <2>1. NodeID[c] \in PeerID /\ IPOf(c) \in Addr
    BY PeersAssumption DEF IPOf
  <2>2. CASE Register(c)
    BY <2>1, <2>2 DEF Register, RepStep
  <2>3. CASE Disconnect(c)
    BY <2>1, <2>3, <1>0 DEF Disconnect, RepStep
  <2> QED BY <1>1, <2>2, <2>3 DEF ConnStep, Accept, CheckBan, CheckIP, Connect, HandshakeFails,
       Handshake, AddPeer, CheckGranted, CheckStake, AddGrantStake, MarkGranted, RemovePeer
<1>2. ASSUME NEW p \in Conn, NEW c \in Conn, handleAddr(p, c) PROVE [RepStep]_repVars
  BY <1>2 DEF handleAddr
<1>3. ASSUME NEW c \in Conn, NEW delta \in Delta, handleMessage(c, delta) PROVE [RepStep]_repVars
  BY <1>3, DeltaInt, PeersAssumption DEF handleMessage, RepStep
<1>4. CASE UNCHANGED vars
  BY <1>4 DEF vars
<1> QED BY <1>1, <1>2, <1>3, <1>4 DEF Next, RepStep

\* In a running node too, where nobody bans by hand, acceptLoop turns the
\* address of a banned node away and no low score goes unnoticed.
THEOREM NodeKeepsBans == Spec => [](AddressStaysBanned /\ LowScoreIsBanned)
<1>1. Init => RepInit
  BY DEF Init
<1> QED BY <1>1, RepTypeInit, NextIsRepStep, RepTypeNext, BanInvInit, BanInvNext, BanInvBans,
     LowScoreInit, LowScoreNext, PTL DEF Spec

-----------------------------------------------------------------------------

\* The fields of the connections, apart from the reputation.
ConnTypeOK ==
  /\ conn \in [Conn -> Pc] /\ cut \subseteq Conn
  /\ PeerAt \in [RemoteAddr -> Conn \cup {NoConn}]
  /\ Listed \subseteq KnownPeers /\ KnownPeers \subseteq RemoteAddr
  /\ ConnCount \in [Addr -> 0..MaxPerIP]
  /\ grantedPeers \subseteq PeerID
  /\ grants \in [PeerID -> Nat]

\* Where a connection is and what it is about.
LEMMA ConnFacts ==
  ASSUME NEW c \in Conn
  PROVE  /\ Remote[c] \in RemoteAddr /\ IPOf(c) \in Addr /\ NodeID[c] \in PeerID
         /\ c # NoConn
BY PeersAssumption DEF RemoteAddr, IPOf

\* A step that only moves a connection on.
LEMMA MovesOn ==
  ASSUME ConnTypeOK, NEW c \in Conn, NEW pc \in Pc, Goto(c, pc),
         UNCHANGED <<cut, PeerAt, KnownPeers, ConnCount, grantedPeers, grants>>
  PROVE  ConnTypeOK'
BY DEF ConnTypeOK, Goto, Listed

\* Every step of a connection keeps the types.
LEMMA ConnStepType ==
  ASSUME ConnTypeOK, NEW c \in Conn, ConnStep(c)
  PROVE  ConnTypeOK'
<1>0. /\ Remote[c] \in RemoteAddr /\ IPOf(c) \in Addr /\ NodeID[c] \in PeerID /\ c # NoConn
  BY ConnFacts
<1>1. CASE Accept(c)
  BY <1>1, MovesOn DEF Accept, Pc
<1>2. CASE CheckBan(c)
  BY <1>2, MovesOn DEF CheckBan, Pc
<1>3. CASE CheckIP(c)
  <2>1. CASE Full(IPOf(c))
    BY <1>3, <2>1, MovesOn DEF CheckIP, Pc
  <2>2. CASE ~ Full(IPOf(c))
    <3>1. ConnCount[IPOf(c)] + 1 \in 0..MaxPerIP
      BY <1>0, <2>2, PeersAssumption DEF Full, ConnTypeOK
    <3>2. ConnCount' \in [Addr -> 0..MaxPerIP]
      BY <1>3, <2>2, <3>1 DEF CheckIP, ConnTypeOK
    <3> QED BY <1>3, <2>2, <3>2 DEF CheckIP, Goto, ConnTypeOK, Listed, Pc
  <2> QED BY <2>1, <2>2
<1>4. CASE Connect(c)
  BY <1>4, MovesOn DEF Connect, Pc
<1>5. CASE HandshakeFails(c)
  BY <1>5, MovesOn DEF HandshakeFails, Pc
<1>6. CASE Handshake(c)
  BY <1>6, MovesOn DEF Handshake, Pc
<1>7. CASE Register(c)
  BY <1>7, MovesOn DEF Register, Pc
<1>8. CASE AddPeer(c)
  <2>1. Listed' \subseteq Listed \cup {Remote[c]}
    BY <1>8, <1>0 DEF AddPeer, Listed, ConnTypeOK
  <2> QED BY <1>8, <1>0, <2>1 DEF AddPeer, Goto, ConnTypeOK, Pc
<1>9. CASE CheckGranted(c)
  BY <1>9, MovesOn DEF CheckGranted, Pc
<1>10. CASE CheckStake(c)
  BY <1>10, MovesOn DEF CheckStake, Pc
<1>11. CASE AddGrantStake(c)
  <2>1. grants' \in [PeerID -> Nat]
    BY <1>11, <1>0 DEF AddGrantStake, ConnTypeOK
  <2> QED BY <1>11, <2>1 DEF AddGrantStake, Goto, ConnTypeOK, Listed, Pc
<1>12. CASE MarkGranted(c)
  BY <1>12, <1>0 DEF MarkGranted, Goto, ConnTypeOK, Listed, Pc
<1>13. CASE Disconnect(c)
  BY <1>13, MovesOn DEF Disconnect, Pc
<1>14. CASE RemovePeer(c)
  <2>1. Listed' \subseteq Listed
    BY <1>14, <1>0 DEF RemovePeer, Listed, ConnTypeOK
  <2>2. ConnCount' \in [Addr -> 0..MaxPerIP]
    <3>1. ConnCount[IPOf(c)] \in 0..MaxPerIP
      BY <1>0 DEF ConnTypeOK
    <3>2. ConnCount[IPOf(c)] > 0 => ConnCount[IPOf(c)] - 1 \in 0..MaxPerIP
      BY <3>1, PeersAssumption
    <3> QED BY <1>14, <1>0, <3>1, <3>2 DEF RemovePeer, Released, ConnTypeOK
  <2>3. cut' \subseteq Conn /\ PeerAt' \in [RemoteAddr -> Conn \cup {NoConn}]
    BY <1>14, <1>0 DEF RemovePeer, ConnTypeOK
  <2>4. conn' \in [Conn -> Pc]
    BY <1>14 DEF RemovePeer, Goto, ConnTypeOK, Pc
  <2> QED BY <1>14, <2>1, <2>2, <2>3, <2>4 DEF RemovePeer, ConnTypeOK
<1> QED BY <1>1, <1>2, <1>3, <1>4, <1>5, <1>6, <1>7, <1>8, <1>9, <1>10, <1>11, <1>12, <1>13, <1>14
        DEF ConnStep

\* The node starts without connections, typed.
LEMMA ConnTypeInit == Init => ConnTypeOK
  BY PeersAssumption DEF Init, ConnTypeOK, Listed, Pc

\* Every step of the node keeps the types.
LEMMA ConnTypeNext == ConnTypeOK /\ [Next]_vars => ConnTypeOK'
<1> SUFFICES ASSUME ConnTypeOK, [Next]_vars PROVE ConnTypeOK'
  OBVIOUS
<1>1. ASSUME NEW c \in Conn, ConnStep(c) PROVE ConnTypeOK'
  BY <1>1, ConnStepType
<1>2. ASSUME NEW p \in Conn, NEW c \in Conn, handleAddr(p, c) PROVE ConnTypeOK'
  <2>1. Remote[c] \in RemoteAddr
    BY ConnFacts
  <2> QED BY <1>2, <2>1 DEF handleAddr, Goto, ConnTypeOK, Listed, Pc
<1>3. CASE UNCHANGED connVars
  BY <1>3 DEF connVars, ConnTypeOK, Listed
<1>4. CASE UNCHANGED vars
  BY <1>4, <1>3 DEF vars
<1> QED BY <1>1, <1>2, <1>3, <1>4 DEF Next, handleMessage

\* Every connection is somewhere in its life, the peers that are listed are
\* known, and no address is counted beyond the limit (CheckIP, RemovePeer).
THEOREM PeersTypeCorrect == Spec => []TypeOK
<1>1. Init => RepInit
  BY DEF Init
<1>2. RepTypeOK /\ ConnTypeOK => TypeOK
  BY DEF TypeOK, ConnTypeOK
<1> QED BY <1>1, <1>2, RepTypeInit, NextIsRepStep, RepTypeNext, ConnTypeInit, ConnTypeNext, PTL DEF Spec

-----------------------------------------------------------------------------

\* The connections of an address can be counted.
LEMMA OpenFinite ==
  ASSUME NEW ip
  PROVE  IsFiniteSet(Open(ip)) /\ Cardinality(Open(ip)) \in Nat
<1>1. Open(ip) \subseteq Conn
  BY DEF Open
<1> QED BY <1>1, PeersAssumption, FS_Subset, FS_CardinalityType

\* The open connections of an address are finitely many after a step, too.
LEMMA OpenFinitePrime ==
  ASSUME NEW ip
  PROVE  IsFiniteSet(Open(ip)') /\ Cardinality(Open(ip)') \in Nat
<1>1. Open(ip)' \subseteq Conn
  BY DEF Open
<1> QED BY <1>1, PeersAssumption, FS_Subset, FS_CardinalityType

\* An address that has been dialled stays so.
LEMMA DialledGrows ==
  ASSUME ConnTypeOK, NEW c \in Conn, NEW pc \in Pc \ {"none"}, Goto(c, pc)
  PROVE  /\ Dialled \subseteq Dialled'
         /\ c \notin Inbound => IPOf(c) \in Dialled'
<1>1. \A d \in Conn : conn[d] # "none" => conn'[d] # "none"
  BY DEF Goto, ConnTypeOK
<1>2. conn'[c] # "none"
  BY DEF Goto, ConnTypeOK
<1> QED BY <1>1, <1>2 DEF Dialled, IPOf

\* A step that opens no connection of an address that was not dialled, and
\* counts nothing.
LEMMA CountKept ==
  ASSUME ConnTypeOK, InboundCounted, NEW c \in Conn, NEW pc \in Pc \ {"none"}, Goto(c, pc),
         ConnCount' = ConnCount,
         \/ c \notin Inbound
         \/ pc \in {"checkBan", "checkIP", "closed"}
         \/ conn[c] \notin {"none", "checkBan", "checkIP", "closed"}
  PROVE  InboundCounted'
<1> SUFFICES ASSUME NEW ip \in Addr \ Dialled'
             PROVE  Cardinality(Open(ip)') <= ConnCount[ip]
  BY DEF InboundCounted
<1>1. ip \notin Dialled /\ (c \notin Inbound => IPOf(c) # ip)
  BY DialledGrows
<1>2. Open(ip)' \subseteq Open(ip)
  BY <1>1 DEF Goto, ConnTypeOK, Open, IPOf
<1>3. Cardinality(Open(ip)') <= Cardinality(Open(ip))
  BY <1>2, OpenFinite, FS_Subset
<1>4. Cardinality(Open(ip)) <= ConnCount[ip] /\ ConnCount[ip] \in Nat
  BY <1>1, PeersAssumption DEF InboundCounted, ConnTypeOK
<1> QED BY <1>3, <1>4, OpenFinite, OpenFinitePrime

\* acceptLoop counts the connection it lets through.
LEMMA CountAccepted ==
  ASSUME ConnTypeOK, InboundCounted, NEW c \in Conn, CheckIP(c), ~ Full(IPOf(c))
  PROVE  InboundCounted'
<1>0. Goto(c, "handshake") /\ ConnCount' = [ConnCount EXCEPT ![IPOf(c)] = @ + 1]
  BY DEF CheckIP
<1> SUFFICES ASSUME NEW ip \in Addr \ Dialled'
             PROVE  Cardinality(Open(ip)') <= ConnCount'[ip]
  BY DEF InboundCounted
<1>1. ip \notin Dialled
  BY <1>0, DialledGrows DEF Pc
<1>2. Cardinality(Open(ip)) <= ConnCount[ip] /\ ConnCount[ip] \in Nat
  BY <1>1, PeersAssumption DEF InboundCounted, ConnTypeOK
<1>3. CASE IPOf(c) = ip
  <2>1. Open(ip)' \subseteq Open(ip) \cup {c}
    BY <1>0 DEF Goto, ConnTypeOK, Open
  <2>2. /\ IsFiniteSet(Open(ip) \cup {c})
        /\ Cardinality(Open(ip) \cup {c}) <= Cardinality(Open(ip)) + 1
    <3>1. /\ IsFiniteSet(Open(ip) \cup {c})
          /\ Cardinality(Open(ip) \cup {c}) =
               IF c \in Open(ip) THEN Cardinality(Open(ip)) ELSE Cardinality(Open(ip)) + 1
      BY OpenFinite, FS_AddElement
    <3> QED BY <3>1, OpenFinite
  <2>3. Cardinality(Open(ip)') <= Cardinality(Open(ip) \cup {c})
    BY <2>1, <2>2, FS_Subset
  <2>4. ConnCount'[ip] = ConnCount[ip] + 1
    BY <1>0, <1>3 DEF ConnTypeOK
  <2>5. Cardinality(Open(ip) \cup {c}) \in Nat
    BY <2>2, FS_CardinalityType
  <2> QED BY <1>2, <2>2, <2>3, <2>4, <2>5, OpenFinite, OpenFinitePrime
<1>4. CASE IPOf(c) # ip
  <2>1. Open(ip)' = Open(ip)
    BY <1>0, <1>4 DEF Goto, ConnTypeOK, Open, IPOf
  <2>2. ConnCount'[ip] = ConnCount[ip]
    BY <1>0, <1>4 DEF ConnTypeOK
  <2> QED BY <1>2, <2>1, <2>2
<1> QED BY <1>3, <1>4

\* RemovePeer takes away one count at most, and its connection is open until
\* then.
LEMMA CountReleased ==
  ASSUME ConnTypeOK, InboundCounted, NEW c \in Conn, RemovePeer(c)
  PROVE  InboundCounted'
<1>0. conn[c] = "remove" /\ Goto(c, "closed") /\ ConnCount' = Released(c) /\ IPOf(c) \in Addr
  BY ConnFacts DEF RemovePeer
<1> SUFFICES ASSUME NEW ip \in Addr \ Dialled'
             PROVE  Cardinality(Open(ip)') <= ConnCount'[ip]
  BY DEF InboundCounted
<1>1. ip \notin Dialled
  BY <1>0, DialledGrows DEF Pc
<1>2. Cardinality(Open(ip)) <= ConnCount[ip] /\ ConnCount[ip] \in Nat
  BY <1>1, PeersAssumption DEF InboundCounted, ConnTypeOK
<1>3. CASE IPOf(c) = ip
  <2>1. c \in Open(ip) /\ Open(ip)' = Open(ip) \ {c}
    BY <1>0, <1>3 DEF Goto, ConnTypeOK, Open, IPOf
  <2>2. Cardinality(Open(ip)') = Cardinality(Open(ip)) - 1
    BY <2>1, OpenFinite, FS_RemoveElement
  <2>3. ConnCount'[ip] >= ConnCount[ip] - 1
    BY <1>0, <1>2, <1>3 DEF Released, ConnTypeOK
  <2>4. ConnCount'[ip] \in Int
    BY <1>0, <1>2, <1>3 DEF Released, ConnTypeOK
  <2> QED BY <1>2, <2>2, <2>3, <2>4, OpenFinite
<1>4. CASE IPOf(c) # ip
  <2>1. Open(ip)' = Open(ip)
    BY <1>0, <1>4 DEF Goto, ConnTypeOK, Open, IPOf
  <2>2. ConnCount'[ip] = ConnCount[ip]
    BY <1>0, <1>4 DEF Released, ConnTypeOK
  <2> QED BY <1>2, <2>1, <2>2
<1> QED BY <1>3, <1>4

\* Every step keeps the open connections within the count.
LEMMA CountedNext == ConnTypeOK /\ InboundCounted /\ [Next]_vars => InboundCounted'
<1> SUFFICES ASSUME ConnTypeOK, InboundCounted, [Next]_vars PROVE InboundCounted'
  OBVIOUS
<1>1. ASSUME NEW c \in Conn, ConnStep(c) PROVE InboundCounted'
  <2>1. CASE Accept(c)
    BY <2>1, CountKept DEF Accept, Pc
  <2>2. CASE CheckBan(c)
    BY <2>2, CountKept DEF CheckBan, Pc
  <2>3. CASE CheckIP(c)
    <3>1. CASE Full(IPOf(c))
      BY <2>3, <3>1, CountKept DEF CheckIP, Pc
    <3> QED BY <2>3, <3>1, CountAccepted
  <2>4. CASE Connect(c)
    BY <2>4, CountKept DEF Connect, Pc
  <2>5. CASE HandshakeFails(c) \/ Handshake(c)
    BY <2>5, CountKept DEF HandshakeFails, Handshake, Pc
  <2>6. CASE Register(c) \/ AddPeer(c)
    BY <2>6, CountKept DEF Register, AddPeer, Pc
  <2>7. CASE CheckGranted(c) \/ CheckStake(c)
    BY <2>7, CountKept DEF CheckGranted, CheckStake, Pc
  <2>8. CASE AddGrantStake(c) \/ MarkGranted(c)
    BY <2>8, CountKept DEF AddGrantStake, MarkGranted, Pc
  <2>9. CASE Disconnect(c)
    BY <2>9, CountKept DEF Disconnect, Pc
  <2>10. CASE RemovePeer(c)
    BY <2>10, CountReleased
  <2> QED BY <1>1, <2>1, <2>2, <2>3, <2>4, <2>5, <2>6, <2>7, <2>8, <2>9, <2>10 DEF ConnStep
<1>2. ASSUME NEW p \in Conn, NEW c \in Conn, handleAddr(p, c) PROVE InboundCounted'
  BY <1>2, CountKept DEF handleAddr, Pc
<1>3. CASE UNCHANGED connVars
  BY <1>3 DEF connVars, InboundCounted, Dialled, Open, IPOf
<1>4. CASE UNCHANGED vars
  BY <1>4, <1>3 DEF vars
<1> QED BY <1>1, <1>2, <1>3, <1>4 DEF Next, handleMessage

\* Of an address it has not dialled, a node never has more connections open
\* than it has counted (acceptLoop, RemovePeer).
THEOREM InboundIsCounted == Spec => []InboundCounted
<1>1. Init => InboundCounted
  <2> SUFFICES ASSUME Init, NEW ip \in Addr PROVE Cardinality(Open(ip)) <= ConnCount[ip]
    BY DEF InboundCounted
  <2>1. Open(ip) = {}
    BY DEF Init, Open
  <2> QED BY <2>1, FS_EmptySet DEF Init
<1> QED BY <1>1, ConnTypeInit, ConnTypeNext, CountedNext, PTL DEF Spec

-----------------------------------------------------------------------------

\* The strengthening of GrantBeforeBlocks: who is marked as granted, or is about
\* to be, has a grant.
GrantInv ==
  /\ \A n \in grantedPeers : grants[n] > 0
  /\ \A c \in Conn : conn[c] = "mark" => grants[NodeID[c]] > 0
  /\ GrantBeforeBlocks

\* A connection that moves on without a grant and does not start to read.
LEMMA GrantKept ==
  ASSUME ConnTypeOK, GrantInv, NEW c \in Conn, NEW pc, Goto(c, pc), pc # "mark",
         grantedPeers' = grantedPeers, grants' = grants,
         pc = "reading" /\ NodeID[c] \in NeedsGrant => grants[NodeID[c]] > 0
  PROVE  GrantInv'
BY DEF ConnTypeOK, GrantInv, GrantBeforeBlocks, Goto

\* Every step keeps the grant ahead of the read loop.
LEMMA GrantNext == ConnTypeOK /\ GrantInv /\ [Next]_vars => GrantInv'
<1> SUFFICES ASSUME ConnTypeOK, GrantInv, [Next]_vars PROVE GrantInv'
  OBVIOUS
<1>0. grants \in [PeerID -> Nat]
  BY DEF ConnTypeOK
<1>1. ASSUME NEW c \in Conn, ConnStep(c) PROVE GrantInv'
  <2>0. NodeID[c] \in PeerID
    BY ConnFacts
  <2>1. CASE Accept(c) \/ CheckBan(c) \/ Connect(c)
    BY <2>1, GrantKept DEF Accept, CheckBan, Connect
  <2>2. CASE CheckIP(c)
    BY <2>2, GrantKept DEF CheckIP
  <2>3. CASE HandshakeFails(c) \/ Handshake(c) \/ Register(c)
    BY <2>3, GrantKept DEF HandshakeFails, Handshake, Register
  <2>4. CASE AddPeer(c)
    BY <2>4, GrantKept DEF AddPeer
  <2>5. CASE CheckGranted(c)
    <3>1. NodeID[c] \in grantedPeers => grants[NodeID[c]] > 0
      BY DEF GrantInv
    <3> QED BY <2>5, <3>1, GrantKept DEF CheckGranted
  <2>6. CASE CheckStake(c)
    <3>1. grants[NodeID[c]] # 0 => grants[NodeID[c]] > 0
      BY <1>0, <2>0
    <3> QED BY <2>6, <3>1, GrantKept DEF CheckStake
  <2>7. CASE AddGrantStake(c)
    <3>1. /\ \A n \in PeerID : grants[n] > 0 => grants'[n] > 0
          /\ grants'[NodeID[c]] > 0
      BY <2>7, <1>0, <2>0 DEF AddGrantStake
    <3>2. \A d \in Conn : NodeID[d] \in PeerID
      BY ConnFacts
    <3>3. grantedPeers' = grantedPeers /\ grantedPeers \subseteq PeerID
      BY <2>7 DEF AddGrantStake, ConnTypeOK
    <3>4. \A d \in Conn : conn'[d] = IF d = c THEN "mark" ELSE conn[d]
      BY <2>7 DEF AddGrantStake, Goto, ConnTypeOK
    <3> QED BY <3>1, <3>2, <3>3, <3>4 DEF GrantInv, GrantBeforeBlocks
  <2>8. CASE MarkGranted(c)
    <3>1. grants' = grants /\ grantedPeers' = grantedPeers \cup {NodeID[c]} /\ grants[NodeID[c]] > 0
      BY <2>8 DEF MarkGranted, GrantInv
    <3>2. \A d \in Conn : conn'[d] = IF d = c THEN "reading" ELSE conn[d]
      BY <2>8 DEF MarkGranted, Goto, ConnTypeOK
    <3> QED BY <3>1, <3>2 DEF GrantInv, GrantBeforeBlocks
  <2>9. CASE Disconnect(c) \/ RemovePeer(c)
    BY <2>9, GrantKept DEF Disconnect, RemovePeer
  <2> QED BY <1>1, <2>1, <2>2, <2>3, <2>4, <2>5, <2>6, <2>7, <2>8, <2>9 DEF ConnStep
<1>2. ASSUME NEW p \in Conn, NEW c \in Conn, handleAddr(p, c) PROVE GrantInv'
  BY <1>2, GrantKept DEF handleAddr
<1>3. CASE UNCHANGED connVars
  BY <1>3 DEF connVars, GrantInv, GrantBeforeBlocks
<1>4. CASE UNCHANGED vars
  BY <1>4, <1>3 DEF vars
<1> QED BY <1>1, <1>2, <1>3, <1>4 DEF Next, handleMessage

\* No block of a node that needs a grant is read before its grant is applied,
\* also when the node is connected several times (OnPeerConnected of main.go).
THEOREM GrantsBeforeBlocks == Spec => []GrantBeforeBlocks
<1>1. Init => GrantInv
  BY DEF Init, GrantInv, GrantBeforeBlocks
<1>2. GrantInv => GrantBeforeBlocks
  BY DEF GrantInv
<1> QED BY <1>1, <1>2, ConnTypeInit, ConnTypeNext, GrantNext, PTL DEF Spec

-----------------------------------------------------------------------------
(* Gossip. *)

\* The blocks that a node, and that anybody, has mined so far.
MadeBy(n, h) == {Blocks[n][i] : i \in 1..h[n]}
MadeUpTo(h) == UNION {MadeBy(n, h) : n \in Node}
Made == MadeUpTo(height)

\* An end works on blocks that were mined.
EndOK(x, made) ==
  /\ x \in EndState
  /\ x.b # NoBlock => x.b \in x.vs
  /\ x.b # NoBlock <=> x.pc \in {"add", "rebroadcast"}
  /\ x.vs \subseteq made

EndsInv ==
  /\ end \in [End -> EndState]
  /\ \A e \in End : EndOK(end[e], Made)

\* Only an open connection carries messages, and only blocks that were mined.
InboxInv ==
  /\ up \subseteq Link
  /\ inbox \in [End -> SUBSET Message]
  /\ \A e \in End : inbox[e] # {} => Up(e)
  /\ \A e \in End : \A msg \in inbox[e] : msg.vs \subseteq Made

\* A node has, and its slasher records, only blocks that were mined.
NodesInv ==
  /\ Vertices \in [Node -> SUBSET Block] /\ signed \in [Node -> SUBSET Block]
  /\ \A n \in Node : Vertices[n] \subseteq Made /\ signed[n] \subseteq Made

\* The miners, and the validators with enough voting power.
MinersInv ==
  /\ enough \in [Node -> SUBSET Node] /\ slashed \in [Node -> SUBSET Node]
  /\ mining \in [Node -> Block \cup {NoBlock}]
  /\ \A n \in Node : mining[n] # NoBlock => mining[n] \in Made
  /\ height \in [Node -> Nat]
  /\ \A n \in Node : height[n] \in 0 .. Len(Blocks[n])
  /\ faults \in 0 .. MaxFaults
  /\ HonestUnslashed

\* The inductive invariant.
GossipInv == EndsInv /\ InboxInv /\ NodesInv /\ MinersInv

-----------------------------------------------------------------------------

\* A block has the author that mines it.
LEMMA AuthorMines ==
  ASSUME NEW n \in Node, NEW b \in Mined(n)
  PROVE  b \in Block /\ Author[b] = n
<1>1. b \in Block
  BY DEF Block
<1>2. \A m \in Node : b \in Mined(m) => m = n
  BY GossipAssumption
<1>3. Author[b] = CHOOSE m \in Node : b \in Mined(m)
  BY <1>1 DEF Author
<1> QED
  BY <1>1, <1>2, <1>3

\* Every block has an author among the nodes.
LEMMA AuthorIsNode == ASSUME NEW b \in Block PROVE Author[b] \in Node /\ b \in Mined(Author[b])
  BY AuthorMines DEF Block

\* What was mined stays mined, and a node mines in the order of its blocks.
LEMMA MadeGrows ==
  ASSUME NEW h \in [Node -> Nat], NEW k \in [Node -> Nat], \A n \in Node : h[n] <= k[n]
  PROVE  MadeUpTo(h) \subseteq MadeUpTo(k)
<1>1. \A n \in Node : 1..h[n] \subseteq 1..k[n]
  OBVIOUS
<1> QED
  BY <1>1 DEF MadeUpTo, MadeBy

\* The blocks mined so far are blocks, each of its miner.
LEMMA MadeByAuthor ==
  ASSUME MinersInv, NEW b \in Made
  PROVE  b \in Block /\ Author[b] \in Node /\ b \in MadeBy(Author[b], height)
<1>1. PICK n \in Node : b \in MadeBy(n, height)
  BY DEF Made, MadeUpTo
<1>2. PICK i \in 1..height[n] : b = Blocks[n][i]
  BY <1>1 DEF MadeBy
<1>3. i \in DOMAIN Blocks[n]
  <2>1. Blocks[n] \in Seq(Block) /\ DOMAIN Blocks[n] = 1..Len(Blocks[n]) /\ Len(Blocks[n]) \in Nat
    BY GossipAssumption
  <2>2. height[n] \in 0 .. Len(Blocks[n])
    BY DEF MinersInv
  <2> QED
    BY <2>1, <2>2
<1>4. b \in Mined(n)
  BY <1>2, <1>3 DEF Mined
<1> QED
  BY <1>1, <1>4, AuthorMines

\* An author that mined one block only has one block among those mined.
LEMMA OneMade ==
  ASSUME MinersInv, NEW b \in Made, NEW d \in Made, Author[b] = Author[d], height[Author[b]] < 2
  PROVE  b = d
<1>1. PICK i \in 1..height[Author[b]] : b = Blocks[Author[b]][i]
  BY MadeByAuthor DEF MadeBy
<1>2. PICK j \in 1..height[Author[b]] : d = Blocks[Author[b]][j]
  BY MadeByAuthor DEF MadeBy
<1>3. height[Author[b]] \in Nat
  BY MadeByAuthor DEF MinersInv
<1>4. i = j
  BY <1>3
<1> QED
  BY <1>1, <1>2, <1>4

\* The other end of a connection.
LEMMA OtherEnd ==
  ASSUME NEW e \in End
  PROVE  /\ Other[e] \in End /\ Other[e] # e
         /\ Host(e) \in Node /\ Host(Other[e]) \in Node
         /\ e[1] \in Link /\ Other[e][1] = e[1]
<1>1. e[1] \in Link /\ e[2] \in Node /\ e[2] \in Ends[e[1]]
  BY DEF End
<1>2. Ends[e[1]] \subseteq Node /\ IsFiniteSet(Ends[e[1]]) /\ Cardinality(Ends[e[1]]) = 2
  BY <1>1, GossipAssumption
<1>3. \E n \in Ends[e[1]] : n # e[2]
  <2>1. Ends[e[1]] # {e[2]}
    <3>1. Cardinality({e[2]}) = 1
      BY FS_Singleton
    <3> QED
      BY <1>2, <3>1
  <2> QED
    BY <1>1, <2>1
<1>4. PICK n \in Ends[e[1]] : n # e[2] /\ Other[e] = <<e[1], n>>
  BY <1>3 DEF Other
<1>5. <<e[1], n>> \in End
  BY <1>1, <1>2, <1>4 DEF End
<1>6. Other[e][1] = e[1] /\ Other[e][2] = n
  BY <1>4
<1> QED
  BY <1>1, <1>2, <1>4, <1>5, <1>6 DEF Host

-----------------------------------------------------------------------------
(* The ends and the messages after a step. *)

\* The block that marks that there is none.
LEMMA NoBlockIsNone == NoBlock \notin Block
  BY GossipAssumption

\* An end that does not move stays in order when more is mined.
LEMMA EndKept ==
  ASSUME NEW x, NEW m, NEW k, EndOK(x, m), m \subseteq k
  PROVE  EndOK(x, k)
  BY DEF EndOK

\* No end moves.
LEMMA EndsKept ==
  ASSUME EndsInv, end' = end, Made \subseteq Made'
  PROVE  EndsInv'
<1>1. \A e \in End : Host(e) \in Node
  BY OtherEnd
<1>2. \A e \in End : EndOK(end[e], Made')
  BY <1>1, EndKept DEF EndsInv
<1> QED
  BY <1>2 DEF EndsInv, Host

\* One end moves.
LEMMA EndMoves ==
  ASSUME EndsInv, NEW e \in End, NEW x, end' = [end EXCEPT ![e] = x],
         EndOK(x, Made'), Made \subseteq Made'
  PROVE  EndsInv'
<1>1. \A f \in End : Host(f) \in Node
  BY OtherEnd
<1>2. \A f \in End : EndOK(end[f], Made')
  BY <1>1, EndKept DEF EndsInv
<1>3. x \in EndState
  BY DEF EndOK
<1>4. end' \in [End -> EndState]
  BY <1>3 DEF EndsInv
<1>5. \A f \in End : EndOK(end'[f], Made')
  BY <1>2 DEF EndsInv
<1> QED
  BY <1>4, <1>5 DEF EndsInv, Host

\* An end without a connection, and one that reads.
LEMMA IdleEnds == ASSUME NEW m PROVE EndOK(Off, m) /\ EndOK(Reading, m)
  BY DEF EndOK, EndState, Off, Reading, Works

\* The blocks that are left are still those of the message.
LEMMA RestOK ==
  ASSUME EndsInv, NEW e \in End, NEW b
  PROVE  EndOK(Rest(e, b), Made)
<1>1. EndOK(end[e], Made)
  BY DEF EndsInv
<1>2. CASE end[e].vs = {b}
  BY <1>2, IdleEnds DEF Rest
<1>3. CASE end[e].vs # {b}
  <2>1. Rest(e, b) = [pc |-> "handle", vs |-> end[e].vs \ {b}, b |-> NoBlock]
    BY <1>3 DEF Rest, Works
  <2>2. Rest(e, b) \in EndState
    BY <1>1, <2>1 DEF EndOK, EndState
  <2> QED
    BY <1>1, <2>1, <2>2 DEF EndOK
<1> QED
  BY <1>2, <1>3

\* A message is sent on open connections.
LEMMA SentKeeps ==
  ASSUME InboxInv, NEW es, NEW msgs \in SUBSET Message, \A msg \in msgs : msg.vs \subseteq Made,
         inbox' = Sent(es, msgs), up' = up, Made \subseteq Made'
  PROVE  InboxInv'
<1>1. \A e \in End : inbox'[e] \subseteq inbox[e] \cup msgs /\ (inbox'[e] = inbox[e] \/ Up(e))
  BY DEF Sent
<1>2. inbox' \in [End -> SUBSET Message]
  <2>1. inbox' = [e \in End |-> inbox'[e]]
    BY DEF Sent
  <2>2. \A e \in End : inbox'[e] \in SUBSET Message
    BY <1>1 DEF InboxInv
  <2> QED
    BY <2>1, <2>2
<1>3. \A e \in End : inbox'[e] # {} => Up(e)
  BY <1>1 DEF InboxInv
<1>4. \A e \in End : \A m \in inbox'[e] : m.vs \subseteq Made'
  BY <1>1 DEF InboxInv
<1> QED
  BY <1>2, <1>3, <1>4 DEF InboxInv, Up

\* Messages are received or lost.
LEMMA InboxShrinks ==
  ASSUME InboxInv, inbox' \in [End -> SUBSET Message], \A e \in End : inbox'[e] \subseteq inbox[e],
         up' \subseteq Link, \A e \in End : inbox'[e] # {} => e[1] \in up', Made \subseteq Made'
  PROVE  InboxInv'
  BY DEF InboxInv, Up

\* A step that leaves the nodes and the miners alone.
LEMMA NodesKept ==
  ASSUME NodesInv, MinersInv, UNCHANGED <<nodeVars, minerVars, faults>>
  PROVE  /\ NodesInv' /\ MinersInv'
         /\ Made' = Made
<1>1. UNCHANGED <<Vertices, signed, enough, slashed, mining, height, faults>>
  BY DEF nodeVars, minerVars
<1>2. Made' = Made
  BY <1>1 DEF Made
<1> QED
  BY <1>1, <1>2 DEF NodesInv, MinersInv, HonestUnslashed

\* The messages.
LEMMA MessageType ==
  /\ GetDAG \in Message /\ GetDAG.vs = {}
  /\ \A vs \in SUBSET Block : Carry(vs) \in Message
  /\ \A vs : Carry(vs).vs = vs
  BY DEF Message, GetDAG, Carry

\* What an end knows when it is in order.
LEMMA EndFacts ==
  ASSUME EndsInv, NEW e \in End
  PROVE  /\ EndOK(end[e], Made)
         /\ end[e] \in EndState
         /\ end[e].vs \subseteq Block /\ end[e].vs \subseteq Made
         /\ end[e].b # NoBlock => end[e].b \in end[e].vs
  BY DEF EndsInv, EndOK, EndState

\* The steps that only concern the connections.
LEMMA ConnectionKeeps ==
  ASSUME GossipInv, (\E l \in Link : Dial(l)) \/ \E e \in End : AddPeerAt(e) \/ RemovePeerAt(e)
  PROVE  GossipInv'
<1> USE DEF GossipInv
<1>1. NodesInv' /\ MinersInv' /\ Made' = Made
  BY NodesKept DEF Dial, AddPeerAt, RemovePeerAt
<1>2. ASSUME NEW l \in Link, Dial(l) PROVE EndsInv' /\ InboxInv'
  <2>1. EndsInv'
    BY <1>1, <1>2, EndsKept DEF Dial
  <2>2. InboxInv'
    BY <1>1, <1>2, InboxShrinks DEF Dial, InboxInv, Up
  <2> QED
    BY <2>1, <2>2
<1>3. ASSUME NEW e \in End, AddPeerAt(e) PROVE EndsInv' /\ InboxInv'
  <2> DEFINE x == Works("added", {}, NoBlock)
  <2>2. end' = [end EXCEPT ![e] = x]
    BY <1>3 DEF AddPeerAt
  <2>3. EndOK(x, Made')
    BY DEF EndOK, EndState, Works
  <2>4. EndsInv'
    BY <1>1, <2>2, <2>3, EndMoves
  <2>5. InboxInv'
    BY <1>1, <1>3, InboxShrinks DEF AddPeerAt, InboxInv, Up
  <2> QED
    BY <2>4, <2>5
<1>4. ASSUME NEW e \in End, RemovePeerAt(e) PROVE EndsInv' /\ InboxInv'
  <2>1. EndsInv'
    BY <1>1, <1>4, IdleEnds, EndMoves DEF RemovePeerAt
  <2>2. InboxInv'
    BY <1>1, <1>4, InboxShrinks DEF RemovePeerAt, InboxInv, Up
  <2> QED
    BY <2>1, <2>2
<1> QED
  BY <1>1, <1>2, <1>3, <1>4

\* OnPeerConnected may grant, which only adds to the voting power.
LEMMA StartReadingKeeps ==
  ASSUME GossipInv, NEW e \in End, StartReading(e)
  PROVE  GossipInv'
<1> USE DEF GossipInv
<1>1. UNCHANGED <<up, Vertices, signed, slashed, mining, height, faults>> /\ Made' = Made
  BY DEF StartReading, minerVars, Made
<1>2. EndsInv'
  BY <1>1, IdleEnds, EndMoves DEF StartReading
<1>3. InboxInv'
  BY <1>1, MessageType, SentKeeps DEF StartReading
<1>4. NodesInv'
  BY <1>1 DEF NodesInv
<1>5. enough' \in [Node -> SUBSET Node]
  <2>1. Host(e) \in Node /\ Host(Other[e]) \in Node
    BY OtherEnd
  <2> QED
    BY <2>1 DEF StartReading, MinersInv
<1>6. MinersInv'
  BY <1>1, <1>5 DEF MinersInv, HonestUnslashed
<1> QED
  BY <1>2, <1>3, <1>4, <1>6

\* An end receives a message or sends the answer to one.
LEMMA MessageKeeps ==
  ASSUME GossipInv, NEW e \in End,
         (\E msg \in inbox[e] : ReadBlocks(e, msg)) \/ ReadGetDAG(e) \/ SendAnswer(e)
  PROVE  GossipInv'
<1> USE DEF GossipInv
<1>1. NodesInv' /\ MinersInv' /\ Made' = Made
  BY NodesKept DEF ReadBlocks, ReadGetDAG, SendAnswer
<1>2. up' = up
  BY DEF ReadBlocks, ReadGetDAG, SendAnswer
<1>3. ASSUME NEW msg \in inbox[e], inbox' = [inbox EXCEPT ![e] = @ \ {msg}] PROVE InboxInv'
  <2>1. inbox' \in [End -> SUBSET Message] /\ \A f \in End : inbox'[f] \subseteq inbox[f]
    BY <1>3 DEF InboxInv
  <2>2. \A f \in End : inbox'[f] # {} => f[1] \in up'
    BY <1>2, <2>1 DEF InboxInv, Up
  <2> QED
    BY <1>1, <1>2, <2>1, <2>2, InboxShrinks DEF InboxInv
<1>4. ASSUME NEW pc \in {"handle", "reply"}, NEW vs, vs \subseteq Block, vs \subseteq Made
      PROVE  EndOK(Works(pc, vs, NoBlock), Made') /\ EndOK(Received(vs), Made')
  <2>1. EndOK(Works(pc, vs, NoBlock), Made') /\ EndOK(Works("handle", vs, NoBlock), Made')
    BY <1>1, <1>4 DEF EndOK, EndState, Works
  <2> QED
    BY <2>1, IdleEnds DEF Received
<1>5. ASSUME NEW msg \in inbox[e], ReadBlocks(e, msg) PROVE EndsInv' /\ InboxInv'
  <2>1. msg \in Message /\ msg.vs \subseteq Made /\ msg.vs \subseteq Block
    BY MessageType DEF InboxInv, Message, Carry, GetDAG
  <2>2. EndsInv'
    BY <1>1, <1>4, <1>5, <2>1, EndMoves DEF ReadBlocks
  <2> QED
    BY <1>3, <1>5, <2>2 DEF ReadBlocks
<1>6. CASE ReadGetDAG(e)
  <2>1. Vertices[Host(e)] \subseteq Made /\ Vertices[Host(e)] \subseteq Block
    BY OtherEnd DEF NodesInv
  <2>2. EndsInv'
    BY <1>1, <1>4, <1>6, <2>1, EndMoves DEF ReadGetDAG
  <2> QED
    BY <1>1, <1>3, <1>6, <2>2 DEF ReadGetDAG
<1>7. CASE SendAnswer(e)
  <2>1. end[e].vs \subseteq Block /\ end[e].vs \subseteq Made
    BY EndFacts
  <2>2. CASE inbox' = Sent({e}, {Carry(end[e].vs)}) /\ end' = [end EXCEPT ![e] = Reading]
    <3>1. EndsInv'
      BY <1>1, <2>2, IdleEnds, EndMoves
    <3>2. Carry(end[e].vs) \in Message /\ Carry(end[e].vs).vs \subseteq Made
      BY <2>1, MessageType
    <3>3. InboxInv'
      BY <1>1, <1>2, <2>2, <3>2, SentKeeps
    <3> QED
      BY <1>1, <3>1, <3>3
  <2>3. CASE /\ end' = [end EXCEPT ![e] = Reading,
                                   ![Other[e]] = Received(end[e].vs)]
             /\ UNCHANGED inbox
    <3> DEFINE x == Received(end[e].vs)
    <3>1. Other[e] \in End /\ Other[e] # e
      BY OtherEnd
    <3>2. \A f \in End : Host(f) \in Node
      BY OtherEnd
    <3>3. EndOK(Reading, Made') /\ EndOK(x, Made')
      BY <1>4, <2>1, IdleEnds
    <3>4. \A f \in End : EndOK(end[f], Made')
      BY <1>1, <3>2, EndKept DEF EndsInv
    <3> HIDE DEF x
    <3>5. \A f \in End : end'[f] = IF f = Other[e] THEN x ELSE IF f = e THEN Reading ELSE end[f]
      BY <2>3, <3>1 DEF EndsInv, x
    <3>6. \A f \in End : EndOK(end'[f], Made')
      BY <3>3, <3>4, <3>5
    <3>7. end' \in [End -> EndState]
      <4>1. \A f \in End : end'[f] \in EndState
        BY <3>6 DEF EndOK
      <4>2. end' = [f \in End |-> end'[f]]
        BY <2>3 DEF EndsInv
      <4> QED
        BY <4>1, <4>2
    <3>8. EndsInv'
      BY <3>6, <3>7 DEF EndsInv, Host
    <3>9. InboxInv'
      BY <1>1, <1>2, <2>3 DEF InboxInv, Up
    <3> QED
      BY <1>1, <3>8, <3>9
  <2> QED
    BY <1>7, <2>2, <2>3 DEF SendAnswer
<1> QED
  BY <1>1, <1>5, <1>6, <1>7

\* A block that is refused, and the broadcast of one that was accepted.
LEMMA DoneKeeps ==
  ASSUME GossipInv, NEW e \in End, (\E b \in end[e].vs : Drop(e, b)) \/ RebroadcastBlock(e)
  PROVE  GossipInv'
<1> USE DEF GossipInv
<1>1. NodesInv' /\ MinersInv' /\ Made' = Made
  BY NodesKept DEF Drop, RebroadcastBlock
<1>2. up' = up /\ signed' = signed
  BY DEF Drop, RebroadcastBlock, nodeVars
<1>3. ASSUME NEW b, end' = [end EXCEPT ![e] = Rest(e, b)] PROVE EndsInv'
  <2>1. EndOK(Rest(e, b), Made')
    BY <1>1, <1>2, RestOK
  <2> QED
    BY <1>1, <1>3, <2>1, EndMoves
<1>4. ASSUME NEW b \in end[e].vs, Drop(e, b) PROVE EndsInv' /\ InboxInv'
  <2>1. inbox' = inbox
    BY <1>4 DEF Drop
  <2>2. InboxInv'
    BY <1>1, <1>2, <2>1 DEF InboxInv, Up
  <2> QED
    BY <1>3, <1>4, <2>2 DEF Drop
<1>5. CASE RebroadcastBlock(e)
  <2>1. end[e].b \in end[e].vs /\ end[e].vs \subseteq Block /\ end[e].vs \subseteq Made
    BY <1>5, EndFacts DEF RebroadcastBlock, At, EndOK
  <2>2. Carry({end[e].b}) \in Message /\ Carry({end[e].b}).vs \subseteq Made
    BY <2>1, MessageType
  <2>3. InboxInv'
    BY <1>1, <1>2, <1>5, <2>2, SentKeeps DEF RebroadcastBlock
  <2> QED
    BY <1>1, <1>3, <1>5, <2>3 DEF RebroadcastBlock
<1> QED
  BY <1>1, <1>4, <1>5

\* The slasher finds a second block of the author: one that mined a single block
\* is not slashed.
LEMMA SlashKeeps ==
  ASSUME GossipInv, NEW e \in End, NEW b \in end[e].vs, Slash(e, b)
  PROVE  GossipInv'
<1> USE DEF GossipInv
<1>1. UNCHANGED <<up, inbox, Vertices, signed, mining, height, faults>> /\ Made' = Made
  BY DEF Slash, minerVars, Made
<1>2. EndsInv'
  <2>1. EndOK(Rest(e, b), Made')
    BY <1>1, RestOK
  <2> QED
    BY <1>1, <2>1, EndMoves DEF Slash
<1>3. InboxInv' /\ NodesInv'
  BY <1>1 DEF InboxInv, NodesInv, Up
<1>4. PICK lost \in SUBSET ({Author[b]} \cap Founders) :
        enough' = [enough EXCEPT ![Host(e)] = @ \ lost]
  BY DEF Slash
<1>5. Host(e) \in Node /\ Author[b] \in Node
  BY OtherEnd, EndFacts, AuthorIsNode
<1>6. /\ enough' \in [Node -> SUBSET Node] /\ slashed' \in [Node -> SUBSET Node]
      /\ \A n \in Node : slashed'[n] \subseteq slashed[n] \cup {Author[b]}
  BY <1>4, <1>5 DEF Slash, MinersInv
<1>7. height[Author[b]] >= 2
  <2>1. b \in Made
    BY EndFacts
  <2>2. PICK d \in signed[Host(e)] : Author[d] = Author[b] /\ d # b
    BY DEF Slash, DoubleSign
  <2>3. d \in Made
    BY <1>5, <2>2 DEF NodesInv
  <2>4. ~ (height[Author[b]] < 2)
    BY <2>1, <2>2, <2>3, OneMade
  <2> QED
    BY <1>5, <2>4 DEF MinersInv
<1>8. HonestUnslashed'
  BY <1>1, <1>6, <1>7 DEF MinersInv, HonestUnslashed
<1>9. MinersInv'
  BY <1>1, <1>6, <1>8 DEF MinersInv
<1> QED
  BY <1>2, <1>3, <1>9

\* The slasher records a block: it is the first of its author, or the same again.
LEMMA AcceptKeeps ==
  ASSUME GossipInv, NEW e \in End, NEW b \in end[e].vs, AcceptBlock(e, b)
  PROVE  GossipInv'
<1> USE DEF GossipInv
<1>1. UNCHANGED <<up, inbox, Vertices, enough, slashed, mining, height, faults>> /\ Made' = Made
  BY DEF AcceptBlock, minerVars, Made
<1>2. Host(e) \in Node /\ b \in Block /\ b \in Made
  BY OtherEnd, EndFacts
<1>3. signed' = [signed EXCEPT ![Host(e)] = @ \cup {b}]
  BY DEF AcceptBlock
<1>4. /\ signed' \in [Node -> SUBSET Block]
      /\ \A n \in Node : signed'[n] \subseteq Made
  BY <1>2, <1>3 DEF NodesInv
<1>5. EndsInv'
  <2>1. EndOK(end[e], Made)
    BY EndFacts
  <2>2. EndOK(Works("add", end[e].vs, b), Made')
    BY <1>1, <1>2, <1>4, <2>1, NoBlockIsNone DEF EndOK, EndState, Works
  <2> QED
    BY <1>1, <1>4, <2>2, EndMoves DEF AcceptBlock
<1>6. InboxInv' /\ MinersInv'
  BY <1>1 DEF InboxInv, MinersInv, Up, HonestUnslashed
<1>8. NodesInv'
  BY <1>1, <1>4 DEF NodesInv
<1> QED
  BY <1>5, <1>6, <1>8

\* The accepted block goes into the DAG.
LEMMA AddVertexKeeps ==
  ASSUME GossipInv, NEW e \in End, AddVertex(e)
  PROVE  GossipInv'
<1> USE DEF GossipInv
<1>1. UNCHANGED <<up, inbox, signed, enough, slashed, mining, height, faults>> /\ Made' = Made
  BY DEF AddVertex, minerVars, Made
<1>2. /\ EndOK(end[e], Made) /\ end[e].pc = "add" /\ Host(e) \in Node
      /\ end[e].vs \subseteq Block
  BY EndFacts, OtherEnd DEF AddVertex, At
<1>3. end[e].b \in Made /\ end[e].b \in Block
  BY <1>2 DEF EndOK
<1>4. EndsInv'
  <2>1. EndOK(Works("rebroadcast", end[e].vs, end[e].b), Made')
    BY <1>1, <1>2 DEF EndOK, EndState, Works
  <2> QED
    BY <1>1, <2>1, EndMoves DEF AddVertex
<1>5. InboxInv' /\ MinersInv'
  BY <1>1 DEF InboxInv, MinersInv, Up, HonestUnslashed
<1>6. /\ Vertices' \in [Node -> SUBSET Block]
      /\ \A n \in Node : Vertices'[n] = IF n = Host(e) THEN Vertices[n] \cup {end[e].b} ELSE Vertices[n]
  BY <1>2, <1>3 DEF AddVertex, NodesInv
<1>7. NodesInv'
  BY <1>1, <1>3, <1>6 DEF NodesInv
<1> QED
  BY <1>4, <1>5, <1>7

-----------------------------------------------------------------------------
(* The miners and the faults. *)

\* The miner adds its next block to its own DAG.
LEMMA MineKeeps ==
  ASSUME GossipInv, NEW n \in Node, Mine(n)
  PROVE  GossipInv'
<1> USE DEF GossipInv
<1> DEFINE b == Blocks[n][height[n] + 1]
<1>1. UNCHANGED <<up, end, inbox, signed, enough, slashed, faults>>
  BY DEF Mine
<1>2. /\ Vertices' = [Vertices EXCEPT ![n] = @ \cup {b}]
      /\ mining' = [mining EXCEPT ![n] = b]
      /\ height' = [height EXCEPT ![n] = @ + 1]
  BY DEF Mine
<1>3. height[n] \in Nat /\ height[n] < Len(Blocks[n]) /\ Len(Blocks[n]) \in Nat
      /\ DOMAIN Blocks[n] = 1..Len(Blocks[n])
  BY GossipAssumption DEF Mine, MinersInv
<1>4. b \in Mined(n)
  BY <1>3 DEF Mined
<1>5. b \in Block /\ Author[b] = n
  BY <1>4, AuthorMines
<1> HIDE DEF b
<1>6. /\ height' \in [Node -> Nat]
      /\ \A m \in Node : height'[m] = IF m = n THEN height[m] + 1 ELSE height[m]
  BY <1>2, <1>3 DEF MinersInv
<1>7. Made \subseteq Made'
  <2>1. height \in [Node -> Nat] /\ \A m \in Node : height[m] <= height'[m]
    BY <1>6 DEF MinersInv
  <2> QED
    BY <1>6, <2>1, MadeGrows DEF Made
<1>8. b \in Made'
  <2>1. height[n] + 1 \in 1..height'[n]
    BY <1>3, <1>6
  <2> QED
    BY <2>1 DEF Made, MadeUpTo, MadeBy, b
<1>9. EndsInv'
  BY <1>1, <1>7, EndsKept
<1>10. InboxInv'
  BY <1>1, <1>7 DEF InboxInv, Up
<1>11. NodesInv'
  <2>1. /\ Vertices' \in [Node -> SUBSET Block]
        /\ \A m \in Node : Vertices'[m] = IF m = n THEN Vertices[m] \cup {b} ELSE Vertices[m]
    <3>1. Vertices \in [Node -> SUBSET Block]
      BY DEF NodesInv
    <3> QED
      BY <1>2, <1>5, <3>1
  <2> QED
    BY <1>1, <1>5, <1>7, <1>8, <2>1 DEF NodesInv
<1>12. MinersInv'
  <2>1. /\ mining' \in [Node -> Block \cup {NoBlock}]
        /\ \A m \in Node : mining'[m] # NoBlock => mining'[m] \in Made'
    BY <1>2, <1>5, <1>7, <1>8 DEF MinersInv
  <2>2. \A m \in Node : height'[m] \in 0 .. Len(Blocks[m])
    <3> SUFFICES ASSUME NEW m \in Node PROVE height'[m] \in 0 .. Len(Blocks[m])
      OBVIOUS
    <3>1. /\ height[m] \in Nat /\ height[m] \in 0 .. Len(Blocks[m])
          /\ height'[m] = IF m = n THEN height[m] + 1 ELSE height[m]
      BY <1>6 DEF MinersInv
    <3> HIDE DEF GossipInv
    <3> QED
      BY <1>3, <3>1
  <2>3. \A m \in Node : height[m] >= 2 => height'[m] >= 2
    <3>1. \A m \in Node : height[m] \in Nat
      BY DEF MinersInv
    <3> HIDE DEF GossipInv
    <3> QED BY <1>6, <3>1
  <2>4. HonestUnslashed'
    BY <1>1, <2>3 DEF MinersInv, HonestUnslashed
  <2> QED
    BY <1>1, <1>6, <2>1, <2>2, <2>4 DEF MinersInv
<1> QED
  BY <1>9, <1>10, <1>11, <1>12

\* The miner sends its block.
LEMMA BroadcastKeeps ==
  ASSUME GossipInv, NEW n \in Node, BroadcastBlock(n)
  PROVE  GossipInv'
<1> USE DEF GossipInv
<1>1. UNCHANGED <<up, end, Vertices, signed, enough, slashed, height, faults>> /\ Made' = Made
  BY DEF BroadcastBlock, nodeVars, Made
<1>2. mining[n] \in Block /\ mining[n] \in Made
  BY DEF BroadcastBlock, MinersInv
<1>3. Carry({mining[n]}) \in Message /\ Carry({mining[n]}).vs \subseteq Made
  BY <1>2, MessageType
<1>4. InboxInv'
  BY <1>1, <1>3, SentKeeps DEF BroadcastBlock
<1>5. EndsInv' /\ NodesInv'
  BY <1>1, EndsKept DEF NodesInv
<1>6. MinersInv'
  BY <1>1 DEF BroadcastBlock, MinersInv, HonestUnslashed
<1> QED
  BY <1>4, <1>5, <1>6

\* What is lost with connections.
LEMMA EmptiedKeeps ==
  ASSUME InboxInv, NEW ls, up' = up \ ls, inbox' = Emptied(ls), Made' = Made
  PROVE  InboxInv'
<1>1. \A e \in End : inbox'[e] = IF e[1] \in ls THEN {} ELSE inbox[e]
  BY DEF Emptied
<1>2. inbox' \in [End -> SUBSET Message]
  <2>1. inbox' = [e \in End |-> inbox'[e]]
    BY DEF Emptied
  <2>2. \A e \in End : inbox'[e] \in SUBSET Message
    BY <1>1 DEF InboxInv
  <2> QED
    BY <2>1, <2>2
<1>3. \A e \in End : inbox'[e] \subseteq inbox[e] /\ (inbox'[e] # {} => e[1] \in up')
  BY <1>1 DEF InboxInv, Up
<1> QED
  BY <1>2, <1>3, InboxShrinks DEF InboxInv

\* A connection breaks.
LEMMA BreakKeeps ==
  ASSUME GossipInv, NEW l \in Link, Break(l)
  PROVE  GossipInv'
<1> USE DEF GossipInv
<1>1. UNCHANGED <<end, Vertices, signed, enough, slashed, mining, height>> /\ Made' = Made
  BY DEF Break, nodeVars, minerVars, Made
<1>2. InboxInv'
  BY <1>1, EmptiedKeeps DEF Break
<1>3. EndsInv' /\ NodesInv'
  BY <1>1, EndsKept DEF NodesInv
<1>4. faults' \in 0 .. MaxFaults
  BY GossipAssumption DEF Break, MinersInv
<1>5. MinersInv'
  BY <1>1, <1>4 DEF MinersInv, HonestUnslashed
<1> QED
  BY <1>2, <1>3, <1>5

\* A node starts again with an empty DAG and an empty slasher.
LEMMA RestartNodeKeeps ==
  ASSUME GossipInv, NEW n \in Node, Restart(n)
  PROVE  GossipInv'
<1> USE DEF GossipInv
<1>1. height' = height /\ slashed' = slashed /\ Made' = Made
  BY DEF Restart, Made
<1>2. InboxInv'
  BY <1>1, EmptiedKeeps DEF Restart
<1>3. /\ signed' \in [Node -> SUBSET Block]
      /\ \A m \in Node : signed'[m] = IF m = n THEN {} ELSE signed[m]
  BY DEF Restart, NodesInv
<1>4. /\ Vertices' \in [Node -> SUBSET Block]
      /\ \A m \in Node : Vertices'[m] = IF m = n THEN {} ELSE Vertices[m]
  BY DEF Restart, NodesInv
<1>5. NodesInv'
  BY <1>1, <1>3, <1>4 DEF NodesInv
<1>6. EndsInv'
  <2>1. \A e \in End : end'[e] = IF Host(e) = n THEN Off ELSE end[e]
    BY DEF Restart
  <2>2. \A e \in End : EndOK(end'[e], Made')
    <3> SUFFICES ASSUME NEW e \in End PROVE EndOK(end'[e], Made')
      OBVIOUS
    <3>1. CASE Host(e) = n
      BY <2>1, <3>1, IdleEnds
    <3>2. CASE Host(e) # n
      BY <1>1, <1>3, <2>1, <3>2, OtherEnd DEF EndsInv
    <3> QED
      BY <3>1, <3>2
  <2>3. end' \in [End -> EndState]
    <3>1. end' = [e \in End |-> end'[e]]
      BY DEF Restart
    <3>2. \A e \in End : end'[e] \in EndState
      BY <2>2 DEF EndOK
    <3> QED
      BY <3>1, <3>2
  <2> QED
    BY <2>2, <2>3 DEF EndsInv, Host
<1>7. MinersInv'
  <2>1. enough' \in [Node -> SUBSET Node]
    BY GossipAssumption DEF Restart, MinersInv
  <2>2. /\ mining' \in [Node -> Block \cup {NoBlock}]
        /\ \A m \in Node : mining'[m] # NoBlock => mining'[m] \in Made'
    BY <1>1 DEF Restart, MinersInv
  <2>3. faults' \in 0 .. MaxFaults
    BY GossipAssumption DEF Restart, MinersInv
  <2> QED
    BY <1>1, <2>1, <2>2, <2>3 DEF MinersInv, HonestUnslashed
<1> QED
  BY <1>2, <1>5, <1>6, <1>7

-----------------------------------------------------------------------------

\* The first state.
LEMMA GossipInvInit == GossipInit => GossipInv
<1> SUFFICES ASSUME GossipInit PROVE GossipInv
  OBVIOUS
<1>1. EndsInv
  BY IdleEnds DEF GossipInit, EndsInv, EndOK
<1>2. InboxInv
  BY DEF GossipInit, InboxInv
<1>3. NodesInv
  BY DEF GossipInit, NodesInv
<1>4. MinersInv
  <2>1. \A n \in Node : Len(Blocks[n]) \in Nat
    BY GossipAssumption
  <2> QED
    BY <2>1, GossipAssumption DEF GossipInit, MinersInv, HonestUnslashed
<1> QED
  BY <1>1, <1>2, <1>3, <1>4 DEF GossipInv

\* Every step keeps the invariant.
LEMMA GossipInvNext == GossipInv /\ [GossipNext]_gossipVars => GossipInv'
<1> SUFFICES ASSUME GossipInv, [GossipNext]_gossipVars PROVE GossipInv'
  OBVIOUS
<1>1. ASSUME NEW e \in End, EndStep(e) PROVE GossipInv'
  BY <1>1, ConnectionKeeps, StartReadingKeeps, MessageKeeps, DoneKeeps, SlashKeeps, AcceptKeeps,
     AddVertexKeeps DEF EndStep
<1>2. ASSUME NEW l \in Link, Dial(l) \/ Break(l) PROVE GossipInv'
  BY <1>2, ConnectionKeeps, BreakKeeps
<1>3. ASSUME NEW n \in Node, Mine(n) \/ BroadcastBlock(n) \/ Restart(n) PROVE GossipInv'
  BY <1>3, MineKeeps, BroadcastKeeps, RestartNodeKeeps
<1>4. CASE UNCHANGED gossipVars
  <2>1. UNCHANGED <<up, end, inbox, Vertices, signed, enough, slashed, mining, height, faults>>
    BY <1>4 DEF gossipVars, nodeVars, minerVars
  <2>2. Made' = Made
    BY <2>1 DEF Made
  <2>3. EndsInv'
    BY <2>1, <2>2, EndsKept DEF GossipInv
  <2> QED
    BY <2>1, <2>2, <2>3 DEF GossipInv, InboxInv, NodesInv, MinersInv, Up, HonestUnslashed
<1> QED
  BY <1>1, <1>2, <1>3, <1>4 DEF GossipNext

\* The inductive invariant holds.
LEMMA GossipInvariant == GossipSpec => []GossipInv
  BY GossipInvInit, GossipInvNext, PTL DEF GossipSpec

\* Only an open connection carries messages, and an end works on the blocks of its
\* message, for any network of nodes, any blocks and any faults.
THEOREM GossipTypeCorrect == GossipSpec => []GossipTypeOK
<1>1. GossipInv => GossipTypeOK
  BY DEF GossipInv, EndsInv, EndOK, InboxInv, NodesInv, MinersInv, GossipTypeOK
<1> QED
  BY <1>1, GossipInvariant, PTL

\* A validator that mined a single block is slashed at no node, whatever ways the
\* block takes and whichever nodes restart (RecordBlockSigned).
THEOREM HonestNeverSlashed == GossipSpec => []HonestUnslashed
<1>1. GossipInv => HonestUnslashed
  BY DEF GossipInv, MinersInv
<1> QED
  BY <1>1, GossipInvariant, PTL

=============================================================================
