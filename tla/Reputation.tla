----------------------------- MODULE Reputation -----------------------------
(***************************************************************************)
(* core/p2p/reputation.go: ReputationManager.  Every method holds the      *)
(* mutex throughout, but the Record methods, which count first and adjust  *)
(* the score in a second critical section; the counters are only reported  *)
(* and are left out.  Several nodes may share an address.                  *)
(***************************************************************************)
EXTENDS PeerScore

CONSTANTS
  PeerID, Addr,
  Delta,           \* the adjustments the Record methods make
  BanDuration,     \* an hour
  MaxTime          \* bound: the clock

ASSUME ReputationAssumption ==
  /\ Delta \subseteq {ScoreValidBlock, ScoreInvalidBlock, ScoreValidTx, ScoreInvalidTx,
                      ScoreTimeout, ScoreDisconnect, ScoreProtocolError}
  /\ BanDuration \in Nat \ {0}
  /\ MaxTime \in Nat

VARIABLES
  peers,    \* the reputation of each node; not known before GetOrCreate
  banned,   \* when the ban of each address ends, 0 if there is none
  now,
  touched   \* history: the addresses of the nodes banned or pardoned by hand

repVars == <<peers, banned, now, touched>>

\* The record of a node that has not been seen.
NoReputation(a) ==
  [known |-> FALSE, Address |-> a, Score |-> InitialReputation, IsBanned |-> FALSE,
   BannedUntil |-> 0]

RepInit ==
  /\ peers \in [PeerID -> {NoReputation(a) : a \in Addr}]
  /\ banned = [a \in Addr |-> 0]
  /\ now = 0
  /\ touched = {}

-----------------------------------------------------------------------------

\* A node keeps the address it was first seen with.
GetOrCreate(n, a) ==
  /\ peers' = [peers EXCEPT ![n] = IF @.known THEN @ ELSE [NoReputation(a) EXCEPT !.known = TRUE]]
  /\ UNCHANGED <<banned, now, touched>>

\* Whether a score bans the peer; a peer marked as banned is not banned anew.
Bans(score, r) == score <= BanThreshold /\ ~ r.IsBanned

Ban(n, score, until) ==
  /\ peers' = [peers EXCEPT ![n].Score = score, ![n].IsBanned = TRUE, ![n].BannedUntil = until]
  /\ banned' = [banned EXCEPT ![peers[n].Address] = until]

AdjustScore(n, delta) ==
  LET score == Adjusted(peers[n].Score, delta) IN
  /\ IF peers[n].known /\ Bans(score, peers[n])
     THEN Ban(n, score, now + BanDuration)
     ELSE /\ peers' = [peers EXCEPT ![n].Score = IF peers[n].known THEN score ELSE @]
          /\ UNCHANGED banned
  /\ UNCHANGED <<now, touched>>

\* The mutated form: the ban of a shared address goes with the first node's.
ExpiredAddressesMutant ==
  {a \in Addr : \E n \in PeerID : peers[n].IsBanned /\ now > peers[n].BannedUntil /\ peers[n].Address = a}

ExpiredAddresses == {a \in Addr : now > banned[a]}

\* The mutated form: a peer is forgiven only if its score has recovered.
ForgivenMutant ==
  {n \in PeerID : peers[n].IsBanned /\ now > peers[n].BannedUntil /\ peers[n].Score > BanThreshold}

Forgiven == {n \in PeerID : peers[n].IsBanned /\ now > peers[n].BannedUntil}

\* The ticker of cleanupLoop.
cleanupExpiredBans ==
  /\ banned' = [a \in Addr |-> IF a \in ExpiredAddresses THEN 0 ELSE banned[a]]
  /\ peers' = [n \in PeerID |-> IF n \in Forgiven THEN [peers[n] EXCEPT !.IsBanned = FALSE, !.Score = 0]
                              ELSE peers[n]]
  /\ UNCHANGED <<now, touched>>

IsBanned(n) == peers[n].known /\ peers[n].IsBanned /\ now < peers[n].BannedUntil

IsAddressBanned(a) == now < banned[a]

\* No part of the node calls BanPeer or UnbanPeer yet.
BanPeer(n, duration) ==
  /\ peers[n].known
  /\ Ban(n, peers[n].Score, now + duration)
  /\ touched' = touched \cup {peers[n].Address}
  /\ UNCHANGED now

UnbanPeer(n) ==
  /\ peers[n].known
  /\ peers' = [peers EXCEPT ![n].IsBanned = FALSE, ![n].Score = InitialReputation]
  /\ banned' = [banned EXCEPT ![peers[n].Address] = 0]
  /\ touched' = touched \cup {peers[n].Address}
  /\ UNCHANGED now

Tick ==
  /\ now < MaxTime
  /\ now' = now + 1
  /\ UNCHANGED <<peers, banned, touched>>

\* The manager by itself, with every call of its interface.
RepNext ==
  \/ \E n \in PeerID, a \in Addr : GetOrCreate(n, a)
  \/ \E n \in PeerID, delta \in Delta : AdjustScore(n, delta)
  \/ cleanupExpiredBans
  \/ \E n \in PeerID, d \in 1..BanDuration : BanPeer(n, d)
  \/ \E n \in PeerID : UnbanPeer(n)
  \/ Tick

RepSpec == RepInit /\ [][RepNext]_repVars

-----------------------------------------------------------------------------

Rep == [known : BOOLEAN, Address : Addr, Score : Score, IsBanned : BOOLEAN, BannedUntil : Nat]

\* The type invariant: scores stay within their bounds (AdjustScore).
RepTypeOK ==
  /\ peers \in [PeerID -> Rep]
  /\ banned \in [Addr -> Nat]
  /\ now \in Nat /\ touched \subseteq Addr

\* No peer is left at or below the threshold without being marked as banned,
\* whatever bans, pardons and expiries came before (AdjustScore).
LowScoreIsBanned == \A n \in PeerID : peers[n].Score <= BanThreshold => peers[n].IsBanned

\* While a node is banned its address is, unless someone banned or pardoned a
\* node of that address by hand: acceptLoop, which knows only the address, turns
\* it away too, also when other nodes share the address and their bans end
\* (AdjustScore, cleanupExpiredBans).
AddressStaysBanned ==
  \A n \in PeerID : IsBanned(n) /\ peers[n].Address \notin touched =>
    IsAddressBanned(peers[n].Address)

\* A ban for a low score that runs out within the clock is lifted, however the
\* peer behaves while it is banned: what it still sends over open connections
\* lowers its score and does not extend the ban (AdjustScore, cleanupExpiredBans).
BansEnd ==
  \A n \in PeerID :
    peers[n].IsBanned /\ peers[n].BannedUntil < MaxTime ~>
      (~ peers[n].IsBanned \/ peers[n].Address \in touched)
=============================================================================
