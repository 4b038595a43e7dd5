------------------------------ MODULE PeerScore ------------------------------
(***************************************************************************)
(* core/p2p/reputation.go: the score of a peer and what changes it.        *)
(***************************************************************************)
EXTENDS Integers

MaxReputation == 100
MinReputation == -100
InitialReputation == 50
BanThreshold == -50

ScoreValidBlock == 5
ScoreInvalidBlock == -20
ScoreValidTx == 1
ScoreInvalidTx == -5
ScoreTimeout == -10
ScoreDisconnect == -3
ScoreProtocolError == -15

Score == MinReputation .. MaxReputation

\* The score after an adjustment, clamped to its bounds.
Adjusted(score, delta) ==
  IF score + delta > MaxReputation THEN MaxReputation
  ELSE IF score + delta < MinReputation THEN MinReputation
  ELSE score + delta
=============================================================================
