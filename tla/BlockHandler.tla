---------------------------- MODULE BlockHandler ----------------------------
(***************************************************************************)
(* core/p2p/server.go handleBlock, with core/staking: what a node does     *)
(* with the blocks (vertices) its peers send.  Every peer has a reader     *)
(* goroutine that handles one message after the other; the readers run     *)
(* concurrently, and each call they make on the DAG, the accounts and the  *)
(* slasher takes that object's lock for itself only.  The miner adds its   *)
(* own blocks to the DAG directly.  The DAG, the slasher and the scores    *)
(* are lost when the process stops, the accounts are not.                  *)
(*                                                                         *)
(* Dag models what AddVertex does inside, Ledger the reward curve and      *)
(* Reputation the bans; licences (GrantStake) do not change here.          *)
(***************************************************************************)
EXTENDS Accounts, PeerScore

CONSTANTS
  Block,         \* the blocks, by their hashes
  NoBlock,
  Vertex,        \* the fields of each block
  Peers,
  Miner,         \* the address this node mines for
  GenesisBalance, GenesisStake, GenesisGrant,
  Founders,      \* the addresses main.go allocates to at every start
  MinStakeRequired,
  DoubleSignSlashPercent,   \* 10
  JailDuration,
  KeepRounds,    \* 1000
  BaseReward,    \* the base reward (Ledger models how it halves)
  MaxMessages,   \* bound: messages per peer
  MaxRestarts    \* bound: restarts

ASSUME BlockHandlerAssumption ==
  /\ NoBlock \notin Block
  /\ Vertex \in [Block -> [Author : Addr, Round : Nat, Timestamp : Nat,
                           Fees : Nat,         \* the sum of its transactions' fees
                           Signed : BOOLEAN]]  \* the signature is valid
  /\ GenesisBalance \in [Addr -> Uint]
  /\ GenesisStake \in [Addr -> Uint]
  /\ GenesisGrant \in [Addr -> Uint]
  /\ Founders \subseteq Addr
  /\ MinStakeRequired \in Nat
  /\ DoubleSignSlashPercent \in 0 .. 100
  /\ JailDuration \in Nat
  /\ KeepRounds \in Nat \ {0}
  /\ BaseReward \in Uint
  /\ MaxMessages \in Nat
  /\ MaxRestarts \in Nat

VARIABLES
  Vertices,      \* DAG.Vertices
  accounts,      \* State
  signedBlocks,  \* Slasher.signedBlocks: <<round, validator, hash>>
  slashed,       \* Slasher.slashRecords: the sum of a validator's amounts
  jailed,        \* Slasher.jailed: release times, 0 for never jailed
  score,         \* Reputation
  handler,       \* where each reader is in handleBlock and what it has read
  mined,         \* history: the blocks this node made
  passed,        \* history: the blocks the slasher let pass since the start
  paid,          \* history: rewards paid per reader and block, over all starts
  credited,      \* history: rewards paid to an address, over all starts
  taken,         \* history: amounts slashed, over all starts
  messages, restarts

slasher == <<signedBlocks, slashed, jailed, passed>>
totals == <<credited, taken>>
bounds == <<messages, restarts>>
vars == <<Vertices, accounts, slasher, score, handler, mined, paid, totals, bounds>>

Author(b) == Vertex[b].Author
Round(b) == Vertex[b].Round

Idle == [pc |-> "idle", v |-> NoBlock, read |-> 0, amount |-> 0]

At(p, step) == handler[p].pc = step

Goto(p, step) == handler' = [handler EXCEPT ![p].pc = step]

Done(p) == handler' = [handler EXCEPT ![p] = Idle]

Record(p, delta) == score' = [score EXCEPT ![p] = Adjusted(@, delta)]

\* The allocation of main.go.
Allocated(acc, a) ==
  [acc EXCEPT !.Balance = GenesisBalance[a], !.Stake = GenesisStake[a]]

Init ==
  /\ Vertices = {}
  /\ accounts = [a \in Addr |->
                   [Allocated(NewAccount, a) EXCEPT !.GrantStake = GenesisGrant[a]]]
  /\ signedBlocks = {}
  /\ slashed = [a \in Addr |-> 0]
  /\ jailed = [a \in Addr |-> 0]
  /\ score = [p \in Peers |-> InitialReputation]
  /\ handler = [p \in Peers |-> Idle]
  /\ mined = {}
  /\ passed = {}
  /\ paid = [p \in Peers |-> [b \in Block |-> 0]]
  /\ credited = [a \in Addr |-> 0]
  /\ taken = [a \in Addr |-> 0]
  /\ messages = [p \in Peers |-> 0]
  /\ restarts = 0

-----------------------------------------------------------------------------

\* A message arrives while the reader waits.
Arrive(p) ==
  /\ At(p, "idle")
  /\ messages[p] < MaxMessages
  /\ messages' = [messages EXCEPT ![p] = @ + 1]
  /\ UNCHANGED restarts

\* A message that is too large or does not decode.
ProtocolError(p) ==
  /\ Arrive(p)
  /\ Record(p, ScoreProtocolError)
  /\ UNCHANGED <<Vertices, accounts, slasher, handler, mined, paid, totals>>

\* The mutated form: the DAG is not asked.
HasVertexMutant(b) == FALSE

HasVertex(b) == b \in Vertices

\* handleBlock up to HasVertex; a known block ends it.
Receive(p, b) ==
  /\ Arrive(p)
  /\ Author(b) = Miner => b \in mined
  /\ ~ HasVertex(b)
  /\ handler' = [handler EXCEPT ![p] = [Idle EXCEPT !.pc = "validate", !.v = b]]
  /\ UNCHANGED <<Vertices, accounts, slasher, score, mined, paid, totals>>

\* The signature and the voting power.
Valid(b) ==
  /\ Vertex[b].Signed
  /\ SafeAddOk(GetStake(accounts, Author(b)), GetGrantStake(accounts, Author(b)))
  /\ GetStake(accounts, Author(b)) + GetGrantStake(accounts, Author(b)) >= MinStakeRequired

ValidateBlock(p) ==
  /\ At(p, "validate")
  /\ IF Valid(handler[p].v) THEN Goto(p, "record") /\ UNCHANGED score
     ELSE Done(p) /\ Record(p, ScoreInvalidBlock)
  /\ UNCHANGED <<Vertices, accounts, slasher, mined, paid, totals, bounds>>

\* The validator's block of that round, if one is recorded.
SignedBy(b) == {s \in signedBlocks : s[1] = Round(b) /\ s[2] = Author(b)}

\* The mutated form: every round older than the new one is dropped.
CleanupMutant(signed, round) == {s \in signed : s[1] >= round}

\* "keep last 1000 rounds": one round is dropped.
Cleanup(signed, round) ==
  IF round > KeepRounds THEN {s \in signed : s[1] # round - KeepRounds} ELSE signed

\* A second block of the validator in the round is a double sign; a first one
\* is recorded.
RecordBlockSigned(p) ==
  LET b == handler[p].v IN
  /\ At(p, "record")
  /\ IF \E s \in SignedBy(b) : s[3] # b
     THEN /\ Goto(p, "getStake")
          /\ UNCHANGED <<signedBlocks, passed, score>>
     ELSE /\ signedBlocks' = IF SignedBy(b) # {} THEN signedBlocks
                             ELSE Cleanup(signedBlocks \cup {<<Round(b), Author(b), b>>},
                                          Round(b))
          /\ passed' = passed \cup {b}
          /\ Record(p, ScoreValidBlock)
          /\ Goto(p, "add")
  /\ UNCHANGED <<Vertices, accounts, slashed, jailed, mined, paid, totals, bounds>>

\* handleBlock reads the stake to slash; without any there is nothing to do.
ReadStake(p) ==
  LET stake == GetStake(accounts, Author(handler[p].v)) IN
  /\ At(p, "getStake")
  /\ IF stake > 0
     THEN /\ handler' = [handler EXCEPT ![p].pc = "slash", ![p].read = stake]
          /\ UNCHANGED score
     ELSE Done(p) /\ Record(p, ScoreInvalidBlock)
  /\ UNCHANGED <<Vertices, accounts, slasher, mined, paid, totals, bounds>>

\* 0 stands for an amount that cannot be computed.
CalculateSlashAmount(stake) ==
  IF SafeMulOk(stake, DoubleSignSlashPercent) THEN (stake * DoubleSignSlashPercent) \div 100
  ELSE 0

\* The amount is recorded and the validator jailed; an amount of 0 does
\* neither.
Slash(p) ==
  LET b == handler[p].v
      amount == CalculateSlashAmount(handler[p].read)
  IN  /\ At(p, "slash")
      /\ IF amount > 0
         THEN /\ slashed' = [slashed EXCEPT ![Author(b)] = @ + amount]
              /\ taken' = [taken EXCEPT ![Author(b)] = @ + amount]
              /\ jailed' = [jailed EXCEPT ![Author(b)] = Vertex[b].Timestamp + JailDuration]
              /\ handler' = [handler EXCEPT ![p].pc = "setStake", ![p].amount = amount]
              /\ UNCHANGED score
         ELSE /\ Done(p)
              /\ Record(p, ScoreInvalidBlock)
              /\ UNCHANGED <<slashed, taken, jailed>>
      /\ UNCHANGED <<Vertices, accounts, signedBlocks, passed, mined, paid, credited, bounds>>

\* The mutated form: the amount to slash becomes the stake.
WriteStakeMutant(p) ==
  LET h == handler[p] IN
  /\ At(p, "setStake")
  /\ accounts' = SetStake(accounts, Author(h.v), h.amount)
  /\ Done(p)
  /\ Record(p, ScoreInvalidBlock)
  /\ UNCHANGED <<Vertices, slasher, mined, paid, totals, bounds>>

\* handleBlock writes what it read less the amount, and rejects the block.
WriteStake(p) ==
  LET h == handler[p] IN
  /\ At(p, "setStake")
  /\ accounts' = SetStake(accounts, Author(h.v), h.read - h.amount)
  /\ Done(p)
  /\ Record(p, ScoreInvalidBlock)
  /\ UNCHANGED <<Vertices, slasher, mined, paid, totals, bounds>>

AddVertex(p) ==
  /\ At(p, "add")
  /\ Vertices' = Vertices \cup {handler[p].v}
  /\ Goto(p, "reward")
  /\ UNCHANGED <<accounts, slasher, score, mined, paid, totals, bounds>>

\* The fees of the block, added up without an overflow check.
CollectedFees(b) == Wrap(Vertex[b].Fees)

\* Half of the fees, unless the sum overflows.
TotalReward(b) ==
  LET share == CollectedFees(b) \div 2
  IN  IF SafeAddOk(BaseReward, share) THEN BaseReward + share ELSE BaseReward

\* ApplyBlockReward reads the author's balance; a sum that does not fit loses
\* the reward.  RebroadcastBlock follows, which changes nothing here.
ReadBalance(p) ==
  LET bal == GetBalance(accounts, Author(handler[p].v)) IN
  /\ At(p, "reward")
  /\ IF SafeAddOk(bal, TotalReward(handler[p].v))
     THEN handler' = [handler EXCEPT ![p].pc = "pay", ![p].read = bal]
     ELSE Done(p)
  /\ UNCHANGED <<Vertices, accounts, slasher, score, mined, paid, totals, bounds>>

WriteBalance(p) ==
  LET b == handler[p].v IN
  /\ At(p, "pay")
  /\ accounts' = SetBalance(accounts, Author(b), handler[p].read + TotalReward(b))
  /\ paid' = [paid EXCEPT ![p][b] = @ + 1]
  /\ credited' = [credited EXCEPT ![Author(b)] = @ + TotalReward(b)]
  /\ Done(p)
  /\ UNCHANGED <<Vertices, slasher, score, mined, taken, bounds>>

\* The miner adds a new block: no check, no evidence and no reward.
Mine(b) ==
  /\ Author(b) = Miner
  /\ b \notin mined
  /\ mined' = mined \cup {b}
  /\ Vertices' = Vertices \cup {b}
  /\ UNCHANGED <<accounts, slasher, score, handler, paid, totals, bounds>>

\* The process stops anywhere and starts again.
Restart ==
  /\ restarts < MaxRestarts
  /\ restarts' = restarts + 1
  /\ Vertices' = {}
  /\ accounts' = [a \in Addr |-> IF a \in Founders THEN Allocated(accounts[a], a)
                                 ELSE accounts[a]]
  /\ signedBlocks' = {}
  /\ slashed' = [a \in Addr |-> 0]
  /\ jailed' = [a \in Addr |-> 0]
  /\ passed' = {}
  /\ score' = [p \in Peers |-> InitialReputation]
  /\ handler' = [p \in Peers |-> Idle]
  /\ UNCHANGED <<mined, paid, totals, messages>>

Next ==
  \/ \E p \in Peers :
       \/ ProtocolError(p)
       \/ \E b \in Block : Receive(p, b)
       \/ ValidateBlock(p)
       \/ RecordBlockSigned(p)
       \/ ReadStake(p)
       \/ Slash(p)
       \/ WriteStake(p)
       \/ AddVertex(p)
       \/ ReadBalance(p)
       \/ WriteBalance(p)
  \/ \E b \in Block : Mine(b)
  \/ Restart

Spec == Init /\ [][Next]_vars

-----------------------------------------------------------------------------

HandlerState ==
  [pc : {"idle", "validate", "record", "getStake", "slash", "setStake", "add",
         "reward", "pay"},
   v : Block \cup {NoBlock}, read : Uint, amount : Uint]

\* The type invariant: balances and stakes stay uint64 and scores within their
\* bounds, whatever the readers interleave (handleBlock, AdjustScore).
TypeOK ==
  /\ Vertices \subseteq Block /\ mined \subseteq Block /\ passed \subseteq Block
  /\ accounts \in [Addr -> Account]
  /\ signedBlocks \subseteq Nat \X Addr \X Block
  /\ slashed \in [Addr -> Nat] /\ jailed \in [Addr -> Nat]
  /\ score \in [Peers -> Score]
  /\ handler \in [Peers -> HandlerState]
  /\ paid \in [Peers -> [Block -> Nat]]
  /\ credited \in [Addr -> Nat] /\ taken \in [Addr -> Nat]
  /\ messages \in [Peers -> Nat] /\ restarts \in Nat

\* Two blocks of one validator in one round are both in the DAG only if a
\* block KeepRounds later was seen or this node made one of them, however the
\* readers interleave (RecordBlockSigned and its cleanup).
NoConflictingAccepted ==
  \A u, v \in Vertices \ mined :
    u # v /\ Author(u) = Author(v) /\ Round(u) = Round(v) =>
      \E w \in passed : Round(w) = Round(u) + KeepRounds

\* A reader never pays a block twice between two starts, whatever the other
\* readers do: it adds the block before it pays and asks for it before it adds
\* (HasVertex, AddVertex, ApplyBlockReward in handleBlock).
PaidOncePerReader == \A p \in Peers, b \in Block : paid[p][b] <= 1 + restarts

\* Races between readers can lose updates, but never take more stake than was
\* recorded as slashed nor credit more than was paid as rewards (ReadStake ..
\* WriteStake and ReadBalance .. WriteBalance in handleBlock).
BooksBounded ==
  \A a \in Addr :
    /\ GetStake(accounts, a) \in GenesisStake[a] - taken[a] .. GenesisStake[a]
    /\ GetBalance(accounts, a) \in GenesisBalance[a] .. GenesisBalance[a] + credited[a]

-----------------------------------------------------------------------------

\* "Already have it, don't process or rebroadcast" (handleBlock): a block is
\* rewarded once.
PaidOnce ==
  \A b \in Block, p, q \in Peers :
    paid[p][b] <= 1 /\ (p # q => paid[p][b] + paid[q][b] <= 1)
=============================================================================
