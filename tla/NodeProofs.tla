----------------------------- MODULE NodeProofs -----------------------------
(***************************************************************************)
(* What a node keeps safe between the steps of requests that run at the    *)
(* same time: BlockHandler, for any number of readers, blocks, messages    *)
(* and restarts, and Wallet, for any number of requests, addresses,        *)
(* passwords and calls.                                                    *)
(*                                                                         *)
(* BlockHandler: what a reader carries from one critical section to the    *)
(* next is bounded by what it read.  Wallet: a request that nobody         *)
(* disturbed is the only one between the map and the file of its address,  *)
(* so what it put there is still there when it goes on.                    *)
(***************************************************************************)
EXTENDS BlockHandler, Wallet, AccountsProofs, TLAPS

\* Most steps have no arithmetic: Zenon is tried before the SMT solver.
USE ZenonT(2), SMTT(20), ZenonT(20)

-----------------------------------------------------------------------------
(* Type correctness. *)

\* What a reader carries from one call to the next: its block, a slash that
\* does not exceed the stake it read, a balance that the reward fits into.
CarriesOk(h) ==
  /\ h.pc # "idle" => h.v \in Block
  /\ h.pc = "setStake" => h.amount <= h.read
  /\ h.pc = "pay" => SafeAddOk(h.read, TotalReward(h.v))

Carrying == {h \in HandlerState : CarriesOk(h)}

Typed == TypeOK /\ handler \in [Peers -> Carrying]

\* The fields of a block have their types.
LEMMA VertexType ==
  ASSUME NEW b \in Block
  PROVE  /\ Author(b) \in Addr /\ Round(b) \in Nat
         /\ Vertex[b].Timestamp \in Nat /\ Vertex[b].Fees \in Nat
BY BlockHandlerAssumption DEF Author, Round

\* A reader without a block carries what a reader may carry.
LEMMA IdleCarries == Idle \in Carrying
BY MaxUintAssumption, BlockHandlerAssumption DEF Idle, Carrying, CarriesOk, HandlerState, Uint

\* One reader moves, the others stay.
LEMMA ReaderMoves ==
  ASSUME Typed, NEW p \in Peers, NEW r \in Carrying, handler' = [handler EXCEPT ![p] = r]
  PROVE  handler' \in [Peers -> Carrying] /\ handler' \in [Peers -> HandlerState]
BY DEF Typed, Carrying

\* AdjustScore keeps every score within its bounds.
LEMMA RecordType ==
  ASSUME Typed, NEW p \in Peers, NEW d \in Int, Record(p, d)
  PROVE  score' \in [Peers -> Score]
<1>1. \A s \in Score : Adjusted(s, d) \in Score
  BY DEF Adjusted, Score, MinReputation, MaxReputation
<1> QED BY <1>1 DEF Typed, TypeOK, Record

\* A step that ends the handling of a block, with or without a record.
LEMMA DoneType ==
  ASSUME Typed, NEW p \in Peers, Done(p)
  PROVE  handler' \in [Peers -> Carrying] /\ handler' \in [Peers -> HandlerState]
BY IdleCarries, ReaderMoves DEF Done

\* A step that goes on with the same block and without new readings.
LEMMA GotoType ==
  ASSUME Typed, NEW p \in Peers, ~ At(p, "idle"),
         NEW step \in {"record", "getStake", "add", "reward"}, Goto(p, step)
  PROVE  handler' \in [Peers -> Carrying] /\ handler' \in [Peers -> HandlerState]
<1> DEFINE r == [handler[p] EXCEPT !.pc = step]
<1>1. handler[p] \in HandlerState /\ handler[p].v \in Block
  BY DEF Typed, Carrying, CarriesOk, At
<1>2. r \in HandlerState /\ r.v \in Block /\ r.pc = step
  BY <1>1 DEF HandlerState
<1>3. r \in Carrying
  BY <1>2 DEF Carrying, CarriesOk
<1>4. handler' = [handler EXCEPT ![p] = r]
  BY DEF Goto
<1> QED BY <1>3, <1>4, ReaderMoves

\* The reward of a block with its fees is a natural number.
LEMMA TotalRewardType ==
  ASSUME NEW b \in Block
  PROVE  TotalReward(b) \in Nat
<1>1. Vertex[b].Fees \in Nat /\ BaseReward \in Nat /\ MaxUint + 1 \in Nat \ {0}
  BY VertexType, BlockHandlerAssumption, MaxUintAssumption DEF Uint
<1>2. CollectedFees(b) \in Nat
  BY <1>1 DEF CollectedFees, Wrap
<1>3. CollectedFees(b) \div 2 \in Nat
  BY <1>2
<1> QED BY <1>1, <1>3 DEF TotalReward

\* A slash takes at most the stake (the percentage is at most 100).
LEMMA SlashAmount ==
  ASSUME NEW s \in Uint
  PROVE  CalculateSlashAmount(s) \in Uint /\ CalculateSlashAmount(s) <= s
<1> DEFINE P == DoubleSignSlashPercent
<1>1. s \in Nat /\ s <= MaxUint /\ MaxUint \in Nat /\ P \in Nat /\ P <= 100
  BY MaxUintAssumption, BlockHandlerAssumption DEF Uint
<1> HIDE DEF P
<1>2. s * P \in Nat /\ s * P <= s * 100
  BY <1>1
<1>3. ASSUME NEW n \in Nat, n <= s * 100 PROVE n \div 100 \in Nat /\ n \div 100 <= s
  BY <1>1, <1>3
<1>4. (s * P) \div 100 \in Nat /\ (s * P) \div 100 <= s
  BY <1>2, <1>3
<1> QED BY <1>1, <1>4 DEF CalculateSlashAmount, Uint, P

\* The genesis allocation sets a founder's balance and stake and keeps the account typed.
LEMMA AllocatedType ==
  ASSUME NEW acc \in Account, NEW a \in Addr
  PROVE  /\ Allocated(acc, a) \in Account
         /\ Allocated(acc, a).Stake = GenesisStake[a]
         /\ Allocated(acc, a).Balance = GenesisBalance[a]
BY BlockHandlerAssumption DEF Allocated, Account

\* The node starts typed.
LEMMA TypeInit == Init => Typed
<1> SUFFICES ASSUME Init PROVE Typed
  OBVIOUS
<1>1. accounts \in [Addr -> Account]
  <2>1. NewAccount \in Account
    BY MaxUintAssumption DEF NewAccount, Account, Uint
  <2>2. ASSUME NEW a \in Addr PROVE accounts[a] \in Account
    <3>1. Allocated(NewAccount, a) \in Account
      BY <2>1, AllocatedType
    <3>2. [Allocated(NewAccount, a) EXCEPT !.GrantStake = GenesisGrant[a]] \in Account
      BY <3>1, BlockHandlerAssumption DEF Account
    <3> QED BY <3>2 DEF Init
  <2> QED BY <2>2 DEF Init
<1>2. handler \in [Peers -> Carrying] /\ handler \in [Peers -> HandlerState]
  BY IdleCarries DEF Init, Carrying
<1>3. score \in [Peers -> Score]
  BY DEF Init, Score, InitialReputation, MinReputation, MaxReputation
<1> QED BY <1>1, <1>2, <1>3 DEF Init, Typed, TypeOK

\* Every step of a reader, of the miner and of a restart keeps the types.
LEMMA TypeNext == Typed /\ [Next]_vars => Typed'
<1> SUFFICES ASSUME Typed, [Next]_vars PROVE Typed'
  OBVIOUS
<1>s. /\ ScoreProtocolError \in Int /\ ScoreInvalidBlock \in Int /\ ScoreValidBlock \in Int
  BY DEF ScoreProtocolError, ScoreInvalidBlock, ScoreValidBlock
<1>c. ASSUME NEW p \in Peers, ~ At(p, "idle")
      PROVE  /\ handler[p] \in HandlerState /\ handler[p].v \in Block
             /\ Author(handler[p].v) \in Addr
             /\ GetStake(accounts, Author(handler[p].v)) \in Uint
             /\ GetBalance(accounts, Author(handler[p].v)) \in Uint
  <2>1. handler[p] \in HandlerState /\ handler[p].v \in Block
    BY <1>c DEF Typed, Carrying, CarriesOk, At
  <2> QED BY <2>1, VertexType, GetterTypes DEF Typed, TypeOK
<1>1. ASSUME NEW p \in Peers, ProtocolError(p) PROVE Typed'
  <2>1. score' \in [Peers -> Score]
    BY <1>1, <1>s, RecordType DEF ProtocolError
  <2>2. messages' \in [Peers -> Nat]
    BY <1>1 DEF ProtocolError, Arrive, Typed, TypeOK
  <2> QED BY <1>1, <2>1, <2>2 DEF ProtocolError, Arrive, Typed, TypeOK, slasher, totals
<1>2. ASSUME NEW p \in Peers, NEW b \in Block, Receive(p, b) PROVE Typed'
  <2> DEFINE r == [Idle EXCEPT !.pc = "validate", !.v = b]
  <2>0. Idle \in HandlerState
    BY IdleCarries DEF Carrying
  <2>a. r \in HandlerState /\ r.pc = "validate" /\ r.v = b
    BY <2>0 DEF HandlerState
  <2>1. r \in Carrying
    BY <2>a DEF Carrying, CarriesOk
  <2>2. handler' \in [Peers -> Carrying] /\ handler' \in [Peers -> HandlerState]
    BY <1>2, <2>1, ReaderMoves DEF Receive
  <2>3. messages' \in [Peers -> Nat]
    BY <1>2 DEF Receive, Arrive, Typed, TypeOK
  <2> QED BY <1>2, <2>2, <2>3 DEF Receive, Arrive, Typed, TypeOK, slasher, totals
<1>3. ASSUME NEW p \in Peers, ValidateBlock(p) PROVE Typed'
  <2>1. ~ At(p, "idle")
    BY <1>3 DEF ValidateBlock, At
  <2>2. handler' \in [Peers -> Carrying] /\ handler' \in [Peers -> HandlerState]
    BY <1>3, <2>1, GotoType, DoneType DEF ValidateBlock
  <2>3. score' \in [Peers -> Score]
    BY <1>3, <1>s, RecordType DEF ValidateBlock, Typed, TypeOK
  <2> QED BY <1>3, <2>2, <2>3 DEF ValidateBlock, Typed, TypeOK, slasher, totals, bounds
<1>4. ASSUME NEW p \in Peers, RecordBlockSigned(p) PROVE Typed'
  <2>1. ~ At(p, "idle")
    BY <1>4 DEF RecordBlockSigned, At
  <2>2. handler' \in [Peers -> Carrying] /\ handler' \in [Peers -> HandlerState]
    BY <1>4, <2>1, GotoType DEF RecordBlockSigned
  <2>3. score' \in [Peers -> Score]
    BY <1>4, <1>s, RecordType DEF RecordBlockSigned, Typed, TypeOK
  <2>4. handler[p].v \in Block /\ Author(handler[p].v) \in Addr /\ Round(handler[p].v) \in Nat
    BY <1>c, <2>1, VertexType
  <2>5. signedBlocks' \subseteq Nat \X Addr \X Block /\ passed' \subseteq Block
    BY <1>4, <2>4 DEF RecordBlockSigned, Cleanup, Typed, TypeOK
  <2> QED BY <1>4, <2>2, <2>3, <2>5 DEF RecordBlockSigned, Typed, TypeOK, totals, bounds
<1>5. ASSUME NEW p \in Peers, ReadStake(p) PROVE Typed'
  <2> DEFINE stake == GetStake(accounts, Author(handler[p].v))
             r == [handler[p] EXCEPT !.pc = "slash", !.read = stake]
  <2>1. ~ At(p, "idle")
    BY <1>5 DEF ReadStake, At
  <2>2. r \in HandlerState /\ r.v \in Block /\ r.pc = "slash"
    BY <1>c, <2>1 DEF HandlerState
  <2>3. r \in Carrying
    BY <2>2 DEF Carrying, CarriesOk
  <2>4. handler' = [handler EXCEPT ![p] = r] \/ Done(p)
    BY <1>5 DEF ReadStake
  <2>5. handler' \in [Peers -> Carrying] /\ handler' \in [Peers -> HandlerState]
    BY <2>3, <2>4, ReaderMoves, DoneType
  <2>6. score' \in [Peers -> Score]
    BY <1>5, <1>s, RecordType DEF ReadStake, Typed, TypeOK
  <2> QED BY <1>5, <2>5, <2>6 DEF ReadStake, Typed, TypeOK, slasher, totals, bounds
<1>6. ASSUME NEW p \in Peers, Slash(p) PROVE Typed'
  <2> DEFINE amount == CalculateSlashAmount(handler[p].read)
             r == [handler[p] EXCEPT !.pc = "setStake", !.amount = amount]
  <2>1. ~ At(p, "idle")
    BY <1>6 DEF Slash, At
  <2>2. amount \in Uint /\ amount \in Nat /\ amount <= handler[p].read
    BY <1>c, <2>1, SlashAmount, MaxUintAssumption DEF HandlerState, Uint
  <2>3. /\ r \in HandlerState /\ r.v \in Block /\ r.pc = "setStake"
        /\ r.amount = amount /\ r.read = handler[p].read
    BY <1>c, <2>1, <2>2 DEF HandlerState
  <2>4. r \in Carrying
    BY <2>2, <2>3 DEF Carrying, CarriesOk
  <2>5. handler' = [handler EXCEPT ![p] = r] \/ Done(p)
    BY <1>6 DEF Slash
  <2>6. handler' \in [Peers -> Carrying] /\ handler' \in [Peers -> HandlerState]
    BY <2>4, <2>5, ReaderMoves, DoneType
  <2>7. score' \in [Peers -> Score]
    BY <1>6, <1>s, RecordType DEF Slash, Typed, TypeOK
  <2>8. Author(handler[p].v) \in Addr /\ Vertex[handler[p].v].Timestamp + JailDuration \in Nat
    BY <1>c, <2>1, VertexType, BlockHandlerAssumption
  <2> HIDE DEF amount, r
  <2>9. slashed' \in [Addr -> Nat] /\ taken' \in [Addr -> Nat] /\ jailed' \in [Addr -> Nat]
    <3> DEFINE a == Author(handler[p].v)
               until == Vertex[handler[p].v].Timestamp + JailDuration
    <3>1. CASE amount > 0
      <4>1. /\ slashed' = [slashed EXCEPT ![a] = @ + amount]
            /\ taken' = [taken EXCEPT ![a] = @ + amount]
            /\ jailed' = [jailed EXCEPT ![a] = until]
        BY <1>6, <3>1 DEF Slash, amount
      <4>2. a \in Addr /\ until \in Nat
        BY <2>8
      <4> HIDE DEF a, until
      <4> QED BY <2>2, <4>1, <4>2 DEF Typed, TypeOK
    <3>2. CASE ~ (amount > 0)
      BY <1>6, <3>2 DEF Slash, Typed, TypeOK, amount
    <3> QED BY <3>1, <3>2
  <2> QED BY <1>6, <2>6, <2>7, <2>9 DEF Slash, Typed, TypeOK, bounds
<1>7. ASSUME NEW p \in Peers, WriteStake(p) PROVE Typed'
  <2>1. ~ At(p, "idle") /\ handler[p].amount <= handler[p].read
    BY <1>7 DEF WriteStake, At, Typed, Carrying, CarriesOk
  <2>2. handler[p].read - handler[p].amount \in Uint
    BY <1>c, <2>1, MaxUintAssumption DEF HandlerState, Uint
  <2>3. accounts' \in [Addr -> Account]
    BY <1>7, <1>c, <2>1, <2>2, SetStakeType DEF WriteStake, Typed, TypeOK
  <2>4. handler' \in [Peers -> Carrying] /\ handler' \in [Peers -> HandlerState]
    BY <1>7, DoneType DEF WriteStake
  <2>5. score' \in [Peers -> Score]
    BY <1>7, <1>s, RecordType DEF WriteStake
  <2> QED BY <1>7, <2>3, <2>4, <2>5 DEF WriteStake, Typed, TypeOK, slasher, totals, bounds
<1>8. ASSUME NEW p \in Peers, AddVertex(p) PROVE Typed'
  <2>1. ~ At(p, "idle")
    BY <1>8 DEF AddVertex, At
  <2>2. handler' \in [Peers -> Carrying] /\ handler' \in [Peers -> HandlerState]
    BY <1>8, <2>1, GotoType DEF AddVertex
  <2>3. Vertices' \subseteq Block
    BY <1>8, <1>c, <2>1 DEF AddVertex, Typed, TypeOK
  <2> QED BY <1>8, <2>2, <2>3 DEF AddVertex, Typed, TypeOK, slasher, totals, bounds
<1>9. ASSUME NEW p \in Peers, ReadBalance(p) PROVE Typed'
  <2> DEFINE bal == GetBalance(accounts, Author(handler[p].v))
             r == [handler[p] EXCEPT !.pc = "pay", !.read = bal]
  <2>1. ~ At(p, "idle")
    BY <1>9 DEF ReadBalance, At
  <2>2. /\ r \in HandlerState /\ r.v \in Block /\ r.pc = "pay"
        /\ r.v = handler[p].v /\ r.read = bal
    BY <1>c, <2>1 DEF HandlerState
  <2>3. SafeAddOk(bal, TotalReward(handler[p].v)) => r \in Carrying
    BY <2>2 DEF Carrying, CarriesOk
  <2>4. (handler' = [handler EXCEPT ![p] = r] /\ r \in Carrying) \/ Done(p)
    BY <1>9, <2>3 DEF ReadBalance
  <2>5. handler' \in [Peers -> Carrying] /\ handler' \in [Peers -> HandlerState]
    BY <2>4, ReaderMoves, DoneType
  <2> QED BY <1>9, <2>5 DEF ReadBalance, Typed, TypeOK, slasher, totals, bounds
<1>10. ASSUME NEW p \in Peers, WriteBalance(p) PROVE Typed'
  <2> DEFINE b == handler[p].v
  <2>1. ~ At(p, "idle") /\ SafeAddOk(handler[p].read, TotalReward(b))
    BY <1>10 DEF WriteBalance, At, Typed, Carrying, CarriesOk
  <2>2. b \in Block /\ Author(b) \in Addr /\ handler[p].read \in Uint /\ TotalReward(b) \in Nat
    BY <1>c, <2>1, TotalRewardType DEF HandlerState
  <2>3. handler[p].read + TotalReward(b) \in Uint
    BY <2>1, <2>2, SafeResults
  <2>4. accounts' \in [Addr -> Account]
    BY <1>10, <2>2, <2>3, SetBalanceType DEF WriteBalance, Typed, TypeOK
  <2>5. handler' \in [Peers -> Carrying] /\ handler' \in [Peers -> HandlerState]
    BY <1>10, DoneType DEF WriteBalance
  <2>6. paid' \in [Peers -> [Block -> Nat]] /\ credited' \in [Addr -> Nat]
    BY <1>10, <2>2 DEF WriteBalance, Typed, TypeOK
  <2> QED BY <1>10, <2>4, <2>5, <2>6 DEF WriteBalance, Typed, TypeOK, slasher, bounds
<1>11. ASSUME NEW b \in Block, Mine(b) PROVE Typed'
  BY <1>11 DEF Mine, Typed, TypeOK, slasher, totals, bounds
<1>12. CASE Restart
  <2>1. accounts' \in [Addr -> Account]
    BY <1>12, AllocatedType DEF Restart, Typed, TypeOK
  <2>2. handler' \in [Peers -> Carrying] /\ handler' \in [Peers -> HandlerState]
    BY <1>12, IdleCarries DEF Restart, Carrying
  <2>3. score' \in [Peers -> Score]
    BY <1>12 DEF Restart, Score, InitialReputation, MinReputation, MaxReputation
  <2> QED BY <1>12, <2>1, <2>2, <2>3 DEF Restart, Typed, TypeOK, totals
<1>13. CASE UNCHANGED vars
  BY <1>13 DEF vars, Typed, TypeOK, slasher, totals, bounds
<1> QED BY <1>1, <1>2, <1>3, <1>4, <1>5, <1>6, <1>7, <1>8, <1>9, <1>10, <1>11, <1>12, <1>13
        DEF Next

\* Balances and stakes stay uint64 and scores within their bounds, whatever
\* the readers interleave (handleBlock).
THEOREM TypeCorrect == Spec => []TypeOK
<1>1. Typed => TypeOK
  BY DEF Typed
<1> QED BY <1>1, TypeInit, TypeNext, PTL DEF Spec

-----------------------------------------------------------------------------
(* Conflicting blocks. *)

\* The inductive invariant: every block that passed the slasher is on record
\* unless the cleanup of a later block removed its round, a validator has one
\* block per round on record, and only passed blocks enter the DAG.
EvidenceInv ==
  /\ \A b \in passed : \/ <<Round(b), Author(b), b>> \in signedBlocks
                        \/ \E w \in passed : Round(w) = Round(b) + KeepRounds
  /\ \A r, s \in signedBlocks : r[1] = s[1] /\ r[2] = s[2] => r[3] = s[3]
  /\ Vertices \ mined \subseteq passed
  /\ \A p \in Peers : At(p, "add") => handler[p].v \in passed

\* A reader that comes to another step than "add" does not disturb the
\* invariant.
LEMMA EvidenceKept ==
  ASSUME EvidenceInv, UNCHANGED <<Vertices, signedBlocks, passed, mined>>,
         \A p \in Peers : At(p, "add")' => At(p, "add") /\ handler'[p].v = handler[p].v
  PROVE  EvidenceInv'
BY DEF EvidenceInv, At

\* Every step keeps the evidence: what was accepted is still known to the slasher.
LEMMA EvidenceNext == Typed /\ EvidenceInv /\ [Next]_vars => EvidenceInv'
<1> SUFFICES ASSUME Typed, EvidenceInv, [Next]_vars PROVE EvidenceInv'
  OBVIOUS
<1>0. handler \in [Peers -> HandlerState]
  BY DEF Typed, TypeOK
<1>1. ASSUME NEW p \in Peers, ProtocolError(p) PROVE EvidenceInv'
  BY <1>1, EvidenceKept DEF ProtocolError, At, slasher
<1>2. ASSUME NEW p \in Peers, NEW b \in Block, Receive(p, b) PROVE EvidenceInv'
  BY <1>0, <1>2, EvidenceKept DEF Receive, At, slasher, Idle
<1>3. ASSUME NEW p \in Peers, ValidateBlock(p) PROVE EvidenceInv'
  BY <1>0, <1>3, EvidenceKept DEF ValidateBlock, Goto, Done, At, slasher, Idle, HandlerState
<1>4. ASSUME NEW p \in Peers, RecordBlockSigned(p) PROVE EvidenceInv'
  <2> DEFINE b == handler[p].v
             e == <<Round(b), Author(b), b>>
  <2>1. b \in Block /\ Round(b) \in Nat /\ Author(b) \in Addr
    BY <1>4, VertexType DEF RecordBlockSigned, Typed, Carrying, CarriesOk, At
  <2>2. CASE \E s \in SignedBy(b) : s[3] # b
    BY <1>0, <1>4, <2>2, EvidenceKept DEF RecordBlockSigned, Goto, At, HandlerState
  <2>3. CASE ~ \E s \in SignedBy(b) : s[3] # b
    <3>1. /\ signedBlocks' = IF SignedBy(b) # {} THEN signedBlocks
                             ELSE Cleanup(signedBlocks \cup {e}, Round(b))
          /\ passed' = passed \cup {b} /\ Vertices' = Vertices /\ mined' = mined
      BY <1>4, <2>3 DEF RecordBlockSigned
    <3>2. \A q \in Peers : At(q, "add")' => handler'[q].v \in passed'
      BY <1>0, <1>4, <2>3, <3>1 DEF RecordBlockSigned, Goto, At, EvidenceInv, HandlerState
    <3>3. CASE SignedBy(b) # {}
      <4>1. e \in signedBlocks
        <5>1. PICK s \in signedBlocks : s[1] = Round(b) /\ s[2] = Author(b) /\ s[3] = b
          BY <2>3, <3>3 DEF SignedBy
        <5>2. s = <<s[1], s[2], s[3]>>
          BY DEF Typed, TypeOK
        <5> QED BY <5>1, <5>2
      <4> QED BY <3>1, <3>2, <3>3, <4>1 DEF EvidenceInv
    <3>4. CASE SignedBy(b) = {}
      <4>1. \A s \in signedBlocks : ~ (s[1] = Round(b) /\ s[2] = Author(b))
        BY <3>4 DEF SignedBy
      <4>2. signedBlocks' \subseteq signedBlocks \cup {e}
        BY <3>1, <3>4 DEF Cleanup
      <4>3. \A r, s \in signedBlocks' : r[1] = s[1] /\ r[2] = s[2] => r[3] = s[3]
        BY <4>1, <4>2 DEF EvidenceInv
      <4>4. ASSUME NEW s \in signedBlocks \cup {e}, s \notin signedBlocks', s[1] \in Nat
            PROVE  Round(b) = s[1] + KeepRounds
        BY <2>1, <3>1, <3>4, <4>4, BlockHandlerAssumption DEF Cleanup
      <4>5. ASSUME NEW c \in passed'
            PROVE  \/ <<Round(c), Author(c), c>> \in signedBlocks'
                   \/ \E w \in passed' : Round(w) = Round(c) + KeepRounds
        <5>1. Round(c) \in Nat
          BY <2>1, <3>1, VertexType DEF Typed, TypeOK
        <5>2. \/ <<Round(c), Author(c), c>> \in signedBlocks \cup {e}
              \/ \E w \in passed' : Round(w) = Round(c) + KeepRounds
          BY <3>1 DEF EvidenceInv
        <5> QED BY <3>1, <4>4, <5>1, <5>2
      <4> QED BY <3>1, <3>2, <4>3, <4>5 DEF EvidenceInv
    <3> QED BY <3>3, <3>4
  <2> QED BY <2>2, <2>3
<1>5. ASSUME NEW p \in Peers, ReadStake(p) PROVE EvidenceInv'
  BY <1>0, <1>5, EvidenceKept DEF ReadStake, Done, At, slasher, Idle, HandlerState
<1>6. ASSUME NEW p \in Peers, Slash(p) PROVE EvidenceInv'
  BY <1>0, <1>6, EvidenceKept DEF Slash, Done, At, Idle, HandlerState
<1>7. ASSUME NEW p \in Peers, WriteStake(p) PROVE EvidenceInv'
  BY <1>0, <1>7, EvidenceKept DEF WriteStake, Done, At, slasher, Idle
<1>8. ASSUME NEW p \in Peers, AddVertex(p) PROVE EvidenceInv'
  <2>1. /\ Vertices' = Vertices \cup {handler[p].v} /\ handler[p].v \in passed
        /\ UNCHANGED <<signedBlocks, passed, mined>>
    BY <1>8 DEF AddVertex, EvidenceInv, slasher
  <2>2. \A q \in Peers : At(q, "add")' => handler'[q].v \in passed
    BY <1>0, <1>8 DEF AddVertex, Goto, At, EvidenceInv, HandlerState
  <2> QED BY <2>1, <2>2 DEF EvidenceInv
<1>9. ASSUME NEW p \in Peers, ReadBalance(p) PROVE EvidenceInv'
  BY <1>0, <1>9, EvidenceKept DEF ReadBalance, Done, At, slasher, Idle, HandlerState
<1>10. ASSUME NEW p \in Peers, WriteBalance(p) PROVE EvidenceInv'
  BY <1>0, <1>10, EvidenceKept DEF WriteBalance, Done, At, slasher, Idle
<1>11. ASSUME NEW b \in Block, Mine(b) PROVE EvidenceInv'
  BY <1>11 DEF Mine, EvidenceInv, slasher, At
<1>12. CASE Restart
  BY <1>12 DEF Restart, EvidenceInv, At, Idle
<1>13. CASE UNCHANGED vars
  BY <1>13 DEF vars, EvidenceInv, slasher, At
<1> QED BY <1>1, <1>2, <1>3, <1>4, <1>5, <1>6, <1>7, <1>8, <1>9, <1>10, <1>11, <1>12, <1>13
        DEF Next

\* However many readers there are and however they interleave, two blocks of a
\* validator in one round both enter the DAG only once a block KeepRounds
\* later was seen (RecordBlockSigned).
THEOREM ConflictsStayOut == Spec => []NoConflictingAccepted
<1>1. Init => EvidenceInv
  BY DEF Init, EvidenceInv, At, Idle
<1>2. EvidenceInv => NoConflictingAccepted
  <2> SUFFICES ASSUME EvidenceInv, NEW u \in Vertices \ mined, NEW v \in Vertices \ mined,
                      u # v, Author(u) = Author(v), Round(u) = Round(v)
               PROVE  \E w \in passed : Round(w) = Round(u) + KeepRounds
    BY DEF NoConflictingAccepted
  <2>1. u \in passed /\ v \in passed
    BY DEF EvidenceInv
  <2>2. ~ ( /\ <<Round(u), Author(u), u>> \in signedBlocks
            /\ <<Round(v), Author(v), v>> \in signedBlocks )
    BY DEF EvidenceInv
  <2> QED BY <2>1, <2>2 DEF EvidenceInv
<1> QED BY <1>1, <1>2, TypeInit, TypeNext, EvidenceNext, PTL DEF Spec

-----------------------------------------------------------------------------
(* One reward per reader, block and start. *)

\* The inductive invariant: a block that is not in the DAG, and a block a
\* reader has yet to pay, has not been paid by that reader since the start.
PaidInv ==
  \A p \in Peers :
    /\ \A b \in Block : /\ paid[p][b] <= 1 + restarts
                        /\ b \notin Vertices => paid[p][b] <= restarts
    /\ ~ At(p, "idle") => paid[p][handler[p].v] <= restarts
    /\ At(p, "reward") \/ At(p, "pay") => handler[p].v \in Vertices

\* A reader that keeps its block, or drops it, and does not come to the reward.
LEMMA PaidKept ==
  ASSUME PaidInv, UNCHANGED <<Vertices, paid, restarts>>,
         \A p \in Peers : \/ At(p, "idle")'
                          \/ /\ ~ At(p, "idle") /\ handler'[p].v = handler[p].v
                             /\ At(p, "reward")' \/ At(p, "pay")' =>
                                  At(p, "reward") \/ At(p, "pay")
  PROVE  PaidInv'
BY DEF PaidInv, At

\* Every step keeps what a reader has paid consistent with where it is.
LEMMA PaidNext == Typed /\ PaidInv /\ [Next]_vars => PaidInv'
<1> SUFFICES ASSUME Typed, PaidInv, [Next]_vars PROVE PaidInv'
  OBVIOUS
<1>0. handler \in [Peers -> HandlerState]
  BY DEF Typed, TypeOK
<1>t. restarts \in Nat /\ paid \in [Peers -> [Block -> Nat]]
  BY DEF Typed, TypeOK
<1>v. ASSUME NEW p \in Peers, ~ At(p, "idle") PROVE handler[p].v \in Block
  BY <1>v DEF Typed, Carrying, CarriesOk, At
<1>1. ASSUME NEW p \in Peers, ProtocolError(p) PROVE PaidInv'
  BY <1>0, <1>1, PaidKept DEF ProtocolError, Goto, Done, At, slasher, totals, bounds, Arrive, Idle, HandlerState
<1>2. ASSUME NEW p \in Peers, NEW b \in Block, Receive(p, b) PROVE PaidInv'
  <2>1. /\ b \notin Vertices /\ UNCHANGED <<Vertices, paid, restarts>>
        /\ handler'[p].v = b /\ handler'[p].pc = "validate"
        /\ \A q \in Peers \ {p} : handler'[q] = handler[q]
    BY <1>0, <1>2 DEF Receive, HasVertex, Arrive, Idle
  <2> QED BY <2>1 DEF PaidInv, At
<1>3. ASSUME NEW p \in Peers, ValidateBlock(p) PROVE PaidInv'
  BY <1>0, <1>3, PaidKept DEF ValidateBlock, Goto, Done, At, slasher, totals, bounds, Arrive, Idle, HandlerState
<1>4. ASSUME NEW p \in Peers, RecordBlockSigned(p) PROVE PaidInv'
  BY <1>0, <1>4, PaidKept DEF RecordBlockSigned, Goto, Done, At, slasher, totals, bounds, Arrive, Idle, HandlerState
<1>5. ASSUME NEW p \in Peers, ReadStake(p) PROVE PaidInv'
  BY <1>0, <1>5, PaidKept DEF ReadStake, Goto, Done, At, slasher, totals, bounds, Arrive, Idle, HandlerState
<1>6. ASSUME NEW p \in Peers, Slash(p) PROVE PaidInv'
  BY <1>0, <1>6, PaidKept DEF Slash, Goto, Done, At, slasher, totals, bounds, Arrive, Idle, HandlerState
<1>7. ASSUME NEW p \in Peers, WriteStake(p) PROVE PaidInv'
  BY <1>0, <1>7, PaidKept DEF WriteStake, Goto, Done, At, slasher, totals, bounds, Arrive, Idle, HandlerState
<1>8. ASSUME NEW p \in Peers, AddVertex(p) PROVE PaidInv'
  <2>1. /\ Vertices' = Vertices \cup {handler[p].v} /\ UNCHANGED <<paid, restarts>>
        /\ ~ At(p, "idle") /\ handler'[p].v = handler[p].v
        /\ \A q \in Peers \ {p} : handler'[q] = handler[q]
    BY <1>0, <1>8 DEF AddVertex, Goto, At, HandlerState, bounds
  <2> QED BY <2>1 DEF PaidInv, At
<1>9. ASSUME NEW p \in Peers, ReadBalance(p) PROVE PaidInv'
  BY <1>0, <1>9, PaidKept DEF ReadBalance, Goto, Done, At, slasher, totals, bounds, Arrive, Idle, HandlerState
<1>10. ASSUME NEW p \in Peers, WriteBalance(p) PROVE PaidInv'
  <2> DEFINE b == handler[p].v
  <2>1. /\ b \in Block /\ b \in Vertices /\ paid[p][b] <= restarts
        /\ paid' = [paid EXCEPT ![p][b] = @ + 1] /\ UNCHANGED <<Vertices, restarts>>
        /\ handler'[p].pc = "idle" /\ \A q \in Peers \ {p} : handler'[q] = handler[q]
    BY <1>0, <1>v, <1>10 DEF WriteBalance, Done, At, Idle, PaidInv, bounds
  <2>2. paid'[p][b] <= 1 + restarts
    BY <1>t, <2>1
  <2>3. \A c \in Block \ {b} : paid'[p][c] = paid[p][c]
    BY <1>t, <2>1
  <2>4. \A q \in Peers \ {p} : paid'[q] = paid[q]
    BY <1>t, <2>1
  <2> HIDE DEF b
  <2> QED BY <2>1, <2>2, <2>3, <2>4 DEF PaidInv, At
<1>11. ASSUME NEW b \in Block, Mine(b) PROVE PaidInv'
  BY <1>11 DEF Mine, PaidInv, At, bounds
<1>12. CASE Restart
  <2>1. /\ Vertices' = {} /\ restarts' = restarts + 1 /\ paid' = paid
        /\ \A p \in Peers : handler'[p].pc = "idle"
    BY <1>12 DEF Restart, Idle
  <2> QED BY <1>t, <2>1 DEF PaidInv, At
<1>13. CASE UNCHANGED vars
  BY <1>13 DEF vars, PaidInv, At, bounds
<1> QED BY <1>1, <1>2, <1>3, <1>4, <1>5, <1>6, <1>7, <1>8, <1>9, <1>10, <1>11, <1>12, <1>13
        DEF Next

\* A reader pays a block at most once between two starts, so a block is paid at
\* most once per reader and start (HasVertex, AddVertex, ApplyBlockReward).
THEOREM ReadersPayOnce == Spec => []PaidOncePerReader
<1>1. Init => PaidInv
  BY DEF Init, PaidInv, At, Idle
<1>2. PaidInv => PaidOncePerReader
  BY DEF PaidInv, PaidOncePerReader
<1> QED BY <1>1, <1>2, TypeInit, TypeNext, PaidNext, PTL DEF Spec

-----------------------------------------------------------------------------
(* Bounds on the books. *)

\* A stake and a balance of address a that races may produce.
StakeOk(a, s) == s >= GenesisStake[a] - taken[a] /\ s <= GenesisStake[a]
BalanceOk(a, n) == n >= GenesisBalance[a] /\ n <= GenesisBalance[a] + credited[a]

\* The inductive invariant: the books are within their bounds, and so is what
\* a reader has read and is going to write back.
BooksInv ==
  /\ \A a \in Addr : StakeOk(a, accounts[a].Stake) /\ BalanceOk(a, accounts[a].Balance)
  /\ \A p \in Peers :
       LET h == handler[p]
           a == Author(h.v)
       IN  /\ At(p, "slash") => StakeOk(a, h.read)
           /\ At(p, "setStake") => StakeOk(a, h.read - h.amount)
           /\ At(p, "pay") => BalanceOk(a, h.read)

\* A step that leaves the books alone and reads nothing.
LEMMA BooksKept ==
  ASSUME BooksInv, UNCHANGED <<accounts, taken, credited>>,
         \A p \in Peers : \/ handler'[p] = handler[p]
                          \/ handler'[p].pc \notin {"slash", "setStake", "pay"}
  PROVE  BooksInv'
BY DEF BooksInv, StakeOk, BalanceOk, At

\* Every step keeps the books within what was slashed and paid.
LEMMA BooksNext == Typed /\ BooksInv /\ [Next]_vars => BooksInv'
<1> SUFFICES ASSUME Typed, BooksInv, [Next]_vars PROVE BooksInv'
  OBVIOUS
<1>0. handler \in [Peers -> HandlerState]
  BY DEF Typed, TypeOK
<1>t. /\ taken \in [Addr -> Nat] /\ credited \in [Addr -> Nat]
      /\ accounts \in [Addr -> Account]
      /\ \A a \in Addr : GenesisStake[a] \in Nat /\ GenesisBalance[a] \in Nat
  BY MaxUintAssumption, BlockHandlerAssumption DEF Typed, TypeOK, Uint
<1>v. ASSUME NEW p \in Peers, ~ At(p, "idle")
      PROVE  handler[p].v \in Block /\ Author(handler[p].v) \in Addr
  BY <1>v, VertexType DEF Typed, Carrying, CarriesOk, At
<1>r. \A p \in Peers : handler[p].read \in Nat /\ handler[p].amount \in Nat
  BY <1>0, MaxUintAssumption DEF HandlerState, Uint
<1>1. ASSUME NEW p \in Peers, ProtocolError(p) PROVE BooksInv'
  BY <1>0, <1>1, BooksKept DEF ProtocolError, Goto, Done, At, slasher, totals, bounds, Arrive, Idle, HandlerState
<1>2. ASSUME NEW p \in Peers, NEW b \in Block, Receive(p, b) PROVE BooksInv'
  BY <1>0, <1>2, BooksKept DEF Receive, Goto, Done, At, slasher, totals, bounds, Arrive, Idle, HandlerState
<1>3. ASSUME NEW p \in Peers, ValidateBlock(p) PROVE BooksInv'
  BY <1>0, <1>3, BooksKept DEF ValidateBlock, Goto, Done, At, slasher, totals, bounds, Arrive, Idle, HandlerState
<1>4. ASSUME NEW p \in Peers, RecordBlockSigned(p) PROVE BooksInv'
  BY <1>0, <1>4, BooksKept DEF RecordBlockSigned, Goto, Done, At, slasher, totals, bounds, Arrive, Idle, HandlerState
<1>5. ASSUME NEW p \in Peers, ReadStake(p) PROVE BooksInv'
  <2>1. CASE GetStake(accounts, Author(handler[p].v)) > 0
    <3>1. /\ handler'[p].pc = "slash" /\ handler'[p].v = handler[p].v
          /\ handler'[p].read = accounts[Author(handler[p].v)].Stake
          /\ Author(handler[p].v) \in Addr
          /\ \A q \in Peers \ {p} : handler'[q] = handler[q]
          /\ UNCHANGED <<accounts, taken, credited>>
      BY <1>0, <1>v, <1>5, <2>1 DEF ReadStake, GetStake, At, HandlerState, totals
    <3> QED BY <3>1 DEF BooksInv, StakeOk, BalanceOk, At
  <2>2. CASE ~ (GetStake(accounts, Author(handler[p].v)) > 0)
    BY <1>0, <1>5, <2>2, BooksKept DEF ReadStake, Done, Idle, totals
  <2> QED BY <2>1, <2>2
<1>6. ASSUME NEW p \in Peers, Slash(p) PROVE BooksInv'
  <2> DEFINE amount == CalculateSlashAmount(handler[p].read)
             a == Author(handler[p].v)
  <2>1. CASE amount > 0
    <3>1. /\ taken' = [taken EXCEPT ![a] = @ + amount]
          /\ handler'[p].pc = "setStake" /\ handler'[p].v = handler[p].v
          /\ handler'[p].read = handler[p].read /\ handler'[p].amount = amount
          /\ \A q \in Peers \ {p} : handler'[q] = handler[q]
          /\ UNCHANGED <<accounts, credited>> /\ a \in Addr
      BY <1>0, <1>v, <1>6, <2>1 DEF Slash, At, HandlerState
    <3>2. StakeOk(a, handler[p].read)
      BY <1>6 DEF Slash, BooksInv
    <3>3. amount \in Nat
      BY <1>0, SlashAmount, MaxUintAssumption DEF HandlerState, Uint
    <3> HIDE DEF amount
    <3>4. /\ taken'[a] = taken[a] + amount
          /\ \A c \in Addr : taken'[c] \in Nat /\ taken'[c] >= taken[c]
      BY <1>t, <3>1, <3>3
    <3>5. /\ handler[p].read - amount >= GenesisStake[a] - taken'[a]
          /\ handler[p].read - amount <= GenesisStake[a]
      <4>1. /\ handler[p].read \in Nat /\ taken[a] \in Nat /\ GenesisStake[a] \in Nat
            /\ taken'[a] = taken[a] + amount
        BY <1>t, <1>r, <3>1, <3>4
      <4> QED BY <3>2, <3>3, <4>1 DEF StakeOk
    <3>6. \A c \in Addr, s \in Int : StakeOk(c, s) => StakeOk(c, s)'
      <4> TAKE c \in Addr, s \in Int
      <4>1. /\ GenesisStake[c] \in Int /\ taken[c] \in Int /\ taken'[c] \in Int
            /\ taken'[c] >= taken[c]
        BY <1>t, <3>4
      <4>2. s >= GenesisStake[c] - taken[c] => s >= GenesisStake[c] - taken'[c]
        BY <4>1
      <4> QED BY <4>2 DEF StakeOk
    <3>7. \A c \in Addr : accounts'[c].Stake \in Int
      <4>1. ASSUME NEW c \in Addr PROVE accounts[c].Stake \in Uint
        BY <1>t DEF Account
      <4>2. accounts' = accounts
        BY <3>1
      <4> QED BY <4>1, <4>2, MaxUintAssumption DEF Uint
    <3>8. \A c \in Addr : (StakeOk(c, accounts[c].Stake) /\ BalanceOk(c, accounts[c].Balance))'
      BY <3>1, <3>6, <3>7 DEF BooksInv, BalanceOk
    <3>9. ASSUME NEW q \in Peers \ {p}
          PROVE  /\ At(q, "slash")' => StakeOk(Author(handler[q].v), handler[q].read)'
                 /\ At(q, "setStake")' =>
                      StakeOk(Author(handler[q].v), handler[q].read - handler[q].amount)'
                 /\ At(q, "pay")' => BalanceOk(Author(handler[q].v), handler[q].read)'
      <4>1. handler'[q] = handler[q] /\ credited' = credited
        BY <3>1
      <4>2. CASE At(q, "slash")
        <5>1. StakeOk(Author(handler[q].v), handler[q].read)
          BY <4>2 DEF BooksInv
        <5>2. Author(handler[q].v) \in Addr /\ handler[q].read \in Int
          BY <1>r, <1>v, <4>2 DEF At
        <5> QED BY <3>6, <4>1, <4>2, <5>1, <5>2 DEF At
      <4>3. CASE At(q, "setStake")
        <5>1. StakeOk(Author(handler[q].v), handler[q].read - handler[q].amount)
          BY <4>3 DEF BooksInv
        <5>2. Author(handler[q].v) \in Addr /\ handler[q].read - handler[q].amount \in Int
          BY <1>r, <1>v, <4>3 DEF At
        <5> QED BY <3>6, <4>1, <4>3, <5>1, <5>2 DEF At
      <4>4. CASE At(q, "pay")
        BY <4>1, <4>4 DEF BooksInv, BalanceOk, At
      <4>5. CASE handler[q].pc \notin {"slash", "setStake", "pay"}
        BY <4>1, <4>5 DEF At
      <4> QED BY <4>2, <4>3, <4>4, <4>5 DEF At
    <3>10. StakeOk(Author(handler[p].v), handler[p].read - handler[p].amount)'
      BY <3>1, <3>5 DEF StakeOk
    <3> QED BY <3>1, <3>8, <3>9, <3>10 DEF BooksInv, At
  <2>2. CASE ~ (amount > 0)
    BY <1>0, <1>6, <2>2, BooksKept DEF Slash, Done, Idle
  <2> QED BY <2>1, <2>2
<1>7. ASSUME NEW p \in Peers, WriteStake(p) PROVE BooksInv'
  <2>1. /\ Author(handler[p].v) \in Addr /\ handler'[p].pc = "idle"
        /\ StakeOk(Author(handler[p].v), handler[p].read - handler[p].amount)
        /\ accounts' = [accounts EXCEPT ![Author(handler[p].v)].Stake =
                          handler[p].read - handler[p].amount]
        /\ \A q \in Peers \ {p} : handler'[q] = handler[q]
        /\ UNCHANGED <<taken, credited>>
    BY <1>0, <1>v, <1>7 DEF WriteStake, Done, SetStake, At, Idle, BooksInv, totals
  <2>2. /\ accounts'[Author(handler[p].v)].Stake = handler[p].read - handler[p].amount
        /\ \A c \in Addr : accounts'[c].Balance = accounts[c].Balance
        /\ \A c \in Addr \ {Author(handler[p].v)} : accounts'[c].Stake = accounts[c].Stake
    BY <1>t, <2>1 DEF Account
  <2> QED BY <2>1, <2>2 DEF BooksInv, StakeOk, BalanceOk, At
<1>8. ASSUME NEW p \in Peers, AddVertex(p) PROVE BooksInv'
  BY <1>0, <1>8, BooksKept DEF AddVertex, Goto, Done, At, slasher, totals, bounds, Arrive, Idle, HandlerState
<1>9. ASSUME NEW p \in Peers, ReadBalance(p) PROVE BooksInv'
  <2>1. CASE handler' = [handler EXCEPT ![p].pc = "pay",
                           ![p].read = GetBalance(accounts, Author(handler[p].v))]
    <3>1. /\ handler'[p].pc = "pay" /\ handler'[p].v = handler[p].v
          /\ handler'[p].read = accounts[Author(handler[p].v)].Balance
          /\ Author(handler[p].v) \in Addr
          /\ \A q \in Peers \ {p} : handler'[q] = handler[q]
          /\ UNCHANGED <<accounts, taken, credited>>
      BY <1>0, <1>v, <1>9, <2>1 DEF ReadBalance, GetBalance, At, HandlerState, totals
    <3> QED BY <3>1 DEF BooksInv, StakeOk, BalanceOk, At
  <2>2. CASE Done(p)
    BY <1>0, <1>9, <2>2, BooksKept DEF ReadBalance, Done, Idle, totals
  <2> QED BY <1>9, <2>1, <2>2 DEF ReadBalance
<1>10. ASSUME NEW p \in Peers, WriteBalance(p) PROVE BooksInv'
  <2> DEFINE a == Author(handler[p].v)
             reward == TotalReward(handler[p].v)
  <2>1. /\ a \in Addr /\ handler'[p].pc = "idle" /\ BalanceOk(a, handler[p].read)
        /\ accounts' = [accounts EXCEPT ![a].Balance = handler[p].read + reward]
        /\ credited' = [credited EXCEPT ![a] = @ + reward] /\ taken' = taken
        /\ \A q \in Peers \ {p} : handler'[q] = handler[q]
    BY <1>0, <1>v, <1>10 DEF WriteBalance, Done, SetBalance, At, Idle, BooksInv
  <2>2. reward \in Nat
    BY <1>v, <1>10, TotalRewardType DEF WriteBalance, At
  <2> HIDE DEF reward
  <2>3. /\ accounts'[a].Balance = handler[p].read + reward
        /\ \A c \in Addr : accounts'[c].Stake = accounts[c].Stake
        /\ \A c \in Addr \ {a} : accounts'[c].Balance = accounts[c].Balance
    BY <1>t, <2>1 DEF Account
  <2>4. /\ credited'[a] = credited[a] + reward
        /\ \A c \in Addr : credited'[c] \in Nat /\ credited'[c] >= credited[c]
    BY <1>t, <2>1, <2>2
  <2>5. \A c \in Addr, n \in Int : BalanceOk(c, n) => BalanceOk(c, n)'
    BY <1>t, <2>4 DEF BalanceOk
  <2>6. /\ handler[p].read + reward >= GenesisBalance[a]
        /\ handler[p].read + reward <= GenesisBalance[a] + credited'[a]
    BY <1>t, <1>r, <2>1, <2>2, <2>4 DEF BalanceOk
  <2>7. \A c \in Addr : accounts[c].Balance \in Int
    BY <1>t, MaxUintAssumption DEF Account, Uint
  <2>8. \A c \in Addr : (StakeOk(c, accounts[c].Stake) /\ BalanceOk(c, accounts[c].Balance))'
    <3> SUFFICES ASSUME NEW c \in Addr
                 PROVE  (StakeOk(c, accounts[c].Stake) /\ BalanceOk(c, accounts[c].Balance))'
      OBVIOUS
    <3>1. StakeOk(c, accounts[c].Stake)'
      BY <2>1, <2>3 DEF BooksInv, StakeOk
    <3>2. CASE c = a
      BY <2>3, <2>6, <3>1, <3>2 DEF BalanceOk
    <3>3. CASE c # a
      <4>1. BalanceOk(c, accounts[c].Balance) /\ accounts'[c].Balance = accounts[c].Balance
        BY <2>3, <3>3 DEF BooksInv
      <4>2. credited'[c] >= credited[c] /\ credited'[c] \in Nat /\ credited[c] \in Nat
        BY <1>t, <2>4
      <4>3. BalanceOk(c, accounts[c].Balance)'
        BY <1>t, <2>7, <4>1, <4>2 DEF BalanceOk
      <4> QED BY <3>1, <4>3
    <3> QED BY <3>2, <3>3
  <2>9. ASSUME NEW q \in Peers \ {p}
        PROVE  /\ At(q, "slash")' => StakeOk(Author(handler[q].v), handler[q].read)'
               /\ At(q, "setStake")' =>
                    StakeOk(Author(handler[q].v), handler[q].read - handler[q].amount)'
               /\ At(q, "pay")' => BalanceOk(Author(handler[q].v), handler[q].read)'
    BY <1>r, <1>v, <2>1, <2>5 DEF BooksInv, StakeOk, At
  <2> QED BY <2>1, <2>8, <2>9 DEF BooksInv, At
<1>11. ASSUME NEW b \in Block, Mine(b) PROVE BooksInv'
  BY <1>11, BooksKept DEF Mine, totals
<1>12. CASE Restart
  <2>1. /\ UNCHANGED <<taken, credited>> /\ \A p \in Peers : handler'[p].pc = "idle"
        /\ \A a \in Addr : accounts'[a] = accounts[a] \/ accounts'[a] = Allocated(accounts[a], a)
    BY <1>12 DEF Restart, Idle, totals
  <2>2. \A a \in Addr : (StakeOk(a, accounts[a].Stake) /\ BalanceOk(a, accounts[a].Balance))'
    <3> SUFFICES ASSUME NEW a \in Addr
                 PROVE  (StakeOk(a, accounts[a].Stake) /\ BalanceOk(a, accounts[a].Balance))'
      OBVIOUS
    <3>1. \/ accounts'[a] = accounts[a]
          \/ accounts'[a].Stake = GenesisStake[a] /\ accounts'[a].Balance = GenesisBalance[a]
      BY <1>t, <2>1, AllocatedType
    <3>2. taken[a] \in Nat /\ credited[a] \in Nat /\ GenesisStake[a] \in Nat /\ GenesisBalance[a] \in Nat
      BY <1>t
    <3>3. CASE accounts'[a] = accounts[a]
      BY <2>1, <3>3 DEF BooksInv, StakeOk, BalanceOk
    <3>4. CASE accounts'[a].Stake = GenesisStake[a] /\ accounts'[a].Balance = GenesisBalance[a]
      <4>1. taken'[a] = taken[a] /\ credited'[a] = credited[a]
        BY <2>1
      <4>2. /\ GenesisStake[a] >= GenesisStake[a] - taken[a] /\ GenesisStake[a] <= GenesisStake[a]
            /\ GenesisBalance[a] >= GenesisBalance[a]
            /\ GenesisBalance[a] <= GenesisBalance[a] + credited[a]
        BY <3>2
      <4>3. StakeOk(a, accounts[a].Stake)' /\ BalanceOk(a, accounts[a].Balance)'
        BY <3>4, <4>1, <4>2 DEF StakeOk, BalanceOk
      <4> QED BY <4>3
    <3> QED BY <3>1, <3>3, <3>4
  <2> QED BY <2>1, <2>2 DEF BooksInv, At
<1>13. CASE UNCHANGED vars
  BY <1>13, BooksKept DEF vars, totals
<1> QED BY <1>1, <1>2, <1>3, <1>4, <1>5, <1>6, <1>7, <1>8, <1>9, <1>10, <1>11, <1>12, <1>13
        DEF Next

\* Races between readers never take more stake than was recorded as slashed
\* nor credit more than was paid, over all restarts (handleBlock reads, then
\* writes, without holding the lock in between).
THEOREM BooksStayBounded == Spec => []BooksBounded
<1>1. Init => BooksInv
  <2> SUFFICES ASSUME Init PROVE BooksInv
    OBVIOUS
  <2>1. \A p \in Peers : handler[p].pc = "idle"
    BY DEF Init, Idle
  <2>2. ASSUME NEW a \in Addr
        PROVE  StakeOk(a, accounts[a].Stake) /\ BalanceOk(a, accounts[a].Balance)
    <3>1. accounts[a].Stake = GenesisStake[a] /\ accounts[a].Balance = GenesisBalance[a]
      BY DEF Init, Allocated, NewAccount
    <3>2. /\ taken[a] = 0 /\ credited[a] = 0
          /\ GenesisStake[a] \in Nat /\ GenesisBalance[a] \in Nat
      BY BlockHandlerAssumption, MaxUintAssumption DEF Init, Uint
    <3> QED BY <3>1, <3>2 DEF StakeOk, BalanceOk
  <2> QED BY <2>1, <2>2 DEF BooksInv, At
<1>2. Typed /\ BooksInv => BooksBounded
  <2> SUFFICES ASSUME Typed, BooksInv, NEW a \in Addr
               PROVE  /\ GetStake(accounts, a) \in GenesisStake[a] - taken[a] .. GenesisStake[a]
                      /\ GetBalance(accounts, a) \in GenesisBalance[a] .. GenesisBalance[a] + credited[a]
    BY DEF BooksBounded
  <2>1. /\ accounts[a].Stake \in Nat /\ accounts[a].Balance \in Nat
        /\ taken[a] \in Nat /\ credited[a] \in Nat
        /\ GenesisStake[a] \in Nat /\ GenesisBalance[a] \in Nat
    BY MaxUintAssumption, BlockHandlerAssumption DEF Typed, TypeOK, Account, Uint
  <2>2. StakeOk(a, accounts[a].Stake) /\ BalanceOk(a, accounts[a].Balance)
    BY DEF BooksInv
  <2>3. GetStake(accounts, a) \in GenesisStake[a] - taken[a] .. GenesisStake[a]
    BY <2>1, <2>2 DEF StakeOk, GetStake
  <2>4. GetBalance(accounts, a) \in GenesisBalance[a] .. GenesisBalance[a] + credited[a]
    BY <2>1, <2>2 DEF BalanceOk, GetBalance
  <2> QED BY <2>3, <2>4
<1> QED BY <1>1, <1>2, TypeInit, TypeNext, BooksNext, PTL DEF Spec

-----------------------------------------------------------------------------
(* The wallets. *)

\* The step of a request fits its operation, and it has an object where it needs
\* one.
WellFormed(c) ==
  /\ c.pc \in {"put", "open", "write"} => c.op = "put"
  /\ c.pc \in {"remove", "unlink"} => c.op = "delete"
  /\ c.pc = "clear" => c.op = "lock"
  /\ c.pc = "find" => c.op \in {"lock", "unlock", "delete", "send"}
  /\ c.pc = "decrypt" => c.op \in {"unlock", "delete", "send"}
  /\ c.pc \in {"decrypt", "clear", "use", "open", "write"} => c.slot \in Slot
  /\ c.pc \in {"put", "open"} => ~ c.unlinked

\* Two requests between the map and the file of an address both know that they
\* were disturbed.
Alone ==
  \A q, o \in Requests : \A a \in Address :
    q # o /\ Saving(q, a) /\ Saving(o, a) => call[q].disturbed

\* While an address counts as locked, nobody is about to decrypt or replace it.
LockedAlone ==
  \A r \in Requests : \A a \in Address : lockedSince[a] => ~ Opening(r, a)

\* What a request that nobody disturbed still finds when it goes on.
SendOwn(r) ==
  call[r].op = "send" =>
    LET a == call[r].addr
    IN  /\ CallAt(r, "decrypt") =>
             wallets[a] # 0 /\ (call[r].slot = wallets[a] \/ heap[a][wallets[a]].unlocked)
        /\ CallAt(r, "again") => wallets[a] # 0 /\ heap[a][wallets[a]].unlocked
        /\ CallAt(r, "use") => heap[a][call[r].slot].unlocked

StoreOwn(r) ==
  LET a == call[r].addr
  IN  /\ call[r].pc \in {"open", "write"} =>
           call[r].slot = wallets[a] /\ heap[a][wallets[a]].pass = call[r].pass
      /\ CallAt(r, "write") => file[a] = Torn /\ ~ call[r].unlinked
      /\ CallAt(r, "unlink") => wallets[a] = 0

Own(r) == ~ call[r].disturbed => SendOwn(r) /\ StoreOwn(r)

WalletInv ==
  /\ WalletTypeOK
  /\ \A r \in Requests : WellFormed(call[r])
  /\ Alone
  /\ LockedAlone
  /\ LockHolds
  /\ \A r \in Requests : Own(r)
  /\ KeepsPromise

\* The two halves of KeepsPromise, of one address.
FileOk(a) ==
  \/ a \in damaged
  \/ \E r \in Requests : Writing(r, a)
  \/ file[a] = promised[a]

MapOk(a) ==
  \/ a \in adrift
  \/ \E r \in Requests : Saving(r, a)
  \/ Stored(a) = promised[a]

\* KeepsPromise is both, of every address.
LEMMA PromiseHalves == KeepsPromise <=> \A a \in Address : FileOk(a) /\ MapOk(a)
BY DEF KeepsPromise, FileOk, MapOk

\* The same in the next state.
LEMMA PromiseHalvesNext == KeepsPromise' <=> \A a \in Address : FileOk(a)' /\ MapOk(a)'
BY DEF KeepsPromise, FileOk, MapOk

-----------------------------------------------------------------------------
(* What a step of one request leaves of the others. *)

\* A request is at the same step of the same call.
SameStage(q) ==
  /\ call'[q].op = call[q].op /\ call'[q].pc = call[q].pc /\ call'[q].addr = call[q].addr
  /\ call'[q].pass = call[q].pass /\ call'[q].slot = call[q].slot
  /\ call[q].disturbed => call'[q].disturbed
  /\ call[q].pc # "write" => call'[q].unlinked = call[q].unlinked

\* A step of r leaves the other requests where they are.
Leaves(r) == \A q \in Requests : q # r => SameStage(q)

\* A request at the same step is about the same things.
LEMMA Stages ==
  ASSUME NEW q \in Requests, SameStage(q), NEW a \in Address
  PROVE  /\ On(q, a)' <=> On(q, a)
         /\ Saving(q, a)' <=> Saving(q, a)
         /\ Writing(q, a)' <=> Writing(q, a)
         /\ Opening(q, a)' <=> Opening(q, a)
         /\ Sending(q, a)' <=> Sending(q, a)
BY DEF SameStage, On, Active, Saving, Writing, Opening, Sending

\* The call of a request that has none.
LEMMA IdleType ==
  NoCall \in CallState /\ NoCall.pc = "idle" /\ NoCall.op = "none"
<1>. (CHOOSE x \in Address : TRUE) \in Address
  BY WalletAssumption
<1>. QED BY WalletAssumption DEF NoCall, CallState, Steps, Ops

\* One call becomes another, the others are left alone.
LEMMA Becomes ==
  ASSUME WalletTypeOK, NEW r \in Requests, NEW c \in CallState, call' = [call EXCEPT ![r] = c]
  PROVE  call' \in [Requests -> CallState] /\ call'[r] = c /\ Leaves(r)
<1>. call \in [Requests -> CallState]
  BY DEF WalletTypeOK
<1>. QED BY DEF Leaves, SameStage

\* A call that ends.
LEMMA Returns ==
  ASSUME WalletTypeOK, NEW r \in Requests, Return(r)
  PROVE  call' \in [Requests -> CallState] /\ call'[r] = NoCall /\ Leaves(r)
BY IdleType, Becomes DEF Return

\* One call is at another step, with another object.
Moved(r, step, s) ==
  /\ call' \in [Requests -> CallState]
  /\ call'[r].op = call[r].op /\ call'[r].addr = call[r].addr
  /\ call'[r].disturbed = call[r].disturbed /\ call'[r].pass = call[r].pass
  /\ call'[r].unlinked = call[r].unlinked
  /\ call'[r].pc = step /\ call'[r].slot = s
  /\ Leaves(r)

\* Moving one call to its next step, with the object it found.
LEMMA GoesOn ==
  ASSUME WalletTypeOK, NEW r \in Requests, NEW step \in Steps, NEW s \in Slot \cup {0},
         call' = [call EXCEPT ![r].slot = s, ![r].pc = step]
  PROVE  Moved(r, step, s)
<1>. call \in [Requests -> CallState]
  BY DEF WalletTypeOK
<1>1. Leaves(r)
  BY DEF Leaves, SameStage
<1>. QED BY <1>1 DEF CallState, Moved

\* Moving one call to its next step, with the object it has.
LEMMA GotoMoves ==
  ASSUME WalletTypeOK, NEW r \in Requests, NEW step \in Steps, CallGoto(r, step)
  PROVE  Moved(r, step, call[r].slot)
<1>. call \in [Requests -> CallState]
  BY DEF WalletTypeOK
<1>1. Leaves(r)
  BY DEF Leaves, SameStage, CallGoto
<1>. QED BY <1>1 DEF CallGoto, CallState, Moved

\* A step that other requests take notice of.
LEMMA Notices ==
  ASSUME WalletTypeOK, NEW r \in Requests, NEW c \in CallState, NEW others, Noticed(r, c, others)
  PROVE  /\ call' \in [Requests -> CallState] /\ call'[r] = c /\ Leaves(r)
         /\ \A q \in Requests : q # r => call'[q].unlinked = call[q].unlinked
         /\ \A q \in Requests : q # r /\ q \in others => call'[q].disturbed
<1>0. call \in [Requests -> CallState]
  BY DEF WalletTypeOK
<1>1. ASSUME NEW q \in Requests, q # r
      PROVE  /\ call'[q] \in CallState /\ SameStage(q) /\ call'[q].unlinked = call[q].unlinked
             /\ q \in others => call'[q].disturbed
  <2>1. CASE q \in others
    <3>1. call'[q] = [call[q] EXCEPT !.disturbed = TRUE]
      BY <1>1, <2>1 DEF Noticed
    <3>. QED BY <1>0, <3>1 DEF CallState, SameStage
  <2>2. CASE q \notin others
    <3>1. call'[q] = call[q]
      BY <1>1, <2>2 DEF Noticed
    <3>. QED BY <1>0, <2>2, <3>1 DEF SameStage
  <2>. QED BY <2>1, <2>2
<1>2. call'[r] = c
  BY DEF Noticed
<1>3. \E f : call' = [q \in Requests |-> f[q]]
  <2>. DEFINE f == call'
  <2>1. call' = [q \in Requests |-> f[q]]
    BY DEF Noticed
  <2>. QED BY <2>1
<1>4. call' \in [Requests -> CallState]
  BY <1>1, <1>2, <1>3
<1>. QED BY <1>1, <1>2, <1>4 DEF Leaves

\* A request that a step leaves where it is keeps what it relies on.
LEMMA OwnKept ==
  ASSUME NEW q \in Requests, Own(q), SameStage(q), WalletTypeOK, WellFormed(call[q]),
         NEW a \in Address, a = call[q].addr,
         Sending(q, a) /\ ~ call'[q].disturbed =>
           /\ wallets'[a] = wallets[a]
           /\ \A s \in Slot : heap[a][s].unlocked => heap'[a][s].unlocked,
         Saving(q, a) /\ ~ call'[q].disturbed =>
           /\ wallets'[a] = wallets[a] /\ file'[a] = file[a]
           /\ \A s \in Slot : heap'[a][s].pass = heap[a][s].pass
           /\ call'[q].unlinked = call[q].unlinked
  PROVE  Own(q)'
<1>. SUFFICES ASSUME ~ call'[q].disturbed PROVE SendOwn(q)' /\ StoreOwn(q)'
  BY DEF Own
<1>0. SendOwn(q) /\ StoreOwn(q) /\ wallets[a] \in Slot \cup {0}
  BY DEF Own, SameStage, WalletTypeOK
<1>1. SendOwn(q)'
  <2>. SUFFICES ASSUME call[q].op = "send", call[q].pc \in {"decrypt", "again", "use"}
                PROVE  SendOwn(q)'
    BY DEF SendOwn, SameStage, CallAt
  <2>1. /\ wallets'[a] = wallets[a]
        /\ \A s \in Slot : heap[a][s].unlocked => heap'[a][s].unlocked
    BY DEF Sending, On, Active
  <2>2. call[q].pc = "use" => call[q].slot \in Slot
    BY DEF WellFormed
  <2>. QED BY <1>0, <2>1, <2>2 DEF SendOwn, SameStage, CallAt
<1>2. StoreOwn(q)'
  <2>. SUFFICES ASSUME call[q].pc \in {"open", "write", "unlink"}
                PROVE  StoreOwn(q)'
    BY DEF StoreOwn, SameStage, CallAt
  <2>1. /\ wallets'[a] = wallets[a] /\ file'[a] = file[a]
        /\ \A s \in Slot : heap'[a][s].pass = heap[a][s].pass
        /\ call'[q].unlinked = call[q].unlinked
    BY DEF Saving, On, Active
  <2>2. call[q].pc \in {"open", "write"} => call[q].slot \in Slot
    BY DEF WellFormed
  <2>3. /\ call'[q].pc = call[q].pc /\ call'[q].addr = a
        /\ call'[q].pass = call[q].pass /\ call'[q].slot = call[q].slot
    BY DEF SameStage
  <2>4. /\ call[q].pc \in {"open", "write"} =>
             call[q].slot = wallets[a] /\ heap[a][wallets[a]].pass = call[q].pass
        /\ call[q].pc = "write" => file[a] = Torn /\ ~ call[q].unlinked
        /\ call[q].pc = "unlink" => wallets[a] = 0
    BY <1>0 DEF StoreOwn, CallAt
  <2>5. call[q].pc \in {"open", "write"} => heap'[a][wallets'[a]].pass = call[q].pass
    BY <2>1, <2>2, <2>4
  <2>. QED BY <2>1, <2>3, <2>4, <2>5 DEF StoreOwn, CallAt
<1>. QED BY <1>1, <1>2

\* Requests that are left alone and one that does not start to save stay alone.
LEMMA AloneKept ==
  ASSUME Alone, NEW r \in Requests, Leaves(r),
         \A a \in Address : Saving(r, a)' => Saving(r, a) /\ (call[r].disturbed => call'[r].disturbed)
  PROVE  Alone'
<1>. SUFFICES ASSUME NEW q \in Requests, NEW o \in Requests, NEW a \in Address,
                     q # o, Saving(q, a)', Saving(o, a)'
              PROVE  call'[q].disturbed
  BY DEF Alone
<1>1. \A x \in Requests : Saving(x, a)' => Saving(x, a) /\ (call[x].disturbed => call'[x].disturbed)
  BY Stages DEF Leaves, SameStage
<1>. QED BY <1>1 DEF Alone

\* Requests that are left alone do not unlock an address that counts as locked.
LEMMA LockedAloneKept ==
  ASSUME LockedAlone, NEW r \in Requests, Leaves(r), lockedSince' = lockedSince,
         \A a \in Address : Opening(r, a)' => Opening(r, a)
  PROVE  LockedAlone'
<1>1. \A q \in Requests : \A a \in Address : Opening(q, a)' => Opening(q, a)
  BY Stages DEF Leaves
<1>. QED BY <1>1 DEF LockedAlone

\* The steps stay well formed.
LEMMA FormKept ==
  ASSUME \A q \in Requests : WellFormed(call[q]), NEW r \in Requests, Leaves(r), WellFormed(call'[r])
  PROVE  \A q \in Requests : WellFormed(call'[q])
<1>. SUFFICES ASSUME NEW q \in Requests, q # r PROVE WellFormed(call'[q])
  OBVIOUS
<1>1. SameStage(q) /\ WellFormed(call[q])
  BY DEF Leaves
<1>. QED BY <1>1 DEF SameStage, WellFormed

-----------------------------------------------------------------------------
(* Every step keeps the invariant. *)

\* The invariant holds after NewManager on an empty directory.
THEOREM WalletInitHolds == WalletInit => WalletInv
<1>. SUFFICES ASSUME WalletInit PROVE WalletInv
  OBVIOUS
<1>1. WalletTypeOK
  BY IdleType, WalletAssumption DEF WalletInit, WalletTypeOK, NewWallet
<1>2. \A r \in Requests : call[r] = NoCall
  BY DEF WalletInit
<1>3. Alone /\ LockedAlone /\ \A r \in Requests : WellFormed(call[r]) /\ Own(r)
  BY <1>2, IdleType
     DEF Alone, LockedAlone, WellFormed, Own, SendOwn, StoreOwn, Saving, Opening, On, Active, CallAt
<1>4. LockHolds /\ KeepsPromise
  BY DEF WalletInit, LockHolds, KeepsPromise, Stored
<1>. QED BY <1>1, <1>3, <1>4 DEF WalletInv

\* A step of a request that is not between the map and the file, and that changes
\* at most whether objects are unlocked, keeps what is said of the stores.
LEMMA QuietKeeps ==
  ASSUME WalletInv, WalletTypeOK', NEW r \in Requests, Leaves(r),
         wallets' = wallets, file' = file, UNCHANGED report,
         \A x \in Address : \A s \in Slot : heap'[x][s].pass = heap[x][s].pass,
         call[r].pc \notin {"open", "write", "unlink"}, call'[r].pc \notin {"open", "write", "unlink"},
         WellFormed(call'[r]), LockedAlone', LockHolds', \A q \in Requests : Own(q)'
  PROVE  WalletInv'
<1>1. Alone'
  BY AloneKept DEF WalletInv, Saving
<1>2. \A q \in Requests : WellFormed(call'[q])
  BY FormKept DEF WalletInv
<1>3. KeepsPromise'
  <2>. SUFFICES ASSUME NEW a \in Address PROVE FileOk(a)' /\ MapOk(a)'
    BY PromiseHalvesNext
  <2>1. FileOk(a) /\ MapOk(a)
    BY PromiseHalves DEF WalletInv
  <2>2. \A q \in Requests : (Writing(q, a) => Writing(q, a)') /\ (Saving(q, a) => Saving(q, a)')
    <3>. SUFFICES ASSUME NEW q \in Requests
                  PROVE  (Writing(q, a) => Writing(q, a)') /\ (Saving(q, a) => Saving(q, a)')
      OBVIOUS
    <3>1. CASE q = r
      BY <3>1 DEF Writing, Saving
    <3>2. CASE q # r
      BY <3>2, Stages DEF Leaves
    <3>. QED BY <3>1, <3>2
  <2>3. Stored(a)' = Stored(a)
    BY DEF Stored, WalletInv, WalletTypeOK
  <2>4. damaged' = damaged /\ adrift' = adrift /\ promised' = promised
    BY DEF report
  <2>. QED BY <2>1, <2>2, <2>3, <2>4 DEF FileOk, MapOk
<1>. QED BY <1>1, <1>2, <1>3 DEF WalletInv

\* The other requests keep what they rely on when no store changes.
LEMMA OthersOwn ==
  ASSUME WalletInv, NEW r \in Requests, Leaves(r), NEW q \in Requests, q # r,
         wallets' = wallets, heap' = heap, file' = file, call'[q].unlinked = call[q].unlinked
  PROVE  Own(q)'
<1>1. /\ Own(q) /\ WellFormed(call[q]) /\ WalletTypeOK /\ SameStage(q)
      /\ call[q].addr \in Address
  BY DEF WalletInv, Leaves, WalletTypeOK, CallState
<1>. QED BY <1>1, OwnKept

\* The steps at which a request of each operation begins.
Starts(op, step) ==
  \/ op = "put" /\ step = "put"
  \/ op \in {"unlock", "lock", "send", "delete"} /\ step = "find"
  \/ op = "sign" /\ step = "again"

\* A request begins; one that may unlock the wallet ends the time it counts as
\* locked (Begin).
LEMMA BeginKeeps ==
  ASSUME WalletInv, NEW r \in Requests, NEW a \in Address, NEW op, NEW p \in Pass \cup {NoPass}, NEW step,
         Starts(op, step), Begin(r, op, a, p, step)
  PROVE  WalletInv'
<1>. DEFINE c == [NoCall EXCEPT !.op = op, !.pc = step, !.addr = a, !.pass = p]
<1>0. op \in Ops /\ step \in Steps
  BY DEF Starts, Ops, Opens, Steps
<1>1. /\ c \in CallState /\ c.op = op /\ c.pc = step /\ c.addr = a
      /\ c.unlinked = FALSE /\ c.disturbed = FALSE
  <2>1. NoCall \in CallState /\ NoCall.unlinked = FALSE /\ NoCall.disturbed = FALSE
    BY IdleType DEF NoCall
  <2>. QED BY <1>0, <2>1 DEF CallState
<1>2. call' = [call EXCEPT ![r] = c] /\ call[r].pc = "idle"
  BY DEF Begin, CallAt
<1>. HIDE DEF c
<1>3. /\ call' \in [Requests -> CallState] /\ call'[r] = c /\ Leaves(r)
      /\ \A q \in Requests : q # r => call'[q] = call[q]
  BY <1>1, <1>2, Becomes DEF WalletInv, WalletTypeOK
<1>4. UNCHANGED <<wallets, heap, file, reloads>> /\ UNCHANGED report
  BY DEF Begin
<1>5. /\ lockedSince' \in [Address -> BOOLEAN]
      /\ lockedSince'[a] => op \notin Opens
      /\ \A x \in Address : lockedSince'[x] => lockedSince[x]
  <2>1. lockedSince \in [Address -> BOOLEAN]
    BY DEF WalletInv, WalletTypeOK
  <2>. QED BY <2>1 DEF Begin
<1>6. WalletTypeOK'
  <2>1. calls' \in Nat
    BY DEF Begin, WalletInv, WalletTypeOK
  <2>. QED BY <1>3, <1>4, <1>5, <2>1 DEF WalletInv, WalletTypeOK, report
<1>7. LockedAlone'
  <2>. SUFFICES ASSUME NEW q \in Requests, NEW x \in Address, lockedSince'[x], Opening(q, x)'
                PROVE  FALSE
    BY DEF LockedAlone
  <2>1. CASE q = r
    BY <1>1, <1>3, <1>5, <2>1 DEF Opening, On
  <2>2. CASE q # r
    <3>1. Opening(q, x)
      BY <1>3, <2>2, Stages DEF Leaves
    <3>. QED BY <1>5, <3>1 DEF WalletInv, LockedAlone
  <2>. QED BY <2>1, <2>2
<1>8. LockHolds'
  BY <1>4, <1>5 DEF WalletInv, LockHolds
<1>9. \A q \in Requests : Own(q)'
  <2>. SUFFICES ASSUME NEW q \in Requests PROVE Own(q)'
    OBVIOUS
  <2>1. CASE q = r
    BY <1>1, <1>3, <2>1 DEF Own, SendOwn, StoreOwn, CallAt, Starts
  <2>2. CASE q # r
    BY <1>3, <1>4, <2>2, OthersOwn
  <2>. QED BY <2>1, <2>2
<1>10. WellFormed(call'[r]) /\ call'[r].pc \notin {"open", "write", "unlink"}
  BY <1>1, <1>3 DEF WellFormed, Starts
<1>. QED BY <1>2, <1>3, <1>4, <1>6, <1>7, <1>8, <1>9, <1>10, QuietKeeps

\* A request that ends without having changed anything.
LEMMA ReturnKeeps ==
  ASSUME WalletInv, NEW r \in Requests, Return(r), call[r].pc \notin {"open", "write", "unlink"},
         UNCHANGED <<wallets, heap, file, report, lockedSince, calls, reloads>>
  PROVE  WalletInv'
<1>1. /\ call' \in [Requests -> CallState] /\ call'[r] = NoCall /\ Leaves(r)
      /\ \A q \in Requests : q # r => call'[q] = call[q]
  BY Returns DEF WalletInv, Return, WalletTypeOK
<1>2. WalletTypeOK'
  BY <1>1 DEF WalletInv, WalletTypeOK, report
<1>3. LockedAlone' /\ LockHolds'
  BY <1>1, IdleType, LockedAloneKept DEF WalletInv, Opening, On, Active, LockHolds
<1>4. \A q \in Requests : Own(q)'
  <2>. SUFFICES ASSUME NEW q \in Requests PROVE Own(q)'
    OBVIOUS
  <2>1. CASE q = r
    BY <1>1, <2>1, IdleType DEF Own, SendOwn, StoreOwn, CallAt
  <2>2. CASE q # r
    BY <1>1, <2>2, OthersOwn
  <2>. QED BY <2>1, <2>2
<1>5. WellFormed(call'[r]) /\ call'[r].pc \notin {"open", "write", "unlink"}
  BY <1>1, IdleType DEF WellFormed
<1>. QED BY <1>1, <1>2, <1>3, <1>4, <1>5, QuietKeeps

\* A lookup: the object is the one the map has, and a send that looks the wallet
\* up again finds it unlocked (Find, FindAgain).
LEMMA LookupKeeps ==
  ASSUME WalletInv, NEW r \in Requests, Find(r) \/ FindAgain(r)
  PROVE  WalletInv'
<1>. DEFINE s == wallets[call[r].addr]
<1>0. UNCHANGED <<wallets, heap, file, report, lockedSince, calls, reloads>>
  BY DEF Find, FindAgain, Lookup
<1>1. CASE Return(r)
  BY <1>1, <1>0, ReturnKeeps DEF Find, FindAgain, CallAt
<1>2. ASSUME NEW step \in {"decrypt", "clear", "use"}, s # 0,
             call' = [call EXCEPT ![r].slot = s, ![r].pc = step],
             step = "decrypt" => call[r].pc = "find" /\ call[r].op \in {"unlock", "delete", "send"},
             step = "clear" => call[r].pc = "find" /\ call[r].op = "lock",
             step = "use" => call[r].pc = "again"
      PROVE  WalletInv'
  <2>1. s \in Slot /\ step \in Steps /\ call[r].addr \in Address
    BY <1>2 DEF WalletInv, WalletTypeOK, CallState, Steps
  <2>2. Moved(r, step, s)
    BY <1>2, <2>1, GoesOn DEF WalletInv
  <2>3. \A q \in Requests : q # r => call'[q] = call[q]
    BY <1>2 DEF WalletInv, WalletTypeOK
  <2>4. WalletTypeOK'
    BY <1>0, <2>2 DEF WalletInv, WalletTypeOK, Moved, report
  <2>5. LockedAlone' /\ LockHolds'
    <3>1. \A x \in Address : Opening(r, x)' => Opening(r, x)
      BY <1>2, <2>2 DEF Opening, On, Active, Moved
    <3>. QED BY <1>0, <2>2, <3>1, LockedAloneKept DEF WalletInv, LockHolds, Moved
  <2>6. \A q \in Requests : Own(q)'
    <3>. SUFFICES ASSUME NEW q \in Requests PROVE Own(q)'
      OBVIOUS
    <3>1. CASE q = r
      <4>1. Own(r)
        BY DEF WalletInv
      <4>2. Own(r)'
        BY <1>0, <1>2, <2>2, <4>1 DEF Own, SendOwn, StoreOwn, CallAt, Moved
      <4>. QED BY <3>1, <4>2
    <3>2. CASE q # r
      BY <1>0, <2>2, <2>3, <3>2, OthersOwn DEF Moved
    <3>. QED BY <3>1, <3>2
  <2>7. WellFormed(call'[r]) /\ call'[r].pc \notin {"open", "write", "unlink"}
    BY <1>2, <2>1, <2>2 DEF WellFormed, Moved
  <2>8. call[r].pc \notin {"open", "write", "unlink"}
    BY <1>2
  <2>. QED BY <1>0, <2>2, <2>4, <2>5, <2>6, <2>7, <2>8, QuietKeeps DEF Moved
<1>3. WellFormed(call[r])
  BY DEF WalletInv
<1>. QED BY <1>1, <1>2, <1>3 DEF Find, FindAgain, Lookup, CallAt, WellFormed

\* Setting whether an object is unlocked changes nothing else.
LEMMA FlagSet ==
  ASSUME WalletTypeOK, NEW a \in Address, NEW s \in Slot, NEW flag \in BOOLEAN,
         heap' = [heap EXCEPT ![a][s].unlocked = flag]
  PROVE  /\ heap' \in [Address -> [Slot -> [pass : Pass \cup {NoPass}, unlocked : BOOLEAN]]]
         /\ \A x \in Address : \A u \in Slot : heap'[x][u].pass = heap[x][u].pass
         /\ heap'[a][s].unlocked = flag
         /\ \A x \in Address : \A u \in Slot :
              x # a \/ u # s => heap'[x][u].unlocked = heap[x][u].unlocked
<1>. DEFINE Object == [pass : Pass \cup {NoPass}, unlocked : BOOLEAN]
            o == [heap[a][s] EXCEPT !.unlocked = flag]
<1>1. heap \in [Address -> [Slot -> Object]]
  BY DEF WalletTypeOK
<1>2. heap[a][s] \in Object
  BY <1>1
<1>3. o \in Object /\ o.unlocked = flag /\ o.pass = heap[a][s].pass
  BY <1>2
<1>4. heap' = [heap EXCEPT ![a] = [heap[a] EXCEPT ![s] = o]]
  BY <1>1
<1>. HIDE DEF o, Object
<1>5. heap' \in [Address -> [Slot -> Object]] /\ heap'[a][s] = o
  BY <1>1, <1>3, <1>4
<1>6. \A x \in Address : \A u \in Slot : x # a \/ u # s => heap'[x][u] = heap[x][u]
  BY <1>1, <1>3, <1>4
<1>. QED BY <1>3, <1>5, <1>6 DEF Object

\* A decryption: the address does not count as locked, for the request was on its
\* way, and a send finds the wallet of the map unlocked (Decrypt).
LEMMA DecryptKeeps ==
  ASSUME WalletInv, NEW r \in Requests, Decrypt(r)
  PROVE  WalletInv'
<1>. DEFINE a == call[r].addr
            s == call[r].slot
<1>0. /\ a \in Address /\ s \in Slot /\ call[r].pc = "decrypt"
      /\ call[r].op \in {"unlock", "delete", "send"} /\ WalletTypeOK
      /\ UNCHANGED <<wallets, file, report, lockedSince, calls, reloads>>
  BY DEF WalletInv, Decrypt, CallAt, WellFormed, WalletTypeOK, CallState
<1>1. CASE Return(r) /\ heap' = heap
  BY <1>0, <1>1, ReturnKeeps
<1>2. CASE heap' = [heap EXCEPT ![a][s].unlocked = TRUE]
  <2>1. /\ \A x \in Address : \A u \in Slot : heap'[x][u].pass = heap[x][u].pass
        /\ heap'[a][s].unlocked
        /\ \A x \in Address : \A u \in Slot :
             x # a \/ u # s => heap'[x][u].unlocked = heap[x][u].unlocked
        /\ heap' \in [Address -> [Slot -> [pass : Pass \cup {NoPass}, unlocked : BOOLEAN]]]
    <3>. HIDE DEF a, s
    <3>. QED BY <1>0, <1>2, FlagSet
  <2>2. /\ call' \in [Requests -> CallState] /\ Leaves(r)
        /\ \A q \in Requests : q # r => call'[q] = call[q]
        /\ \/ call'[r] = NoCall
           \/ /\ call'[r].pc = "remove" /\ call[r].op = "delete"
              /\ call'[r].op = call[r].op /\ call'[r].addr = a
           \/ /\ call'[r].pc = "again" /\ call[r].op = "send"
              /\ call'[r].op = call[r].op /\ call'[r].addr = a
              /\ call'[r].disturbed = call[r].disturbed
    <3>0. call \in [Requests -> CallState] /\ "remove" \in Steps /\ "again" \in Steps
      BY <1>0 DEF WalletTypeOK, Steps
    <3>1. CASE Return(r)
      BY <3>0, <3>1, <1>0, Returns DEF Return
    <3>2. CASE call[r].op = "delete" /\ CallGoto(r, "remove")
      <4>1. Moved(r, "remove", s)
        BY <3>0, <3>2, <1>0, GotoMoves
      <4>. QED BY <3>0, <3>2, <4>1 DEF Moved, CallGoto
    <3>3. CASE call[r].op = "send" /\ call' = [call EXCEPT ![r].slot = 0, ![r].pc = "again"]
      <4>1. Moved(r, "again", 0)
        BY <3>0, <3>3, <1>0, GoesOn
      <4>. QED BY <3>0, <3>3, <4>1 DEF Moved
    <3>. QED BY <3>1, <3>2, <3>3 DEF Decrypt
  <2>. HIDE DEF a, s
  <2>3. WalletTypeOK'
    BY <1>0, <2>1, <2>2 DEF WalletTypeOK, report
  <2>4. ~ lockedSince[a]
    BY <1>0 DEF WalletInv, LockedAlone, Opening, On, Active, Opens, a
  <2>5. LockedAlone'
    <3>1. \A x \in Address : ~ Opening(r, x)'
      BY <2>2, IdleType DEF Opening, On, Active
    <3>. QED BY <1>0, <2>2, <3>1, LockedAloneKept DEF WalletInv
  <2>6. LockHolds'
    <3>. SUFFICES ASSUME NEW x \in Address, lockedSince[x], wallets[x] # 0
                  PROVE  ~ heap'[x][wallets[x]].unlocked
      BY <1>0 DEF LockHolds
    <3>1. x # a /\ wallets[x] \in Slot
      BY <2>4, <1>0 DEF WalletTypeOK
    <3>2. ~ heap[x][wallets[x]].unlocked
      BY DEF WalletInv, LockHolds
    <3>. QED BY <2>1, <3>1, <3>2
  <2>7. ASSUME NEW q \in Requests, q # r
        PROVE  Own(q)'
    <3>1. /\ Own(q) /\ WellFormed(call[q]) /\ SameStage(q) /\ call[q].addr \in Address
          /\ call'[q].unlinked = call[q].unlinked
      BY <1>0, <2>2, <2>7 DEF WalletInv, Leaves, WalletTypeOK, CallState
    <3>2. \A x \in Address : \A u \in Slot : heap[x][u].unlocked => heap'[x][u].unlocked
      BY <2>1
    <3>. QED BY <1>0, <2>1, <3>1, <3>2, OwnKept
  <2>8. Own(r)'
    <3>. SUFFICES ASSUME call'[r].pc = "again", call[r].op = "send", ~ call[r].disturbed,
                         call'[r].addr = a
                  PROVE  wallets[a] # 0 /\ heap'[a][wallets[a]].unlocked
      BY <1>0, <2>2, IdleType DEF Own, SendOwn, StoreOwn, CallAt
    <3>1. wallets[a] # 0 /\ (s = wallets[a] \/ heap[a][wallets[a]].unlocked)
      BY <1>0 DEF WalletInv, Own, SendOwn, CallAt, a, s
    <3>2. wallets[a] \in Slot
      BY <1>0, <3>1 DEF WalletTypeOK
    <3>. QED BY <1>0, <2>1, <3>1, <3>2
  <2>9. WellFormed(call'[r]) /\ call'[r].pc \notin {"open", "write", "unlink"}
    BY <2>2, IdleType DEF WellFormed
  <2>. QED BY <1>0, <2>1, <2>2, <2>3, <2>5, <2>6, <2>7, <2>8, <2>9, QuietKeeps
<1>. QED BY <1>1, <1>2 DEF Decrypt

\* Lock clears the object it looked up.  If that is still the one of the map the
\* address is locked, and the sends that relied on the key take notice (Clear).
LEMMA ClearKeeps ==
  ASSUME WalletInv, NEW r \in Requests, Clear(r)
  PROVE  WalletInv'
<1>. DEFINE a == call[r].addr
            s == call[r].slot
            sends == {q \in Requests : Sending(q, a)}
<1>0. /\ a \in Address /\ s \in Slot /\ call[r].pc = "clear" /\ call[r].op = "lock" /\ WalletTypeOK
      /\ UNCHANGED <<wallets, file, report, calls, reloads>>
      /\ heap' = [heap EXCEPT ![a][s].unlocked = FALSE]
      /\ Noticed(r, NoCall, sends)
      /\ lockedSince' = [lockedSince EXCEPT ![a] =
           @ \/ (wallets[a] = s /\ \A q \in Requests : ~ Opening(q, a))]
  BY DEF WalletInv, Clear, CallAt, WellFormed, WalletTypeOK, CallState
<1>. HIDE DEF a, s, sends
<1>1. /\ heap' \in [Address -> [Slot -> [pass : Pass \cup {NoPass}, unlocked : BOOLEAN]]]
      /\ \A x \in Address : \A u \in Slot : heap'[x][u].pass = heap[x][u].pass
      /\ ~ heap'[a][s].unlocked
      /\ \A x \in Address : \A u \in Slot :
           x # a \/ u # s => heap'[x][u].unlocked = heap[x][u].unlocked
  BY <1>0, FlagSet
<1>2. /\ call' \in [Requests -> CallState] /\ call'[r] = NoCall /\ Leaves(r)
      /\ \A q \in Requests : q # r => call'[q].unlinked = call[q].unlinked
      /\ \A q \in Requests : q # r /\ q \in sends => call'[q].disturbed
  BY <1>0, IdleType, Notices
<1>3. /\ lockedSince' \in [Address -> BOOLEAN]
      /\ \A x \in Address : x # a => lockedSince'[x] = lockedSince[x]
      /\ lockedSince'[a] => lockedSince[a] \/ (wallets[a] = s /\ \A q \in Requests : ~ Opening(q, a))
  <2>1. lockedSince \in [Address -> BOOLEAN]
    BY <1>0 DEF WalletTypeOK
  <2>. DEFINE held == wallets[a] = s /\ \A q \in Requests : ~ Opening(q, a)
  <2>2. lockedSince' = [lockedSince EXCEPT ![a] = lockedSince[a] \/ held] /\ held \in BOOLEAN
    BY <1>0
  <2>. HIDE DEF held
  <2>3. /\ lockedSince' \in [Address -> BOOLEAN]
        /\ \A x \in Address : x # a => lockedSince'[x] = lockedSince[x]
        /\ lockedSince'[a] => lockedSince[a] \/ held
    BY <1>0, <2>1, <2>2
  <2>. QED BY <2>3 DEF held
<1>4. WalletTypeOK'
  BY <1>0, <1>1, <1>2, <1>3 DEF WalletTypeOK, report
<1>5. LockedAlone'
  <2>. SUFFICES ASSUME NEW q \in Requests, NEW x \in Address, lockedSince'[x], Opening(q, x)'
                PROVE  FALSE
    BY DEF LockedAlone
  <2>1. q # r
    BY <1>2, IdleType DEF Opening, On, Active
  <2>2. Opening(q, x)
    BY <1>2, <2>1, Stages DEF Leaves
  <2>. QED BY <1>3, <2>2 DEF WalletInv, LockedAlone
<1>6. LockHolds'
  <2>. SUFFICES ASSUME NEW x \in Address, lockedSince'[x], wallets[x] # 0
                PROVE  ~ heap'[x][wallets[x]].unlocked
    BY <1>0 DEF LockHolds
  <2>1. wallets[x] \in Slot
    BY <1>0 DEF WalletTypeOK
  <2>2. lockedSince[x] => ~ heap[x][wallets[x]].unlocked
    BY DEF WalletInv, LockHolds
  <2>. QED BY <1>1, <1>3, <2>1, <2>2
<1>7. ASSUME NEW q \in Requests
      PROVE  Own(q)'
  <2>1. CASE q = r
    BY <1>2, <2>1, IdleType DEF Own, SendOwn, StoreOwn, CallAt
  <2>2. CASE q # r
    <3>. DEFINE x == call[q].addr
    <3>1. /\ Own(q) /\ WellFormed(call[q]) /\ SameStage(q) /\ x \in Address
          /\ call'[q].unlinked = call[q].unlinked
      BY <1>0, <1>2, <2>2 DEF WalletInv, Leaves, WalletTypeOK, CallState
    <3>. HIDE DEF x
    <3>2. Sending(q, x) /\ ~ call'[q].disturbed => x # a
      BY <1>2, <2>2 DEF sends
    <3>3. Sending(q, x) /\ ~ call'[q].disturbed =>
            \A u \in Slot : heap[x][u].unlocked => heap'[x][u].unlocked
      BY <1>1, <3>1, <3>2
    <3>. QED BY <1>0, <1>1, <3>1, <3>3, OwnKept DEF x
  <2>. QED BY <2>1, <2>2
<1>8. /\ WellFormed(call'[r]) /\ call'[r].pc \notin {"open", "write", "unlink"}
      /\ call[r].pc \notin {"open", "write", "unlink"}
  BY <1>0, <1>2, IdleType DEF WellFormed
<1>. QED BY <1>0, <1>1, <1>2, <1>4, <1>5, <1>6, <1>7, <1>8, QuietKeeps

\* A request that changes the map of an address takes notice of those between
\* the map and the file, and they of it (Put, Remove).
LEMMA AloneAfterMap ==
  ASSUME WalletInv, NEW r \in Requests, NEW a \in Address, Leaves(r), call'[r].addr = a,
         NEW saving, saving = {q \in Requests : Saving(q, a)},
         call'[r].disturbed <=> saving # {},
         \A q \in Requests : q # r /\ q \in saving => call'[q].disturbed
  PROVE  Alone'
<1>. SUFFICES ASSUME NEW q \in Requests, NEW o \in Requests, NEW x \in Address,
                     q # o, Saving(q, x)', Saving(o, x)'
              PROVE  call'[q].disturbed
  BY DEF Alone
<1>1. \A y \in Requests : y # r /\ Saving(y, x)' => Saving(y, x)
  BY Stages DEF Leaves
<1>2. r \in {q, o} => x = a
  BY DEF Saving, On
<1>3. CASE q = r
  <2>1. o \in saving
    BY <1>1, <1>2, <1>3
  <2>. QED BY <2>1, <1>3
<1>4. CASE o = r
  BY <1>1, <1>2, <1>4
<1>5. CASE q # r /\ o # r
  <2>1. call[q].disturbed
    BY <1>1, <1>5 DEF WalletInv, Alone
  <2>. QED BY <1>5, <2>1 DEF Leaves, SameStage
<1>. QED BY <1>3, <1>4, <1>5

\* The stores of a change of the map: the file is as it was, and the request is
\* now between the map and the file (Put, Remove).
LEMMA PromiseAfterMap ==
  ASSUME WalletInv, NEW r \in Requests, NEW a \in Address, Leaves(r), ~ Writing(r, a),
         call[r].addr = a, Saving(r, a)', file' = file, UNCHANGED report,
         \A x \in Address : x # a => Stored(x)' = Stored(x)
  PROVE  KeepsPromise'
<1>. SUFFICES ASSUME NEW x \in Address PROVE FileOk(x)' /\ MapOk(x)'
  BY PromiseHalvesNext
<1>1. FileOk(x) /\ MapOk(x)
  BY PromiseHalves DEF WalletInv
<1>2. damaged' = damaged /\ adrift' = adrift /\ promised' = promised
  BY DEF report
<1>3. \A q \in Requests : q # r => (Writing(q, x)' <=> Writing(q, x)) /\ (Saving(q, x)' <=> Saving(q, x))
  BY Stages DEF Leaves
<1>4. x # a => ~ Writing(r, x) /\ ~ Saving(r, x)
  BY DEF Writing, Saving, On
<1>5. FileOk(x)'
  BY <1>1, <1>2, <1>3, <1>4 DEF FileOk
<1>6. MapOk(x)'
  BY <1>1, <1>2, <1>3, <1>4 DEF MapOk
<1>. QED BY <1>5, <1>6

\* Create and Import: the new object is unlocked, which a send that looks the
\* wallet up again finds, and nobody else has it (Put).
LEMMA PutKeeps ==
  ASSUME WalletInv, NEW r \in Requests, Put(r)
  PROVE  WalletInv'
<1>. DEFINE a == call[r].addr
            saving == {q \in Requests : Saving(q, a)}
            b == saving # {}
<1>0. /\ a \in Address /\ call[r].pc = "put" /\ call[r].op = "put" /\ WalletTypeOK
      /\ call[r] \in CallState /\ ~ call[r].unlinked
      /\ UNCHANGED <<file, report, lockedSince, calls, reloads>>
  BY DEF WalletInv, Put, CallAt, WellFormed, WalletTypeOK, CallState
<1>1. PICK s \in Slot :
        /\ Free(a, s)
        /\ heap' = [heap EXCEPT ![a][s] = [pass |-> call[r].pass, unlocked |-> TRUE]]
        /\ wallets' = [wallets EXCEPT ![a] = s]
        /\ Noticed(r, [call[r] EXCEPT !.slot = s, !.pc = "open", !.disturbed = b], saving)
  BY DEF Put
<1>. DEFINE c == [call[r] EXCEPT !.slot = s, !.pc = "open", !.disturbed = b]
<1>2. /\ c \in CallState /\ c.op = "put" /\ c.pc = "open" /\ c.addr = a /\ c.slot = s
      /\ c.pass = call[r].pass /\ ~ c.unlinked /\ (c.disturbed <=> b)
  <2>1. b \in BOOLEAN /\ "open" \in Steps
    BY DEF Steps
  <2>2. call[r].addr = a
    OBVIOUS
  <2>. HIDE DEF b, a
  <2>. QED BY <1>0, <2>1, <2>2 DEF CallState
<1>3. Noticed(r, c, saving)
  BY <1>1
<1>. HIDE DEF c
<1>4. /\ call' \in [Requests -> CallState] /\ call'[r] = c /\ Leaves(r)
      /\ \A q \in Requests : q # r => call'[q].unlinked = call[q].unlinked
      /\ \A q \in Requests : q # r /\ q \in saving => call'[q].disturbed
  <2>. HIDE DEF saving
  <2>. QED BY <1>0, <1>2, <1>3, Notices
<1>5. /\ heap' \in [Address -> [Slot -> [pass : Pass \cup {NoPass}, unlocked : BOOLEAN]]]
      /\ heap'[a][s] = [pass |-> call[r].pass, unlocked |-> TRUE]
      /\ \A x \in Address : \A u \in Slot : x # a \/ u # s => heap'[x][u] = heap[x][u]
  <2>. DEFINE Object == [pass : Pass \cup {NoPass}, unlocked : BOOLEAN]
              o == [pass |-> call[r].pass, unlocked |-> TRUE]
  <2>1. heap \in [Address -> [Slot -> Object]] /\ o \in Object
    BY <1>0 DEF WalletTypeOK, CallState
  <2>2. heap' = [heap EXCEPT ![a][s] = o]
    BY <1>1
  <2>. HIDE DEF Object, o, a
  <2>3. /\ heap' \in [Address -> [Slot -> Object]] /\ heap'[a][s] = o
        /\ \A x \in Address : \A u \in Slot : x # a \/ u # s => heap'[x][u] = heap[x][u]
    BY <1>0, <2>1, <2>2
  <2>. QED BY <2>3 DEF Object, o
<1>6. /\ wallets' \in [Address -> Slot \cup {0}] /\ wallets'[a] = s
      /\ \A x \in Address : x # a => wallets'[x] = wallets[x]
  BY <1>0, <1>1 DEF WalletTypeOK
<1>7. \A x \in Address : wallets[x] \in Slot \cup {0}
  BY <1>0 DEF WalletTypeOK
<1>8. ~ lockedSince[a]
  BY <1>0 DEF WalletInv, LockedAlone, Opening, On, Active, Opens
<1>9. \A q \in Requests : On(q, a) => call[q].slot # s
  BY <1>1 DEF Free
<1>10. Alone'
  BY <1>0, <1>2, <1>4, AloneAfterMap
<1>. HIDE DEF a, b, saving
<1>11. WalletTypeOK'
  BY <1>0, <1>4, <1>5, <1>6 DEF WalletTypeOK, report
<1>12. WellFormed(call'[r])
  BY <1>2, <1>4 DEF WellFormed
<1>13. LockedAlone'
  <2>1. \A x \in Address : ~ Opening(r, x)'
    BY <1>2, <1>4 DEF Opening
  <2>. QED BY <1>0, <1>4, <2>1, LockedAloneKept DEF WalletInv
<1>14. LockHolds'
  <2>. SUFFICES ASSUME NEW x \in Address, lockedSince[x], wallets'[x] # 0
                PROVE  ~ heap'[x][wallets'[x]].unlocked
    BY <1>0 DEF LockHolds
  <2>1. x # a /\ wallets'[x] = wallets[x] /\ wallets[x] \in Slot
    BY <1>6, <1>7, <1>8
  <2>2. ~ heap[x][wallets[x]].unlocked
    BY <2>1 DEF WalletInv, LockHolds
  <2>. QED BY <1>5, <2>1, <2>2
<1>15. KeepsPromise'
  <2>0. PICK y \in Address : y = a
    BY <1>0
  <2>1. \A x \in Address : x # y => Stored(x)' = Stored(x)
    BY <2>0, <1>5, <1>6, <1>7 DEF Stored
  <2>2. Saving(r, y)' /\ ~ Writing(r, y) /\ call[r].addr = y
    BY <2>0, <1>0, <1>2, <1>4 DEF Saving, Writing, On, Active, a
  <2>. QED BY <1>0, <1>4, <2>1, <2>2, PromiseAfterMap
<1>16. ASSUME NEW q \in Requests
       PROVE  Own(q)'
  <2>1. CASE q = r
    <3>1. /\ call'[r].op = "put" /\ call'[r].pc = "open" /\ call'[r].addr = a
          /\ call'[r].slot = s /\ call'[r].pass = call[r].pass
      BY <1>2, <1>4
    <3>2. wallets'[a] = s /\ heap'[a][s].pass = call[r].pass
      BY <1>5, <1>6
    <3>3. SendOwn(r)'
      BY <3>1 DEF SendOwn
    <3>4. StoreOwn(r)'
      BY <3>1, <3>2 DEF StoreOwn, CallAt
    <3>. QED BY <2>1, <3>3, <3>4 DEF Own
  <2>2. CASE q # r /\ call[q].addr = a /\ call[q].pc # "idle"
    <3>. SUFFICES ASSUME ~ call'[q].disturbed PROVE SendOwn(q)' /\ StoreOwn(q)'
      BY DEF Own
    <3>1. SameStage(q) /\ SendOwn(q) /\ WellFormed(call[q]) /\ call[q].slot # s /\ ~ Saving(q, a)
      BY <1>4, <1>9, <2>2 DEF Leaves, SameStage, WalletInv, Own, On, Active, saving
    <3>2. StoreOwn(q)'
      BY <2>2, <3>1 DEF StoreOwn, SameStage, Saving, On, Active, CallAt
    <3>3. wallets'[a] # 0 /\ heap'[a][wallets'[a]].unlocked
      <4>1. s # 0
        BY WalletAssumption
      <4>2. heap'[a][s].unlocked
        BY <1>5
      <4>. QED BY <1>6, <4>1, <4>2
    <3>4. call[q].slot \in Slot => heap'[a][call[q].slot].unlocked = heap[a][call[q].slot].unlocked
      BY <1>0, <1>5, <3>1
    <3>5. SendOwn(q)'
      BY <2>2, <3>1, <3>3, <3>4 DEF SendOwn, SameStage, CallAt, WellFormed
    <3>. QED BY <3>2, <3>5
  <2>3. CASE q # r /\ (call[q].addr # a \/ call[q].pc = "idle")
    <3>. DEFINE x == call[q].addr
    <3>1. /\ Own(q) /\ WellFormed(call[q]) /\ SameStage(q) /\ x \in Address
          /\ call'[q].unlinked = call[q].unlinked
      BY <1>0, <1>4, <2>3 DEF WalletInv, Leaves, WalletTypeOK, CallState
    <3>2. Sending(q, x) \/ Saving(q, x) => x # a
      BY <2>3 DEF Sending, Saving, On, Active
    <3>. HIDE DEF x
    <3>3. x # a => wallets'[x] = wallets[x] /\ \A u \in Slot : heap'[x][u] = heap[x][u]
      BY <1>5, <1>6, <3>1
    <3>. QED BY <1>0, <3>1, <3>2, <3>3, OwnKept DEF x
  <2>. QED BY <2>1, <2>2, <2>3
<1>17. \A q \in Requests : WellFormed(call'[q])
  BY <1>4, <1>12, FormKept DEF WalletInv
<1>. QED BY <1>10, <1>11, <1>13, <1>14, <1>15, <1>16, <1>17 DEF WalletInv

\* Delete takes the address out of the map; sends and requests between the map
\* and the file take notice (Remove).
LEMMA RemoveKeeps ==
  ASSUME WalletInv, NEW r \in Requests, Remove(r)
  PROVE  WalletInv'
<1>. DEFINE a == call[r].addr
            saving == {q \in Requests : Saving(q, a)}
            sends == {q \in Requests : Sending(q, a)}
            b == saving # {}
            c == [call[r] EXCEPT !.pc = "unlink", !.disturbed = b]
<1>0. /\ a \in Address /\ call[r].pc = "remove" /\ call[r].op = "delete" /\ WalletTypeOK
      /\ call[r] \in CallState /\ wallets' = [wallets EXCEPT ![a] = 0]
      /\ Noticed(r, c, saving \cup sends)
      /\ UNCHANGED <<heap, file, report, lockedSince, calls, reloads>>
  BY DEF WalletInv, Remove, CallAt, WellFormed, WalletTypeOK, CallState
<1>1. /\ c \in CallState /\ c.op = "delete" /\ c.pc = "unlink" /\ c.addr = a
      /\ (c.disturbed <=> b)
  <2>1. b \in BOOLEAN /\ "unlink" \in Steps
    BY DEF Steps
  <2>2. call[r].addr = a
    OBVIOUS
  <2>. HIDE DEF b, a, saving, sends
  <2>. QED BY <1>0, <2>1, <2>2 DEF CallState
<1>. HIDE DEF c
<1>2. /\ call' \in [Requests -> CallState] /\ call'[r] = c /\ Leaves(r)
      /\ \A q \in Requests : q # r => call'[q].unlinked = call[q].unlinked
      /\ \A q \in Requests : q # r /\ q \in saving \cup sends => call'[q].disturbed
  <2>. HIDE DEF saving, sends
  <2>. QED BY <1>0, <1>1, Notices
<1>3. /\ wallets' \in [Address -> Slot \cup {0}] /\ wallets'[a] = 0
      /\ \A x \in Address : x # a => wallets'[x] = wallets[x]
  BY <1>0 DEF WalletTypeOK
<1>4. Alone'
  BY <1>0, <1>1, <1>2, AloneAfterMap
<1>. HIDE DEF a, b, saving, sends
<1>5. WalletTypeOK'
  BY <1>0, <1>2, <1>3 DEF WalletTypeOK, report
<1>6. LockedAlone'
  <2>1. \A x \in Address : ~ Opening(r, x)'
    BY <1>1, <1>2 DEF Opening
  <2>. QED BY <1>0, <1>2, <2>1, LockedAloneKept DEF WalletInv
<1>7. LockHolds'
  BY <1>0, <1>3 DEF WalletInv, LockHolds
<1>8. KeepsPromise'
  <2>0. PICK y \in Address : y = a
    BY <1>0
  <2>1. \A x \in Address : x # y => Stored(x)' = Stored(x)
    BY <2>0, <1>0, <1>3 DEF Stored
  <2>2. Saving(r, y)' /\ ~ Writing(r, y) /\ call[r].addr = y
    BY <2>0, <1>0, <1>1, <1>2 DEF Saving, Writing, On, Active, a
  <2>. QED BY <1>0, <1>2, <2>1, <2>2, PromiseAfterMap
<1>9. ASSUME NEW q \in Requests
      PROVE  Own(q)'
  <2>1. CASE q = r
    BY <1>1, <1>2, <1>3, <2>1 DEF Own, SendOwn, StoreOwn, CallAt
  <2>2. CASE q # r
    <3>. DEFINE x == call[q].addr
    <3>1. /\ Own(q) /\ WellFormed(call[q]) /\ SameStage(q) /\ x \in Address
          /\ call'[q].unlinked = call[q].unlinked
      BY <1>0, <1>2, <2>2 DEF WalletInv, Leaves, WalletTypeOK, CallState
    <3>. HIDE DEF x
    <3>2. (Sending(q, x) \/ Saving(q, x)) /\ ~ call'[q].disturbed => x # a
      BY <1>2, <2>2 DEF saving, sends
    <3>3. (Sending(q, x) \/ Saving(q, x)) /\ ~ call'[q].disturbed => wallets'[x] = wallets[x]
      BY <1>3, <3>1, <3>2
    <3>. QED BY <1>0, <3>1, <3>3, OwnKept DEF x
  <2>. QED BY <2>1, <2>2
<1>10. \A q \in Requests : WellFormed(call'[q])
  <2>1. WellFormed(call'[r])
    BY <1>1, <1>2 DEF WellFormed
  <2>. QED BY <1>2, <2>1, FormKept DEF WalletInv
<1>. QED BY <1>4, <1>5, <1>6, <1>7, <1>8, <1>9, <1>10 DEF WalletInv

\* A request that saves changes the file and what is reported of its address
\* alone; others between the map and the file are disturbed, so they rely on
\* nothing (OpenFile, WriteFile, Unlink).
LEMMA SaveStepKeeps ==
  ASSUME WalletInv, WalletTypeOK', NEW r \in Requests, NEW a \in Address, Leaves(r), Saving(r, a),
         UNCHANGED <<wallets, heap, lockedSince>>,
         \A q \in Requests : q # r /\ ~ Writing(q, a) => call'[q].unlinked = call[q].unlinked,
         \A x \in Address : x # a => /\ file'[x] = file[x] /\ promised'[x] = promised[x]
                                     /\ (x \in damaged' <=> x \in damaged)
                                     /\ (x \in adrift' <=> x \in adrift),
         \A x \in Address : ~ Opening(r, x)',
         \A x \in Address : Saving(r, x)' => x = a /\ call'[r].disturbed = call[r].disturbed,
         WellFormed(call'[r]), Own(r)', FileOk(a)', MapOk(a)'
  PROVE  WalletInv'
<1>1. Alone'
  BY AloneKept DEF WalletInv
<1>2. LockedAlone' /\ LockHolds'
  BY LockedAloneKept DEF WalletInv, LockHolds
<1>3. \A q \in Requests : WellFormed(call'[q])
  BY FormKept DEF WalletInv
<1>4. KeepsPromise'
  <2>. SUFFICES ASSUME NEW x \in Address, x # a PROVE FileOk(x)' /\ MapOk(x)'
    BY PromiseHalvesNext
  <2>1. FileOk(x) /\ MapOk(x)
    BY PromiseHalves DEF WalletInv
  <2>2. ~ Writing(r, x) /\ ~ Saving(r, x)
    BY DEF Saving, Writing, On
  <2>3. \A q \in Requests : q # r => (Writing(q, x)' <=> Writing(q, x)) /\ (Saving(q, x)' <=> Saving(q, x))
    BY Stages DEF Leaves
  <2>4. Stored(x)' = Stored(x)
    BY DEF Stored
  <2>5. FileOk(x)'
    BY <2>1, <2>2, <2>3 DEF FileOk
  <2>6. MapOk(x)'
    BY <2>1, <2>2, <2>3, <2>4 DEF MapOk
  <2>. QED BY <2>5, <2>6
<1>5. ASSUME NEW q \in Requests, q # r
      PROVE  Own(q)'
  <2>0. PICK x \in Address : x = call[q].addr
    BY DEF WalletInv, WalletTypeOK, CallState
  <2>1. Own(q) /\ WellFormed(call[q]) /\ SameStage(q) /\ WalletTypeOK
    BY <1>5 DEF WalletInv, Leaves
  <2>2. Saving(q, x) /\ ~ call'[q].disturbed => x # a
    BY <1>5, <2>1 DEF WalletInv, Alone, SameStage
  <2>3. x # a => ~ Writing(q, a)
    BY <2>0 DEF Writing, On
  <2>4. Saving(q, x) /\ ~ call'[q].disturbed => file'[x] = file[x] /\ call'[q].unlinked = call[q].unlinked
    BY <1>5, <2>2, <2>3
  <2>. QED BY <2>0, <2>1, <2>4, OwnKept
<1>. QED BY <1>1, <1>2, <1>3, <1>4, <1>5 DEF WalletInv

\* A request that saves and returns relies on nothing any more.
LEMMA SaveEnds ==
  ASSUME WalletTypeOK, NEW r \in Requests, Return(r)
  PROVE  /\ call' \in [Requests -> CallState] /\ Leaves(r)
         /\ \A q \in Requests : q # r => call'[q] = call[q]
         /\ \A x \in Address : ~ Opening(r, x)' /\ ~ Saving(r, x)'
         /\ WellFormed(call'[r]) /\ Own(r)'
<1>1. /\ call' \in [Requests -> CallState] /\ call'[r] = NoCall /\ Leaves(r)
      /\ \A q \in Requests : q # r => call'[q] = call[q]
  BY Returns DEF Return, WalletTypeOK
<1>2. \A x \in Address : ~ Opening(r, x)' /\ ~ Saving(r, x)'
  BY <1>1, IdleType DEF Opening, Saving, On, Active
<1>3. WellFormed(call'[r]) /\ Own(r)'
  BY <1>1, IdleType DEF WellFormed, Own, SendOwn, StoreOwn, CallAt
<1>. QED BY <1>1, <1>2, <1>3

\* What a report changes is of the address of the request.
LEMMA ReportsOwn ==
  ASSUME WalletTypeOK, NEW r \in Requests, NEW a \in Address, a = call[r].addr,
         NEW what \in Pass \cup {NoPass}, NEW ok \in BOOLEAN,
         Report(r, what, ok)
  PROVE  /\ promised' \in [Address -> Pass \cup {NoPass}]
         /\ damaged' \subseteq Address /\ adrift' \subseteq Address
         /\ \A x \in Address : x # a => /\ promised'[x] = promised[x]
                                        /\ (x \in damaged' <=> x \in damaged)
                                        /\ (x \in adrift' <=> x \in adrift)
         /\ promised'[a] = what
         /\ call[r].disturbed => a \in damaged' /\ a \in adrift'
         /\ ~ ok => a \in damaged'
BY DEF Report, WalletTypeOK

\* A call that reports an error changes no promise, and marks its own address
\* only.
LEMMA ReportsOwnError ==
  ASSUME WalletTypeOK, NEW r \in Requests, NEW a \in Address, a = call[r].addr,
         NEW harmed \in BOOLEAN, ReportError(r, harmed)
  PROVE  /\ promised' = promised
         /\ damaged' \subseteq Address /\ adrift' \subseteq Address
         /\ \A x \in Address : x # a => (x \in damaged' <=> x \in damaged) /\ (x \in adrift' <=> x \in adrift)
         /\ a \in adrift' /\ (harmed => a \in damaged')
         /\ a \in damaged => a \in damaged'
BY DEF ReportError, WalletTypeOK

\* saveWallet opens the file; when it cannot, the file is as it was and the
\* object stays in the map (OpenFile).
LEMMA OpenFileKeeps ==
  ASSUME WalletInv, NEW r \in Requests, OpenFile(r)
  PROVE  WalletInv'
<1>0. /\ WalletTypeOK /\ WellFormed(call[r]) /\ call[r].pc = "open" /\ call[r].op = "put"
      /\ call[r].slot \in Slot /\ ~ call[r].unlinked
      /\ UNCHANGED <<wallets, heap, lockedSince, calls, reloads>>
  BY DEF WalletInv, WellFormed, OpenFile, CallAt
<1>1. PICK a \in Address : a = call[r].addr
  BY <1>0 DEF WalletTypeOK, CallState
<1>2. Saving(r, a) /\ ~ Writing(r, a)
  BY <1>0, <1>1 DEF Saving, Writing, On, Active
<1>3. ASSUME file' = [file EXCEPT ![a] = Torn], CallGoto(r, "write"), UNCHANGED report
      PROVE  WalletInv'
  <2>1. Moved(r, "write", call[r].slot)
    BY <1>0, <1>3, GotoMoves DEF Steps
  <2>2. file' \in [Address -> Pass \cup {NoPass, Torn}] /\ file'[a] = Torn
        /\ \A x \in Address : x # a => file'[x] = file[x]
    BY <1>0, <1>3 DEF WalletTypeOK
  <2>3. WalletTypeOK'
    BY <1>0, <1>3, <2>1, <2>2 DEF WalletTypeOK, Moved, report
  <2>4. Saving(r, a)' /\ Writing(r, a)'
    BY <1>1, <2>1 DEF Moved, Saving, Writing, On, Active
  <2>5. FileOk(a)' /\ MapOk(a)'
    BY <2>4 DEF FileOk, MapOk
  <2>6. Own(r)'
    <3>1. Own(r)
      BY DEF WalletInv
    <3>. QED BY <1>0, <1>1, <2>1, <2>2, <3>1 DEF Own, SendOwn, StoreOwn, CallAt, Moved
  <2>7. WellFormed(call'[r]) /\ (\A x \in Address : ~ Opening(r, x)')
        /\ \A x \in Address : Saving(r, x)' => x = a /\ call'[r].disturbed = call[r].disturbed
    BY <1>0, <1>1, <2>1 DEF WellFormed, Opening, Saving, On, Moved
  <2>8. \A q \in Requests : q # r => call'[q].unlinked = call[q].unlinked
    BY <1>3, <1>0 DEF CallGoto, WalletTypeOK
  <2>9. damaged' = damaged /\ adrift' = adrift /\ promised' = promised
    BY <1>3 DEF report
  <2>. QED BY <1>0, <1>2, <2>1, <2>2, <2>3, <2>5, <2>6, <2>7, <2>8, <2>9, SaveStepKeeps DEF Moved
<1>4. ASSUME Return(r), ReportError(r, FALSE), file' = file
      PROVE  WalletInv'
  <2>1. /\ call' \in [Requests -> CallState] /\ Leaves(r)
        /\ \A q \in Requests : q # r => call'[q] = call[q]
        /\ \A x \in Address : ~ Opening(r, x)' /\ ~ Saving(r, x)'
        /\ WellFormed(call'[r]) /\ Own(r)'
    BY <1>0, <1>4, SaveEnds
  <2>2. /\ promised' = promised /\ damaged' \subseteq Address /\ adrift' \subseteq Address
        /\ \A x \in Address : x # a => (x \in damaged' <=> x \in damaged) /\ (x \in adrift' <=> x \in adrift)
        /\ a \in adrift' /\ (a \in damaged => a \in damaged')
    BY <1>0, <1>1, <1>4, ReportsOwnError
  <2>3. WalletTypeOK'
    BY <1>0, <1>4, <2>1, <2>2 DEF WalletTypeOK
  <2>4. FileOk(a)'
    <3>1. FileOk(a)
      BY PromiseHalves DEF WalletInv
    <3>2. \A q \in Requests : Writing(q, a) => Writing(q, a)'
      BY <1>2, <2>1, Stages DEF Leaves
    <3>. QED BY <1>4, <2>2, <3>1, <3>2 DEF FileOk
  <2>5. MapOk(a)'
    BY <2>2 DEF MapOk
  <2>. QED BY <1>0, <1>2, <1>4, <2>1, <2>2, <2>3, <2>4, <2>5, SaveStepKeeps
<1>. QED BY <1>1, <1>3, <1>4 DEF OpenFile

\* saveWallet writes: a request that nobody disturbed finds the file as it emptied
\* it and the map as it left it (WriteFile).
LEMMA WriteFileKeeps ==
  ASSUME WalletInv, NEW r \in Requests, WriteFile(r)
  PROVE  WalletInv'
<1>0. /\ WalletTypeOK /\ call[r].pc = "write" /\ Return(r) /\ call[r].pass \in Pass \cup {NoPass}
      /\ call[r].slot \in Slot
      /\ UNCHANGED <<wallets, heap, lockedSince, calls, reloads>>
  BY DEF WalletInv, WellFormed, WriteFile, CallAt, WalletTypeOK, CallState
<1>1. PICK a \in Address : a = call[r].addr
  BY <1>0 DEF WalletTypeOK, CallState
<1>2. Saving(r, a)
  BY <1>0, <1>1 DEF Saving, On, Active
<1>3. /\ call' \in [Requests -> CallState] /\ Leaves(r)
      /\ \A q \in Requests : q # r => call'[q] = call[q]
      /\ \A x \in Address : ~ Opening(r, x)' /\ ~ Saving(r, x)'
      /\ WellFormed(call'[r]) /\ Own(r)'
  BY <1>0, SaveEnds
<1>4. ASSUME NEW f \in Written(call[r]), file' = [file EXCEPT ![a] = f], Report(r, call[r].pass, TRUE)
      PROVE  WalletInv'
  <2>1. /\ promised' \in [Address -> Pass \cup {NoPass}]
        /\ damaged' \subseteq Address /\ adrift' \subseteq Address
        /\ \A x \in Address : x # a => /\ promised'[x] = promised[x]
                                       /\ (x \in damaged' <=> x \in damaged)
                                       /\ (x \in adrift' <=> x \in adrift)
        /\ promised'[a] = call[r].pass
        /\ call[r].disturbed => a \in damaged' /\ a \in adrift'
    BY <1>0, <1>1, <1>4, ReportsOwn
  <2>2. f \in Pass \cup {NoPass, Torn}
    BY <1>0, <1>1, <1>4 DEF Written, WalletTypeOK
  <2>3. /\ file' \in [Address -> Pass \cup {NoPass, Torn}] /\ file'[a] = f
        /\ \A x \in Address : x # a => file'[x] = file[x]
    BY <1>0, <1>4, <2>2 DEF WalletTypeOK
  <2>4. WalletTypeOK'
    BY <1>0, <1>3, <2>1, <2>3 DEF WalletTypeOK
  <2>5. FileOk(a)' /\ MapOk(a)'
    <3>1. CASE call[r].disturbed
      BY <2>1, <3>1 DEF FileOk, MapOk
    <3>2. CASE ~ call[r].disturbed
      <4>1. /\ call[r].slot = wallets[a] /\ heap[a][wallets[a]].pass = call[r].pass
            /\ file[a] = Torn /\ ~ call[r].unlinked
        BY <1>0, <1>1, <3>2 DEF WalletInv, Own, StoreOwn, CallAt
      <4>2. f = call[r].pass
        BY <1>1, <1>4, <4>1 DEF Written
      <4>3. Stored(a)' = call[r].pass
        BY <1>0, <4>1, WalletAssumption DEF Stored
      <4>. QED BY <2>1, <2>3, <4>2, <4>3 DEF FileOk, MapOk
    <3>. QED BY <3>1, <3>2
  <2>. QED BY <1>0, <1>2, <1>3, <2>1, <2>3, <2>4, <2>5, SaveStepKeeps
<1>5. ASSUME ReportError(r, TRUE), file' = file
      PROVE  WalletInv'
  <2>1. /\ promised' = promised /\ damaged' \subseteq Address /\ adrift' \subseteq Address
        /\ \A x \in Address : x # a => (x \in damaged' <=> x \in damaged) /\ (x \in adrift' <=> x \in adrift)
        /\ a \in adrift' /\ a \in damaged'
    BY <1>0, <1>1, <1>5, ReportsOwnError
  <2>2. WalletTypeOK'
    BY <1>0, <1>3, <1>5, <2>1 DEF WalletTypeOK
  <2>3. FileOk(a)' /\ MapOk(a)'
    BY <2>1 DEF FileOk, MapOk
  <2>. QED BY <1>0, <1>2, <1>3, <1>5, <2>1, <2>2, <2>3, SaveStepKeeps
<1>. QED BY <1>1, <1>4, <1>5 DEF WriteFile

\* Delete removes the file; when it cannot, it says nothing of it (Unlink).
LEMMA UnlinkKeeps ==
  ASSUME WalletInv, NEW r \in Requests, Unlink(r)
  PROVE  WalletInv'
<1>0. /\ WalletTypeOK /\ call[r].pc = "unlink"
      /\ UNCHANGED <<wallets, heap, lockedSince, calls, reloads>>
  BY DEF WalletInv, Unlink, CallAt
<1>1. PICK a \in Address : a = call[r].addr
  BY <1>0 DEF WalletTypeOK, CallState
<1>2. Saving(r, a)
  BY <1>0, <1>1 DEF Saving, On, Active
<1>3. PICK ok \in BOOLEAN :
        /\ Report(r, NoPass, ok)
        /\ \/ /\ ok /\ file' = [file EXCEPT ![a] = NoPass]
              /\ call' = [q \in Requests |-> IF q = r THEN NoCall
                            ELSE [call[q] EXCEPT !.unlinked = @ \/ Writing(q, a)]]
           \/ ~ ok /\ Return(r) /\ file' = file
  BY <1>1 DEF Unlink
<1>4. /\ promised' \in [Address -> Pass \cup {NoPass}]
      /\ damaged' \subseteq Address /\ adrift' \subseteq Address
      /\ \A x \in Address : x # a => /\ promised'[x] = promised[x]
                                     /\ (x \in damaged' <=> x \in damaged)
                                     /\ (x \in adrift' <=> x \in adrift)
      /\ promised'[a] = NoPass
      /\ call[r].disturbed => a \in damaged' /\ a \in adrift'
      /\ ~ ok => a \in damaged'
  BY <1>0, <1>1, <1>3, ReportsOwn
<1>5. /\ call' \in [Requests -> CallState] /\ call'[r] = NoCall /\ Leaves(r)
      /\ \A q \in Requests : q # r /\ ~ Writing(q, a) => call'[q].unlinked = call[q].unlinked
  <2>1. CASE Return(r)
    BY <1>0, <2>1, Returns DEF Return, WalletTypeOK
  <2>2. CASE call' = [q \in Requests |-> IF q = r THEN NoCall
                        ELSE [call[q] EXCEPT !.unlinked = @ \/ Writing(q, a)]]
    <3>1. ASSUME NEW q \in Requests, q # r
          PROVE  /\ call'[q] \in CallState /\ SameStage(q)
                 /\ ~ Writing(q, a) => call'[q].unlinked = call[q].unlinked
      <4>. DEFINE d == call[q].unlinked \/ Writing(q, a)
      <4>1. call[q] \in CallState
        BY <1>0 DEF WalletTypeOK
      <4>2. call'[q] = [call[q] EXCEPT !.unlinked = d]
        BY <2>2, <3>1
      <4>3. d \in BOOLEAN /\ (~ Writing(q, a) => d = call[q].unlinked)
        <5>1. call[q].unlinked \in BOOLEAN
          BY <4>1 DEF CallState
        <5>. QED BY <5>1
      <4>4. call[q].pc # "write" => ~ Writing(q, a)
        BY DEF Writing
      <4>. HIDE DEF d
      <4>. QED BY <4>1, <4>2, <4>3, <4>4 DEF CallState, SameStage
    <3>2. call'[r] = NoCall
      BY <2>2
    <3>3. call' \in [Requests -> CallState]
      BY <2>2, <3>1, <3>2, IdleType
    <3>. QED BY <3>1, <3>2, <3>3 DEF Leaves
  <2>. QED BY <1>3, <2>1, <2>2
<1>6. /\ file' \in [Address -> Pass \cup {NoPass, Torn}]
      /\ \A x \in Address : x # a => file'[x] = file[x]
      /\ ok => file'[a] = NoPass
  BY <1>0, <1>3 DEF WalletTypeOK
<1>7. WalletTypeOK'
  BY <1>0, <1>4, <1>5, <1>6 DEF WalletTypeOK
<1>8. FileOk(a)' /\ MapOk(a)'
  <2>1. CASE call[r].disturbed
    BY <1>4, <2>1 DEF FileOk, MapOk
  <2>2. CASE ~ call[r].disturbed
    <3>1. wallets[a] = 0
      BY <1>0, <1>1, <2>2 DEF WalletInv, Own, StoreOwn, CallAt
    <3>2. Stored(a)' = NoPass
      BY <1>0, <3>1 DEF Stored
    <3>. QED BY <1>4, <1>6, <3>2 DEF FileOk, MapOk
  <2>. QED BY <2>1, <2>2
<1>9. /\ \A x \in Address : ~ Opening(r, x)' /\ ~ Saving(r, x)'
      /\ WellFormed(call'[r]) /\ Own(r)'
  BY <1>5, IdleType DEF Opening, Saving, On, Active, WellFormed, Own, SendOwn, StoreOwn, CallAt
<1>. QED BY <1>0, <1>2, <1>4, <1>5, <1>6, <1>7, <1>8, <1>9, SaveStepKeeps

\* A restart finds in the files what was promised, unless a write was cut short
\* or a file could not be read (Reload).
LEMMA ReloadKeeps ==
  ASSUME WalletInv, NEW skipped \in SUBSET Address, Reload(skipped)
  PROVE  WalletInv'
<1>. DEFINE loaded == {x \in Address \ skipped : Decoded(file[x])}
            cut == {x \in Address : \E r \in Requests : Writing(r, x)}
<1>1. PICK s \in Slot :
        /\ wallets' = [x \in Address |-> IF x \in loaded THEN s ELSE 0]
        /\ heap' = [x \in Address |-> [u \in Slot |->
                      IF u = s /\ x \in loaded THEN [pass |-> file[x], unlocked |-> FALSE]
                      ELSE NewWallet]]
  BY DEF Reload
<1>2. /\ call' = [r \in Requests |-> NoCall] /\ file' = file /\ promised' = promised
      /\ damaged' = damaged \cup cut /\ adrift' = damaged \cup cut \cup skipped
      /\ lockedSince' = [x \in Address |-> TRUE] /\ calls' = calls /\ reloads' = reloads + 1
  BY DEF Reload
<1>3. \A x \in loaded : file[x] \in Pass
  BY DEF Decoded
<1>4. loaded \subseteq Address /\ cut \subseteq Address
  OBVIOUS
<1>5. WalletTypeOK'
  <2>. HIDE DEF loaded, cut
  <2>1. /\ wallets' \in [Address -> Slot \cup {0}]
        /\ heap' \in [Address -> [Slot -> [pass : Pass \cup {NoPass}, unlocked : BOOLEAN]]]
    BY <1>1, <1>3 DEF NewWallet
  <2>2. call' \in [Requests -> CallState] /\ lockedSince' \in [Address -> BOOLEAN]
    BY <1>2, IdleType
  <2>3. damaged' \subseteq Address /\ adrift' \subseteq Address /\ calls' \in Nat /\ reloads' \in Nat
    BY <1>2, <1>4 DEF WalletInv, WalletTypeOK
  <2>. QED BY <1>2, <2>1, <2>2, <2>3 DEF WalletInv, WalletTypeOK
<1>6. \A r \in Requests : call'[r] = NoCall
  BY <1>2
<1>7. Alone' /\ LockedAlone' /\ \A r \in Requests : WellFormed(call'[r]) /\ Own(r)'
  BY <1>6, IdleType
     DEF Alone, LockedAlone, WellFormed, Own, SendOwn, StoreOwn, Saving, Opening, On, Active, CallAt
<1>8. LockHolds'
  <2>. HIDE DEF loaded, cut
  <2>. QED BY <1>1 DEF LockHolds, NewWallet
<1>9. KeepsPromise'
  <2>. SUFFICES ASSUME NEW x \in Address PROVE FileOk(x)' /\ MapOk(x)'
    BY PromiseHalvesNext
  <2>1. FileOk(x) /\ (x \in cut <=> \E r \in Requests : Writing(r, x))
    BY PromiseHalves DEF WalletInv
  <2>2. x \in damaged' \/ file[x] = promised[x]
    BY <1>2, <2>1 DEF FileOk
  <2>3. x \in adrift' \/ (x \notin skipped /\ file[x] = promised[x])
    BY <1>2, <2>1 DEF FileOk
  <2>4. promised[x] \in Pass \cup {NoPass} /\ (x \in loaded <=> x \notin skipped /\ file[x] \in Pass)
    BY DEF WalletInv, WalletTypeOK, Decoded
  <2>. HIDE DEF loaded, cut
  <2>5. x \notin skipped /\ file[x] = promised[x] => Stored(x)' = promised[x]
    BY <1>1, <2>4, WalletAssumption DEF Stored, NewWallet
  <2>. QED BY <1>2, <2>2, <2>3, <2>5 DEF FileOk, MapOk
<1>. QED BY <1>5, <1>7, <1>8, <1>9 DEF WalletInv

-----------------------------------------------------------------------------

\* The inductive invariant holds whatever the requests do.
THEOREM WalletInvHolds == WalletSpec => []WalletInv
<1>1. WalletInv /\ [WalletNext]_walletVars => WalletInv'
  <2>. SUFFICES ASSUME WalletInv, [WalletNext]_walletVars PROVE WalletInv'
    OBVIOUS
  <2>1. ASSUME NEW r \in Requests, NEW a \in Address, NEW p \in Pass,
               \/ Create(r, a, p) \/ Import(r, a, p) \/ Unlock(r, a, p)
               \/ Send(r, a, p) \/ Delete(r, a, p)
        PROVE  WalletInv'
    BY <2>1, BeginKeeps DEF Create, Import, Unlock, Send, Delete, Starts
  <2>2. ASSUME NEW r \in Requests, NEW a \in Address, Lock(r, a) \/ Sign(r, a)
        PROVE  WalletInv'
    BY <2>2, BeginKeeps DEF Lock, Sign, Starts
  <2>3. ASSUME NEW r \in Requests, Step(r)
        PROVE  WalletInv'
    <3>1. CASE Find(r) \/ FindAgain(r)
      BY <3>1, LookupKeeps
    <3>2. CASE Use(r)
      BY <3>2, ReturnKeeps DEF Use, CallAt
    <3>3. CASE Decrypt(r) \/ Clear(r)
      BY <3>3, DecryptKeeps, ClearKeeps
    <3>4. CASE Put(r) \/ OpenFile(r) \/ WriteFile(r) \/ Remove(r) \/ Unlink(r)
      BY <3>4, PutKeeps, OpenFileKeeps, WriteFileKeeps, RemoveKeeps, UnlinkKeeps
    <3>. QED BY <2>3, <3>1, <3>2, <3>3, <3>4 DEF Step
  <2>4. ASSUME NEW skipped \in SUBSET Address, Reload(skipped)
        PROVE  WalletInv'
    BY <2>4, ReloadKeeps
  <2>5. CASE UNCHANGED walletVars
    <3>1. wallets' = wallets /\ heap' = heap /\ file' = file /\ call' = call /\ lockedSince' = lockedSince
          /\ promised' = promised /\ damaged' = damaged /\ adrift' = adrift
          /\ calls' = calls /\ reloads' = reloads
      BY <2>5 DEF walletVars, report
    <3>2. WalletTypeOK' /\ (\A r \in Requests : WellFormed(call'[r]))
      BY <3>1 DEF WalletInv, WalletTypeOK
    <3>3. Alone' /\ LockedAlone' /\ LockHolds'
      BY <3>1 DEF WalletInv, Alone, LockedAlone, LockHolds, Saving, Opening, On, Active
    <3>4. \A r \in Requests : Own(r)'
      BY <3>1 DEF WalletInv, Own, SendOwn, StoreOwn, CallAt
    <3>5. KeepsPromise'
      BY <3>1 DEF WalletInv, KeepsPromise, Stored, Saving, Writing, On, Active
    <3>. QED BY <3>2, <3>3, <3>4, <3>5 DEF WalletInv
  <2>. QED BY <2>1, <2>2, <2>3, <2>4, <2>5 DEF WalletNext
<1>. QED BY <1>1, WalletInitHolds, PTL DEF WalletSpec

\* The types hold for any number of requests.
THEOREM WalletTypeCorrect == WalletSpec => []WalletTypeOK
<1>1. WalletInv => WalletTypeOK
  BY DEF WalletInv
<1>. QED BY <1>1, WalletInvHolds, PTL

\* What the last Create, Import or Delete of an address that reported success
\* said is what the file and the manager hold and what a restart finds, but for
\* the exceptions that KeepsPromise names: requests that changed the map between
\* each other's map and file, a write that failed or was cut short, a file that
\* could not be removed or read, a call that reported an error.
THEOREM PromisesKept == WalletSpec => []KeepsPromise
<1>1. WalletInv => KeepsPromise
  BY DEF WalletInv
<1>. QED BY <1>1, WalletInvHolds, PTL

\* Once Lock returned, and nobody was about to decrypt or had replaced the wallet,
\* it has no key in memory until a call that unlocks or replaces it begins.
THEOREM LocksHold == WalletSpec => []LockHolds
<1>1. WalletInv => LockHolds
  BY DEF WalletInv
<1>. QED BY <1>1, WalletInvHolds, PTL

\* A send that gave the right password finds the key at its second lookup, unless
\* a Lock or a Delete came in between.
THEOREM SendsFindKey == WalletSpec => []SendFindsKey
<1>1. WalletInv => SendFindsKey
  BY DEF WalletInv, SendFindsKey, Own, SendOwn
<1>. QED BY <1>1, WalletInvHolds, PTL
=============================================================================
