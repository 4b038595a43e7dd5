------------------------------- MODULE Gossip -------------------------------
(***************************************************************************)
(* How blocks travel between nodes: the miner of main.go, and handleConn,  *)
(* readLoop, handleBlock, handleGetDAG, handleDAG and the broadcasts of    *)
(* core/p2p/server.go, at every node at once.  A connection has two ends;  *)
(* each end has a goroutine that registers the peer and afterwards reads.  *)
(* A broadcast sends to every peer from a goroutine of its own, so the     *)
(* messages of a connection, in its buffers or in a goroutine that waits   *)
(* for them, are a set without order.  A connection may break and a node   *)
(* may stop at any point: the DAG in memory and the slasher's records are  *)
(* lost, the accounts are not.                                             *)
(*                                                                         *)
(* BlockHandler models the steps inside handleBlock at one node and the    *)
(* amounts it slashes and pays, Peers the limits and the bans.             *)
(***************************************************************************)
EXTENDS Integers, FiniteSets, Sequences

CONSTANTS
  Node,
  Link,        \* the connections
  Ends,        \* the two nodes of each
  Blocks,      \* what each node mines, in order
  NoBlock,
  Founders,    \* the nodes with stake at every node (main.go)
  Genesis,     \* the node that grants stake to its peers
  Buffer,      \* how many vertices fit into the buffers of each connection
  TooLong,     \* the sets of vertices whose message exceeds MaxMessageSize
  TooBig,      \* the vertices that exceed MaxBlockSize
  MaxFaults    \* bound: broken connections and restarts

Mined(n) == {Blocks[n][i] : i \in DOMAIN Blocks[n]}
Block == UNION {Mined(n) : n \in Node}
Author == [b \in Block |-> CHOOSE n \in Node : b \in Mined(n)]

ASSUME GossipAssumption ==
  /\ \A n \in Node : Blocks[n] \in Seq(Block)
  /\ \A n, m \in Node : n # m => Mined(n) \cap Mined(m) = {}
  /\ NoBlock \notin Block
  /\ \A l \in Link : Ends[l] \subseteq Node /\ IsFiniteSet(Ends[l]) /\ Cardinality(Ends[l]) = 2
  /\ Founders \subseteq Node /\ Genesis \in Node
  /\ Buffer \in [Link -> Nat] /\ MaxFaults \in Nat
  /\ TooLong \subseteq SUBSET Block /\ TooBig \subseteq Block

VARIABLES
  up,         \* the connections that are open
  end,        \* where the goroutine of each end is, and what it works on
  inbox,      \* the messages on their way to each end
  Vertices,   \* DAG.Vertices of each node
  signed,     \* Slasher.signedBlocks of each node
  enough,     \* the authors with enough voting power in the state of each node
  mining,     \* the block a miner has added and not yet broadcast
  height,     \* how many blocks each node has mined
  slashed,    \* history: the authors each node has slashed
  faults

nodeVars == <<Vertices, signed, enough, slashed>>
minerVars == <<mining, height>>
gossipVars == <<up, end, inbox, nodeVars, minerVars, faults>>

End == {e \in Link \X Node : e[2] \in Ends[e[1]]}
At(e, pc) == end[e].pc = pc
Host(e) == e[2]
Other == [e \in End |-> <<e[1], CHOOSE n \in Ends[e[1]] : n # e[2]>>]
Up(e) == e[1] \in up

\* Where an end is.  vs: the blocks of a message, b: the one that was accepted.
Works(pc, vs, b) == [pc |-> pc, vs |-> vs, b |-> b]

\* An end without a connection, one that waits for a message, and one that has
\* read a message with these blocks.
Off == Works("off", {}, NoBlock)
Reading == Works("read", {}, NoBlock)
Received(vs) == IF vs \in TooLong THEN Reading ELSE Works("handle", vs, NoBlock)

\* MsgBlock and MsgDAG carry blocks, and handleBlock treats each of them alike.
Carry(vs) == [type |-> "blocks", vs |-> vs]
GetDAG == [type |-> "getdag", vs |-> {}]

GossipInit ==
  /\ up = {}
  /\ end = [e \in End |-> Off]
  /\ inbox = [e \in End |-> {}]
  /\ Vertices = [n \in Node |-> {}]
  /\ signed = [n \in Node |-> {}]
  /\ enough = [n \in Node |-> Founders]
  /\ mining = [n \in Node |-> NoBlock]
  /\ height = [n \in Node |-> 0]
  /\ slashed = [n \in Node |-> {}]
  /\ faults = 0

\* Send to the other end of each of these; what goes to a closed connection is
\* lost, and an empty answer changes nothing.
Sent(es, msgs) ==
  [e \in End |-> IF Other[e] \in es /\ Up(e) THEN inbox[e] \cup (msgs \ {Carry({})})
                 ELSE inbox[e]]

\* Server.Peers: AddPeer has run and RemovePeer has not.
PeersOf(n) == {e \in End : Host(e) = n /\ ~ At(e, "off")}

-----------------------------------------------------------------------------
(* handleConn, after the handshake. *)

\* Both ends of the last connection have removed it.
Dial(l) ==
  /\ l \notin up
  /\ \A e \in End : e[1] = l => At(e, "off")
  /\ up' = up \cup {l}
  /\ UNCHANGED <<end, inbox, nodeVars, minerVars, faults>>

AddPeerAt(e) ==
  /\ Up(e) /\ At(e, "off")
  /\ end' = [end EXCEPT ![e] = Works("added", {}, NoBlock)]
  /\ UNCHANGED <<up, inbox, nodeVars, minerVars, faults>>

\* The mutated form: only a node without vertices asks for the DAG.
StartReadingMutant(e) ==
  /\ At(e, "added")
  /\ end' = [end EXCEPT ![e] = Reading]
  /\ enough' = [enough EXCEPT ![Host(e)] =
                  IF Host(e) = Genesis THEN @ \cup {Host(Other[e])} ELSE @]
  /\ inbox' = Sent({e}, IF Vertices[Host(e)] = {} THEN {GetDAG} ELSE {})
  /\ UNCHANGED <<up, Vertices, signed, slashed, minerVars, faults>>

\* OnPeerConnected grants, the read loop starts, SendGetAddr and SendGetDAG ask.
\* The two requests are one message here and the two answers one answer: the same
\* read loop sends both, and that to SendGetAddr carries no blocks.
StartReading(e) ==
  /\ At(e, "added")
  /\ end' = [end EXCEPT ![e] = Reading]
  /\ enough' = [enough EXCEPT ![Host(e)] =
                  IF Host(e) = Genesis THEN @ \cup {Host(Other[e])} ELSE @]
  /\ inbox' = Sent({e}, {GetDAG})
  /\ UNCHANGED <<up, Vertices, signed, slashed, minerVars, faults>>

-----------------------------------------------------------------------------
(* readLoop and handleMessage. *)

\* MsgBlock and MsgDAG.  handleMessage discards one that is too long.
ReadBlocks(e, msg) ==
  /\ At(e, "read") /\ msg \in inbox[e] /\ msg.type = "blocks"
  /\ inbox' = [inbox EXCEPT ![e] = @ \ {msg}]
  /\ end' = [end EXCEPT ![e] = Received(msg.vs)]
  /\ UNCHANGED <<up, nodeVars, minerVars, faults>>

\* handleGetAddr and handleGetDAG (GetAllVertices).
ReadGetDAG(e) ==
  /\ At(e, "read") /\ GetDAG \in inbox[e]
  /\ inbox' = [inbox EXCEPT ![e] = @ \ {GetDAG}]
  /\ end' = [end EXCEPT ![e] = Works("reply", Vertices[Host(e)], NoBlock)]
  /\ UNCHANGED <<up, nodeVars, minerVars, faults>>

\* The vertices on their way to the other end.
Load(e) == UNION {{msg} \X msg.vs : msg \in inbox[Other[e]]}

\* The answer fits into the buffers of the connection when they are empty, and
\* beside all that is on its way.
FitsAlone(e) == Cardinality(end[e].vs) <= Buffer[e[1]]
Fits(e) == Cardinality(Load(e)) + Cardinality(end[e].vs) <= Buffer[e[1]]

\* The read loop itself sends the answer.  The goroutines of the broadcasts
\* compete with it for the encoder and for the buffers, so that it may or may not
\* get through when not everything fits; and an answer that is too large for the
\* buffers is sent only while the other end reads it.
SendAnswer(e) ==
  /\ At(e, "reply")
  /\ \/ /\ ~ Up(e) \/ FitsAlone(e)
        /\ inbox' = Sent({e}, {Carry(end[e].vs)})
        /\ end' = [end EXCEPT ![e] = Reading]
     \/ /\ Up(e) /\ ~ FitsAlone(e) /\ At(Other[e], "read")
        /\ end' = [end EXCEPT ![e] = Reading, ![Other[e]] = Received(end[e].vs)]
        /\ UNCHANGED inbox
  /\ UNCHANGED <<up, nodeVars, minerVars, faults>>

RemovePeerAt(e) ==
  /\ ~ Up(e) /\ At(e, "read")
  /\ end' = [end EXCEPT ![e] = Off]
  /\ UNCHANGED <<up, inbox, nodeVars, minerVars, faults>>

-----------------------------------------------------------------------------
(* handleBlock, for each block of the message in any order. *)

HasVertex(n, b) == b \in Vertices[n]

\* The mutated form: the same block twice is a double sign.
DoubleSignMutant(n, b) == \E d \in signed[n] : Author[d] = Author[b]

\* NewVertex sets every Round to 0: an author has one block per slasher.
DoubleSign(n, b) == \E d \in signed[n] : Author[d] = Author[b] /\ d # b

\* The blocks that are left to do.
Rest(e, b) ==
  IF end[e].vs = {b} THEN Reading ELSE Works("handle", end[e].vs \ {b}, NoBlock)

\* A block that is too big, or known, or that ValidateBlock rejects.
Drop(e, b) ==
  /\ At(e, "handle") /\ b \in end[e].vs
  /\ b \in TooBig \/ HasVertex(Host(e), b) \/ Author[b] \notin enough[Host(e)]
  /\ end' = [end EXCEPT ![e] = Rest(e, b)]
  /\ UNCHANGED <<up, inbox, nodeVars, minerVars, faults>>

Checked(e, b) ==
  /\ At(e, "handle") /\ b \in end[e].vs
  /\ b \notin TooBig
  /\ ~ HasVertex(Host(e), b)
  /\ Author[b] \in enough[Host(e)]

\* Only stake is slashed, not a grant; it may leave the author too little.
Slash(e, b) ==
  /\ Checked(e, b)
  /\ DoubleSign(Host(e), b)
  /\ \E lost \in SUBSET ({Author[b]} \cap Founders) :
       enough' = [enough EXCEPT ![Host(e)] = @ \ lost]
  /\ slashed' = [slashed EXCEPT ![Host(e)] = @ \cup {Author[b]}]
  /\ end' = [end EXCEPT ![e] = Rest(e, b)]
  /\ UNCHANGED <<up, inbox, Vertices, signed, minerVars, faults>>

AcceptBlock(e, b) ==
  /\ Checked(e, b)
  /\ ~ DoubleSign(Host(e), b)
  /\ signed' = [signed EXCEPT ![Host(e)] = @ \cup {b}]
  /\ end' = [end EXCEPT ![e] = Works("add", end[e].vs, b)]
  /\ UNCHANGED <<up, inbox, Vertices, enough, slashed, minerVars, faults>>

AddVertex(e) ==
  /\ At(e, "add")
  /\ Vertices' = [Vertices EXCEPT ![Host(e)] = @ \cup {end[e].b}]
  /\ end' = [end EXCEPT ![e] = Works("rebroadcast", end[e].vs, end[e].b)]
  /\ UNCHANGED <<up, inbox, signed, enough, slashed, minerVars, faults>>

\* To every peer but the sender.
RebroadcastBlock(e) ==
  /\ At(e, "rebroadcast")
  /\ inbox' = Sent(PeersOf(Host(e)) \ {e}, {Carry({end[e].b})})
  /\ end' = [end EXCEPT ![e] = Rest(e, end[e].b)]
  /\ UNCHANGED <<up, nodeVars, minerVars, faults>>

-----------------------------------------------------------------------------
(* The miner of main.go, and what goes wrong. *)

Mine(n) ==
  /\ mining[n] = NoBlock /\ height[n] < Len(Blocks[n])
  /\ LET b == Blocks[n][height[n] + 1]
     IN  /\ Vertices' = [Vertices EXCEPT ![n] = @ \cup {b}]
         /\ mining' = [mining EXCEPT ![n] = b]
  /\ height' = [height EXCEPT ![n] = @ + 1]
  /\ UNCHANGED <<up, end, inbox, signed, enough, slashed, faults>>

BroadcastBlock(n) ==
  /\ mining[n] # NoBlock
  /\ inbox' = Sent(PeersOf(n), {Carry({mining[n]})})
  /\ mining' = [mining EXCEPT ![n] = NoBlock]
  /\ UNCHANGED <<up, end, nodeVars, height, faults>>

\* What was on its way is lost.
Emptied(ls) == [e \in End |-> IF e[1] \in ls THEN {} ELSE inbox[e]]

Break(l) ==
  /\ l \in up /\ faults < MaxFaults
  /\ up' = up \ {l}
  /\ inbox' = Emptied({l})
  /\ faults' = faults + 1
  /\ UNCHANGED <<end, nodeVars, minerVars>>

\* The process stops and starts again, with the genesis allocation of main.go.
Restart(n) ==
  /\ faults < MaxFaults
  /\ LET ls == {l \in Link : n \in Ends[l]}
     IN  up' = up \ ls /\ inbox' = Emptied(ls)
  /\ end' = [e \in End |-> IF Host(e) = n THEN Off ELSE end[e]]
  /\ Vertices' = [Vertices EXCEPT ![n] = {}]
  /\ signed' = [signed EXCEPT ![n] = {}]
  /\ enough' = [enough EXCEPT ![n] = @ \cup Founders]
  /\ mining' = [mining EXCEPT ![n] = NoBlock]
  /\ faults' = faults + 1
  /\ UNCHANGED <<height, slashed>>

EndStep(e) ==
  \/ AddPeerAt(e) \/ StartReading(e) \/ RemovePeerAt(e)
  \/ \E msg \in inbox[e] : ReadBlocks(e, msg)
  \/ ReadGetDAG(e) \/ SendAnswer(e)
  \/ \E b \in end[e].vs : Drop(e, b) \/ Slash(e, b) \/ AcceptBlock(e, b)
  \/ AddVertex(e) \/ RebroadcastBlock(e)

GossipNext ==
  \/ \E e \in End : EndStep(e)
  \/ \E l \in Link : Dial(l) \/ Break(l)
  \/ \E n \in Node : Mine(n) \/ BroadcastBlock(n) \/ Restart(n)

GossipSpec == GossipInit /\ [][GossipNext]_gossipVars

\* The goroutine of an end has something to do: it is not idle in a read, and
\* not stuck in a write.
Busy(e) ==
  CASE At(e, "off")   -> Up(e)
    [] At(e, "read")  -> inbox[e] # {} \/ ~ Up(e)
    [] At(e, "reply") -> ~ Up(e) \/ Fits(e) \/ At(Other[e], "read")
    [] OTHER          -> TRUE

\* The goroutines of the ends and of the miners run, and TCP delivers while a
\* connection is open: weak fairness of EndStep and BroadcastBlock, with Busy
\* for what enables EndStep.  Nobody has to mine, to connect or to fail.
Fairness ==
  /\ \A e \in End : []<> ~ Busy(e) \/ []<><<EndStep(e)>>_(end[e])
  /\ \A n \in Node : []<>(mining[n] = NoBlock) \/ []<><<BroadcastBlock(n)>>_(mining[n])

FairGossip == GossipSpec /\ Fairness

-----------------------------------------------------------------------------

Message == {Carry(vs) : vs \in SUBSET Block} \cup {GetDAG}

EndState ==
  [pc : {"off", "added", "read", "reply", "handle", "add", "rebroadcast"},
   vs : SUBSET Block, b : Block \cup {NoBlock}]

\* The type invariant: an end works on a block of its message, and only an open
\* connection carries messages.
GossipTypeOK ==
  /\ up \subseteq Link
  /\ end \in [End -> EndState]
  /\ \A e \in End : end[e].b # NoBlock => end[e].b \in end[e].vs
  /\ inbox \in [End -> SUBSET Message]
  /\ \A e \in End : inbox[e] # {} => Up(e)
  /\ Vertices \in [Node -> SUBSET Block] /\ signed \in [Node -> SUBSET Block]
  /\ enough \in [Node -> SUBSET Node] /\ slashed \in [Node -> SUBSET Node]
  /\ mining \in [Node -> Block \cup {NoBlock}]
  /\ \A n \in Node : height[n] \in 0 .. Len(Blocks[n])
  /\ faults \in 0 .. MaxFaults

\* A validator that made one block only is never slashed, at any node, although
\* its block comes over several connections, in broadcasts and in DAGs, and
\* again after a restart: RecordBlockSigned tells the same block from another,
\* also between the readers that have not yet added it.
HonestUnslashed == \A n, f \in Node : f \in slashed[n] => height[f] >= 2

\* What slashing.go calls a double sign is two different blocks at the same
\* height.  A miner of main.go makes one block per height, so none is ever
\* slashed.
NoMinerSlashed == \A n \in Node : slashed[n] = {}

\* Both read loops are in the middle of an answer that does not fit beside what
\* is on its way to the other end: neither reads.
Wedged(l) == \A e \in End : e[1] = l => Up(e) /\ At(e, "reply") /\ ~ Fits(e)

\* The other end takes neither the block nor a message with it: the block or the
\* DAG is too large, or ValidateBlock or the slasher refuses it.
Refuses(e, b) ==
  LET n == Host(Other[e])
  IN  \/ b \in TooBig \/ Vertices[Host(e)] \in TooLong
      \/ Author[b] \notin enough[n] \/ DoubleSign(n, b)

\* A block that one end of an open connection has reaches the other end, however
\* the broadcasts interleave with the steps by which the two register each other
\* and with their restarts: it is in the broadcast or in the answer to
\* SendGetDAG.  The exceptions: the connection breaks; the block exceeds
\* MaxBlockSize or the DAG MaxMessageSize; the other end's ValidateBlock or
\* slasher refuses it; both read loops are stuck for good, each in an answer
\* (handleGetDAG, handleGetAddr) for which the buffers have no room.
Delivered ==
  \A e \in End, b \in Block :
    \/ Up(e) /\ HasVertex(Host(e), b) ~>
         HasVertex(Host(Other[e]), b) \/ Refuses(e, b) \/ ~ Up(e)
    \/ <>[]Wedged(e[1])
=============================================================================
