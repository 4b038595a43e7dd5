------------------------------ MODULE Finality -------------------------------
(***************************************************************************)
(* core/pulse/finality.go: how many children the vertices have and by how  *)
(* many validators.  The explorer's callback goroutine of every vertex     *)
(* calls RecordVertex, in any order.  IsFinalized checks under the read    *)
(* lock, releases it, and records the result under the write lock.         *)
(* IsFinalized and Cleanup are exported and have no caller in the node.    *)
(***************************************************************************)
EXTENDS Integers, Sequences, FiniteSets

CONSTANTS
  Hash,              \* the vertices, by their hashes
  Author,            \* Vertex.Author
  Parents,           \* Vertex.Parents: a sequence, which may name a parent twice
  Timestamp,         \* Vertex.Timestamp
  MinConfirmations,  \* 6
  MinAge,            \* 30
  MinStakePercent,   \* 66
  KeepRecent,        \* the argument of Cleanup
  MaxTime            \* bound: the clock

ASSUME FinalityAssumption ==
  /\ Parents \in [Hash -> Seq(Hash)]
  /\ Timestamp \in [Hash -> Nat]
  /\ MinConfirmations \in Nat /\ MinAge \in Nat /\ MinStakePercent \in Nat
  /\ KeepRecent \in Nat /\ MaxTime \in Nat

VARIABLES
  Vertices,       \* the vertex store
  confirmations,  \* the number of children of each vertex
  stakeWeight,    \* their authors
  finalized,      \* the cache of finalized vertices
  checked,        \* vertices an IsFinalized found final and has not recorded yet
  now,            \* the clock
  recorded,       \* history: the vertices RecordVertex was called for
  forgotten       \* history: the children of each vertex that Cleanup forgot

tracker == <<confirmations, stakeWeight, finalized, checked, now, recorded, forgotten>>

FinalityInit ==
  /\ confirmations = [h \in Hash |-> 0]
  /\ stakeWeight = [h \in Hash |-> {}]
  /\ finalized = {}
  /\ checked = {}
  /\ now = 0
  /\ recorded = {}
  /\ forgotten = [h \in Hash |-> {}]

\* The places at which the vertices of a set name h as a parent, and the authors
\* of those vertices.
Mentions(set, h) == UNION {{v} \X {i \in DOMAIN Parents[v] : Parents[v][i] = h} : v \in set}
Children(set, h) == {v \in set : \E i \in DOMAIN Parents[v] : Parents[v][i] = h}
Builders(set, h) == {Author[v] : v \in Children(set, h)}

-----------------------------------------------------------------------------

\* The mutated form: the count of the new vertex starts at 0 in any case.
RecordVertexMutant(v) ==
  /\ confirmations' = [h \in Hash |->
       IF h = v THEN 0 ELSE confirmations[h] + Cardinality(Mentions({v}, h))]
  /\ stakeWeight' = [h \in Hash |-> stakeWeight[h] \cup Builders({v}, h)]
  /\ recorded' = recorded \cup {v}
  /\ UNCHANGED <<finalized, checked, now, forgotten>>

\* Every parent has a child more, which may be known before its parents are.
RecordVertex(v) ==
  /\ confirmations' = [h \in Hash |-> confirmations[h] + Cardinality(Mentions({v}, h))]
  /\ stakeWeight' = [h \in Hash |-> stakeWeight[h] \cup Builders({v}, h)]
  /\ recorded' = recorded \cup {v}
  /\ UNCHANGED <<finalized, checked, now, forgotten>>

\* The mutated form: the children may all be by one validator.
checkFinalityMutant(h) ==
  /\ h \in Vertices
  /\ confirmations[h] >= MinConfirmations
  /\ now - Timestamp[h] >= MinAge

checkFinality(h) ==
  /\ h \in Vertices
  /\ confirmations[h] >= MinConfirmations
  /\ now - Timestamp[h] >= MinAge
  /\ Cardinality(stakeWeight[h]) >= MinStakePercent \div 10

\* IsFinalized under the read lock; the result is recorded later.
IsFinalized(h) ==
  /\ h \notin finalized
  /\ checkFinality(h)
  /\ checked' = checked \cup {h}
  /\ UNCHANGED <<confirmations, stakeWeight, finalized, now, recorded, forgotten>>

\* The rest of IsFinalized, under the write lock.
SetFinalized(h) ==
  /\ h \in checked
  /\ finalized' = finalized \cup {h}
  /\ checked' = checked \ {h}
  /\ UNCHANGED <<confirmations, stakeWeight, now, recorded, forgotten>>

\* The finalized vertices whose entries Cleanup may remove.  GetAllVertices
\* iterates over a map, so the vertices it keeps are any KeepRecent of them.
Removable ==
  {finalized \ keep : keep \in {k \in SUBSET Vertices : Cardinality(k) = KeepRecent}}

Cleanup ==
  /\ Cardinality(Vertices) > KeepRecent
  /\ \E gone \in Removable :
       /\ confirmations' = [h \in Hash |-> IF h \in gone THEN 0 ELSE confirmations[h]]
       /\ stakeWeight' = [h \in Hash |-> IF h \in gone THEN {} ELSE stakeWeight[h]]
       /\ forgotten' = [h \in Hash |-> IF h \in gone THEN recorded ELSE forgotten[h]]
  /\ UNCHANGED <<finalized, checked, now, recorded>>

Tick ==
  /\ now < MaxTime
  /\ now' = now + 1
  /\ UNCHANGED <<confirmations, stakeWeight, finalized, checked, recorded, forgotten>>

-----------------------------------------------------------------------------

\* The type invariant of the tracker: only vertices of the store are final.
FinalityTypeOK ==
  /\ confirmations \in [Hash -> Nat]
  /\ \A h \in Hash : stakeWeight[h] \subseteq {Author[v] : v \in Hash}
  /\ finalized \cup checked \subseteq Vertices /\ recorded \subseteq Vertices
  /\ now \in 0 .. MaxTime /\ forgotten \in [Hash -> SUBSET recorded]

\* The count and the validators of a vertex are those of its recorded children,
\* each mention once, in whatever order the callbacks of the vertices run: a
\* child may be recorded before its parent (RecordVertex).  Cleanup forgets what
\* was counted until then.
ConfirmationsExact ==
  \A h \in Hash :
    /\ confirmations[h] = Cardinality(Mentions(recorded \ forgotten[h], h))
    /\ stakeWeight[h] = Builders(recorded \ forgotten[h], h)

\* A vertex that is final, or is about to be recorded as final, was mentioned as a
\* parent often enough by recorded vertices (twice by a child that names it
\* twice), by enough validators, and is old enough, although the lock is released
\* between the check and the recording and Cleanup may have removed its entries
\* since (IsFinalized, checkFinality, Cleanup).
FinalityEarned ==
  \A h \in finalized \cup checked :
    /\ Cardinality(Mentions(recorded, h)) >= MinConfirmations
    /\ Cardinality(Builders(recorded, h)) >= MinStakePercent \div 10
    /\ now - Timestamp[h] >= MinAge
=============================================================================
