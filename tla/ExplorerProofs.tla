--------------------------- MODULE ExplorerProofs ---------------------------
(***************************************************************************)
(* What the run of Explorer checks on a small instance, proved for any     *)
(* number of vertices, transactions, addresses and clients and any size of *)
(* the caches: the tracker counts the vertices that were recorded since    *)
(* Cleanup; the broadcaster owes at most its vertex; and a cache that is   *)
(* cut after every use is the cut of one that never was.                   *)
(***************************************************************************)
EXTENDS Explorer, FiniteSetTheorems, WellFoundedInduction, TLAPS

\* Most steps have no arithmetic: Zenon is tried before the SMT solver.
USE ZenonT(2), SMTT(20), ZenonT(20)

-----------------------------------------------------------------------------
(* The finality tracker. *)

\* The set more has the vertex v in addition.
OneMore(set, v, more) == more = set \cup {v}

\* The mentions of h among a set with one vertex more.
LEMMA MentionsMore ==
  ASSUME NEW set, NEW v, NEW more, OneMore(set, v, more), NEW h
  PROVE  Mentions(more, h) = Mentions(set, h) \cup Mentions({v}, h)
BY DEF OneMore, Mentions

\* The builders of h among a set with one vertex more.
LEMMA BuildersMore ==
  ASSUME NEW set, NEW v, NEW more, OneMore(set, v, more), NEW h
  PROVE  Builders(more, h) = Builders(set, h) \cup Builders({v}, h)
BY DEF OneMore, Builders, Children

\* One vertex mentions h finitely often and has one author.
LEMMA OneFinite ==
  ASSUME NEW v \in Hash, NEW h
  PROVE  IsFiniteSet(Mentions({v}, h)) /\ IsFiniteSet(Builders({v}, h))
<1> DEFINE places == {i \in DOMAIN Parents[v] : Parents[v][i] = h}
<1>1. IsFiniteSet(places)
  <2>1. Parents[v] \in Seq(Hash)
    BY FinalityAssumption
  <2>2. IsFiniteSet(1 .. Len(Parents[v]))
    BY <2>1, FS_Interval
  <2>3. places \in SUBSET (1 .. Len(Parents[v]))
    BY <2>1
  <2> QED BY <2>2, <2>3, FS_Subset
<1>2. Mentions({v}, h) = {v} \X places
  BY DEF Mentions
<1>3. IsFiniteSet(Mentions({v}, h))
  <2> HIDE DEF places
  <2>1. IsFiniteSet({v})
    BY FS_Singleton
  <2> QED BY <1>1, <1>2, <2>1, FS_Product
<1>4. Builders({v}, h) \in SUBSET {Author[v]}
  BY DEF Builders, Children
<1>5. IsFiniteSet(Builders({v}, h))
  BY <1>4, FS_Singleton, FS_Subset
<1> QED BY <1>3, <1>5

\* Fewer vertices mention h less often and have fewer authors.
LEMMA FewerMentions ==
  ASSUME NEW set, NEW more, set \subseteq more, NEW h,
         IsFiniteSet(Mentions(more, h)), IsFiniteSet(Builders(more, h))
  PROVE  /\ IsFiniteSet(Mentions(set, h)) /\ IsFiniteSet(Builders(set, h))
         /\ Cardinality(Mentions(set, h)) \in Nat
         /\ Cardinality(Mentions(set, h)) <= Cardinality(Mentions(more, h))
         /\ Cardinality(Builders(set, h)) <= Cardinality(Builders(more, h))
<1>1. Mentions(set, h) \in SUBSET Mentions(more, h)
  BY DEF Mentions
<1>2. Builders(set, h) \in SUBSET Builders(more, h)
  BY DEF Builders, Children
<1> QED BY <1>1, <1>2, FS_Subset, FS_CardinalityType

\* The count of a union of two disjoint sets.
LEMMA DisjointCount ==
  ASSUME NEW S, NEW T, IsFiniteSet(S), IsFiniteSet(T), S \cap T = {}
  PROVE  Cardinality(S \cup T) = Cardinality(S) + Cardinality(T)
<1>1. Cardinality(S \cup T) = Cardinality(S) + Cardinality(T) - Cardinality(S \cap T)
  BY FS_Union
<1>2. Cardinality(S \cap T) = 0
  BY FS_EmptySet
<1>3. Cardinality(S) \in Nat /\ Cardinality(T) \in Nat
  BY FS_CardinalityType
<1> QED BY <1>1, <1>2, <1>3

\* The inductive invariant of the tracker: what is counted is what was recorded
\* since Cleanup, which are finitely many mentions.
TrackerInv ==
  /\ FinalityTypeOK
  /\ Vertices \subseteq Hash
  /\ \A h \in Hash : IsFiniteSet(Mentions(recorded, h)) /\ IsFiniteSet(Builders(recorded, h))
  /\ ConfirmationsExact
  /\ FinalityEarned

\* What the tracker has recorded bounds what it counts.
LEMMA CountedIsRecorded ==
  ASSUME TrackerInv, NEW h \in Hash
  PROVE  /\ confirmations[h] <= Cardinality(Mentions(recorded, h))
         /\ Cardinality(stakeWeight[h]) <= Cardinality(Builders(recorded, h))
         /\ Cardinality(Mentions(recorded, h)) \in Nat
         /\ Cardinality(Builders(recorded, h)) \in Nat
         /\ Cardinality(stakeWeight[h]) \in Nat
         /\ confirmations[h] \in Nat
<1>1. IsFiniteSet(Mentions(recorded, h)) /\ IsFiniteSet(Builders(recorded, h))
  BY DEF TrackerInv
<1>2. /\ confirmations[h] = Cardinality(Mentions(recorded \ forgotten[h], h))
      /\ stakeWeight[h] = Builders(recorded \ forgotten[h], h)
  BY DEF TrackerInv, ConfirmationsExact
<1>3. recorded \ forgotten[h] \subseteq recorded
  OBVIOUS
<1> QED BY <1>1, <1>2, <1>3, FewerMentions, FS_CardinalityType

\* RecordVertex adds the mentions of a vertex that was not recorded before.
LEMMA RecordExact ==
  ASSUME TrackerInv, NEW v \in Vertices, v \notin recorded, RecordVertex(v), UNCHANGED Vertices
  PROVE  TrackerInv'
<1> v \in Hash
  BY DEF TrackerInv
<1>0. recorded' = recorded \cup {v} /\ OneMore(recorded, v, recorded') /\ forgotten' = forgotten
  BY DEF RecordVertex, OneMore
<1>1. ASSUME NEW h \in Hash
      PROVE  /\ IsFiniteSet(Mentions(recorded', h)) /\ IsFiniteSet(Builders(recorded', h))
             /\ Cardinality(Mentions(recorded', h)) \in Nat
             /\ Cardinality(Builders(recorded', h)) \in Nat
             /\ Cardinality(Mentions(recorded, h)) <= Cardinality(Mentions(recorded', h))
             /\ Cardinality(Builders(recorded, h)) <= Cardinality(Builders(recorded', h))
  <2>1. IsFiniteSet(Mentions(recorded, h)) /\ IsFiniteSet(Builders(recorded, h))
    BY DEF TrackerInv
  <2>2. IsFiniteSet(Mentions({v}, h)) /\ IsFiniteSet(Builders({v}, h))
    BY <1>0, OneFinite
  <2>3. IsFiniteSet(Mentions(recorded', h)) /\ IsFiniteSet(Builders(recorded', h))
    <3>1. Mentions(recorded', h) = Mentions(recorded, h) \cup Mentions({v}, h)
      BY <1>0, MentionsMore
    <3>2. Builders(recorded', h) = Builders(recorded, h) \cup Builders({v}, h)
      BY <1>0, BuildersMore
    <3>3. IsFiniteSet(Mentions(recorded, h) \cup Mentions({v}, h))
      BY <2>1, <2>2, FS_Union
    <3>4. IsFiniteSet(Builders(recorded, h) \cup Builders({v}, h))
      BY <2>1, <2>2, FS_Union
    <3> QED BY <3>1, <3>2, <3>3, <3>4
  <2>4. recorded \subseteq recorded'
    BY <1>0
  <2> QED BY <2>3, <2>4, FewerMentions, FS_CardinalityType
<1>2. ASSUME NEW h \in Hash
      PROVE  /\ confirmations'[h] = Cardinality(Mentions(recorded' \ forgotten[h], h))
             /\ stakeWeight'[h] = Builders(recorded' \ forgotten[h], h)
             /\ confirmations'[h] \in Nat
  <2> DEFINE old == recorded \ forgotten[h]
             new == recorded' \ forgotten[h]
  <2>1. v \notin old /\ OneMore(old, v, new)
    BY <1>0 DEF TrackerInv, FinalityTypeOK, OneMore
  <2>2. confirmations[h] = Cardinality(Mentions(old, h)) /\ stakeWeight[h] = Builders(old, h)
    BY DEF TrackerInv, ConfirmationsExact
  <2>3. IsFiniteSet(Mentions(old, h)) /\ IsFiniteSet(Mentions({v}, h))
    <3>1. IsFiniteSet(Mentions(recorded, h)) /\ IsFiniteSet(Builders(recorded, h))
      BY DEF TrackerInv
    <3>2. old \subseteq recorded
      OBVIOUS
    <3> QED BY <3>1, <3>2, FewerMentions, OneFinite
  <2> HIDE DEF old, new
  <2>4. confirmations'[h] = confirmations[h] + Cardinality(Mentions({v}, h))
    BY DEF RecordVertex
  <2>5. stakeWeight'[h] = stakeWeight[h] \cup Builders({v}, h)
    BY DEF RecordVertex
  <2>6. /\ Mentions(new, h) = Mentions(old, h) \cup Mentions({v}, h)
        /\ Mentions(old, h) \cap Mentions({v}, h) = {}
    <3>1. Mentions(new, h) = Mentions(old, h) \cup Mentions({v}, h)
      BY <2>1, MentionsMore
    <3>2. Mentions(old, h) \cap Mentions({v}, h) = {}
      BY <2>1 DEF Mentions
    <3> QED BY <3>1, <3>2
  <2>7. Cardinality(Mentions(new, h)) = Cardinality(Mentions(old, h)) + Cardinality(Mentions({v}, h))
    BY <2>3, <2>6, DisjointCount
  <2>8. Builders(new, h) = Builders(old, h) \cup Builders({v}, h)
    BY <2>1, BuildersMore
  <2>9. confirmations'[h] = Cardinality(Mentions(new, h)) /\ stakeWeight'[h] = Builders(new, h)
    BY <2>2, <2>4, <2>5, <2>7, <2>8
  <2>10. IsFiniteSet(Mentions(new, h))
    BY <2>3, <2>6, FS_Union
  <2>11. Cardinality(Mentions(new, h)) \in Nat
    BY <2>10, FS_CardinalityType
  <2> QED BY <2>9, <2>11 DEF new
<1>3. ConfirmationsExact'
  BY <1>0, <1>2 DEF ConfirmationsExact
<1>4. FinalityEarned'
  <2>0. MinStakePercent \div 10 \in Nat /\ MinConfirmations \in Nat
    BY FinalityAssumption
  <2>1. finalized' = finalized /\ checked' = checked /\ now' = now
    BY DEF RecordVertex
  <2>2. finalized \cup checked \subseteq Hash
    BY DEF TrackerInv, FinalityTypeOK
  <2>3. ASSUME NEW h \in finalized \cup checked
        PROVE  /\ Cardinality(Mentions(recorded', h)) >= MinConfirmations
               /\ Cardinality(Builders(recorded', h)) >= MinStakePercent \div 10
    <3>1. /\ Cardinality(Mentions(recorded, h)) >= MinConfirmations
          /\ Cardinality(Builders(recorded, h)) >= MinStakePercent \div 10
      BY DEF TrackerInv, FinalityEarned
    <3>2. /\ Cardinality(Mentions(recorded, h)) \in Nat
          /\ Cardinality(Builders(recorded, h)) \in Nat
      BY <2>2, CountedIsRecorded
    <3>3. /\ Cardinality(Mentions(recorded', h)) \in Nat
          /\ Cardinality(Builders(recorded', h)) \in Nat
          /\ Cardinality(Mentions(recorded, h)) <= Cardinality(Mentions(recorded', h))
          /\ Cardinality(Builders(recorded, h)) <= Cardinality(Builders(recorded', h))
      BY <1>1, <2>2
    <3> QED BY <2>0, <3>1, <3>2, <3>3
  <2>4. \A h \in finalized \cup checked : now - Timestamp[h] >= MinAge
    BY DEF TrackerInv, FinalityEarned
  <2> QED BY <2>1, <2>3, <2>4 DEF FinalityEarned
<1>5. FinalityTypeOK'
  <2>1. confirmations' \in [Hash -> Nat]
    <3>1. confirmations' = [h \in Hash |-> confirmations'[h]]
      BY DEF RecordVertex
    <3> QED BY <1>2, <3>1
  <2>2. ASSUME NEW h \in Hash PROVE stakeWeight'[h] \subseteq {Author[w] : w \in Hash}
    <3>1. stakeWeight'[h] = stakeWeight[h] \cup Builders({v}, h)
      BY DEF RecordVertex
    <3>2. Builders({v}, h) \subseteq {Author[w] : w \in Hash}
      BY <1>0 DEF Builders, Children
    <3> QED BY <3>1, <3>2 DEF TrackerInv, FinalityTypeOK
  <2>3. forgotten' \in [Hash -> SUBSET recorded']
    BY <1>0 DEF TrackerInv, FinalityTypeOK
  <2> QED BY <1>0, <2>1, <2>2, <2>3 DEF TrackerInv, FinalityTypeOK, RecordVertex
<1> QED BY <1>0, <1>1, <1>3, <1>4, <1>5 DEF TrackerInv

\* IsFinalized, the recording of its result, Cleanup and the clock.
LEMMA TrackerCallExact ==
  ASSUME TrackerInv, UNCHANGED Vertices,
         (\E h \in Hash : IsFinalized(h) \/ SetFinalized(h)) \/ Cleanup \/ Tick
  PROVE  TrackerInv'
<1>0. recorded' = recorded
  BY DEF IsFinalized, SetFinalized, Cleanup, Tick
<1>1. ASSUME NEW h \in Hash, IsFinalized(h) PROVE TrackerInv'
  <2>1. /\ Cardinality(Mentions(recorded, h)) >= MinConfirmations
        /\ Cardinality(Builders(recorded, h)) >= MinStakePercent \div 10
    <3>1. /\ confirmations[h] >= MinConfirmations
          /\ Cardinality(stakeWeight[h]) >= MinStakePercent \div 10
      BY <1>1 DEF IsFinalized, checkFinality
    <3>2. MinStakePercent \div 10 \in Nat /\ MinConfirmations \in Nat
      BY FinalityAssumption
    <3> QED BY <3>1, <3>2, CountedIsRecorded
  <2>2. now - Timestamp[h] >= MinAge /\ h \in Vertices
    BY <1>1 DEF IsFinalized, checkFinality
  <2>3. finalized' = finalized /\ checked' = checked \cup {h} /\ now' = now
    BY <1>1 DEF IsFinalized
  <2>4. FinalityEarned'
    BY <1>0, <2>1, <2>2, <2>3 DEF TrackerInv, FinalityEarned
  <2>5. FinalityTypeOK' /\ ConfirmationsExact'
    BY <1>0, <1>1, <2>2, <2>3 DEF TrackerInv, FinalityTypeOK, ConfirmationsExact, IsFinalized
  <2> QED BY <1>0, <2>4, <2>5 DEF TrackerInv
<1>2. ASSUME NEW h \in Hash, SetFinalized(h) PROVE TrackerInv'
  <2>1. finalized' \cup checked' = finalized \cup checked /\ now' = now
    BY <1>2 DEF SetFinalized
  <2>2. FinalityEarned'
    BY <1>0, <2>1 DEF TrackerInv, FinalityEarned
  <2>3. FinalityTypeOK' /\ ConfirmationsExact'
    BY <1>0, <1>2, <2>1 DEF TrackerInv, FinalityTypeOK, ConfirmationsExact, SetFinalized
  <2> QED BY <1>0, <2>2, <2>3 DEF TrackerInv
<1>3. ASSUME Cleanup PROVE TrackerInv'
  <2>1. PICK gone :
          /\ confirmations' = [h \in Hash |-> IF h \in gone THEN 0 ELSE confirmations[h]]
          /\ stakeWeight' = [h \in Hash |-> IF h \in gone THEN {} ELSE stakeWeight[h]]
          /\ forgotten' = [h \in Hash |-> IF h \in gone THEN recorded ELSE forgotten[h]]
    BY <1>3 DEF Cleanup
  <2>2. finalized' = finalized /\ checked' = checked /\ now' = now
    BY <1>3 DEF Cleanup
  <2>3. ASSUME NEW h \in Hash
        PROVE  /\ confirmations'[h] = Cardinality(Mentions(recorded \ forgotten'[h], h))
               /\ stakeWeight'[h] = Builders(recorded \ forgotten'[h], h)
    <3>1. CASE h \in gone
      <4>1. recorded \ forgotten'[h] = {}
        BY <2>1, <3>1
      <4>2. Mentions({}, h) = {} /\ Builders({}, h) = {}
        BY DEF Mentions, Builders, Children
      <4>3. confirmations'[h] = 0 /\ stakeWeight'[h] = {}
        BY <2>1, <3>1
      <4> QED BY <4>1, <4>2, <4>3, FS_EmptySet
    <3>2. CASE h \notin gone
      <4>1. /\ confirmations'[h] = confirmations[h] /\ stakeWeight'[h] = stakeWeight[h]
            /\ forgotten'[h] = forgotten[h]
        BY <2>1, <3>2
      <4> QED BY <4>1 DEF TrackerInv, ConfirmationsExact
    <3> QED BY <3>1, <3>2
  <2>4. ConfirmationsExact'
    BY <1>0, <2>3 DEF ConfirmationsExact
  <2>5. FinalityTypeOK'
    <3>1. confirmations' \in [Hash -> Nat]
      BY <2>1 DEF TrackerInv, FinalityTypeOK
    <3>2. \A h \in Hash : stakeWeight'[h] \subseteq {Author[w] : w \in Hash}
      BY <2>1 DEF TrackerInv, FinalityTypeOK
    <3>3. forgotten' \in [Hash -> SUBSET recorded]
      BY <2>1 DEF TrackerInv, FinalityTypeOK
    <3> QED BY <1>0, <2>2, <3>1, <3>2, <3>3 DEF TrackerInv, FinalityTypeOK
  <2>6. FinalityEarned'
    BY <1>0, <2>2 DEF TrackerInv, FinalityEarned
  <2> QED BY <1>0, <2>4, <2>5, <2>6 DEF TrackerInv
<1>4. ASSUME Tick PROVE TrackerInv'
  <2>1. now' = now + 1 /\ now' \in 0 .. MaxTime /\ finalized' = finalized /\ checked' = checked
    BY <1>4, FinalityAssumption DEF Tick, TrackerInv, FinalityTypeOK
  <2>2. ASSUME NEW h \in finalized \cup checked PROVE now' - Timestamp[h] >= MinAge
    <3>1. h \in Hash /\ now \in Int
      BY DEF TrackerInv, FinalityTypeOK
    <3>2. now - Timestamp[h] >= MinAge
      BY DEF TrackerInv, FinalityEarned
    <3>3. Timestamp[h] \in Int /\ MinAge \in Int
      BY <3>1, FinalityAssumption
    <3> QED BY <2>1, <3>1, <3>2, <3>3
  <2>3. FinalityEarned'
    BY <1>0, <2>1, <2>2 DEF TrackerInv, FinalityEarned
  <2>4. FinalityTypeOK' /\ ConfirmationsExact'
    BY <1>0, <1>4, <2>1 DEF TrackerInv, FinalityTypeOK, ConfirmationsExact, Tick
  <2> QED BY <1>0, <2>3, <2>4 DEF TrackerInv
<1> QED BY <1>1, <1>2, <1>3, <1>4

-----------------------------------------------------------------------------
(* The callbacks and the feed. *)

\* The goroutine of a vertex that is to be recorded has not been there before, and
\* a vertex that is not in the store has none.
TaskInv ==
  /\ task \in [Hash -> {"none", "record", "index", "send", "sent"}]
  /\ phase \in {"start", "rebuild", "index", "track"}
  /\ snapshot \subseteq Vertices /\ gap \subseteq Vertices /\ IsFiniteSet(Vertices)
  /\ \A v \in Hash : /\ task[v] = "record" => v \notin recorded
                     /\ v \notin Vertices => task[v] = "none"

\* The broadcaster without a vertex is waiting, it has no clients before it copied
\* them, and nothing is owed to a client that has gone.
FeedInv ==
  /\ hub \in [v : Hash \cup {NoHash}, peers : SUBSET clients, copied : BOOLEAN]
  /\ clients \subseteq Client /\ away \subseteq Client /\ stalled \subseteq clients \ away
  /\ hub.v = NoHash => hub = Waiting
  /\ ~ hub.copied => hub.peers = {}
  /\ owed \in [Client -> SUBSET Hash]
  /\ \A c \in Client : c \in away \/ c \notin clients => owed[c] = {}
  /\ FeedComplete

\* Nothing is owed when the feed waits.
LEMMA WaitingType == Waiting \in [v : Hash \cup {NoHash}, peers : {{}}, copied : BOOLEAN]
BY DEF Waiting

\* The broadcaster after it is done with client c owes the vertex to the others.
LEMMA HubAfterFeed ==
  ASSUME FeedInv, NEW c \in hub.peers
  PROVE  /\ HubAfter(c) \in [v : Hash \cup {NoHash}, peers : SUBSET (hub.peers \ {c}), copied : BOOLEAN]
         /\ HubAfter(c).v = NoHash => HubAfter(c) = Waiting
         /\ ~ HubAfter(c).copied => HubAfter(c).peers = {}
         /\ HubAfter(c).peers = hub.peers \ {c}
         /\ hub.peers # {c} => HubAfter(c).v = hub.v
<1>1. hub \in [v : Hash \cup {NoHash}, peers : SUBSET clients, copied : BOOLEAN]
  BY DEF FeedInv
<1>2. CASE hub.peers = {c}
  BY <1>2, WaitingType DEF HubAfter, Waiting
<1>3. CASE hub.peers # {c}
  <2>1. HubAfter(c) = [v |-> hub.v, peers |-> hub.peers \ {c}, copied |-> hub.copied]
    BY <1>1, <1>3 DEF HubAfter
  <2>2. hub.v # NoHash /\ hub.copied
    BY DEF FeedInv, Waiting
  <2> QED BY <1>1, <1>3, <2>1, <2>2
<1> QED BY <1>2, <1>3

\* The steps of the broadcaster and of the clients keep the feed complete.
LEMMA FeedSteps ==
  ASSUME FeedInv, Vertices \subseteq Hash,
         \/ CopyClients
         \/ \E c \in Client : WriteJSON(c) \/ WriteFails(c) \/ Join(c) \/ Leave(c) \/ Stall(c)
         \/ \E v \in Hash : TaskSend(v)
  PROVE  FeedInv'
<1>0. hub \in [v : Hash \cup {NoHash}, peers : SUBSET clients, copied : BOOLEAN]
  BY DEF FeedInv
<1>1. ASSUME CopyClients PROVE FeedInv'
  <2>1. hub.v \in Hash /\ hub.peers = {} /\ hub.copied = FALSE
    BY <1>0, <1>1 DEF CopyClients, FeedInv
  <2>2. UNCHANGED <<clients, away, stalled>>
    BY <1>1 DEF CopyClients
  <2>3. \A c \in Client : owed'[c] = IF c \in clients \ away THEN owed[c] \cup {hub.v} ELSE {}
    BY <1>1 DEF CopyClients
  <2>4. \A c \in clients \ away : owed[c] = {}
    BY <2>1 DEF FeedInv, FeedComplete
  <2>5. \A c \in Client : owed'[c] = IF c \in clients \ away THEN {hub.v} ELSE {}
    BY <2>3, <2>4
  <2>6. owed' \in [Client -> SUBSET Hash]
    <3>1. owed' = [c \in Client |-> owed'[c]]
      BY <1>1 DEF CopyClients
    <3> QED BY <2>1, <2>5, <3>1
  <2>7. CASE clients = {}
    <3>1. hub' = Waiting
      BY <1>1, <2>7 DEF CopyClients
    <3> QED BY <2>2, <2>5, <2>6, <2>7, <3>1, WaitingType DEF FeedInv, FeedComplete, Waiting
  <2>8. CASE clients # {}
    <3>1. hub' = [v |-> hub.v, peers |-> clients, copied |-> TRUE]
      BY <1>0, <1>1, <2>8 DEF CopyClients
    <3>2. hub' \in [v : Hash \cup {NoHash}, peers : SUBSET clients, copied : BOOLEAN]
      BY <2>1, <3>1
    <3>3. hub'.v # NoHash /\ hub'.copied /\ hub'.peers = clients /\ hub'.v = hub.v
      BY <2>1, <3>1, ExplorerAssumption
    <3>4. FeedComplete'
      BY <2>2, <2>5, <3>3 DEF FeedComplete, FeedInv
    <3>5. \A c \in Client : c \in away \/ c \notin clients => owed'[c] = {}
      BY <2>5
    <3> QED BY <2>2, <2>6, <3>2, <3>3, <3>4, <3>5 DEF FeedInv
  <2> QED BY <2>7, <2>8
<1>2. ASSUME NEW c \in Client, WriteJSON(c) PROVE FeedInv'
  <2>0. c \in hub.peers /\ c \in clients \ away
    BY <1>0, <1>2 DEF WriteJSON
  <2>1. hub' = HubAfter(c) /\ UNCHANGED <<clients, away, stalled>>
    BY <1>2 DEF WriteJSON
  <2>2. /\ owed'[c] = owed[c] \ {hub.v}
        /\ \A d \in Client \ {c} : owed'[d] = owed[d]
        /\ owed' \in [Client -> SUBSET Hash]
    BY <1>2 DEF WriteJSON, FeedInv
  <2>3. owed'[c] = {}
    BY <2>0, <2>2 DEF FeedInv, FeedComplete
  <2>4. FeedComplete'
    <3> SUFFICES ASSUME NEW d \in clients \ away
                 PROVE  owed'[d] = IF d \in hub'.peers THEN {hub'.v} ELSE {}
      BY <2>1 DEF FeedComplete
    <3>1. d \in Client /\ owed[d] = IF d \in hub.peers THEN {hub.v} ELSE {}
      BY DEF FeedInv, FeedComplete
    <3>2. hub'.peers = hub.peers \ {c} /\ (hub.peers # {c} => hub'.v = hub.v)
      BY <2>0, <2>1, HubAfterFeed
    <3>3. CASE d = c
      BY <2>3, <3>2, <3>3
    <3>4. CASE d # c
      BY <2>2, <3>1, <3>2, <3>4
    <3> QED BY <3>3, <3>4
  <2>5. hub' \in [v : Hash \cup {NoHash}, peers : SUBSET clients, copied : BOOLEAN]
    BY <1>0, <2>0, <2>1, HubAfterFeed
  <2>6. \A d \in Client : d \in away \/ d \notin clients => owed'[d] = {}
    BY <2>0, <2>2 DEF FeedInv
  <2>7. (hub'.v = NoHash => hub' = Waiting) /\ (~ hub'.copied => hub'.peers = {})
    BY <2>0, <2>1, HubAfterFeed
  <2> QED BY <2>1, <2>2, <2>4, <2>5, <2>6, <2>7 DEF FeedInv
<1>3. ASSUME NEW c \in Client, WriteFails(c) PROVE FeedInv'
  <2>0. c \in hub.peers /\ c \in away
    BY <1>3 DEF WriteFails
  <2>1. /\ hub' = HubAfter(c) /\ UNCHANGED <<away, stalled, owed>>
        /\ clients' = clients \/ clients' = clients \ {c}
    BY <1>3 DEF WriteFails, HubAfterError
  <2>2. hub'.peers = hub.peers \ {c} /\ (hub.peers # {c} => hub'.v = hub.v)
    BY <2>0, <2>1, HubAfterFeed
  <2>3. FeedComplete'
    <3> SUFFICES ASSUME NEW d \in clients' \ away
                 PROVE  owed[d] = IF d \in hub'.peers THEN {hub'.v} ELSE {}
      BY <2>1 DEF FeedComplete
    <3>1. d \in clients \ away /\ d # c
      BY <2>0, <2>1
    <3>2. owed[d] = IF d \in hub.peers THEN {hub.v} ELSE {}
      BY <3>1 DEF FeedInv, FeedComplete
    <3> QED BY <2>2, <3>1, <3>2
  <2>4. hub' \in [v : Hash \cup {NoHash}, peers : SUBSET clients', copied : BOOLEAN]
    BY <1>0, <2>0, <2>1, HubAfterFeed
  <2>5. (hub'.v = NoHash => hub' = Waiting) /\ (~ hub'.copied => hub'.peers = {})
    BY <2>0, <2>1, HubAfterFeed
  <2> QED BY <2>0, <2>1, <2>3, <2>4, <2>5 DEF FeedInv
<1>4. ASSUME NEW c \in Client, Join(c) PROVE FeedInv'
  <2>1. c \notin clients \cup away /\ clients' = clients \cup {c} /\ UNCHANGED <<hub, away, stalled, owed>>
    BY <1>4 DEF Join
  <2>2. owed[c] = {} /\ c \notin hub.peers
    BY <1>0, <2>1 DEF FeedInv
  <2>3. FeedComplete'
    BY <2>1, <2>2 DEF FeedInv, FeedComplete
  <2>4. hub \in [v : Hash \cup {NoHash}, peers : SUBSET clients', copied : BOOLEAN]
    BY <1>0, <2>1
  <2> QED BY <2>1, <2>3, <2>4 DEF FeedInv
<1>5. ASSUME NEW c \in Client, Leave(c) PROVE FeedInv'
  <2>1. /\ away' = away \cup {c} /\ stalled' = stalled \ {c} /\ UNCHANGED <<hub, clients>>
        /\ owed' = [owed EXCEPT ![c] = {}]
    BY <1>5 DEF Leave
  <2>2. /\ owed' \in [Client -> SUBSET Hash] /\ owed'[c] = {}
        /\ \A d \in Client \ {c} : owed'[d] = owed[d]
    BY <2>1 DEF FeedInv
  <2>3. FeedComplete'
    BY <2>1, <2>2 DEF FeedInv, FeedComplete
  <2> QED BY <2>1, <2>2, <2>3 DEF FeedInv
<1>6. ASSUME NEW c \in Client, Stall(c) PROVE FeedInv'
  <2>1. stalled' \subseteq clients \ away /\ UNCHANGED <<hub, clients, away, owed>>
    BY <1>6 DEF Stall, FeedInv
  <2> QED BY <2>1 DEF FeedInv, FeedComplete
<1>7. ASSUME NEW v \in Hash, TaskSend(v) PROVE FeedInv'
  <2>1. hub.v = NoHash /\ hub' = [v |-> v, peers |-> {}, copied |-> FALSE] /\ UNCHANGED <<clients, away, stalled, owed>>
    BY <1>7 DEF TaskSend, Received, Waiting
  <2>2. hub.peers = {}
    BY <2>1 DEF FeedInv, Waiting
  <2>3. hub' \in [v : Hash \cup {NoHash}, peers : SUBSET clients, copied : BOOLEAN]
    BY <2>1
  <2>4. hub'.v # NoHash /\ hub'.peers = {}
    BY <2>1, ExplorerAssumption
  <2> QED BY <2>1, <2>2, <2>3, <2>4 DEF FeedInv, FeedComplete
<1> QED BY <1>1, <1>2, <1>3, <1>4, <1>5, <1>6, <1>7

-----------------------------------------------------------------------------
(* The caches. *)

\* Two sequences with the same elements are the same.
LEMMA SeqEqual ==
  ASSUME NEW S, NEW s \in Seq(S), NEW t \in Seq(S), Len(s) = Len(t),
         \A i \in 1 .. Len(s) : s[i] = t[i]
  PROVE  s = t
OBVIOUS

\* The elements of FirstOf.
LEMMA FirstOfElements ==
  ASSUME NEW S, NEW s \in Seq(S), NEW n \in Nat
  PROVE  /\ FirstOf(s, n) \in Seq(S)
         /\ Len(FirstOf(s, n)) = IF Len(s) <= n THEN Len(s) ELSE n
         /\ \A i \in 1 .. Len(FirstOf(s, n)) : FirstOf(s, n)[i] = s[i]
BY DEF FirstOf

\* The elements of LastOf.
LEMMA LastOfElements ==
  ASSUME NEW S, NEW s \in Seq(S), NEW n \in Nat
  PROVE  /\ LastOf(s, n) \in Seq(S)
         /\ Len(LastOf(s, n)) = IF Len(s) <= n THEN Len(s) ELSE n
         /\ \A i \in 1 .. Len(LastOf(s, n)) : LastOf(s, n)[i] = s[i + Len(s) - Len(LastOf(s, n))]
<1>1. CASE Len(s) <= n
  BY <1>1 DEF LastOf
<1>2. CASE ~ (Len(s) <= n)
  <2> DEFINE m == Len(s) - n + 1
             w == SubSeq(s, m, Len(s))
  <2>1. m \in 2 .. Len(s) + 1 /\ Len(s) \in Nat
    BY <1>2
  <2>2. w \in Seq(S) /\ Len(w) = Len(s) - m + 1 /\ \A i \in 1 .. Len(w) : w[i] = s[m + i - 1]
    <3> HIDE DEF m
    <3> QED BY <2>1
  <2>3. LastOf(s, n) = w
    BY <1>2 DEF LastOf
  <2>4. Len(w) = n /\ \A i \in 1 .. Len(w) : i + Len(s) - Len(w) = m + i - 1
    <3> HIDE DEF w
    <3> QED BY <2>1, <2>2
  <2> HIDE DEF w, m
  <2> QED BY <1>2, <2>2, <2>3, <2>4
<1> QED BY <1>1, <1>2

\* Where ToFront finds k in s: its place, or the place after the last one.
Place(s, k, p) ==
  \/ p \in 1 .. Len(s) /\ s[p] = k
  \/ p = Len(s) + 1 /\ ~ Contains(s, k)

\* There is such a place.
LEMMA PlaceExists ==
  ASSUME NEW S, NEW s \in Seq(S), NEW k
  PROVE  \E p \in 1 .. Len(s) + 1 : Place(s, k, p)
<1>1. CASE Contains(s, k)
  BY <1>1 DEF Contains, Place
<1>2. CASE ~ Contains(s, k)
  BY <1>2 DEF Place
<1> QED BY <1>1, <1>2

\* The keys without one of them.
LEMMA WithoutElements ==
  ASSUME NEW S, NEW s \in Seq(S), IsInjective(s), NEW k, NEW p \in 1 .. Len(s), s[p] = k
  PROVE  /\ Without(s, k) \in Seq(S)
         /\ Len(Without(s, k)) = Len(s) - 1
         /\ \A i \in 1 .. Len(s) - 1 : Without(s, k)[i] = IF i < p THEN s[i] ELSE s[i + 1]
<1>1. \A i \in 1 .. Len(s) : s[i] = k => i = p
  BY DEF IsInjective
<1>2. (CHOOSE i \in 1 .. Len(s) : s[i] = k) = p
  BY <1>1
<1>3. Contains(s, k)
  BY DEF Contains
<1>4. Without(s, k) = SubSeq(s, 1, p - 1) \o SubSeq(s, p + 1, Len(s))
  BY <1>2, <1>3 DEF Without
<1> DEFINE a == SubSeq(s, 1, p - 1)
           b == SubSeq(s, p + 1, Len(s))
<1>5. a \in Seq(S) /\ Len(a) = p - 1 /\ \A i \in 1 .. p - 1 : a[i] = s[i]
  OBVIOUS
<1>6. b \in Seq(S) /\ Len(b) = Len(s) - p /\ \A i \in 1 .. Len(s) - p : b[i] = s[p + i]
  OBVIOUS
<1> HIDE DEF a, b
<1>7. a \o b \in Seq(S) /\ Len(a \o b) = Len(s) - 1
  <2>1. a \in Seq(S) /\ b \in Seq(S) => a \o b \in Seq(S) /\ Len(a \o b) = Len(a) + Len(b)
    OBVIOUS
  <2>2. (p - 1) + (Len(s) - p) = Len(s) - 1
    OBVIOUS
  <2> QED BY <1>5, <1>6, <2>1, <2>2
<1>8. ASSUME NEW i \in 1 .. Len(s) - 1 PROVE (a \o b)[i] = IF i < p THEN s[i] ELSE s[i + 1]
  <2>1. CASE i < p
    <3>1. i \in 1 .. p - 1 /\ (a \o b)[i] = a[i]
      BY <1>5, <1>6, <2>1
    <3> QED BY <1>5, <2>1, <3>1
  <2>2. CASE ~ (i < p)
    <3>1. i - (p - 1) \in 1 .. Len(s) - p /\ (a \o b)[i] = b[i - (p - 1)]
      BY <1>5, <1>6, <2>2
    <3>2. b[i - (p - 1)] = s[p + (i - (p - 1))] /\ p + (i - (p - 1)) = i + 1
      BY <1>6, <3>1
    <3> QED BY <2>2, <3>1, <3>2
  <2> QED BY <2>1, <2>2
<1> QED BY <1>4, <1>7, <1>8 DEF a, b

\* ToFront: the key first, the keys before its place one further back, the keys
\* after it where they were.
LEMMA ToFrontElements ==
  ASSUME NEW S, NEW s \in Seq(S), IsInjective(s), NEW k \in S, NEW p \in 1 .. Len(s) + 1, Place(s, k, p)
  PROVE  /\ ToFront(s, k) \in Seq(S)
         /\ Len(ToFront(s, k)) = IF p <= Len(s) THEN Len(s) ELSE Len(s) + 1
         /\ ToFront(s, k)[1] = k
         /\ \A i \in 2 .. Len(ToFront(s, k)) : ToFront(s, k)[i] = IF i <= p THEN s[i - 1] ELSE s[i]
<1>1. CASE p \in 1 .. Len(s) /\ s[p] = k
  <2>1. /\ Without(s, k) \in Seq(S) /\ Len(Without(s, k)) = Len(s) - 1
        /\ \A i \in 1 .. Len(s) - 1 : Without(s, k)[i] = IF i < p THEN s[i] ELSE s[i + 1]
    BY <1>1, WithoutElements
  <2> DEFINE r == Without(s, k)
  <2>2. ToFront(s, k) = <<k>> \o r
    BY DEF ToFront
  <2> HIDE DEF r
  <2>3. /\ <<k>> \o r \in Seq(S) /\ Len(<<k>> \o r) = Len(s) /\ (<<k>> \o r)[1] = k
        /\ \A i \in 2 .. Len(s) : (<<k>> \o r)[i] = r[i - 1]
    BY <2>1 DEF r
  <2>4. \A i \in 2 .. Len(s) : r[i - 1] = IF i <= p THEN s[i - 1] ELSE s[i]
    BY <2>1 DEF r
  <2> QED BY <1>1, <2>2, <2>3, <2>4
<1>2. CASE p = Len(s) + 1 /\ ~ Contains(s, k)
  <2>1. ToFront(s, k) = <<k>> \o s
    BY <1>2 DEF ToFront, Without, Contains
  <2>2. /\ <<k>> \o s \in Seq(S) /\ Len(<<k>> \o s) = Len(s) + 1 /\ (<<k>> \o s)[1] = k
        /\ \A i \in 2 .. Len(s) + 1 : (<<k>> \o s)[i] = s[i - 1]
    OBVIOUS
  <2> QED BY <1>2, <2>1, <2>2
<1> QED BY <1>1, <1>2 DEF Place

\* ToFront keeps every key once.
LEMMA ToFrontInjective ==
  ASSUME NEW S, NEW s \in Seq(S), IsInjective(s), NEW k \in S
  PROVE  /\ ToFront(s, k) \in Seq(S) /\ IsInjective(ToFront(s, k))
         /\ Range(ToFront(s, k)) = Range(s) \cup {k}
<1>1. PICK p \in 1 .. Len(s) + 1 : Place(s, k, p)
  BY PlaceExists
<1> DEFINE f == ToFront(s, k)
<1>2. /\ f \in Seq(S)
      /\ Len(f) = IF p <= Len(s) THEN Len(s) ELSE Len(s) + 1
      /\ f[1] = k
      /\ \A i \in 2 .. Len(f) : f[i] = IF i <= p THEN s[i - 1] ELSE s[i]
  BY <1>1, ToFrontElements
<1> HIDE DEF f
<1>3. \A i \in 1 .. Len(s) : s[i] = k => i = p
  BY <1>1 DEF Place, Contains, IsInjective
<1>4. \A i, j \in 1 .. Len(s) : s[i] = s[j] => i = j
  BY DEF IsInjective
<1>5. ASSUME NEW i \in 1 .. Len(f), NEW j \in 1 .. Len(f), f[i] = f[j] PROVE i = j
  <2> DEFINE at(m) == IF m <= p THEN m - 1 ELSE m
  <2>1. \A m \in 2 .. Len(f) : at(m) \in 1 .. Len(s) /\ at(m) # p /\ f[m] = s[at(m)]
    BY <1>1, <1>2
  <2>2. \A m \in 2 .. Len(f) : f[m] # k
    BY <1>3, <2>1
  <2>3. \A m, n \in 2 .. Len(f) : at(m) = at(n) => m = n
    BY <1>1, <1>2
  <2> HIDE DEF at
  <2>4. CASE i = 1 \/ j = 1
    BY <1>2, <1>5, <2>2, <2>4
  <2>5. CASE i \in 2 .. Len(f) /\ j \in 2 .. Len(f)
    BY <1>4, <1>5, <2>1, <2>3, <2>5
  <2> QED BY <1>2, <2>4, <2>5
<1>6. IsInjective(f)
  BY <1>2, <1>5 DEF IsInjective
<1>7. Range(f) \subseteq Range(s) \cup {k}
  BY <1>2 DEF Range
<1>8. k \in Range(f)
  BY <1>2 DEF Range
<1>9. ASSUME NEW i \in 1 .. Len(s) PROVE s[i] \in Range(f)
  <2>1. CASE i < p
    <3>1. i + 1 \in 2 .. Len(f) /\ f[i + 1] = s[i]
      <4>1. i + 1 \in 2 .. Len(f) /\ i + 1 <= p /\ (i + 1) - 1 = i
        BY <1>1, <1>2, <2>1
      <4> QED BY <1>2, <4>1
    <3> QED BY <1>2, <3>1 DEF Range
  <2>2. CASE i = p
    BY <1>1, <1>2, <1>8, <2>2 DEF Place
  <2>3. CASE i > p
    <3>1. i \in 2 .. Len(f) /\ f[i] = s[i]
      BY <1>1, <1>2, <2>3
    <3> QED BY <1>2, <3>1 DEF Range
  <2> QED BY <2>1, <2>2, <2>3
<1>10. Range(s) \subseteq Range(f)
  BY <1>9 DEF Range
<1> QED BY <1>2, <1>6, <1>7, <1>8, <1>10 DEF f

\* A use of the cut sequence is the cut of a use of the whole one.
LEMMA UseOfFirst ==
  ASSUME NEW S, NEW u \in Seq(S), IsInjective(u), NEW k \in S, NEW n \in Nat \ {0}
  PROVE  /\ LruSet(FirstOf(u, n), k, n) = FirstOf(ToFront(u, k), n)
         /\ Contains(FirstOf(u, n), k) => LruGet(FirstOf(u, n), k) = FirstOf(ToFront(u, k), n)
<1> DEFINE c == FirstOf(u, n)
<1>1. /\ c \in Seq(S) /\ Len(c) = IF Len(u) <= n THEN Len(u) ELSE n
      /\ \A i \in 1 .. Len(c) : c[i] = u[i]
  BY FirstOfElements
<1>2. IsInjective(c)
  BY <1>1 DEF IsInjective
<1>3. PICK p \in 1 .. Len(u) + 1 : Place(u, k, p)
  BY PlaceExists
<1>4. PICK q \in 1 .. Len(c) + 1 : Place(c, k, q)
  BY <1>1, PlaceExists
<1> HIDE DEF c
<1>5. q = IF p <= Len(c) THEN p ELSE Len(c) + 1
  BY <1>1, <1>3, <1>4 DEF Place, IsInjective, Contains
<1> DEFINE f == ToFront(u, k)
           g == ToFront(c, k)
<1>6. /\ f \in Seq(S)
      /\ Len(f) = IF p <= Len(u) THEN Len(u) ELSE Len(u) + 1
      /\ f[1] = k
      /\ \A i \in 2 .. Len(f) : f[i] = IF i <= p THEN u[i - 1] ELSE u[i]
  BY <1>3, ToFrontElements
<1>7. /\ g \in Seq(S)
      /\ Len(g) = IF q <= Len(c) THEN Len(c) ELSE Len(c) + 1
      /\ g[1] = k
      /\ \A i \in 2 .. Len(g) : g[i] = IF i <= q THEN c[i - 1] ELSE c[i]
  BY <1>1, <1>2, <1>4, ToFrontElements
<1> HIDE DEF f, g
<1> DEFINE ff == FirstOf(f, n)
           gg == FirstOf(g, n)
<1>8. /\ ff \in Seq(S) /\ Len(ff) = IF Len(f) <= n THEN Len(f) ELSE n
      /\ \A i \in 1 .. Len(ff) : ff[i] = f[i]
  BY <1>6, FirstOfElements
<1>9. /\ gg \in Seq(S) /\ Len(gg) = IF Len(g) <= n THEN Len(g) ELSE n
      /\ \A i \in 1 .. Len(gg) : gg[i] = g[i]
  BY <1>7, FirstOfElements
<1> HIDE DEF ff, gg
<1>10. Len(ff) = Len(gg) /\ Len(gg) <= Len(g) /\ Len(ff) <= Len(f)
  BY <1>1, <1>5, <1>6, <1>7, <1>8, <1>9
<1>11. ASSUME NEW i \in 1 .. Len(ff) PROVE ff[i] = gg[i]
  <2>1. CASE i = 1
    BY <1>6, <1>7, <1>8, <1>9, <1>10, <2>1
  <2>2. CASE i # 1
    <3>1. ff[i] = IF i <= p THEN u[i - 1] ELSE u[i]
      BY <1>6, <1>8, <1>10, <2>2
    <3>2. gg[i] = IF i <= q THEN c[i - 1] ELSE c[i]
      BY <1>7, <1>9, <1>10, <2>2
    <3>3. i <= n /\ i - 1 \in 1 .. Len(c) /\ (i <= p <=> i <= q) /\ (~ (i <= p) => i \in 1 .. Len(c))
      BY <1>1, <1>5, <1>6, <1>7, <1>8, <1>9, <1>10, <2>2
    <3> QED BY <1>1, <3>1, <3>2, <3>3
  <2> QED BY <2>1, <2>2
<1>12. ff = gg
  BY <1>8, <1>9, <1>10, <1>11, SeqEqual
<1>13. LruSet(c, k, n) = gg
  BY <1>7 DEF LruSet, g, gg, FirstOf
<1>14. ASSUME Contains(c, k) PROVE LruGet(c, k) = gg
  <2>1. LruGet(c, k) = g
    BY <1>14 DEF LruGet, g
  <2>2. q <= Len(c)
    BY <1>1, <1>4, <1>14 DEF Place
  <2>3. Len(g) <= n
    BY <1>1, <1>7, <2>2
  <2> QED BY <2>1, <2>3 DEF gg, FirstOf
<1> QED BY <1>12, <1>13, <1>14 DEF c, f, ff

-----------------------------------------------------------------------------
(* Induction and loops. *)

\* Induction up to a number, the property given as the set of the numbers that
\* have it.
LEMMA UpTo ==
  ASSUME NEW n \in Nat, NEW i \in 0 .. n, NEW P, i \in P,
         \A j \in i + 1 .. n : j - 1 \in P => j \in P
  PROVE  i .. n \subseteq P
<1> DEFINE T == (i .. n) \ P
<1> SUFFICES ASSUME T # {} PROVE FALSE
  OBVIOUS
<1>1. IsWellFoundedOn({ss \in Nat \X Nat : ss[1] < ss[2]}, Nat)
  BY NatLessThanWellFounded DEF OpToRel
<1>2. T \subseteq Nat
  OBVIOUS
<1>3. PICK j \in T : \A m \in T : ~ (<<m, j>> \in {ss \in Nat \X Nat : ss[1] < ss[2]})
  <2> HIDE DEF T
  <2> QED BY <1>1, <1>2, WFMin
<1>4. \A m \in T : m \in Nat /\ ~ (m < j)
  BY <1>2, <1>3
<1>5. j \in i + 1 .. n /\ j - 1 \in i .. n /\ j - 1 < j
  BY <1>3
<1>6. j - 1 \in P
  BY <1>4, <1>5
<1> QED BY <1>3, <1>5, <1>6

\* The path has the results of the steps of g, from base on.
IsPath(n, T, base, g, path) ==
  /\ path \in [0 .. n -> T]
  /\ path[0] = base
  /\ \A i \in 1 .. n : path[i] = g[<<path[i - 1], i>>]

\* There is such a path.
LEMMA PathExists ==
  ASSUME NEW n \in Nat, NEW T, NEW base \in T, NEW g \in [T \X (1 .. n) -> T]
  PROVE  \E path : IsPath(n, T, base, g, path)
<1> DEFINE P == {m \in 0 .. n : \E path : IsPath(m, T, base, g, path)}
<1>1. 0 \in P
  <2> DEFINE path == [i \in 0 .. 0 |-> base]
  <2>1. 0 \in 0 .. n /\ 0 \in 0 .. 0 /\ 1 .. 0 = {}
    OBVIOUS
  <2>2. IsPath(0, T, base, g, path)
    BY <2>1 DEF IsPath
  <2> QED BY <2>1, <2>2
<1>2. ASSUME NEW m \in 0 + 1 .. n, m - 1 \in P PROVE m \in P
  <2>1. m \in 1 .. n /\ m \in 0 .. n /\ m # 0
    OBVIOUS
  <2>2. PICK path : IsPath(m - 1, T, base, g, path)
    BY <1>2
  <2>3. /\ path \in [0 .. m - 1 -> T] /\ path[0] = base
        /\ \A i \in 1 .. m - 1 : path[i] = g[<<path[i - 1], i>>]
    BY <2>2 DEF IsPath
  <2>4. path[m - 1] \in T /\ 0 \in 0 .. m
    BY <2>1, <2>3
  <2>5. \A i \in 0 .. m : i = m \/ i \in 0 .. m - 1
    BY <2>1
  <2>6. \A i \in 1 .. m : i \in 0 .. m /\ i - 1 \in 0 .. m /\ i - 1 # m /\ (i = m \/ i \in 1 .. m - 1)
    BY <2>1
  <2> DEFINE longer == [i \in 0 .. m |-> IF i = m THEN g[<<path[m - 1], m>>] ELSE path[i]]
  <2>7. \A i \in 0 .. m : longer[i] = IF i = m THEN g[<<path[m - 1], m>>] ELSE path[i]
    OBVIOUS
  <2>8. longer \in [0 .. m -> T]
    <3>1. g[<<path[m - 1], m>>] \in T
      BY <2>1, <2>4
    <3> QED BY <2>3, <2>5, <3>1
  <2> HIDE DEF longer
  <2>9. longer[0] = base
    BY <2>1, <2>3, <2>4, <2>7
  <2>10. ASSUME NEW i \in 1 .. m PROVE longer[i] = g[<<longer[i - 1], i>>]
    <3>1. longer[i - 1] = path[i - 1]
      BY <2>6, <2>7
    <3> QED BY <2>3, <2>6, <2>7, <3>1
  <2>11. IsPath(m, T, base, g, longer)
    BY <2>8, <2>9, <2>10 DEF IsPath
  <2> QED BY <2>1, <2>11
<1>3. 0 .. n \subseteq P
  <2>1. 0 \in 0 .. n
    OBVIOUS
  <2> HIDE DEF P
  <2> QED BY <1>1, <1>2, <2>1, UpTo
<1>4. n \in P
  <2>1. n \in 0 .. n
    OBVIOUS
  <2> HIDE DEF P
  <2> QED BY <1>3, <2>1
<1> QED BY <1>4

\* F makes the steps of g as long as its values are in T.
IsLoop(n, T, base, g, F) ==
  /\ F[0] = base
  /\ \A i \in 1 .. n : F[i - 1] \in T => F[i] = g[<<F[i - 1], i>>]

\* Then it does so to the end.
LEMMA LoopStays ==
  ASSUME NEW n \in Nat, NEW T, NEW base \in T, NEW g \in [T \X (1 .. n) -> T], NEW F,
         IsLoop(n, T, base, g, F)
  PROVE  \A i \in 0 .. n : F[i] \in T
<1> DEFINE P == {i \in 0 .. n : F[i] \in T}
<1>1. 0 \in P
  BY DEF IsLoop
<1>2. ASSUME NEW i \in 0 + 1 .. n, i - 1 \in P PROVE i \in P
  <2>1. i \in 1 .. n /\ F[i - 1] \in T /\ i \in 0 .. n
    BY <1>2
  <2>2. F[i] = g[<<F[i - 1], i>>]
    BY <2>1 DEF IsLoop
  <2> QED BY <2>1, <2>2
<1>3. 0 .. n \subseteq P
  <2>1. 0 \in 0 .. n
    OBVIOUS
  <2> HIDE DEF P
  <2> QED BY <1>1, <1>2, <2>1, UpTo
<1> QED BY <1>3

\* The equation of the loop over UseTx.
UseTxStep(base, seq, f, i) == IF i = 0 THEN base ELSE UseTx(f[i - 1], seq[i])

UseTxAll(base, seq) == InOrder(UseTx, base, seq)

\* Its result is the last entry of a table of this equation.
LEMMA UseTxTable ==
  ASSUME NEW base, NEW seq
  PROVE  UseTxAll(base, seq) =
           (CHOOSE f : f = [i \in 0 .. Len(seq) |-> UseTxStep(base, seq, f, i)])[Len(seq)]
BY DEF UseTxAll, InOrder, UseTxStep

\* The set T is not left on the way through the sequence.
UseTxStays(T, seq) == \A x \in T : \A i \in 1 .. Len(seq) : UseTx(x, seq[i]) \in T

\* The path has the results on the way.
UseTxOnPath(T, base, seq, path) ==
  /\ path \in [0 .. Len(seq) -> T]
  /\ path[0] = base
  /\ \A i \in 1 .. Len(seq) : path[i] = UseTx(path[i - 1], seq[i])
  /\ path[Len(seq)] = UseTxAll(base, seq)

\* The transactions of a vertex are put into the index one after the other.
LEMMA UseTxPath ==
  ASSUME NEW T, NEW base \in T, NEW E, NEW seq \in Seq(E),
         UseTxStays(T, seq)
  PROVE  \E path : UseTxOnPath(T, base, seq, path)
<1> DEFINE n == Len(seq)
           g == [p \in T \X (1 .. n) |-> UseTx(p[1], seq[p[2]])]
           F == CHOOSE f : f = [i \in 0 .. n |-> UseTxStep(base, seq, f, i)]
<1>0. n \in Nat
  OBVIOUS
<1>1. g \in [T \X (1 .. n) -> T] /\ \A x \in T, i \in 1 .. n : g[<<x, i>>] = UseTx(x, seq[i])
  BY DEF UseTxStays
<1>2. UseTxAll(base, seq) = F[n]
  BY UseTxTable
<1> HIDE DEF g, n
<1>3. PICK f : IsPath(n, T, base, g, f)
  BY <1>0, <1>1, PathExists
<1>4. \A i \in 0 .. n : i # 0 => i \in 1 .. n /\ i - 1 \in 0 .. n
  BY <1>0
<1>5. ASSUME NEW i \in 0 .. n PROVE f[i] = UseTxStep(base, seq, f, i)
  BY <1>1, <1>3, <1>4 DEF IsPath, UseTxStep
<1>6. f = [i \in 0 .. n |-> UseTxStep(base, seq, f, i)]
  BY <1>3, <1>5 DEF IsPath
<1>7. F = [i \in 0 .. n |-> UseTxStep(base, seq, F, i)]
  BY <1>6
<1> HIDE DEF F
<1>8. \A i \in 1 .. n : i \in 0 .. n /\ i # 0 /\ i - 1 \in 0 .. n
  BY <1>0
<1>9. F[0] = base /\ \A i \in 1 .. n : F[i] = UseTx(F[i - 1], seq[i])
  <2>1. 0 \in 0 .. n
    BY <1>0
  <2> QED BY <1>7, <1>8, <2>1 DEF UseTxStep
<1>10. IsLoop(n, T, base, g, F)
  BY <1>1, <1>9 DEF IsLoop
<1>11. \A i \in 0 .. n : F[i] \in T
  BY <1>0, <1>1, <1>10, LoopStays
<1>12. F \in [0 .. n -> T]
  BY <1>7, <1>11
<1>13. UseTxOnPath(T, base, seq, F)
  BY <1>2, <1>9, <1>12 DEF n, UseTxOnPath
<1> QED BY <1>13

\* The equation of the loop over AppendEntry.
AppendEntryStep(base, seq, f, i) == IF i = 0 THEN base ELSE AppendEntry(f[i - 1], seq[i])

AppendEntryAll(base, seq) == InOrder(AppendEntry, base, seq)

\* Its result is the last entry of a table of this equation.
LEMMA AppendEntryTable ==
  ASSUME NEW base, NEW seq
  PROVE  AppendEntryAll(base, seq) =
           (CHOOSE f : f = [i \in 0 .. Len(seq) |-> AppendEntryStep(base, seq, f, i)])[Len(seq)]
BY DEF AppendEntryAll, InOrder, AppendEntryStep

\* The set T is not left on the way through the sequence.
AppendEntryStays(T, seq) == \A x \in T : \A i \in 1 .. Len(seq) : AppendEntry(x, seq[i]) \in T

\* The path has the results on the way.
AppendEntryOnPath(T, base, seq, path) ==
  /\ path \in [0 .. Len(seq) -> T]
  /\ path[0] = base
  /\ \A i \in 1 .. Len(seq) : path[i] = AppendEntry(path[i - 1], seq[i])
  /\ path[Len(seq)] = AppendEntryAll(base, seq)

\* The entries of the history are appended one after the other.
LEMMA AppendEntryPath ==
  ASSUME NEW T, NEW base \in T, NEW E, NEW seq \in Seq(E),
         AppendEntryStays(T, seq)
  PROVE  \E path : AppendEntryOnPath(T, base, seq, path)
<1> DEFINE n == Len(seq)
           g == [p \in T \X (1 .. n) |-> AppendEntry(p[1], seq[p[2]])]
           F == CHOOSE f : f = [i \in 0 .. n |-> AppendEntryStep(base, seq, f, i)]
<1>0. n \in Nat
  OBVIOUS
<1>1. g \in [T \X (1 .. n) -> T] /\ \A x \in T, i \in 1 .. n : g[<<x, i>>] = AppendEntry(x, seq[i])
  BY DEF AppendEntryStays
<1>2. AppendEntryAll(base, seq) = F[n]
  BY AppendEntryTable
<1> HIDE DEF g, n
<1>3. PICK f : IsPath(n, T, base, g, f)
  BY <1>0, <1>1, PathExists
<1>4. \A i \in 0 .. n : i # 0 => i \in 1 .. n /\ i - 1 \in 0 .. n
  BY <1>0
<1>5. ASSUME NEW i \in 0 .. n PROVE f[i] = AppendEntryStep(base, seq, f, i)
  BY <1>1, <1>3, <1>4 DEF IsPath, AppendEntryStep
<1>6. f = [i \in 0 .. n |-> AppendEntryStep(base, seq, f, i)]
  BY <1>3, <1>5 DEF IsPath
<1>7. F = [i \in 0 .. n |-> AppendEntryStep(base, seq, F, i)]
  BY <1>6
<1> HIDE DEF F
<1>8. \A i \in 1 .. n : i \in 0 .. n /\ i # 0 /\ i - 1 \in 0 .. n
  BY <1>0
<1>9. F[0] = base /\ \A i \in 1 .. n : F[i] = AppendEntry(F[i - 1], seq[i])
  <2>1. 0 \in 0 .. n
    BY <1>0
  <2> QED BY <1>7, <1>8, <2>1 DEF AppendEntryStep
<1>10. IsLoop(n, T, base, g, F)
  BY <1>1, <1>9 DEF IsLoop
<1>11. \A i \in 0 .. n : F[i] \in T
  BY <1>0, <1>1, <1>10, LoopStays
<1>12. F \in [0 .. n -> T]
  BY <1>7, <1>11
<1>13. AppendEntryOnPath(T, base, seq, F)
  BY <1>2, <1>9, <1>12 DEF n, AppendEntryOnPath
<1> QED BY <1>13

\* The equation of the loop over RebuildVertex.
RebuildVertexStep(base, seq, f, i) == IF i = 0 THEN base ELSE RebuildVertex(f[i - 1], seq[i])

RebuildVertexAll(base, seq) == InOrder(RebuildVertex, base, seq)

\* Its result is the last entry of a table of this equation.
LEMMA RebuildVertexTable ==
  ASSUME NEW base, NEW seq
  PROVE  RebuildVertexAll(base, seq) =
           (CHOOSE f : f = [i \in 0 .. Len(seq) |-> RebuildVertexStep(base, seq, f, i)])[Len(seq)]
BY DEF RebuildVertexAll, InOrder, RebuildVertexStep

\* The set T is not left on the way through the sequence.
RebuildVertexStays(T, seq) == \A x \in T : \A i \in 1 .. Len(seq) : RebuildVertex(x, seq[i]) \in T

\* The path has the results on the way.
RebuildVertexOnPath(T, base, seq, path) ==
  /\ path \in [0 .. Len(seq) -> T]
  /\ path[0] = base
  /\ \A i \in 1 .. Len(seq) : path[i] = RebuildVertex(path[i - 1], seq[i])
  /\ path[Len(seq)] = RebuildVertexAll(base, seq)

\* The vertices of the snapshot are indexed one after the other.
LEMMA RebuildVertexPath ==
  ASSUME NEW T, NEW base \in T, NEW E, NEW seq \in Seq(E),
         RebuildVertexStays(T, seq)
  PROVE  \E path : RebuildVertexOnPath(T, base, seq, path)
<1> DEFINE n == Len(seq)
           g == [p \in T \X (1 .. n) |-> RebuildVertex(p[1], seq[p[2]])]
           F == CHOOSE f : f = [i \in 0 .. n |-> RebuildVertexStep(base, seq, f, i)]
<1>0. n \in Nat
  OBVIOUS
<1>1. g \in [T \X (1 .. n) -> T] /\ \A x \in T, i \in 1 .. n : g[<<x, i>>] = RebuildVertex(x, seq[i])
  BY DEF RebuildVertexStays
<1>2. RebuildVertexAll(base, seq) = F[n]
  BY RebuildVertexTable
<1> HIDE DEF g, n
<1>3. PICK f : IsPath(n, T, base, g, f)
  BY <1>0, <1>1, PathExists
<1>4. \A i \in 0 .. n : i # 0 => i \in 1 .. n /\ i - 1 \in 0 .. n
  BY <1>0
<1>5. ASSUME NEW i \in 0 .. n PROVE f[i] = RebuildVertexStep(base, seq, f, i)
  BY <1>1, <1>3, <1>4 DEF IsPath, RebuildVertexStep
<1>6. f = [i \in 0 .. n |-> RebuildVertexStep(base, seq, f, i)]
  BY <1>3, <1>5 DEF IsPath
<1>7. F = [i \in 0 .. n |-> RebuildVertexStep(base, seq, F, i)]
  BY <1>6
<1> HIDE DEF F
<1>8. \A i \in 1 .. n : i \in 0 .. n /\ i # 0 /\ i - 1 \in 0 .. n
  BY <1>0
<1>9. F[0] = base /\ \A i \in 1 .. n : F[i] = RebuildVertex(F[i - 1], seq[i])
  <2>1. 0 \in 0 .. n
    BY <1>0
  <2> QED BY <1>7, <1>8, <2>1 DEF RebuildVertexStep
<1>10. IsLoop(n, T, base, g, F)
  BY <1>1, <1>9 DEF IsLoop
<1>11. \A i \in 0 .. n : F[i] \in T
  BY <1>0, <1>1, <1>10, LoopStays
<1>12. F \in [0 .. n -> T]
  BY <1>7, <1>11
<1>13. RebuildVertexOnPath(T, base, seq, F)
  BY <1>2, <1>9, <1>12 DEF n, RebuildVertexOnPath
<1> QED BY <1>13

\* The elements of s are among those of t.
Within(s, t) == \A k \in 1 .. Len(s) : \E i \in 1 .. Len(t) : t[i] = s[k]

\* The elements of a concatenation.
LEMMA ConcatWithin ==
  ASSUME NEW S, NEW s \in Seq(S), NEW t \in Seq(S)
  PROVE  s \o t \in Seq(S) /\ Within(s, s \o t) /\ Within(t, s \o t)
<1> DEFINE w == s \o t
<1>1. /\ w \in Seq(S) /\ Len(w) = Len(s) + Len(t)
      /\ \A i \in 1 .. Len(s) : w[i] = s[i]
      /\ \A i \in 1 .. Len(t) : w[Len(s) + i] = t[i]
  OBVIOUS
<1> HIDE DEF w
<1>2. Within(s, w)
  <2>1. \A k \in 1 .. Len(s) : k \in 1 .. Len(w)
    BY <1>1
  <2> QED BY <1>1, <2>1 DEF Within
<1>3. Within(t, w)
  <2>1. \A k \in 1 .. Len(t) : Len(s) + k \in 1 .. Len(w)
    BY <1>1
  <2> QED BY <1>1, <2>1 DEF Within
<1> QED BY <1>1, <1>2, <1>3 DEF w

-----------------------------------------------------------------------------
(* The history of the addresses. *)

Entry == [hash : Hash \cup DOMAIN From, block : Hash]

\* The records of a log that its slice holds when the first d came before it.
Slice(l, d) == LastOf(LastOf(l, Len(l) - d), MaxHistoryPerAddress)

\* The elements of a slice.
LEMMA SliceElements ==
  ASSUME NEW S, NEW l \in Seq(S), NEW d \in 0 .. Len(l)
  PROVE  /\ Slice(l, d) \in Seq(S)
         /\ Len(Slice(l, d)) = IF Len(l) - d <= MaxHistoryPerAddress THEN Len(l) - d ELSE MaxHistoryPerAddress
         /\ \A i \in 1 .. Len(Slice(l, d)) : Slice(l, d)[i] = l[i + Len(l) - Len(Slice(l, d))]
<1> DEFINE m == Len(l) - d
           n == MaxHistoryPerAddress
           w == LastOf(l, m)
           u == LastOf(w, n)
<1>0. m \in 0 .. Len(l) /\ n \in Nat \ {0} /\ Len(l) \in Nat
  BY ExplorerAssumption
<1>1. Slice(l, d) = u
  BY DEF Slice
<1> HIDE DEF n, m
<1>2. /\ w \in Seq(S) /\ Len(w) = m
      /\ \A i \in 1 .. Len(w) : w[i] = l[i + Len(l) - Len(w)]
  <2>1. m \in Nat
    BY <1>0
  <2>2. /\ w \in Seq(S) /\ Len(w) = IF Len(l) <= m THEN Len(l) ELSE m
        /\ \A i \in 1 .. Len(w) : w[i] = l[i + Len(l) - Len(w)]
    BY <2>1, LastOfElements
  <2>3. (IF Len(l) <= m THEN Len(l) ELSE m) = m
    BY <1>0
  <2> QED BY <2>2, <2>3
<1> HIDE DEF w
<1>3. /\ u \in Seq(S) /\ Len(u) = IF m <= n THEN m ELSE n
      /\ \A i \in 1 .. Len(u) : u[i] = w[i + Len(w) - Len(u)]
  <2>1. n \in Nat
    BY <1>0
  <2>2. /\ u \in Seq(S) /\ Len(u) = IF Len(w) <= n THEN Len(w) ELSE n
        /\ \A i \in 1 .. Len(u) : u[i] = w[i + Len(w) - Len(u)]
    BY <1>2, <2>1, LastOfElements
  <2> QED BY <1>2, <2>2
<1> HIDE DEF u
<1>4. ASSUME NEW i \in 1 .. Len(u) PROVE u[i] = l[i + Len(l) - Len(u)]
  <2> DEFINE j == i + Len(w) - Len(u)
  <2>1. j \in 1 .. Len(w) /\ j + Len(l) - Len(w) = i + Len(l) - Len(u)
    BY <1>0, <1>2, <1>3
  <2>2. u[i] = w[j]
    BY <1>3
  <2>3. w[j] = l[j + Len(l) - Len(w)]
    <3> HIDE DEF j
    <3> QED BY <1>2, <2>1
  <2> QED BY <2>1, <2>2, <2>3
<1> QED BY <1>1, <1>3, <1>4 DEF m, n

\* BoundedAppend on the slice is a new record in the log.
LEMMA SliceAppend ==
  ASSUME NEW S, NEW l \in Seq(S), NEW d \in 0 .. Len(l), NEW x \in S
  PROVE  BoundedAppend(Slice(l, d), x, MaxHistoryPerAddress) = Slice(Append(l, x), d)
<1> DEFINE n == MaxHistoryPerAddress
           u == Slice(l, d)
           ll == Append(l, x)
           uu == Slice(ll, d)
           b == BoundedAppend(u, x, n)
<1>0. n \in Nat \ {0}
  BY ExplorerAssumption
<1>1. /\ u \in Seq(S) /\ Len(u) = IF Len(l) - d <= n THEN Len(l) - d ELSE n
      /\ \A i \in 1 .. Len(u) : u[i] = l[i + Len(l) - Len(u)]
  BY SliceElements
<1>2. /\ ll \in Seq(S) /\ Len(ll) = Len(l) + 1 /\ ll[Len(l) + 1] = x
      /\ \A i \in 1 .. Len(l) : ll[i] = l[i]
  OBVIOUS
<1>3. d \in 0 .. Len(ll)
  BY <1>2
<1> HIDE DEF n, u, ll
<1>4. /\ uu \in Seq(S) /\ Len(uu) = IF Len(ll) - d <= n THEN Len(ll) - d ELSE n
      /\ \A i \in 1 .. Len(uu) : uu[i] = ll[i + Len(ll) - Len(uu)]
  BY <1>2, <1>3, SliceElements DEF n
<1>5. CASE Len(u) >= n
  <2>1. b = Append(Tail(u), x)
    BY <1>5 DEF BoundedAppend
  <2>2. Len(u) = n /\ u # <<>>
    BY <1>0, <1>1, <1>5
  <2> DEFINE t == Tail(u)
  <2>3. t \in Seq(S) /\ Len(t) = n - 1 /\ \A i \in 1 .. n - 1 : t[i] = u[i + 1]
    BY <1>0, <1>1, <2>2
  <2> HIDE DEF t
  <2>4. /\ Append(t, x) \in Seq(S) /\ Len(Append(t, x)) = n /\ Append(t, x)[n] = x
        /\ \A i \in 1 .. n - 1 : Append(t, x)[i] = t[i]
    BY <1>0, <2>3
  <2>5. b \in Seq(S) /\ Len(b) = n /\ b[n] = x /\ \A i \in 1 .. n - 1 : b[i] = t[i]
    BY <2>1, <2>4 DEF t
  <2> HIDE DEF b, uu
  <2>6. Len(uu) = n /\ Len(l) - d >= n
    BY <1>0, <1>1, <1>2, <1>4, <1>5
  <2>7. ASSUME NEW i \in 1 .. n PROVE uu[i] = b[i]
    <3>1. uu[i] = ll[i + (Len(l) + 1) - n]
      BY <1>2, <1>4, <2>6
    <3>2. CASE i = n
      <4>1. n + (Len(l) + 1) - n = Len(l) + 1
        BY <1>0
      <4> QED BY <1>2, <2>5, <3>1, <3>2, <4>1
    <3>3. CASE i # n
      <4>1. i \in 1 .. n - 1 /\ i + 1 \in 1 .. Len(u) /\ i + (Len(l) + 1) - n \in 1 .. Len(l)
            /\ (i + 1) + Len(l) - Len(u) = i + (Len(l) + 1) - n
        BY <1>0, <2>2, <2>6, <3>3
      <4>2. b[i] = u[i + 1]
        BY <2>3, <2>5, <4>1
      <4>3. u[i + 1] = l[(i + 1) + Len(l) - Len(u)]
        BY <1>1, <4>1
      <4>4. ll[i + (Len(l) + 1) - n] = l[i + (Len(l) + 1) - n]
        BY <1>2, <4>1
      <4> QED BY <3>1, <4>1, <4>2, <4>3, <4>4
    <3> QED BY <3>2, <3>3
  <2>8. uu = b
    BY <1>4, <2>5, <2>6, <2>7, SeqEqual
  <2> QED BY <2>8 DEF b, uu, n, u, ll
<1>6. CASE ~ (Len(u) >= n)
  <2>1. b = Append(u, x)
    BY <1>6 DEF BoundedAppend
  <2>2. Len(u) = Len(l) - d /\ Len(uu) = Len(u) + 1
    BY <1>0, <1>1, <1>2, <1>4, <1>6
  <2>3. b \in Seq(S) /\ Len(b) = Len(u) + 1 /\ b[Len(u) + 1] = x /\ \A i \in 1 .. Len(u) : b[i] = u[i]
    BY <1>1, <2>1
  <2> HIDE DEF b, uu
  <2>4. ASSUME NEW i \in 1 .. Len(u) + 1 PROVE uu[i] = b[i]
    <3>1. uu[i] = ll[i + (Len(l) + 1) - (Len(u) + 1)]
      BY <1>2, <1>4, <2>2
    <3>2. CASE i = Len(u) + 1
      <4>1. i + (Len(l) + 1) - (Len(u) + 1) = Len(l) + 1
        BY <1>1, <3>2
      <4> QED BY <1>2, <2>3, <3>1, <3>2, <4>1
    <3>3. CASE i # Len(u) + 1
      <4>1. i \in 1 .. Len(u) /\ i + (Len(l) + 1) - (Len(u) + 1) \in 1 .. Len(l)
            /\ i + Len(l) - Len(u) = i + (Len(l) + 1) - (Len(u) + 1)
        BY <1>1, <2>2, <3>3
      <4>2. b[i] = l[i + Len(l) - Len(u)]
        BY <1>1, <2>3, <4>1
      <4>3. ll[i + (Len(l) + 1) - (Len(u) + 1)] = l[i + (Len(l) + 1) - (Len(u) + 1)]
        BY <1>2, <4>1
      <4> QED BY <3>1, <4>1, <4>2, <4>3
    <3> QED BY <3>2, <3>3
  <2>5. uu = b
    BY <1>4, <2>2, <2>3, <2>4, SeqEqual
  <2> QED BY <2>5 DEF b, uu, n, u, ll
<1> QED BY <1>5, <1>6

\* The keys without the first one.
LEMMA TailKeys ==
  ASSUME NEW S, NEW s \in Seq(S), IsInjective(s), s # <<>>
  PROVE  /\ Tail(s) \in Seq(S) /\ IsInjective(Tail(s)) /\ Len(Tail(s)) = Len(s) - 1
         /\ Range(Tail(s)) = Range(s) \ {Head(s)} /\ Head(s) \in Range(s)
<1> DEFINE t == Tail(s)
<1>1. t \in Seq(S) /\ Len(t) = Len(s) - 1 /\ \A i \in 1 .. Len(s) - 1 : t[i] = s[i + 1]
  OBVIOUS
<1>2. Len(s) \in Nat \ {0} /\ Head(s) = s[1]
  OBVIOUS
<1>3. \A i, j \in 1 .. Len(s) : s[i] = s[j] => i = j
  BY DEF IsInjective
<1> HIDE DEF t
<1>4. ASSUME NEW i \in 1 .. Len(t), NEW j \in 1 .. Len(t), t[i] = t[j] PROVE i = j
  <2>1. i + 1 \in 1 .. Len(s) /\ j + 1 \in 1 .. Len(s) /\ s[i + 1] = s[j + 1]
    BY <1>1, <1>2, <1>4
  <2>2. i + 1 = j + 1
    BY <1>3, <2>1
  <2> QED BY <1>1, <2>2
<1>5. IsInjective(t)
  BY <1>1, <1>4 DEF IsInjective
<1>6. ASSUME NEW i \in 1 .. Len(t) PROVE t[i] \in Range(s) /\ t[i] # s[1]
  <2>1. i + 1 \in 1 .. Len(s) /\ i + 1 # 1 /\ t[i] = s[i + 1] /\ 1 \in 1 .. Len(s)
    BY <1>1, <1>2
  <2> QED BY <1>3, <2>1 DEF Range
<1>7. ASSUME NEW j \in 1 .. Len(s), s[j] # s[1] PROVE s[j] \in Range(t)
  <2>1. j - 1 \in 1 .. Len(t) /\ (j - 1) + 1 = j
    BY <1>1, <1>2, <1>7
  <2>2. t[j - 1] = s[j]
    BY <1>1, <2>1
  <2> QED BY <1>1, <2>1, <2>2 DEF Range
<1>8. Range(t) = Range(s) \ {s[1]}
  <2>1. Range(t) \subseteq Range(s) \ {s[1]}
    BY <1>1, <1>6 DEF Range
  <2>2. Range(s) \ {s[1]} \subseteq Range(t)
    BY <1>7 DEF Range
  <2> QED BY <2>1, <2>2
<1>9. s[1] \in Range(s)
  BY <1>2 DEF Range
<1> QED BY <1>1, <1>2, <1>5, <1>8, <1>9 DEF t

\* The keys with a new one.
LEMMA AppendKeys ==
  ASSUME NEW S, NEW s \in Seq(S), IsInjective(s), NEW k \in S, k \notin Range(s)
  PROVE  /\ Append(s, k) \in Seq(S) /\ IsInjective(Append(s, k)) /\ Len(Append(s, k)) = Len(s) + 1
         /\ Range(Append(s, k)) = Range(s) \cup {k}
<1> DEFINE a == Append(s, k)
<1>1. a \in Seq(S) /\ Len(a) = Len(s) + 1 /\ a[Len(s) + 1] = k /\ \A i \in 1 .. Len(s) : a[i] = s[i]
  OBVIOUS
<1>2. \A i \in 1 .. Len(s) : s[i] # k
  BY DEF Range
<1>3. \A i, j \in 1 .. Len(s) : s[i] = s[j] => i = j
  BY DEF IsInjective
<1> HIDE DEF a
<1>4. \A i \in 1 .. Len(a) : i = Len(s) + 1 \/ i \in 1 .. Len(s)
  BY <1>1
<1>5. \A i \in 1 .. Len(s) : i \in 1 .. Len(a)
  BY <1>1
<1>6. Len(s) + 1 \in 1 .. Len(a)
  BY <1>1
<1>7. \A i, j \in 1 .. Len(a) : a[i] = a[j] => i = j
  BY <1>1, <1>2, <1>3, <1>4
<1>8. IsInjective(a)
  BY <1>1, <1>7 DEF IsInjective
<1>9. Range(a) = Range(s) \cup {k}
  <2>1. DOMAIN a = 1 .. Len(a) /\ DOMAIN s = 1 .. Len(s)
    BY <1>1
  <2>2. Range(a) \subseteq Range(s) \cup {k}
    BY <1>1, <1>4, <2>1 DEF Range
  <2>3. Range(s) \subseteq Range(a)
    BY <1>1, <1>5, <2>1 DEF Range
  <2>4. k \in Range(a)
    BY <1>1, <1>6, <2>1 DEF Range
  <2> QED BY <2>2, <2>3, <2>4
<1> QED BY <1>1, <1>8, <1>9 DEF a

\* The histories: a slice for each of some addresses, and the order of the keys.
Histories == [data : UNION {[K -> Seq(Entry)] : K \in SUBSET Address}, keyOrder : Seq(Address)]

\* What a history is made of.
LEMMA HistoriesType ==
  ASSUME NEW h \in Histories
  PROVE  /\ h.data \in [DOMAIN h.data -> Seq(Entry)] /\ DOMAIN h.data \in SUBSET Address
         /\ h.keyOrder \in Seq(Address)
<1> DEFINE D == UNION {[K -> Seq(Entry)] : K \in SUBSET Address}
<1>1. ASSUME NEW d \in D PROVE d \in [DOMAIN d -> Seq(Entry)] /\ DOMAIN d \in SUBSET Address
  <2>1. PICK K \in SUBSET Address : d \in [K -> Seq(Entry)]
    OBVIOUS
  <2>2. DOMAIN d = K
    BY <2>1
  <2> QED BY <2>1, <2>2
<1> HIDE DEF D
<1>2. h.data \in D /\ h.keyOrder \in Seq(Address)
  BY DEF Histories, D
<1> QED BY <1>1, <1>2

\* A history made of slices and an order.
LEMMA HistoryMade ==
  ASSUME NEW K \in SUBSET Address, NEW d \in [K -> Seq(Entry)], NEW o \in Seq(Address)
  PROVE  [data |-> d, keyOrder |-> o] \in Histories
<1> DEFINE D == UNION {[L -> Seq(Entry)] : L \in SUBSET Address}
<1>1. d \in D
  OBVIOUS
<1> HIDE DEF D
<1>2. Histories = [data : D, keyOrder : Seq(Address)]
  BY DEF Histories, D
<1> QED BY <1>1, <1>2

\* The history is that of the log: the keys in the order of eviction, and for each
\* the latest of the records since it was new.
HistoryInv(h, log, dropped) ==
  /\ IsInjective(h.keyOrder) /\ Len(h.keyOrder) <= MaxAddressesTracked
  /\ Range(h.keyOrder) = DOMAIN h.data
  /\ \A k \in DOMAIN h.data : dropped[k] < Len(log[k]) /\ h.data[k] = Slice(log[k], dropped[k])

\* BoundedMap.Append on the order of the keys.
LEMMA KeyOrder ==
  ASSUME NEW h \in Histories, IsInjective(h.keyOrder), Len(h.keyOrder) <= MaxAddressesTracked,
         Range(h.keyOrder) = DOMAIN h.data, NEW k \in Address, NEW x
  PROVE  LET h2 == MapAppend(h, k, x, MaxHistoryPerAddress, MaxAddressesTracked)
             gone == EvictedKey(h, k, MaxAddressesTracked)
         IN  /\ h2.keyOrder \in Seq(Address) /\ IsInjective(h2.keyOrder)
             /\ Len(h2.keyOrder) <= MaxAddressesTracked
             /\ Range(h2.keyOrder) = (DOMAIN h.data \cup {k}) \ gone
             /\ k \notin gone
<1> DEFINE n == MaxAddressesTracked
           ko == h.keyOrder
           gone == EvictedKey(h, k, n)
           order == IF gone = {} THEN ko ELSE Tail(ko)
           h2 == MapAppend(h, k, x, MaxHistoryPerAddress, n)
<1>0. n \in Nat \ {0} /\ ko \in Seq(Address)
  BY ExplorerAssumption, HistoriesType
<1>1. h2.keyOrder = IF k \notin DOMAIN h.data THEN Append(order, k) ELSE order
  BY DEF MapAppend
<1> HIDE DEF n, h2
<1>2. CASE k \in DOMAIN h.data
  <2>1. gone = {} /\ order = ko
    BY <1>2 DEF EvictedKey
  <2>2. h2.keyOrder = ko
    BY <1>1, <1>2, <2>1
  <2>3. DOMAIN h.data \cup {k} = DOMAIN h.data
    BY <1>2
  <2> HIDE DEF gone, order
  <2> QED BY <1>0, <2>1, <2>2, <2>3 DEF n, h2, gone
<1>3. CASE k \notin DOMAIN h.data /\ Len(ko) >= n
  <2>1. gone = {Head(ko)} /\ order = Tail(ko)
    BY <1>3 DEF EvictedKey
  <2>2. ko # <<>> /\ Len(ko) = n
    BY <1>0, <1>3 DEF n
  <2> HIDE DEF gone, order
  <2>3. /\ order \in Seq(Address) /\ IsInjective(order) /\ Len(order) = n - 1
        /\ Range(order) = DOMAIN h.data \ gone /\ gone \subseteq DOMAIN h.data
    BY <1>0, <2>1, <2>2, TailKeys
  <2>4. k \notin Range(order) /\ k \notin gone
    BY <1>3, <2>3
  <2>5. /\ Append(order, k) \in Seq(Address) /\ IsInjective(Append(order, k))
        /\ Len(Append(order, k)) = Len(order) + 1 /\ Range(Append(order, k)) = Range(order) \cup {k}
    BY <2>3, <2>4, AppendKeys
  <2>6. h2.keyOrder = Append(order, k)
    BY <1>1, <1>3
  <2>7. Range(order) \cup {k} = (DOMAIN h.data \cup {k}) \ gone
    BY <2>3, <2>4
  <2>8. Len(order) + 1 <= n
    BY <1>0, <2>3
  <2> QED BY <2>4, <2>5, <2>6, <2>7, <2>8 DEF n, h2, gone
<1>4. CASE k \notin DOMAIN h.data /\ ~ (Len(ko) >= n)
  <2>1. gone = {} /\ order = ko
    BY <1>4 DEF EvictedKey
  <2> HIDE DEF gone, order
  <2>2. k \notin Range(ko)
    BY <1>4
  <2>3. /\ Append(ko, k) \in Seq(Address) /\ IsInjective(Append(ko, k))
        /\ Len(Append(ko, k)) = Len(ko) + 1 /\ Range(Append(ko, k)) = Range(ko) \cup {k}
    BY <1>0, <2>2, AppendKeys
  <2>4. h2.keyOrder = Append(ko, k)
    BY <1>1, <1>4, <2>1
  <2>5. Len(ko) + 1 <= n
    BY <1>0, <1>4
  <2> QED BY <2>1, <2>3, <2>4, <2>5 DEF n, h2, gone
<1> QED BY <1>2, <1>3, <1>4

\* The log and the number of records before the slice, after a record x of k.
LogAfter(log, k, x) == [log EXCEPT ![k] = Append(@, x)]
DroppedAfter(dropped, h, log, k) ==
  [dropped EXCEPT ![k] = IF k \in DOMAIN h.data THEN @ ELSE Len(log[k])]

\* The slices, the log and the dropped records before and after a record x of k.
SlicesOf(h, log, dropped, k, x, data, l2, d2, gone) ==
  /\ data \in [(DOMAIN h.data \cup {k}) \ gone -> Seq(Entry)]
  /\ k \notin gone => data[k] = Slice(l2[k], d2[k])
  /\ \A j \in (DOMAIN h.data \cup {k}) \ gone : j # k => data[j] = h.data[j]
  /\ l2[k] = Append(log[k], x) /\ d2[k] < Len(l2[k])
  /\ d2[k] = IF k \in DOMAIN h.data THEN dropped[k] ELSE Len(log[k])
  /\ \A j \in Address : j # k => l2[j] = log[j] /\ d2[j] = dropped[j]
  /\ l2 \in [Address -> Seq(Entry)] /\ d2 \in [Address -> Nat]

\* BoundedMap.Append on the slices: that of k gets the record, the others stay.
LEMMA SlicesAfter ==
  ASSUME NEW h \in Histories, NEW log \in [Address -> Seq(Entry)], NEW dropped \in [Address -> Nat],
         HistoryInv(h, log, dropped), NEW k \in Address, NEW x \in Entry
  PROVE  SlicesOf(h, log, dropped, k, x,
                  MapAppend(h, k, x, MaxHistoryPerAddress, MaxAddressesTracked).data,
                  LogAfter(log, k, x), DroppedAfter(dropped, h, log, k),
                  EvictedKey(h, k, MaxAddressesTracked))
<1> DEFINE n == MaxHistoryPerAddress
           h2 == MapAppend(h, k, x, n, MaxAddressesTracked)
           l2 == LogAfter(log, k, x)
           d2 == DroppedAfter(dropped, h, log, k)
           gone == EvictedKey(h, k, MaxAddressesTracked)
           keys == (DOMAIN h.data \cup {k}) \ gone
           slice == IF k \notin DOMAIN h.data THEN <<>> ELSE h.data[k]
           new == BoundedAppend(slice, x, n)
<1>0. n \in Nat \ {0} /\ h.data \in [DOMAIN h.data -> Seq(Entry)] /\ DOMAIN h.data \in SUBSET Address
  BY ExplorerAssumption, HistoriesType
<1>1. log[k] \in Seq(Entry) /\ Len(log[k]) \in Nat /\ dropped[k] \in Nat
  OBVIOUS
<1>2. /\ l2[k] = Append(log[k], x) /\ l2 \in [Address -> Seq(Entry)]
      /\ \A j \in Address : j # k => l2[j] = log[j]
  <2>1. Append(log[k], x) \in Seq(Entry)
    BY <1>1
  <2> QED BY <2>1 DEF LogAfter
<1>3. /\ d2[k] = IF k \in DOMAIN h.data THEN dropped[k] ELSE Len(log[k])
      /\ d2 \in [Address -> Nat]
      /\ \A j \in Address : j # k => d2[j] = dropped[j]
  BY <1>1 DEF DroppedAfter
<1>4. h2.data = [j \in keys |-> IF j = k THEN new ELSE h.data[j]]
  BY DEF MapAppend
<1> HIDE DEF n, l2, d2, h2, gone
<1>5. d2[k] \in 0 .. Len(log[k])
  <2>1. k \in DOMAIN h.data => dropped[k] < Len(log[k])
    BY DEF HistoryInv
  <2> QED BY <1>1, <1>3, <2>1
<1>6. slice = Slice(log[k], d2[k])
  <2>1. CASE k \in DOMAIN h.data
    BY <1>3, <2>1 DEF HistoryInv
  <2>2. CASE k \notin DOMAIN h.data
    <3>1. d2[k] = Len(log[k]) /\ slice = <<>>
      BY <1>3, <2>2
    <3>2. Slice(log[k], d2[k]) \in Seq(Entry) /\ Len(Slice(log[k], d2[k])) = 0
      <4>1. /\ Slice(log[k], d2[k]) \in Seq(Entry)
            /\ Len(Slice(log[k], d2[k])) = IF Len(log[k]) - d2[k] <= n THEN Len(log[k]) - d2[k] ELSE n
        BY <1>1, <1>5, SliceElements DEF n
      <4> QED BY <1>0, <1>1, <3>1, <4>1
    <3> QED BY <3>1, <3>2
  <2> QED BY <2>1, <2>2
<1>7. new = Slice(l2[k], d2[k])
  <2> HIDE DEF slice
  <2> QED BY <1>1, <1>2, <1>5, <1>6, SliceAppend DEF n
<1>8. Len(l2[k]) = Len(log[k]) + 1 /\ d2[k] < Len(l2[k])
  <2>1. Len(l2[k]) = Len(log[k]) + 1
    BY <1>1, <1>2
  <2> QED BY <1>1, <1>5, <2>1
<1>9. new \in Seq(Entry)
  <2>1. l2[k] \in Seq(Entry) /\ d2[k] \in 0 .. Len(l2[k])
    BY <1>1, <1>2, <1>5, <1>8
  <2> HIDE DEF new
  <2> QED BY <1>7, <2>1, SliceElements
<1> HIDE DEF new
<1>10. h2.data \in [keys -> Seq(Entry)]
  BY <1>0, <1>4, <1>9
<1>11. \A j \in keys : h2.data[j] = IF j = k THEN new ELSE h.data[j]
  BY <1>4
<1>12. k \notin gone => h2.data[k] = Slice(l2[k], d2[k])
  BY <1>7, <1>11
<1>13. SlicesOf(h, log, dropped, k, x, h2.data, l2, d2, gone)
  BY <1>2, <1>3, <1>8, <1>10, <1>11, <1>12 DEF SlicesOf
<1> QED BY <1>13 DEF h2, l2, d2, gone, n

\* BoundedMap.Append keeps the history that of the log.
LEMMA MapAppendKeeps ==
  ASSUME NEW h \in Histories, NEW log \in [Address -> Seq(Entry)], NEW dropped \in [Address -> Nat],
         HistoryInv(h, log, dropped), NEW k \in Address, NEW x \in Entry
  PROVE  LET h2 == MapAppend(h, k, x, MaxHistoryPerAddress, MaxAddressesTracked)
             l2 == LogAfter(log, k, x)
             d2 == DroppedAfter(dropped, h, log, k)
         IN  h2 \in Histories /\ HistoryInv(h2, l2, d2) /\ k \in DOMAIN h2.data
             /\ (\A j \in DOMAIN h2.data : j # k => j \in DOMAIN h.data /\ h2.data[j] = h.data[j])
<1> DEFINE h2 == MapAppend(h, k, x, MaxHistoryPerAddress, MaxAddressesTracked)
           l2 == LogAfter(log, k, x)
           d2 == DroppedAfter(dropped, h, log, k)
           gone == EvictedKey(h, k, MaxAddressesTracked)
           keys == (DOMAIN h.data \cup {k}) \ gone
<1>1. /\ h2.keyOrder \in Seq(Address) /\ IsInjective(h2.keyOrder)
      /\ Len(h2.keyOrder) <= MaxAddressesTracked
      /\ Range(h2.keyOrder) = keys
      /\ k \notin gone
  BY KeyOrder DEF HistoryInv
<1>2. /\ h2.data \in [keys -> Seq(Entry)]
      /\ k \notin gone => h2.data[k] = Slice(l2[k], d2[k])
      /\ \A j \in keys : j # k => h2.data[j] = h.data[j]
      /\ d2[k] < Len(l2[k])
      /\ \A j \in Address : j # k => l2[j] = log[j] /\ d2[j] = dropped[j]
  <2>1. SlicesOf(h, log, dropped, k, x, h2.data, l2, d2, gone)
    BY SlicesAfter
  <2> HIDE DEF h2, l2, d2, gone
  <2> QED BY <2>1 DEF SlicesOf
<1>3. h2 = [data |-> h2.data, keyOrder |-> h2.keyOrder]
  BY DEF MapAppend
<1>4. DOMAIN h.data \in SUBSET Address
  BY HistoriesType
<1> HIDE DEF h2, l2, d2, gone
<1>5. keys \in SUBSET Address /\ k \in keys /\ DOMAIN h2.data = keys
  BY <1>1, <1>2, <1>4
<1> HIDE DEF keys
<1>6. h2 \in Histories
  <2>1. [data |-> h2.data, keyOrder |-> h2.keyOrder] \in Histories
    BY <1>1, <1>2, <1>5, HistoryMade
  <2> QED BY <1>3, <2>1
<1>7. ASSUME NEW j \in keys PROVE d2[j] < Len(l2[j]) /\ h2.data[j] = Slice(l2[j], d2[j])
  <2>1. CASE j = k
    BY <1>1, <1>2, <2>1
  <2>2. CASE j # k
    <3>1. j \in Address /\ j \in DOMAIN h.data
      BY <1>5, <2>2 DEF keys
    <3>2. dropped[j] < Len(log[j]) /\ h.data[j] = Slice(log[j], dropped[j])
      BY <3>1 DEF HistoryInv
    <3> QED BY <1>2, <2>2, <3>1, <3>2
  <2> QED BY <2>1, <2>2
<1>8. HistoryInv(h2, l2, d2)
  BY <1>1, <1>5, <1>7 DEF HistoryInv
<1>9. \A j \in keys : j # k => j \in DOMAIN h.data
  BY DEF keys
<1> QED BY <1>2, <1>5, <1>6, <1>8, <1>9 DEF h2, l2, d2

-----------------------------------------------------------------------------
(* The indexes. *)

IndexRecord ==
  [blockIndex : Seq(Hash), txIndex : Seq(DOMAIN From), history : Histories,
   blockUses : Seq(Hash), txUses : Seq(DOMAIN From),
   log : [Address -> Seq(Entry)], dropped : [Address -> Nat]]

\* The caches are what was used last.
CacheInv(ix) ==
  /\ IsInjective(ix.blockUses) /\ ix.blockIndex = FirstOf(ix.blockUses, MaxBlockIndexSize)
  /\ IsInjective(ix.txUses) /\ ix.txIndex = FirstOf(ix.txUses, MaxTxIndexSize)
  /\ HistoryInv(ix.history, ix.log, ix.dropped)

\* The sender of transaction t has a record in its log, and one of t in its slice
\* unless that is full, was new since or is gone.
RecordIn(data, log, dropped, t) ==
  /\ log[From[t]] # <<>>
  /\ \/ From[t] \notin DOMAIN data
     \/ dropped[From[t]] > 0
     \/ Len(data[From[t]]) = MaxHistoryPerAddress
     \/ \E i \in DOMAIN data[From[t]] : data[From[t]][i].hash = t

Recorded(ix, t) == RecordIn(ix.history.data, ix.log, ix.dropped, t)

\* The invariant of the indexes while the transactions of txs still wait for
\* their records.
IndexInv(ix, txs) ==
  /\ ix \in IndexRecord
  /\ CacheInv(ix)
  /\ \A t \in Range(ix.txIndex) : t \in txs \/ Recorded(ix, t)

\* A new record does not take the record of a transaction away.
LEMMA RecordStays ==
  ASSUME NEW h \in Histories, NEW log \in [Address -> Seq(Entry)], NEW dropped \in [Address -> Nat],
         HistoryInv(h, log, dropped), NEW k \in Address, NEW x \in Entry,
         NEW t \in DOMAIN From, RecordIn(h.data, log, dropped, t)
  PROVE  RecordIn(MapAppend(h, k, x, MaxHistoryPerAddress, MaxAddressesTracked).data,
                  LogAfter(log, k, x), DroppedAfter(dropped, h, log, k), t)
<1> DEFINE h2 == MapAppend(h, k, x, MaxHistoryPerAddress, MaxAddressesTracked)
           l2 == LogAfter(log, k, x)
           d2 == DroppedAfter(dropped, h, log, k)
           gone == EvictedKey(h, k, MaxAddressesTracked)
           f == From[t]
           n == MaxHistoryPerAddress
<1>0. f \in Address /\ n \in Nat \ {0}
  BY ExplorerAssumption DEF Address
<1>1. SlicesOf(h, log, dropped, k, x, h2.data, l2, d2, gone)
  BY SlicesAfter
<1>2. /\ HistoryInv(h2, l2, d2) /\ k \in DOMAIN h2.data
      /\ \A j \in DOMAIN h2.data : j # k => j \in DOMAIN h.data /\ h2.data[j] = h.data[j]
  BY MapAppendKeeps
<1> HIDE DEF h2, l2, d2, gone, f, n
<1>3. /\ log[f] # <<>>
      /\ \/ f \notin DOMAIN h.data
         \/ dropped[f] > 0
         \/ Len(h.data[f]) = n
         \/ \E i \in DOMAIN h.data[f] : h.data[f][i].hash = t
  BY DEF RecordIn, f, n
<1>4. CASE f # k
  <2>1. l2[f] = log[f] /\ d2[f] = dropped[f]
    BY <1>0, <1>1, <1>4 DEF SlicesOf
  <2>2. f \in DOMAIN h2.data => f \in DOMAIN h.data /\ h2.data[f] = h.data[f]
    BY <1>2, <1>4
  <2> QED BY <1>3, <2>1, <2>2 DEF RecordIn, h2, l2, d2, f, n
<1>5. CASE f = k
  <2>1. l2[k] = Append(log[k], x) /\ log[k] \in Seq(Entry) /\ dropped[k] \in Nat
    BY <1>1 DEF SlicesOf
  <2>2. Len(log[k]) \in Nat \ {0} /\ Len(l2[k]) = Len(log[k]) + 1 /\ l2[k] # <<>>
    BY <1>3, <1>5, <2>1
  <2>3. CASE k \notin DOMAIN h.data
    <3>1. d2[k] = Len(log[k])
      BY <1>1, <2>3 DEF SlicesOf
    <3>2. d2[k] > 0
      BY <2>2, <3>1
    <3> QED BY <1>5, <2>2, <3>2 DEF RecordIn, h2, l2, d2, f
  <2>4. CASE k \in DOMAIN h.data /\ dropped[k] > 0
    <3>1. d2[k] > 0
      BY <1>1, <2>4 DEF SlicesOf
    <3> QED BY <1>5, <2>2, <3>1 DEF RecordIn, h2, l2, d2, f
  <2>5. CASE k \in DOMAIN h.data /\ ~ (dropped[k] > 0)
    <3> DEFINE s == h.data[k]
               s2 == h2.data[k]
    <3>1. dropped[k] = 0 /\ d2[k] = 0 /\ 0 \in 0 .. Len(log[k]) /\ 0 \in 0 .. Len(l2[k])
      <4>1. dropped[k] = 0
        BY <2>1, <2>5
      <4>2. d2[k] = dropped[k]
        BY <1>1, <2>5 DEF SlicesOf
      <4>3. Len(log[k]) \in Nat /\ Len(l2[k]) \in Nat
        BY <2>2
      <4> HIDE DEF d2, l2
      <4> QED BY <4>1, <4>2, <4>3
    <3>2. s = Slice(log[k], 0) /\ s2 = Slice(l2[k], 0)
      BY <1>2, <2>5, <3>1 DEF HistoryInv
    <3>3. /\ s \in Seq(Entry) /\ Len(s) = IF Len(log[k]) - 0 <= n THEN Len(log[k]) - 0 ELSE n
          /\ \A i \in 1 .. Len(s) : s[i] = log[k][i + Len(log[k]) - Len(s)]
      <4> HIDE DEF s, s2
      <4> QED BY <2>1, <3>1, <3>2, SliceElements DEF n
    <3>4. /\ s2 \in Seq(Entry) /\ Len(s2) = IF Len(l2[k]) - 0 <= n THEN Len(l2[k]) - 0 ELSE n
          /\ \A i \in 1 .. Len(s2) : s2[i] = l2[k][i + Len(l2[k]) - Len(s2)]
      <4>1. l2[k] \in Seq(Entry)
        BY <2>1
      <4> HIDE DEF s, s2
      <4> QED BY <3>1, <3>2, <4>1, SliceElements DEF n
    <3> HIDE DEF s, s2
    <3>5. CASE Len(log[k]) >= n
      <4>1. Len(s2) = n
        BY <1>0, <2>2, <3>4, <3>5
      <4> QED BY <1>5, <2>2, <4>1 DEF RecordIn, h2, l2, d2, f, s2, n
    <3>6. CASE ~ (Len(log[k]) >= n)
      <4>1. Len(s) = Len(log[k]) /\ Len(s) # n /\ Len(s2) = Len(log[k]) + 1
        BY <1>0, <2>2, <3>3, <3>4, <3>6
      <4>2. PICK i \in 1 .. Len(s) : s[i].hash = t
        BY <1>3, <1>5, <2>5, <3>3, <4>1 DEF s
      <4>3. i \in 1 .. Len(s2) /\ i \in 1 .. Len(log[k]) /\ s2[i] = l2[k][i] /\ s[i] = log[k][i]
        <5>1. i \in 1 .. Len(s2) /\ i \in 1 .. Len(log[k])
              /\ i + Len(l2[k]) - Len(s2) = i /\ i + Len(log[k]) - Len(s) = i
          <6>1. Len(log[k]) \in Nat /\ i \in 1 .. Len(log[k])
            BY <2>2, <4>1, <4>2
          <6>2. Len(s) = Len(log[k]) /\ Len(s2) = Len(log[k]) + 1 /\ Len(l2[k]) = Len(log[k]) + 1
            BY <2>2, <4>1
          <6> HIDE DEF l2
          <6> QED BY <6>1, <6>2
        <5> QED BY <3>3, <3>4, <5>1
      <4>4. l2[k][i] = log[k][i]
        BY <2>1, <4>3
      <4>5. i \in DOMAIN s2 /\ s2[i].hash = t
        BY <3>4, <4>2, <4>3, <4>4
      <4> QED BY <1>5, <2>2, <4>5 DEF RecordIn, h2, l2, d2, f, s2
    <3> QED BY <3>5, <3>6
  <2> QED BY <2>3, <2>4, <2>5
<1> QED BY <1>4, <1>5

\* The record of a transaction is there once it was appended.
LEMMA RecordComes ==
  ASSUME NEW h \in Histories, NEW log \in [Address -> Seq(Entry)], NEW dropped \in [Address -> Nat],
         HistoryInv(h, log, dropped), NEW t \in DOMAIN From, NEW x \in Entry, x.hash = t
  PROVE  RecordIn(MapAppend(h, From[t], x, MaxHistoryPerAddress, MaxAddressesTracked).data,
                  LogAfter(log, From[t], x), DroppedAfter(dropped, h, log, From[t]), t)
<1> DEFINE k == From[t]
           h2 == MapAppend(h, k, x, MaxHistoryPerAddress, MaxAddressesTracked)
           l2 == LogAfter(log, k, x)
           d2 == DroppedAfter(dropped, h, log, k)
           gone == EvictedKey(h, k, MaxAddressesTracked)
           n == MaxHistoryPerAddress
           s2 == h2.data[k]
<1>0. k \in Address /\ n \in Nat \ {0}
  BY ExplorerAssumption DEF Address
<1> HIDE DEF k
<1>1. SlicesOf(h, log, dropped, k, x, h2.data, l2, d2, gone)
  BY <1>0, SlicesAfter
<1>2. HistoryInv(h2, l2, d2) /\ k \in DOMAIN h2.data
  BY <1>0, MapAppendKeeps
<1> HIDE DEF h2, l2, d2, gone, n
<1>3. l2[k] = Append(log[k], x) /\ log[k] \in Seq(Entry) /\ d2[k] \in Nat /\ d2[k] < Len(l2[k])
  BY <1>0, <1>1 DEF SlicesOf
<1>4. l2[k] \in Seq(Entry) /\ l2[k] # <<>> /\ Len(l2[k]) \in Nat \ {0} /\ l2[k][Len(l2[k])] = x
  <2>1. \A l \in Seq(Entry) : Append(l, x) \in Seq(Entry) /\ Len(Append(l, x)) = Len(l) + 1
    OBVIOUS
  <2>2. \A l \in Seq(Entry) : Append(l, x)[Len(l) + 1] = x
    OBVIOUS
  <2>3. \A l \in Seq(Entry) : Len(l) + 1 \in Nat \ {0}
    OBVIOUS
  <2>4. l2[k] \in Seq(Entry) /\ Len(l2[k]) \in Nat \ {0} /\ l2[k][Len(l2[k])] = x
    BY <1>3, <2>1, <2>2, <2>3
  <2> QED BY <2>4
<1>5. d2[k] \in 0 .. Len(l2[k])
  BY <1>3, <1>4
<1>6. s2 = Slice(l2[k], d2[k])
  BY <1>2 DEF HistoryInv
<1> HIDE DEF s2
<1>7. /\ s2 \in Seq(Entry) /\ Len(s2) = IF Len(l2[k]) - d2[k] <= n THEN Len(l2[k]) - d2[k] ELSE n
      /\ \A i \in 1 .. Len(s2) : s2[i] = l2[k][i + Len(l2[k]) - Len(s2)]
  BY <1>4, <1>5, <1>6, SliceElements DEF n
<1>8. Len(s2) \in 1 .. Len(s2) /\ Len(s2) + Len(l2[k]) - Len(s2) = Len(l2[k])
  <2> DEFINE a == Len(s2)
             b == Len(l2[k])
             d == d2[k]
  <2>1. a = (IF b - d <= n THEN b - d ELSE n) /\ b \in Nat /\ d \in Nat /\ d < b
    BY <1>3, <1>4, <1>7
  <2> HIDE DEF a, b, d
  <2>2. a \in 1 .. a /\ a + b - a = b
    BY <1>0, <2>1
  <2> QED BY <2>2 DEF a, b
<1>9. s2[Len(s2)] = x
  BY <1>4, <1>7, <1>8
<1>10. Len(s2) \in DOMAIN s2 /\ s2[Len(s2)].hash = t
  BY <1>7, <1>8, <1>9
<1> QED BY <1>4, <1>10 DEF RecordIn, h2, l2, d2, k, s2

\* The fields of an index.
LEMMA IndexType ==
  ASSUME NEW ix \in IndexRecord
  PROVE  /\ ix.blockIndex \in Seq(Hash) /\ ix.txIndex \in Seq(DOMAIN From) /\ ix.history \in Histories
         /\ ix.blockUses \in Seq(Hash) /\ ix.txUses \in Seq(DOMAIN From)
         /\ ix.log \in [Address -> Seq(Entry)] /\ ix.dropped \in [Address -> Nat]
BY DEF IndexRecord

\* The elements of a sequence.
LEMMA RangeType ==
  ASSUME NEW S, NEW s \in Seq(S)
  PROVE  Range(s) \subseteq S
BY DEF Range

\* AppendEntry keeps the invariant, and every record that is there.
LEMMA AppendEntryKeeps ==
  ASSUME NEW ix, NEW txs, IndexInv(ix, txs), NEW k \in Address, NEW x \in Entry,
         NEW y, y = AppendEntry(ix, <<k, x>>)
  PROVE  /\ IndexInv(y, txs)
         /\ \A t \in DOMAIN From : Recorded(ix, t) => Recorded(y, t)
         /\ \A t \in DOMAIN From : k = From[t] /\ x.hash = t => Recorded(y, t)
<1> DEFINE h == ix.history
           h2 == MapAppend(h, k, x, MaxHistoryPerAddress, MaxAddressesTracked)
           l2 == LogAfter(ix.log, k, x)
           d2 == DroppedAfter(ix.dropped, h, ix.log, k)
<1>0. ix \in IndexRecord /\ CacheInv(ix) /\ HistoryInv(h, ix.log, ix.dropped)
  BY DEF IndexInv, CacheInv
<1>1. /\ ix.blockIndex \in Seq(Hash) /\ ix.txIndex \in Seq(DOMAIN From) /\ h \in Histories
      /\ ix.blockUses \in Seq(Hash) /\ ix.txUses \in Seq(DOMAIN From)
      /\ ix.log \in [Address -> Seq(Entry)] /\ ix.dropped \in [Address -> Nat]
  BY <1>0, IndexType
<1>2. y = [ix EXCEPT !.history = h2, !.log = l2, !.dropped = d2]
  BY <1>0 DEF AppendEntry, LogAfter, DroppedAfter, IndexRecord
<1>3. h2 \in Histories /\ HistoryInv(h2, l2, d2)
  <2> HIDE DEF h
  <2> QED BY <1>0, <1>1, MapAppendKeeps
<1>4. l2 \in [Address -> Seq(Entry)] /\ d2 \in [Address -> Nat]
  <2>1. SlicesOf(h, ix.log, ix.dropped, k, x, h2.data, l2, d2, EvictedKey(h, k, MaxAddressesTracked))
    <3> HIDE DEF h
    <3> QED BY <1>0, <1>1, SlicesAfter
  <2> HIDE DEF h, h2, l2, d2
  <2> QED BY <2>1 DEF SlicesOf
<1>5. ASSUME NEW t \in DOMAIN From, Recorded(ix, t) PROVE RecordIn(h2.data, l2, d2, t)
  <2>1. RecordIn(h.data, ix.log, ix.dropped, t)
    BY <1>5 DEF Recorded
  <2> HIDE DEF h
  <2> QED BY <1>0, <1>1, <2>1, RecordStays
<1>6. ASSUME NEW t \in DOMAIN From, k = From[t], x.hash = t PROVE RecordIn(h2.data, l2, d2, t)
  <2> HIDE DEF h
  <2> QED BY <1>0, <1>1, <1>6, RecordComes
<1> HIDE DEF h2, l2, d2
<1>7. /\ y \in IndexRecord /\ y.history = h2 /\ y.log = l2 /\ y.dropped = d2
      /\ y.blockIndex = ix.blockIndex /\ y.txIndex = ix.txIndex
      /\ y.blockUses = ix.blockUses /\ y.txUses = ix.txUses
  BY <1>0, <1>2, <1>3, <1>4 DEF IndexRecord
<1>8. /\ \A t \in DOMAIN From : Recorded(ix, t) => Recorded(y, t)
      /\ \A t \in DOMAIN From : k = From[t] /\ x.hash = t => Recorded(y, t)
  BY <1>5, <1>6, <1>7 DEF Recorded
<1>9. CacheInv(y)
  BY <1>0, <1>3, <1>7 DEF CacheInv
<1>10. ASSUME NEW t \in Range(y.txIndex) PROVE t \in txs \/ Recorded(y, t)
  <2>1. t \in Range(ix.txIndex) /\ t \in DOMAIN From
    BY <1>1, <1>7, RangeType
  <2> QED BY <1>8, <2>1 DEF IndexInv
<1> QED BY <1>7, <1>8, <1>9, <1>10 DEF IndexInv

\* What is in a cut sequence after a use was there before or was used.
LEMMA UseElements ==
  ASSUME NEW S, NEW u \in Seq(S), IsInjective(u), NEW k \in S, NEW n \in Nat \ {0}
  PROVE  Range(FirstOf(ToFront(u, k), n)) \subseteq Range(FirstOf(u, n)) \cup {k}
<1> DEFINE c == FirstOf(u, n)
<1>1. c \in Seq(S) /\ IsInjective(c)
  <2>1. /\ c \in Seq(S) /\ Len(c) = IF Len(u) <= n THEN Len(u) ELSE n
        /\ \A i \in 1 .. Len(c) : c[i] = u[i]
    BY FirstOfElements
  <2> HIDE DEF c
  <2>2. \A i \in 1 .. Len(c) : i \in 1 .. Len(u)
    BY <2>1
  <2>3. DOMAIN c = 1 .. Len(c) /\ DOMAIN u = 1 .. Len(u)
    BY <2>1
  <2> QED BY <2>1, <2>2, <2>3 DEF IsInjective
<1>2. LruSet(c, k, n) = FirstOf(ToFront(u, k), n)
  BY UseOfFirst
<1> HIDE DEF c
<1>3. ToFront(c, k) \in Seq(S) /\ Range(ToFront(c, k)) = Range(c) \cup {k}
  BY <1>1, ToFrontInjective
<1>4. LruSet(c, k, n) = FirstOf(ToFront(c, k), n)
  <2>1. Len(ToFront(c, k)) \in Nat
    BY <1>3
  <2> QED BY <2>1 DEF LruSet, FirstOf
<1> DEFINE g == ToFront(c, k)
           gg == FirstOf(g, n)
<1>5. /\ gg \in Seq(S) /\ Len(gg) = IF Len(g) <= n THEN Len(g) ELSE n
      /\ \A i \in 1 .. Len(gg) : gg[i] = g[i]
  BY <1>3, FirstOfElements
<1> HIDE DEF g, gg
<1>6. g \in Seq(S)
  BY <1>3 DEF g
<1>7. \A i \in 1 .. Len(gg) : i \in 1 .. Len(g)
  BY <1>5, <1>6
<1>8. DOMAIN g = 1 .. Len(g) /\ DOMAIN gg = 1 .. Len(gg)
  BY <1>5, <1>6
<1>9. Range(gg) \subseteq Range(g)
  BY <1>5, <1>7, <1>8 DEF Range
<1> QED BY <1>2, <1>3, <1>4, <1>9 DEF g, gg, c

\* A use of the indexes leaves the records where they are.
LEMMA UsedKeeps ==
  ASSUME NEW ix, NEW txs, IndexInv(ix, txs), NEW y \in IndexRecord, CacheInv(y),
         y.history = ix.history, y.log = ix.log, y.dropped = ix.dropped,
         \A t \in Range(y.txIndex) : t \in Range(ix.txIndex) \/ t \in txs
  PROVE  IndexInv(y, txs)
BY DEF IndexInv, Recorded

\* A transaction is used that is in the index or still waits for its record.
LEMMA TxUsed ==
  ASSUME NEW ix, NEW txs, IndexInv(ix, txs), NEW t \in DOMAIN From, t \in txs \/ t \in Range(ix.txIndex),
         NEW y, y = [ix EXCEPT !.txIndex = FirstOf(ToFront(ix.txUses, t), MaxTxIndexSize),
                               !.txUses = ToFront(ix.txUses, t)]
  PROVE  IndexInv(y, txs)
<1> DEFINE n == MaxTxIndexSize
           u == ToFront(ix.txUses, t)
           c == FirstOf(u, n)
<1>0. ix \in IndexRecord /\ CacheInv(ix) /\ n \in Nat \ {0}
  BY ExplorerAssumption DEF IndexInv
<1>1. ix.txUses \in Seq(DOMAIN From) /\ IsInjective(ix.txUses) /\ ix.txIndex = FirstOf(ix.txUses, n)
  BY <1>0, IndexType DEF CacheInv
<1>2. u \in Seq(DOMAIN From) /\ IsInjective(u)
  BY <1>1, ToFrontInjective
<1>3. Range(c) \subseteq Range(ix.txIndex) \cup {t}
  <2> HIDE DEF n
  <2> QED BY <1>0, <1>1, UseElements
<1>4. c \in Seq(DOMAIN From)
  BY <1>0, <1>2, FirstOfElements
<1>5. y = [ix EXCEPT !.txIndex = c, !.txUses = u]
  OBVIOUS
<1> HIDE DEF u, c
<1>6. /\ y \in IndexRecord /\ y.txIndex = c /\ y.txUses = u
      /\ y.history = ix.history /\ y.log = ix.log /\ y.dropped = ix.dropped
      /\ y.blockIndex = ix.blockIndex /\ y.blockUses = ix.blockUses
  BY <1>0, <1>2, <1>4, <1>5 DEF IndexRecord
<1>7. CacheInv(y)
  BY <1>0, <1>2, <1>6 DEF CacheInv, c
<1>8. \A w \in Range(y.txIndex) : w \in Range(ix.txIndex) \/ w \in txs
  BY <1>3, <1>6
<1> QED BY <1>6, <1>7, <1>8, UsedKeeps

\* A block is used.
LEMMA BlockUsed ==
  ASSUME NEW ix, NEW txs, IndexInv(ix, txs), NEW v \in Hash,
         NEW y, y = [ix EXCEPT !.blockIndex = FirstOf(ToFront(ix.blockUses, v), MaxBlockIndexSize),
                               !.blockUses = ToFront(ix.blockUses, v)]
  PROVE  IndexInv(y, txs)
<1> DEFINE n == MaxBlockIndexSize
           u == ToFront(ix.blockUses, v)
           c == FirstOf(u, n)
<1>0. ix \in IndexRecord /\ CacheInv(ix) /\ n \in Nat \ {0}
  BY ExplorerAssumption DEF IndexInv
<1>1. ix.blockUses \in Seq(Hash) /\ IsInjective(ix.blockUses)
  BY <1>0, IndexType DEF CacheInv
<1>2. u \in Seq(Hash) /\ IsInjective(u)
  BY <1>1, ToFrontInjective
<1>3. c \in Seq(Hash)
  BY <1>0, <1>2, FirstOfElements
<1>4. y = [ix EXCEPT !.blockIndex = c, !.blockUses = u]
  OBVIOUS
<1> HIDE DEF u, c
<1>5. /\ y \in IndexRecord /\ y.blockIndex = c /\ y.blockUses = u
      /\ y.history = ix.history /\ y.log = ix.log /\ y.dropped = ix.dropped
      /\ y.txIndex = ix.txIndex /\ y.txUses = ix.txUses
  BY <1>0, <1>2, <1>3, <1>4 DEF IndexRecord
<1>6. CacheInv(y)
  BY <1>0, <1>2, <1>5 DEF CacheInv, c
<1> QED BY <1>5, <1>6, UsedKeeps

\* UseTx and UseBlock, and the lookups that find what they look for.
LEMMA UsesKeep ==
  ASSUME NEW ix, NEW txs, IndexInv(ix, txs)
  PROVE  /\ \A t \in DOMAIN From : t \in txs => IndexInv(UseTx(ix, t), txs)
         /\ \A v \in Hash : IndexInv(UseBlock(ix, v), txs)
         /\ \A t \in DOMAIN From : Contains(ix.txIndex, t) =>
              IndexInv([ix EXCEPT !.txIndex = LruGet(@, t), !.txUses = ToFront(@, t)], txs)
         /\ \A v \in Hash : Contains(ix.blockIndex, v) =>
              IndexInv([ix EXCEPT !.blockIndex = LruGet(@, v), !.blockUses = ToFront(@, v)], txs)
<1> DEFINE m == MaxTxIndexSize
           n == MaxBlockIndexSize
<1>0. ix \in IndexRecord /\ CacheInv(ix) /\ n \in Nat \ {0} /\ m \in Nat \ {0}
  BY ExplorerAssumption DEF IndexInv
<1>1. /\ ix.blockUses \in Seq(Hash) /\ IsInjective(ix.blockUses) /\ ix.blockIndex = FirstOf(ix.blockUses, n)
      /\ ix.txUses \in Seq(DOMAIN From) /\ IsInjective(ix.txUses) /\ ix.txIndex = FirstOf(ix.txUses, m)
  BY <1>0, IndexType DEF CacheInv
<1>2. ASSUME NEW t \in DOMAIN From
      PROVE  /\ LruSet(ix.txIndex, t, m) = FirstOf(ToFront(ix.txUses, t), m)
             /\ Contains(ix.txIndex, t) => LruGet(ix.txIndex, t) = FirstOf(ToFront(ix.txUses, t), m)
  <2> HIDE DEF m
  <2> QED BY <1>0, <1>1, UseOfFirst
<1>3. ASSUME NEW v \in Hash
      PROVE  /\ LruSet(ix.blockIndex, v, n) = FirstOf(ToFront(ix.blockUses, v), n)
             /\ Contains(ix.blockIndex, v) => LruGet(ix.blockIndex, v) = FirstOf(ToFront(ix.blockUses, v), n)
  <2> HIDE DEF n
  <2> QED BY <1>0, <1>1, UseOfFirst
<1>4. ASSUME NEW t \in DOMAIN From, t \in txs PROVE IndexInv(UseTx(ix, t), txs)
  <2>1. UseTx(ix, t) = [ix EXCEPT !.txIndex = FirstOf(ToFront(ix.txUses, t), m), !.txUses = ToFront(ix.txUses, t)]
    BY <1>2 DEF UseTx
  <2> QED BY <1>4, <2>1, TxUsed
<1>5. ASSUME NEW v \in Hash PROVE IndexInv(UseBlock(ix, v), txs)
  <2>1. UseBlock(ix, v) = [ix EXCEPT !.blockIndex = FirstOf(ToFront(ix.blockUses, v), n),
                                     !.blockUses = ToFront(ix.blockUses, v)]
    BY <1>3 DEF UseBlock
  <2> QED BY <2>1, BlockUsed
<1>6. ASSUME NEW t \in DOMAIN From, Contains(ix.txIndex, t)
      PROVE  IndexInv([ix EXCEPT !.txIndex = LruGet(@, t), !.txUses = ToFront(@, t)], txs)
  <2>1. [ix EXCEPT !.txIndex = LruGet(@, t), !.txUses = ToFront(@, t)] =
          [ix EXCEPT !.txIndex = FirstOf(ToFront(ix.txUses, t), m), !.txUses = ToFront(ix.txUses, t)]
    BY <1>2, <1>6
  <2>2. t \in Range(ix.txIndex)
    <3>1. ix.txIndex \in Seq(DOMAIN From)
      BY <1>0, IndexType
    <3> QED BY <1>6, <3>1 DEF Contains, Range
  <2> QED BY <2>1, <2>2, TxUsed
<1>7. ASSUME NEW v \in Hash, Contains(ix.blockIndex, v)
      PROVE  IndexInv([ix EXCEPT !.blockIndex = LruGet(@, v), !.blockUses = ToFront(@, v)], txs)
  <2>1. [ix EXCEPT !.blockIndex = LruGet(@, v), !.blockUses = ToFront(@, v)] =
          [ix EXCEPT !.blockIndex = FirstOf(ToFront(ix.blockUses, v), n), !.blockUses = ToFront(ix.blockUses, v)]
    BY <1>3, <1>7
  <2> QED BY <2>1, BlockUsed
<1> QED BY <1>4, <1>5, <1>6, <1>7

\* The record of transaction t of vertex v, with its address.
Sends(v, t) == <<From[t], [hash |-> t, block |-> v]>>

\* The entries for the transactions of v, among them one for every sender.
EntriesOf(entries, v) ==
  /\ entries \in Seq(Address \X Entry)
  /\ \A t \in Range(Txs[v]) : \E i \in 1 .. Len(entries) : entries[i] = Sends(v, t)

\* The entries of one transaction, the sender's first.
LEMMA TxEntriesType ==
  ASSUME NEW v \in Hash, NEW t \in DOMAIN From
  PROVE  /\ TxEntries(v, t) \in Seq(Address \X Entry)
         /\ 1 \in 1 .. Len(TxEntries(v, t)) /\ TxEntries(v, t)[1] = Sends(v, t)
<1> DEFINE x == [hash |-> t, block |-> v]
<1>1. From[t] \in Address /\ To[t] \in Address
  BY ExplorerAssumption DEF Address
<1>2. x \in Entry
  BY DEF Entry
<1>3. Sends(v, t) = <<From[t], x>>
  BY DEF Sends
<1>4. TxEntries(v, t) = IF To[t] = NoAddr THEN <<<<From[t], x>>>> ELSE <<<<From[t], x>>, <<To[t], x>>>>
  BY DEF TxEntries
<1> HIDE DEF x
<1>5. <<From[t], x>> \in Address \X Entry /\ <<To[t], x>> \in Address \X Entry
  BY <1>1, <1>2
<1> HIDE DEF Address, Entry
<1> DEFINE a == <<From[t], x>>
           b == <<To[t], x>>
           S == Address \X Entry
<1> HIDE DEF a, b, S
<1>6. a \in S /\ b \in S /\ TxEntries(v, t) \in {<<a>>, <<a, b>>} /\ Sends(v, t) = a
  BY <1>3, <1>4, <1>5 DEF a, b, S
<1>7. <<a>> \in Seq(S) /\ 1 \in 1 .. Len(<<a>>) /\ <<a>>[1] = a
  BY <1>6
<1>8. <<a, b>> \in Seq(S) /\ 1 \in 1 .. Len(<<a, b>>) /\ <<a, b>>[1] = a
  BY <1>6
<1> QED BY <1>6, <1>7, <1>8 DEF S

\* The equation of the loop of PayloadEntries.
PayloadStep(v, f, i) == IF i = 0 THEN <<>> ELSE f[i - 1] \o TxEntries(v, Txs[v][i])

\* Its result is the last entry of a table of this equation.
LEMMA PayloadTable ==
  ASSUME NEW v
  PROVE  PayloadEntries(v) =
           (CHOOSE f : f = [i \in 0 .. Len(Txs[v]) |-> PayloadStep(v, f, i)])[Len(Txs[v])]
BY DEF PayloadEntries, InOrder, PayloadStep

\* The entries of all transactions of a vertex.
LEMMA PayloadEntriesType ==
  ASSUME NEW v \in Hash
  PROVE  EntriesOf(PayloadEntries(v), v)
<1> DEFINE S == Address \X Entry
           T == Seq(S)
           txs == Txs[v]
           n == Len(txs)
           g == [p \in T \X (1 .. n) |-> p[1] \o TxEntries(v, txs[p[2]])]
           F == CHOOSE f : f = [i \in 0 .. n |-> PayloadStep(v, f, i)]
<1>1. txs \in Seq(DOMAIN From)
  BY ExplorerAssumption
<1>2. PayloadEntries(v) = F[n]
  BY PayloadTable
<1> HIDE DEF txs
<1>3. DOMAIN txs = 1 .. n /\ n \in Nat /\ \A i \in 1 .. n : txs[i] \in DOMAIN From
  BY <1>1
<1> HIDE DEF n
<1>4. \A i \in 1 .. n : /\ TxEntries(v, txs[i]) \in T
                        /\ 1 \in 1 .. Len(TxEntries(v, txs[i]))
                        /\ TxEntries(v, txs[i])[1] = Sends(v, txs[i])
  BY <1>3, TxEntriesType
<1> HIDE DEF S
<1>5. <<>> \in T /\ \A a, b \in T : a \o b \in T /\ Within(a, a \o b) /\ Within(b, a \o b)
  BY ConcatWithin
<1> HIDE DEF T
<1>6. g \in [T \X (1 .. n) -> T] /\ \A x \in T, i \in 1 .. n : g[<<x, i>>] = x \o TxEntries(v, txs[i])
  BY <1>4, <1>5
<1> HIDE DEF g
<1>7. PICK f : IsPath(n, T, <<>>, g, f)
  BY <1>3, <1>5, <1>6, PathExists
<1>8. \A i \in 0 .. n : i # 0 => i \in 1 .. n /\ i - 1 \in 0 .. n
  BY <1>3
<1>9. ASSUME NEW i \in 0 .. n PROVE f[i] = PayloadStep(v, f, i)
  BY <1>6, <1>7, <1>8 DEF IsPath, PayloadStep, txs
<1>10. f = [i \in 0 .. n |-> PayloadStep(v, f, i)]
  BY <1>7, <1>9 DEF IsPath
<1>11. F = [i \in 0 .. n |-> PayloadStep(v, F, i)]
  BY <1>10
<1> HIDE DEF F
<1>12. 0 \in 0 .. n /\ n \in 0 .. n /\ \A i \in 1 .. n : i \in 0 .. n /\ i # 0 /\ i - 1 \in 0 .. n
  BY <1>3
<1>13. F[0] = <<>> /\ \A i \in 1 .. n : F[i] = F[i - 1] \o TxEntries(v, txs[i])
  BY <1>11, <1>12 DEF PayloadStep, txs
<1>14. IsLoop(n, T, <<>>, g, F)
  BY <1>6, <1>13 DEF IsLoop
<1>15. \A i \in 0 .. n : F[i] \in T
  BY <1>3, <1>5, <1>6, <1>14, LoopStays
<1>16. ASSUME NEW i \in 1 .. n PROVE Within(F[i - 1], F[i]) /\ Within(TxEntries(v, txs[i]), F[i])
  <2> DEFINE a == F[i - 1]
             b == TxEntries(v, txs[i])
  <2>1. a \in T /\ b \in T /\ F[i] = a \o b
    BY <1>4, <1>12, <1>13, <1>15
  <2> HIDE DEF a, b
  <2>2. Within(a, a \o b) /\ Within(b, a \o b)
    BY <1>5, <2>1
  <2> QED BY <2>1, <2>2 DEF a, b
<1>17. ASSUME NEW t \in Range(txs) PROVE \E i \in 1 .. Len(F[n]) : F[n][i] = Sends(v, t)
  <2>1. PICK j \in 1 .. n : t = txs[j]
    BY <1>3 DEF Range
  <2> DEFINE P == {i \in 0 .. n : \E m \in 1 .. Len(F[i]) : F[i][m] = Sends(v, t)}
  <2>2. j \in P
    BY <1>4, <1>12, <1>16, <2>1 DEF Within
  <2>3. ASSUME NEW i \in j + 1 .. n, i - 1 \in P PROVE i \in P
    <3>1. i \in 1 .. n
      BY <1>3
    <3>2. PICK m \in 1 .. Len(F[i - 1]) : F[i - 1][m] = Sends(v, t)
      BY <2>3
    <3>3. PICK l \in 1 .. Len(F[i]) : F[i][l] = F[i - 1][m]
      BY <1>16, <3>1 DEF Within
    <3> QED BY <1>12, <3>1, <3>2, <3>3
  <2>4. j .. n \subseteq P
    <3> HIDE DEF P
    <3> QED BY <1>3, <1>12, <2>2, <2>3, UpTo
  <2>5. n \in j .. n
    BY <1>3
  <2> QED BY <2>4, <2>5
<1> QED BY <1>2, <1>12, <1>15, <1>17 DEF EntriesOf, txs, S, T

\* The entry of the author may come first or last.
LEMMA VertexEntries ==
  ASSUME NEW v \in Hash
  PROVE  EntriesOf(CallbackEntries(v), v) /\ EntriesOf(<<MiningEntry(v)>> \o PayloadEntries(v), v)
<1> DEFINE S == Address \X Entry
           p == PayloadEntries(v)
           m == MiningEntry(v)
<1>1. m \in S
  <2>1. Author[v] \in Address
    BY DEF Address
  <2>2. [hash |-> v, block |-> v] \in Entry
    BY DEF Entry
  <2> QED BY <2>1, <2>2 DEF MiningEntry
<1>2. EntriesOf(p, v)
  BY PayloadEntriesType
<1>3. p \in Seq(S)
  BY <1>2 DEF EntriesOf
<1>4. CallbackEntries(v) = Append(p, m)
  BY DEF CallbackEntries
<1> HIDE DEF S, p, m
<1>5. /\ Append(p, m) \in Seq(S) /\ Len(Append(p, m)) = Len(p) + 1
      /\ \A i \in 1 .. Len(p) : Append(p, m)[i] = p[i]
  BY <1>1, <1>3
<1>6. <<m>> \in Seq(S)
  BY <1>1
<1>7. <<m>> \o p \in Seq(S) /\ Within(p, <<m>> \o p)
  BY <1>3, <1>6, ConcatWithin
<1>8. Within(p, Append(p, m))
  <2>1. \A i \in 1 .. Len(p) : i \in 1 .. Len(Append(p, m))
    BY <1>3, <1>5
  <2> QED BY <1>5, <2>1 DEF Within
<1>9. ASSUME NEW w \in Seq(S), Within(p, w) PROVE EntriesOf(w, v)
  <2>1. ASSUME NEW t \in Range(Txs[v]) PROVE \E i \in 1 .. Len(w) : w[i] = Sends(v, t)
    <3>1. PICK k \in 1 .. Len(p) : p[k] = Sends(v, t)
      BY <1>2 DEF EntriesOf
    <3> QED BY <1>9, <3>1 DEF Within
  <2> QED BY <2>1 DEF EntriesOf, S
<1> QED BY <1>4, <1>5, <1>7, <1>8, <1>9 DEF p, m

\* A vertex is indexed: its transactions have their records in the end.
LEMMA IndexedKeeps ==
  ASSUME NEW ix, IndexInv(ix, {}), NEW v \in Hash, NEW entries, EntriesOf(entries, v)
  PROVE  IndexInv(Indexed(ix, v, entries), {})
<1> DEFINE txs == Range(Txs[v])
           T == {x \in IndexRecord : IndexInv(x, txs)}
           start == UseBlock(ix, v)
           used == UseTxAll(start, Txs[v])
           n == Len(entries)
<1>0. Txs[v] \in Seq(DOMAIN From) /\ entries \in Seq(Address \X Entry) /\ n \in Nat
  BY ExplorerAssumption DEF EntriesOf
<1>1. \A x : IndexInv(x, txs) => x \in T
  BY DEF IndexInv
<1>2. start \in T
  <2>1. IndexInv(ix, txs)
    BY DEF IndexInv
  <2>2. IndexInv(start, txs)
    <3> HIDE DEF txs
    <3> QED BY <2>1, UsesKeep
  <2> HIDE DEF T, start
  <2> QED BY <1>1, <2>2
<1>3. txs \subseteq DOMAIN From /\ \A i \in 1 .. Len(Txs[v]) : Txs[v][i] \in txs
  BY <1>0 DEF Range
<1>4. UseTxStays(T, Txs[v])
  <2> SUFFICES ASSUME NEW x \in T, NEW i \in 1 .. Len(Txs[v]) PROVE UseTx(x, Txs[v][i]) \in T
    BY DEF UseTxStays
  <2>1. IndexInv(x, txs) /\ Txs[v][i] \in txs /\ Txs[v][i] \in DOMAIN From
    BY <1>3
  <2>2. IndexInv(UseTx(x, Txs[v][i]), txs)
    <3> HIDE DEF T, txs
    <3> QED BY <2>1, UsesKeep
  <2> HIDE DEF T
  <2> QED BY <1>1, <2>2
<1>5. used \in T
  <2> HIDE DEF T, start
  <2>1. PICK path : UseTxOnPath(T, start, Txs[v], path)
    BY <1>0, <1>2, <1>4, UseTxPath
  <2>2. Len(Txs[v]) \in 0 .. Len(Txs[v])
    BY <1>0
  <2> QED BY <2>1, <2>2 DEF UseTxOnPath
<1>6. \A i \in 1 .. n : \E k \in Address, x \in Entry : entries[i] = <<k, x>>
  <2>1. \A i \in 1 .. n : entries[i] \in Address \X Entry
    BY <1>0
  <2> QED BY <2>1
<1> HIDE DEF start, used, n
<1>7. \A x \in T : \A i \in 1 .. n :
        /\ AppendEntry(x, entries[i]) \in T
        /\ \A t \in DOMAIN From : Recorded(x, t) => Recorded(AppendEntry(x, entries[i]), t)
        /\ \A t \in DOMAIN From : entries[i] = Sends(v, t) => Recorded(AppendEntry(x, entries[i]), t)
  <2> SUFFICES ASSUME NEW x \in T, NEW i \in 1 .. n
               PROVE  /\ AppendEntry(x, entries[i]) \in T
                      /\ \A t \in DOMAIN From : Recorded(x, t) => Recorded(AppendEntry(x, entries[i]), t)
                      /\ \A t \in DOMAIN From : entries[i] = Sends(v, t) => Recorded(AppendEntry(x, entries[i]), t)
    OBVIOUS
  <2>1. PICK k \in Address, e \in Entry : entries[i] = <<k, e>>
    BY <1>6
  <2>2. IndexInv(x, txs)
    OBVIOUS
  <2> DEFINE y == AppendEntry(x, <<k, e>>)
  <2>3. /\ IndexInv(y, txs)
        /\ \A t \in DOMAIN From : Recorded(x, t) => Recorded(y, t)
        /\ \A t \in DOMAIN From : k = From[t] /\ e.hash = t => Recorded(y, t)
    <3> HIDE DEF T, txs
    <3> QED BY <2>2, AppendEntryKeeps
  <2> HIDE DEF y, T, txs
  <2>4. ASSUME NEW t \in DOMAIN From, entries[i] = Sends(v, t) PROVE k = From[t] /\ e.hash = t
    BY <2>1, <2>4 DEF Sends
  <2>5. AppendEntry(x, entries[i]) = y
    BY <2>1 DEF y
  <2> QED BY <1>1, <2>3, <2>4, <2>5
<1> HIDE DEF T
<1>8. PICK path : AppendEntryOnPath(T, used, entries, path)
  <2>1. AppendEntryStays(T, entries)
    BY <1>7 DEF AppendEntryStays, n
  <2> QED BY <1>0, <1>5, <2>1, AppendEntryPath
<1>9. /\ path \in [0 .. n -> T] /\ path[n] = AppendEntryAll(used, entries)
      /\ \A i \in 1 .. n : path[i] = AppendEntry(path[i - 1], entries[i])
  BY <1>8 DEF AppendEntryOnPath, n
<1>10. n \in Nat /\ n \in 0 .. n /\ \A i \in 1 .. n : i - 1 \in 0 .. n /\ i \in 0 .. n
  BY <1>0 DEF n
<1>11. \A i \in 1 .. n : \A t \in DOMAIN From :
         Recorded(path[i - 1], t) \/ entries[i] = Sends(v, t) => Recorded(path[i], t)
  <2> SUFFICES ASSUME NEW i \in 1 .. n, NEW t \in DOMAIN From, Recorded(path[i - 1], t) \/ entries[i] = Sends(v, t)
               PROVE  Recorded(path[i], t)
    OBVIOUS
  <2>1. path[i - 1] \in T /\ path[i] = AppendEntry(path[i - 1], entries[i])
    BY <1>9, <1>10
  <2> QED BY <1>7, <2>1
<1>12. ASSUME NEW t \in txs PROVE Recorded(path[n], t)
  <2>0. t \in DOMAIN From
    BY <1>3
  <2>1. PICK i \in 1 .. n : entries[i] = Sends(v, t)
    BY DEF EntriesOf, n
  <2> DEFINE P == {j \in 0 .. n : Recorded(path[j], t)}
  <2>2. i \in P
    <3>1. i \in 0 .. n
      BY <1>10
    <3>2. Recorded(path[i], t)
      BY <1>11, <2>0, <2>1
    <3> QED BY <3>1, <3>2
  <2>3. ASSUME NEW j \in i + 1 .. n, j - 1 \in P PROVE j \in P
    <3>1. j \in 1 .. n
      BY <1>10
    <3>2. Recorded(path[j], t)
      BY <1>11, <2>0, <2>3, <3>1
    <3> QED BY <1>10, <3>1, <3>2
  <2>4. i .. n \subseteq P
    <3>1. n \in Nat /\ i \in 0 .. n
      BY <1>10
    <3> HIDE DEF P
    <3> QED BY <2>2, <2>3, <3>1, UpTo
  <2>5. n \in i .. n
    BY <1>10
  <2> QED BY <2>4, <2>5
<1>13. IndexInv(path[n], txs)
  <2>1. path[n] \in T
    BY <1>9, <1>10
  <2> QED BY <2>1 DEF T
<1>14. IndexInv(path[n], {})
  BY <1>12, <1>13 DEF IndexInv
<1>15. Indexed(ix, v, entries) = path[n]
  BY <1>9 DEF Indexed, used, start, UseTxAll, AppendEntryAll
<1> QED BY <1>14, <1>15

-----------------------------------------------------------------------------
(* The explorer. *)

\* The vertices of the snapshot in any order.
LEMMA OrderType ==
  ASSUME NEW S, IsFiniteSet(S), NEW order \in Bijection(1 .. Cardinality(S), S)
  PROVE  order \in Seq(S)
<1>1. Cardinality(S) \in Nat
  BY FS_CardinalityType
<1>2. order \in [1 .. Cardinality(S) -> S]
  BY DEF Bijection, Injection
<1> QED BY <1>1, <1>2

\* The rebuild indexes one vertex after the other.
LEMMA RebuildKeeps ==
  ASSUME NEW ix, IndexInv(ix, {}), NEW order \in Seq(Hash)
  PROVE  IndexInv(InOrder(RebuildVertex, ix, order), {})
<1> DEFINE T == {x \in IndexRecord : IndexInv(x, {})}
           n == Len(order)
<1>1. \A x : x \in T <=> IndexInv(x, {})
  BY DEF IndexInv
<1> HIDE DEF T
<1>2. n \in 0 .. n /\ \A i \in 1 .. n : order[i] \in Hash
  OBVIOUS
<1>3. RebuildVertexStays(T, order)
  <2> SUFFICES ASSUME NEW x \in T, NEW i \in 1 .. n PROVE RebuildVertex(x, order[i]) \in T
    BY DEF RebuildVertexStays
  <2> DEFINE v == order[i]
  <2>1. v \in Hash /\ IndexInv(x, {})
    BY <1>1, <1>2
  <2> HIDE DEF v
  <2> DEFINE entries == <<MiningEntry(v)>> \o PayloadEntries(v)
  <2>2. EntriesOf(entries, v)
    BY <2>1, VertexEntries
  <2>3. RebuildVertex(x, v) = Indexed(x, v, entries)
    BY DEF RebuildVertex
  <2> HIDE DEF entries
  <2>4. IndexInv(RebuildVertex(x, v), {})
    BY <2>1, <2>2, <2>3, IndexedKeeps
  <2> QED BY <1>1, <2>4 DEF v
<1>4. PICK path : RebuildVertexOnPath(T, ix, order, path)
  BY <1>1, <1>3, RebuildVertexPath
<1>5. path[n] \in T /\ path[n] = RebuildVertexAll(ix, order)
  BY <1>2, <1>4 DEF RebuildVertexOnPath
<1>6. IndexInv(RebuildVertexAll(ix, order), {})
  BY <1>1, <1>5
<1> QED BY <1>6 DEF RebuildVertexAll

\* The invariant of the explorer.
ExplorerInv == TrackerInv /\ TaskInv /\ FeedInv /\ IndexInv(index, {})

\* No key is twice in the first n.
LEMMA FirstOfInjective ==
  ASSUME NEW S, NEW s \in Seq(S), IsInjective(s), NEW n \in Nat
  PROVE  IsInjective(FirstOf(s, n)) /\ Len(FirstOf(s, n)) <= n
<1> DEFINE f == FirstOf(s, n)
<1>1. /\ f \in Seq(S) /\ Len(f) = IF Len(s) <= n THEN Len(s) ELSE n
      /\ \A i \in 1 .. Len(f) : f[i] = s[i]
  BY FirstOfElements
<1> HIDE DEF f
<1>2. Len(f) <= n /\ Len(f) <= Len(s) /\ DOMAIN f = 1 .. Len(f) /\ DOMAIN s = 1 .. Len(s)
  BY <1>1
<1>3. \A i \in 1 .. Len(f) : i \in 1 .. Len(s)
  BY <1>1, <1>2
<1>4. IsInjective(f)
  BY <1>1, <1>2, <1>3 DEF IsInjective
<1> QED BY <1>2, <1>4 DEF f

\* The indexes are empty at first.
LEMMA IndexInit ==
  ASSUME ExplorerInit
  PROVE  IndexInv(index, {})
<1>1. index = [blockIndex |-> <<>>, txIndex |-> <<>>, history |-> EmptyMap,
               blockUses |-> <<>>, txUses |-> <<>>,
               log |-> [x \in Address |-> <<>>], dropped |-> [x \in Address |-> 0]]
  BY DEF ExplorerInit
<1>2. \A S : <<>> \in Seq(S) /\ Len(<<>>) = 0 /\ DOMAIN <<>> = {}
  OBVIOUS
<1>3. EmptyMap \in Histories
  <2>1. {} \in SUBSET Address /\ <<>> \in [{} -> Seq(Entry)] /\ <<>> \in Seq(Address)
    BY <1>2
  <2> QED BY <2>1, HistoryMade DEF EmptyMap
<1>4. index \in IndexRecord
  <2>1. [x \in Address |-> <<>>] \in [Address -> Seq(Entry)]
    BY <1>2
  <2>2. [x \in Address |-> 0] \in [Address -> Nat]
    OBVIOUS
  <2> QED BY <1>1, <1>2, <1>3, <2>1, <2>2 DEF IndexRecord
<1>5. Range(<<>>) = {} /\ IsInjective(<<>>)
  BY <1>2 DEF Range, IsInjective
<1>6. \A n \in Nat : FirstOf(<<>>, n) = <<>> /\ 0 <= n
  BY <1>2 DEF FirstOf
<1>7. EmptyMap.data = <<>> /\ EmptyMap.keyOrder = <<>>
  BY DEF EmptyMap
<1>8. HistoryInv(index.history, index.log, index.dropped)
  <2>1. 0 \in 0 .. 0 /\ 0 <= MaxAddressesTracked
    BY ExplorerAssumption
  <2>2. index.history = EmptyMap /\ \A k \in Address : index.log[k] = <<>> /\ index.dropped[k] = 0
    BY <1>1
  <2> HIDE DEF EmptyMap
  <2> QED BY <1>2, <1>5, <1>7, <2>1, <2>2 DEF HistoryInv
<1>9. CacheInv(index)
  <2>1. /\ index.blockIndex = <<>> /\ index.blockUses = <<>>
        /\ index.txIndex = <<>> /\ index.txUses = <<>>
    BY <1>1
  <2>2. MaxBlockIndexSize \in Nat /\ MaxTxIndexSize \in Nat
    BY ExplorerAssumption
  <2> QED BY <1>5, <1>6, <1>8, <2>1, <2>2 DEF CacheInv
<1>10. Range(index.txIndex) = {}
  BY <1>1, <1>5
<1> QED BY <1>4, <1>9, <1>10 DEF IndexInv

\* The invariant holds at first.
LEMMA ExplorerInvInit ==
  ASSUME ExplorerInit
  PROVE  ExplorerInv
<1>1. IndexInv(index, {})
  BY IndexInit
<1>2. /\ confirmations = [h \in Hash |-> 0] /\ stakeWeight = [h \in Hash |-> {}]
      /\ finalized = {} /\ checked = {} /\ now = 0 /\ recorded = {} /\ forgotten = [h \in Hash |-> {}]
      /\ Vertices = {}
  BY DEF ExplorerInit, FinalityInit
<1>3. TrackerInv
  <2>1. \A h : Mentions({}, h) = {} /\ Builders({}, h) = {}
    BY DEF Mentions, Builders, Children
  <2>2. IsFiniteSet({}) /\ Cardinality({}) = 0
    BY FS_EmptySet
  <2>3. ConfirmationsExact
    <3>1. \A h \in Hash : recorded \ forgotten[h] = {}
      BY <1>2
    <3> QED BY <1>2, <2>1, <2>2, <3>1 DEF ConfirmationsExact
  <2>4. FinalityEarned
    BY <1>2 DEF FinalityEarned
  <2>5. FinalityTypeOK
    <3>1. 0 \in 0 .. MaxTime
      BY FinalityAssumption
    <3> QED BY <1>2, <3>1 DEF FinalityTypeOK
  <2> QED BY <1>2, <2>1, <2>2, <2>3, <2>4, <2>5 DEF TrackerInv
<1>4. TaskInv
  <2>1. IsFiniteSet(Vertices)
    BY <1>2, FS_EmptySet
  <2> QED BY <1>2, <2>1 DEF ExplorerInit, TaskInv
<1>5. FeedInv
  <2>1. /\ hub = Waiting /\ clients = {} /\ away = {} /\ stalled = {} /\ owed = [c \in Client |-> {}]
    BY DEF ExplorerInit
  <2>2. Waiting.peers = {} /\ Waiting \in [v : Hash \cup {NoHash}, peers : SUBSET {}, copied : BOOLEAN]
    BY DEF Waiting
  <2> QED BY <2>1, <2>2 DEF FeedInv, FeedComplete
<1> QED BY <1>1, <1>3, <1>4, <1>5 DEF ExplorerInv

\* The steps that leave the tracker alone.
LEMMA TrackerStays ==
  ASSUME TrackerInv, UNCHANGED tracker, Vertices \subseteq Vertices', Vertices' \subseteq Hash
  PROVE  TrackerInv'
<1>1. /\ confirmations' = confirmations /\ stakeWeight' = stakeWeight /\ finalized' = finalized
      /\ checked' = checked /\ now' = now /\ recorded' = recorded /\ forgotten' = forgotten
  BY DEF tracker
<1>2. FinalityTypeOK'
  BY <1>1 DEF TrackerInv, FinalityTypeOK
<1>3. ConfirmationsExact' /\ FinalityEarned'
  BY <1>1 DEF TrackerInv, ConfirmationsExact, FinalityEarned
<1> QED BY <1>1, <1>2, <1>3 DEF TrackerInv

\* The steps that leave the feed alone.
LEMMA FeedStays ==
  ASSUME FeedInv, UNCHANGED service
  PROVE  FeedInv'
BY DEF FeedInv, FeedComplete, service

\* The goroutine of a vertex goes on, and nothing is recorded for another one.
LEMMA TaskMoves ==
  ASSUME TaskInv, NEW v \in Hash, NEW from, NEW to \in {"index", "send", "sent"}, from # "none",
         Moves(v, from, to), recorded' \subseteq recorded \cup {v},
         UNCHANGED <<Vertices, phase, snapshot, gap>>
  PROVE  TaskInv'
<1>1. task' = [task EXCEPT ![v] = to] /\ task[v] = from
  BY DEF Moves
<1>2. task' \in [Hash -> {"none", "record", "index", "send", "sent"}]
  BY <1>1 DEF TaskInv
<1>3. \A w \in Hash : task'[w] = IF w = v THEN to ELSE task[w]
  BY <1>1 DEF TaskInv
<1>4. v \in Vertices
  BY <1>1 DEF TaskInv
<1>5. ASSUME NEW w \in Hash
      PROVE  (task'[w] = "record" => w \notin recorded') /\ (w \notin Vertices => task'[w] = "none")
  BY <1>3, <1>4 DEF TaskInv
<1> QED BY <1>2, <1>5 DEF TaskInv

\* The steps that leave the goroutines alone.
LEMMA TaskStays ==
  ASSUME TaskInv, UNCHANGED <<Vertices, phase, snapshot, gap, task, recorded>>
  PROVE  TaskInv'
BY DEF TaskInv

\* Every step preserves the invariant.
LEMMA ExplorerInvNext ==
  ASSUME ExplorerInv, [ExplorerNext]_explorerVars
  PROVE  ExplorerInv'
<1> USE DEF ExplorerInv
<1>0. Vertices \subseteq Hash
  BY DEF TrackerInv
<1>1. ASSUME Rebuild PROVE ExplorerInv'
  <2>1. /\ phase' = "rebuild" /\ snapshot' = Vertices
        /\ UNCHANGED <<Vertices, tracker, task, index, service, gap>> /\ recorded' = recorded
    BY <1>1 DEF Rebuild, Goes, tracker
  <2>2. TrackerInv' /\ FeedInv'
    BY <1>0, <2>1, TrackerStays, FeedStays
  <2>3. TaskInv'
    BY <2>1 DEF TaskInv
  <2> QED BY <2>1, <2>2, <2>3
<1>2. ASSUME Subscribe PROVE ExplorerInv'
  <2>1. /\ phase' = "index" /\ UNCHANGED <<Vertices, tracker, snapshot, task, service, gap>> /\ recorded' = recorded
    BY <1>2 DEF Subscribe, Goes, tracker
  <2>2. TrackerInv' /\ FeedInv'
    BY <1>0, <2>1, TrackerStays, FeedStays
  <2>3. TaskInv'
    BY <2>1 DEF TaskInv
  <2>4. PICK order \in Bijection(1 .. Cardinality(snapshot), snapshot) : index' = InOrder(RebuildVertex, index, order)
    BY <1>2 DEF Subscribe
  <2>5. order \in Seq(Hash)
    <3>1. snapshot \in SUBSET Vertices /\ IsFiniteSet(Vertices)
      BY DEF TaskInv
    <3>2. IsFiniteSet(snapshot)
      BY <3>1, FS_Subset
    <3>3. order \in Seq(snapshot) /\ snapshot \subseteq Hash
      BY <1>0, <3>1, <3>2, OrderType
    <3> QED BY <3>3
  <2>6. IndexInv(InOrder(RebuildVertex, index, order), {})
    BY <2>5, RebuildKeeps
  <2> QED BY <2>2, <2>3, <2>4, <2>6
<1>3. ASSUME Track PROVE ExplorerInv'
  <2>1. /\ phase' = "track" /\ UNCHANGED <<Vertices, tracker, snapshot, task, index, service, gap>>
        /\ recorded' = recorded
    BY <1>3 DEF Track, Goes, tracker
  <2>2. TrackerInv' /\ FeedInv'
    BY <1>0, <2>1, TrackerStays, FeedStays
  <2>3. TaskInv'
    BY <2>1 DEF TaskInv
  <2> QED BY <2>1, <2>2, <2>3
<1>4. ASSUME NEW v \in Hash, AddVertex(v) PROVE ExplorerInv'
  <2>1. /\ v \notin Vertices /\ Vertices' = Vertices \cup {v} /\ task' = [task EXCEPT ![v] = FirstStep]
        /\ gap' \subseteq gap \cup {v} /\ UNCHANGED <<tracker, phase, snapshot, index, service>>
        /\ recorded' = recorded
    BY <1>4 DEF AddVertex, tracker
  <2>2. TrackerInv' /\ FeedInv'
    BY <1>0, <2>1, TrackerStays, FeedStays
  <2>3. FirstStep \in {"none", "record", "index"}
    BY DEF FirstStep
  <2>4. TaskInv'
    <3>1. IsFiniteSet(Vertices')
      BY <2>1, FS_AddElement DEF TaskInv
    <3>2. task' \in [Hash -> {"none", "record", "index", "send", "sent"}]
      BY <2>1, <2>3 DEF TaskInv
    <3>3. \A w \in Hash : task'[w] = IF w = v THEN FirstStep ELSE task[w]
      BY <2>1 DEF TaskInv
    <3>4. v \notin recorded
      BY <2>1 DEF TrackerInv, FinalityTypeOK
    <3>5. \A w \in Hash : /\ task'[w] = "record" => w \notin recorded'
                          /\ w \notin Vertices' => task'[w] = "none"
      BY <2>1, <3>3, <3>4 DEF TaskInv
    <3> QED BY <2>1, <3>1, <3>2, <3>5 DEF TaskInv
  <2> QED BY <2>1, <2>2, <2>4
<1>5. ASSUME NEW v \in Hash, TaskRecord(v) PROVE ExplorerInv'
  <2>1. Moves(v, "record", "index") /\ RecordVertex(v) /\ UNCHANGED <<Vertices, phase, snapshot, index, service, gap>>
    BY <1>5 DEF TaskRecord
  <2>2. v \in Vertices /\ v \notin recorded
    BY <2>1 DEF Moves, TaskInv
  <2>3. TrackerInv'
    BY <2>1, <2>2, RecordExact
  <2>4. TaskInv'
    <3>1. recorded' \subseteq recorded \cup {v}
      BY <2>1 DEF RecordVertex
    <3> QED BY <2>1, <3>1, TaskMoves
  <2> QED BY <2>1, <2>3, <2>4, FeedStays
<1>6. ASSUME NEW v \in Hash, TaskIndex(v) PROVE ExplorerInv'
  <2>1. /\ Moves(v, "index", "send") /\ index' = Indexed(index, v, CallbackEntries(v))
        /\ UNCHANGED <<Vertices, tracker, phase, snapshot, service, gap>> /\ recorded' = recorded
    BY <1>6 DEF TaskIndex, tracker
  <2>2. TrackerInv' /\ FeedInv'
    BY <1>0, <2>1, TrackerStays, FeedStays
  <2>3. TaskInv'
    BY <2>1, TaskMoves
  <2>4. EntriesOf(CallbackEntries(v), v)
    BY VertexEntries
  <2>5. IndexInv(Indexed(index, v, CallbackEntries(v)), {})
    BY <2>4, IndexedKeeps
  <2> QED BY <2>1, <2>2, <2>3, <2>5
<1>7. ASSUME NEW v \in Hash, TaskSend(v) PROVE ExplorerInv'
  <2>1. Moves(v, "send", "sent") /\ UNCHANGED <<Vertices, tracker, phase, snapshot, index, gap>> /\ recorded' = recorded
    BY <1>7 DEF TaskSend, Received, tracker
  <2>2. TrackerInv' /\ FeedInv'
    BY <1>0, <1>7, <2>1, TrackerStays, FeedSteps
  <2>3. TaskInv'
    BY <2>1, TaskMoves
  <2> QED BY <2>1, <2>2, <2>3
<1>8. ASSUME NEW v \in Hash, LookupBlock(v) PROVE ExplorerInv'
  <2>1. /\ Contains(index.blockIndex, v) /\ UNCHANGED <<Vertices, tracker, phase, snapshot, task, service, gap>>
        /\ index' = [index EXCEPT !.blockIndex = LruGet(@, v), !.blockUses = ToFront(@, v)] /\ recorded' = recorded
    BY <1>8 DEF LookupBlock, tracker
  <2>2. TrackerInv' /\ FeedInv' /\ TaskInv'
    BY <1>0, <2>1, TrackerStays, FeedStays, TaskStays
  <2>3. IndexInv([index EXCEPT !.blockIndex = LruGet(@, v), !.blockUses = ToFront(@, v)], {})
    BY <2>1, UsesKeep
  <2> QED BY <2>1, <2>2, <2>3
<1>9. ASSUME NEW t \in DOMAIN From, LookupTx(t) PROVE ExplorerInv'
  <2>1. /\ Contains(index.txIndex, t) /\ UNCHANGED <<Vertices, tracker, phase, snapshot, task, service, gap>>
        /\ index' = [index EXCEPT !.txIndex = LruGet(@, t), !.txUses = ToFront(@, t)] /\ recorded' = recorded
    BY <1>9 DEF LookupTx, tracker
  <2>2. TrackerInv' /\ FeedInv' /\ TaskInv'
    BY <1>0, <2>1, TrackerStays, FeedStays, TaskStays
  <2>3. IndexInv([index EXCEPT !.txIndex = LruGet(@, t), !.txUses = ToFront(@, t)], {})
    BY <2>1, UsesKeep
  <2> QED BY <2>1, <2>2, <2>3
<1>10. ASSUME \/ CopyClients
              \/ \E c \in Client : WriteJSON(c) \/ WriteFails(c) \/ Join(c) \/ Leave(c) \/ Stall(c)
       PROVE  ExplorerInv'
  <2>1. UNCHANGED <<Vertices, tracker, phase, snapshot, task, index, gap>> /\ recorded' = recorded
    BY <1>10 DEF CopyClients, WriteJSON, WriteFails, Join, Leave, Stall, tracker
  <2>2. TrackerInv' /\ TaskInv'
    BY <1>0, <2>1, TrackerStays, TaskStays
  <2>3. FeedInv'
    BY <1>0, <1>10, FeedSteps
  <2> QED BY <2>1, <2>2, <2>3
<1>11. ASSUME TrackerCall PROVE ExplorerInv'
  <2>1. /\ (\E h \in Hash : IsFinalized(h) \/ SetFinalized(h)) \/ Cleanup \/ Tick
        /\ UNCHANGED <<Vertices, phase, snapshot, task, index, service, gap>>
    BY <1>11 DEF TrackerCall
  <2>2. TrackerInv'
    BY <2>1, TrackerCallExact
  <2>3. recorded' = recorded
    BY <2>1 DEF IsFinalized, SetFinalized, Cleanup, Tick
  <2> QED BY <2>1, <2>2, <2>3, FeedStays, TaskStays
<1>12. ASSUME UNCHANGED explorerVars PROVE ExplorerInv'
  <2>1. UNCHANGED <<Vertices, tracker, phase, snapshot, task, index, service, gap>> /\ recorded' = recorded
    BY <1>12 DEF explorerVars, tracker
  <2> QED BY <1>0, <2>1, TrackerStays, FeedStays, TaskStays
<1> QED BY <1>1, <1>2, <1>3, <1>4, <1>5, <1>6, <1>7, <1>8, <1>9, <1>10, <1>11, <1>12 DEF ExplorerNext

\* The invariant says what the properties say.
LEMMA ExplorerInvMeaning ==
  ASSUME ExplorerInv
  PROVE  /\ ExplorerTypeOK /\ ConfirmationsExact /\ FinalityEarned
         /\ CachesKeepRecent /\ TxHasRecord /\ FeedComplete
<1> DEFINE h == index.history
<1>1. ConfirmationsExact /\ FinalityEarned /\ FeedComplete
  BY DEF ExplorerInv, TrackerInv, FeedInv
<1>2. index \in IndexRecord /\ CacheInv(index) /\ HistoryInv(h, index.log, index.dropped)
  BY DEF ExplorerInv, IndexInv, CacheInv
<1>3. CachesKeepRecent
  BY <1>2 DEF CacheInv, HistoryInv, CachesKeepRecent, Slice
<1>4. TxHasRecord
  BY DEF ExplorerInv, IndexInv, Recorded, RecordIn, TxHasRecord
<1>5. /\ index.blockUses \in Seq(Hash) /\ index.txUses \in Seq(DOMAIN From) /\ h \in Histories
      /\ index.log \in [Address -> Seq(Entry)] /\ index.dropped \in [Address -> Nat]
  BY <1>2, IndexType
<1>6. /\ IsInjective(index.blockIndex) /\ Len(index.blockIndex) <= MaxBlockIndexSize
      /\ IsInjective(index.txIndex) /\ Len(index.txIndex) <= MaxTxIndexSize
  <2>1. MaxBlockIndexSize \in Nat /\ MaxTxIndexSize \in Nat
    BY ExplorerAssumption
  <2> QED BY <1>2, <1>5, <2>1, FirstOfInjective DEF CacheInv
<1>7. ASSUME NEW k \in DOMAIN h.data PROVE Len(h.data[k]) \in 1 .. MaxHistoryPerAddress
  <2>1. k \in Address
    BY <1>5, HistoriesType
  <2> DEFINE l == index.log[k]
             d == index.dropped[k]
  <2>2. l \in Seq(Entry) /\ d \in Nat /\ d < Len(l) /\ h.data[k] = Slice(l, d)
    BY <1>2, <1>5, <2>1 DEF HistoryInv
  <2> HIDE DEF l, d
  <2>3. d \in 0 .. Len(l)
    BY <2>2
  <2>4. Len(Slice(l, d)) = IF Len(l) - d <= MaxHistoryPerAddress THEN Len(l) - d ELSE MaxHistoryPerAddress
    BY <2>2, <2>3, SliceElements
  <2>5. MaxHistoryPerAddress \in Nat \ {0}
    BY ExplorerAssumption
  <2>6. Len(Slice(l, d)) \in 1 .. MaxHistoryPerAddress
    <3> DEFINE a == Len(l)
    <3>1. a \in Nat /\ d \in Nat /\ d < a
      BY <2>2
    <3> HIDE DEF a
    <3> QED BY <2>4, <2>5, <3>1 DEF a
  <2> QED BY <2>2, <2>6
<1>8. /\ IsInjective(h.keyOrder) /\ Len(h.keyOrder) <= MaxAddressesTracked
      /\ Range(h.keyOrder) = DOMAIN h.data
  BY <1>2 DEF HistoryInv
<1>9. /\ hub.v \in Hash \cup {NoHash} /\ hub.peers \subseteq clients
      /\ clients \subseteq Client /\ away \subseteq Client /\ stalled \subseteq clients
  BY DEF ExplorerInv, FeedInv
<1>10. ExplorerTypeOK
  BY <1>6, <1>7, <1>8, <1>9 DEF ExplorerInv, TrackerInv, TaskInv, ExplorerTypeOK
<1> QED BY <1>1, <1>3, <1>4, <1>10

\* The invariant holds always.
LEMMA ExplorerInvariant == ExplorerSpec => []ExplorerInv
BY ExplorerInvInit, ExplorerInvNext, PTL DEF ExplorerSpec

\* The caches never pass their bounds and never hold a key twice, and the order of
\* eviction has exactly the keys of the history (LRU, BoundedMap).
THEOREM ExplorerTypeCorrect == ExplorerSpec => []ExplorerTypeOK
BY ExplorerInvariant, ExplorerInvMeaning, PTL

\* The confirmations and validators of a vertex are those of its recorded children
\* in whatever order the callbacks run (RecordVertex, Cleanup).
THEOREM ConfirmationsAreExact == ExplorerSpec => []ConfirmationsExact
BY ExplorerInvariant, ExplorerInvMeaning, PTL

\* A vertex is final only when it earned it, although the lock is released between
\* the check and the recording (IsFinalized).
THEOREM FinalityIsEarned == ExplorerSpec => []FinalityEarned
BY ExplorerInvariant, ExplorerInvMeaning, PTL

\* The caches hold exactly what was used last, as if they had never been cut
\* (LRU.Get, LRU.Set, BoundedMap.Append).
THEOREM CachesAreRecent == ExplorerSpec => []CachesKeepRecent
BY ExplorerInvariant, ExplorerInvMeaning, PTL

\* A transaction in the index has its record in the history of its sender, unless
\* that is full or was evicted since (the callback's critical section).
THEOREM TxsHaveRecords == ExplorerSpec => []TxHasRecord
BY ExplorerInvariant, ExplorerInvMeaning, PTL

\* A client that stays is sent every vertex that is broadcast while it is connected
\* (the broadcaster).
THEOREM FeedsAreComplete == ExplorerSpec => []FeedComplete
BY ExplorerInvariant, ExplorerInvMeaning, PTL
=============================================================================
