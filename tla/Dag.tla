--------------------------------- MODULE Dag ---------------------------------
(***************************************************************************)
(* core/pulse/store.go: the DAG of vertices (blocks) in memory and in the  *)
(* database.  AddVertex is called by the reader goroutine of every peer    *)
(* and by the miner.  It updates memory under the mutex; after that,       *)
(* without the mutex, it saves the vertex, the tips and the recent list in *)
(* one database transaction.  Vertices arrive in any order and any number  *)
(* of times, the transaction may fail (the error is only logged), and the  *)
(* process may stop at any point.                                          *)
(*                                                                         *)
(* Reading vs.Tips and vs.Recent while another thread changes them is a    *)
(* data race.  An iteration over a map that changes meanwhile yields every *)
(* key that was there all the time and any of those that were there for a  *)
(* part of it; a slice header read while it is written mixes the pointer   *)
(* of one of its values with the length of another.                        *)
(***************************************************************************)
EXTENDS Integers, Sequences, FiniteSets

CONSTANTS
  Hash,          \* the vertices, by their hashes
  Parents,       \* Parents[h]: the parents of vertex h
  NoHash,        \* what lies behind the end of a slice
  Threads,       \* the goroutines that call AddVertex
  MaxRecent,     \* 50
  MaxRestarts    \* bound: crashes

ASSUME DagAssumption ==
  /\ Parents \in [Hash -> SUBSET Hash]
  /\ \A h \in Hash : h \notin Parents[h]
  /\ NoHash \notin Hash
  /\ MaxRecent \in Nat \ {0}
  /\ MaxRestarts \in Nat

VARIABLES
  Vertices, Tips, Recent,   \* VertexStore
  disk,        \* "v:", "meta:tips" and "meta:recent" in the database
  thread,      \* where each thread is in AddVertex and what it has read
  late,        \* history: vertices added after one of their children
  failed,      \* history: vertices whose transaction failed, and no later one saved them
  overlapped,  \* history: an AddVertex began while another was running
  unread,      \* history: a start could not read the saved tips
  restarts

memory == <<Vertices, Tips, Recent>>
dagVars == <<memory, disk, thread, late, failed, overlapped, unread, restarts>>

\* A thread: the step and the argument of its AddVertex, the keys its iteration
\* over Tips must and may yield, the values Recent had while it was about to
\* read it, and what its transaction will write.
Idle == [pc |-> "idle", v |-> NoHash, must |-> {}, may |-> {}, seen |-> {},
         tips |-> {}, recent |-> <<>>]

At(t, step) == thread[t].pc = step

\* NewVertexStore on an empty database.
DagInit ==
  /\ Vertices = {}
  /\ Tips = {}
  /\ Recent = <<>>
  /\ disk = [v |-> {}, tips |-> {}, recent |-> <<>>]
  /\ thread = [t \in Threads |-> Idle]
  /\ late = {}
  /\ failed = {}
  /\ overlapped = FALSE
  /\ unread = FALSE
  /\ restarts = 0

KnownChildren(h) == {u \in Vertices : h \in Parents[u]}

-----------------------------------------------------------------------------

\* The mutated form: a vertex is a tip only if it has parents that are tips.
TipsAfterMutant(h) ==
  IF Parents[h] \cap Tips = {} /\ Tips # {} THEN Tips
  ELSE (Tips \cup {h}) \ Parents[h]

\* The new vertex is a tip, its parents are no longer.
TipsAfter(h) == (Tips \cup {h}) \ Parents[h]

\* AddVertex writes Recent twice: the newest first, and then the first MaxRecent.
RecentLonger(h) == <<h>> \o Recent

RecentAfter(h) ==
  IF Len(RecentLonger(h)) > MaxRecent THEN SubSeq(RecentLonger(h), 1, MaxRecent)
  ELSE RecentLonger(h)

\* A thread that reads Tips or Recent while AddVertex(h) changes them.
Overtaken(r, h) ==
  [r EXCEPT !.must = IF r.pc = "tips" THEN @ \cap TipsAfter(h) ELSE @,
            !.may = IF r.pc = "tips" THEN @ \cup TipsAfter(h) ELSE @,
            !.seen = IF r.pc = "recent" THEN @ \cup {RecentLonger(h), RecentAfter(h)} ELSE @]

\* The locked part of AddVertex(h).  For a vertex that is already in memory
\* AddVertex returns at once and changes nothing, saved or not: a stutter.
Insert(t, h) ==
  /\ At(t, "idle")
  /\ h \notin Vertices
  /\ Vertices' = Vertices \cup {h}
  /\ Tips' = TipsAfter(h)
  /\ Recent' = RecentAfter(h)
  /\ thread' = [u \in Threads |->
                  IF u = t THEN [Idle EXCEPT !.pc = "persist", !.v = h]
                  ELSE Overtaken(thread[u], h)]
  /\ late' = IF KnownChildren(h) # {} THEN late \cup {h} ELSE late
  /\ overlapped' = (overlapped \/ \E u \in Threads : ~ At(u, "idle"))
  /\ UNCHANGED <<disk, failed, unread, restarts>>

\* The transaction begins and saveTipsTxn starts to iterate.
BeginTxn(t) ==
  /\ At(t, "persist")
  /\ thread' = [thread EXCEPT ![t].pc = "tips", ![t].must = Tips, ![t].may = Tips]
  /\ UNCHANGED <<memory, disk, late, failed, overlapped, unread, restarts>>

saveTipsTxn(t) ==
  /\ At(t, "tips")
  /\ \E tips \in SUBSET thread[t].may :
       /\ thread[t].must \subseteq tips
       /\ thread' = [thread EXCEPT ![t].pc = "recent", ![t].tips = tips,
                                    ![t].seen = {Recent}]
  /\ UNCHANGED <<memory, disk, late, failed, overlapped, unread, restarts>>

\* The pointer of one value of Recent with the length of another.
TornRecent(seen) ==
  {[i \in 1 .. Len(n) |-> IF i <= Len(p) THEN p[i] ELSE NoHash] : p \in seen, n \in seen}

saveRecentTxn(t) ==
  /\ At(t, "recent")
  /\ \E recent \in TornRecent(thread[t].seen) :
       thread' = [thread EXCEPT ![t].pc = "commit", ![t].recent = recent]
  /\ UNCHANGED <<memory, disk, late, failed, overlapped, unread, restarts>>

\* The mutated form: the vertex is saved only when it is still a tip.
CommitMutant(t) ==
  /\ At(t, "commit")
  /\ disk' = [v |-> disk.v \cup ({thread[t].v} \cap thread[t].tips),
              tips |-> thread[t].tips, recent |-> thread[t].recent]
  /\ thread' = [thread EXCEPT ![t] = Idle]
  /\ failed' = failed \ {thread[t].v}
  /\ UNCHANGED <<memory, late, overlapped, unread, restarts>>

\* The transaction only writes, so it never conflicts: the last commit wins.
Commit(t) ==
  /\ At(t, "commit")
  /\ disk' = [v |-> disk.v \cup {thread[t].v},
              tips |-> thread[t].tips, recent |-> thread[t].recent]
  /\ thread' = [thread EXCEPT ![t] = Idle]
  /\ failed' = failed \ {thread[t].v}
  /\ UNCHANGED <<memory, late, overlapped, unread, restarts>>

\* The transaction fails, at a Set or at its commit, and AddVertex only logs it.
FailedUpdate(t) ==
  /\ ~ At(t, "idle")
  /\ thread' = [thread EXCEPT ![t] = Idle]
  /\ failed' = failed \cup {thread[t].v}
  /\ UNCHANGED <<memory, disk, late, overlapped, unread, restarts>>

\* The mutated form: the tips are not loaded.
LoadTipsMutant == Tips' = {} /\ Recent' = disk.recent /\ unread' = unread

\* Either of the two values may be unreadable; it is then left empty.
LoadTips ==
  /\ \/ Tips' = disk.tips /\ unread' = unread
     \/ Tips' = {} /\ unread' = TRUE
  /\ Recent' \in {disk.recent, <<>>}

\* The process stops anywhere; NewVertexStore loads the tips and the recent
\* list, and no vertices.
Restart ==
  /\ restarts < MaxRestarts
  /\ restarts' = restarts + 1
  /\ Vertices' = {}
  /\ LoadTips
  /\ thread' = [t \in Threads |-> Idle]
  /\ late' = {}
  /\ UNCHANGED <<disk, failed, overlapped>>

DagNext ==
  \/ \E t \in Threads, h \in Hash : Insert(t, h)
  \/ \E t \in Threads : \/ BeginTxn(t) \/ saveTipsTxn(t) \/ saveRecentTxn(t)
                        \/ Commit(t) \/ FailedUpdate(t)
  \/ Restart

DagSpec == DagInit /\ [][DagNext]_dagVars

-----------------------------------------------------------------------------

\* A recent list, possibly with what lies behind a slice and, when it is read
\* between the two writes of AddVertex, longer than MaxRecent by one.
RecentList == {r \in Seq(Hash \cup {NoHash}) : Len(r) <= MaxRecent + 1}

ThreadState ==
  [pc : {"idle", "persist", "tips", "recent", "commit"}, v : Hash \cup {NoHash},
   must : SUBSET Hash, may : SUBSET Hash, seen : SUBSET RecentList,
   tips : SUBSET Hash, recent : RecentList]

\* The type invariant: the tips a transaction saves are vertices, and the recent
\* list exceeds MaxRecent by at most one: in the database and right after a
\* start, when it was saved between the two writes of AddVertex, and never again
\* once a vertex was added.
DagTypeOK ==
  /\ Vertices \subseteq Hash /\ Tips \subseteq Hash /\ Recent \in RecentList
  /\ Len(Recent) <= MaxRecent \/ Vertices = {}
  /\ disk \in [v : SUBSET Hash, tips : SUBSET Hash, recent : RecentList]
  /\ thread \in [Threads -> ThreadState]
  /\ late \subseteq Vertices /\ failed \subseteq Hash
  /\ overlapped \in BOOLEAN /\ unread \in BOOLEAN
  /\ \A t \in Threads : IF At(t, "idle") THEN thread[t] = Idle ELSE thread[t].v \in Vertices

\* The tips are the wavefront, whatever the threads do and whatever order the
\* vertices arrive in: every known vertex without a known child is a tip, and
\* the only other tips are vertices that came after one of their children
\* (AddVertex).
Wavefront ==
  /\ \A h \in Vertices : KnownChildren(h) = {} => h \in Tips
  /\ \A h \in Tips : KnownChildren(h) = {} \/ h \in late

\* Every vertex that memory knows is in the database, or a thread is still
\* saving it, or its transaction failed, whatever order the transactions of the
\* threads end in.  So a caller whose AddVertex returned at once, because another
\* thread had just added the vertex, may find it missing after a crash, and a
\* vertex whose transaction failed is never saved again before a restart: every
\* later AddVertex of it returns at once.
KnownIsSaved ==
  Vertices \subseteq disk.v \cup failed \cup {thread[t].v : t \in Threads}

\* As long as no two AddVertex have run at the same time and every start could
\* read the saved tips, the tips in the database cover the vertices in the
\* database, whatever crashes happen: a saved vertex without a saved child is a
\* saved tip, so that a restarted miner builds on it, unless a child of it was
\* added and could not be saved (AddVertex saves the vertex and the tips in one
\* transaction, LoadTips).  Without the first condition it is false: the mutex
\* is not held while the tips are read and saved, and an older list can be
\* committed last.
DiskWavefront ==
  \/ overlapped \/ unread
  \/ \A h \in disk.v : (\A u \in disk.v \cup failed : h \notin Parents[u]) => h \in disk.tips

=============================================================================
