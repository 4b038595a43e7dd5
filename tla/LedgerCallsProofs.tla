-------------------------- MODULE LedgerCallsProofs --------------------------
(***************************************************************************)
(* Proofs about LedgerCalls, for every finite set of addresses, every      *)
(* width of the integers and any number of crashes and failed saves:       *)
(* second part, the writes, the crashes, the refinement of Ledger and the  *)
(* theorems.                                                               *)
(***************************************************************************)
EXTENDS ExecuteProofs

\* Most steps have no arithmetic: Zenon is tried before the SMT solver.
USE ZenonT(2), SMTT(20), ZenonT(20)

-----------------------------------------------------------------------------
(* The effects a crash could repeat. *)

\* There are finitely many pairs of an address and a nonce.
LEMMA PairsFinite == IsFiniteSet(Pairs)
<1>1. IsFiniteSet(Addr) /\ MaxNonce \in Nat
  BY LedgerCallsAssumption
<1>2. IsFiniteSet(1 .. MaxNonce)
  BY <1>1, FS_Interval
<1> QED BY <1>1, <1>2, FS_Product DEF Pairs

Counts == [Addr -> [1 .. MaxNonce -> Nat]]

\* The entry of one nonce.
LEMMA ExposedAt ==
  ASSUME NEW ap \in Counts, NEW st \in [Addr -> Account], NEW un, NEW p \in Pairs
  PROVE  /\ p[1] \in Addr /\ p[2] \in 1 .. MaxNonce /\ p[2] \in Nat
         /\ ap[p[1]][p[2]] \in Nat /\ st[p[1]].Nonce \in Nat
         /\ Exposed(ap, st, un)[p] = IF p[1] \in un THEN 0
                                     ELSE IF p[2] > st[p[1]].Nonce THEN ap[p[1]][p[2]]
                                     ELSE IF ap[p[1]][p[2]] > 1 THEN ap[p[1]][p[2]] - 1 ELSE 0
         /\ Exposed(ap, st, un)[p] \in Int
<1>1. p[1] \in Addr /\ p[2] \in 1 .. MaxNonce /\ p[2] \in Nat
  BY LedgerCallsAssumption DEF Pairs
<1>2. ap[p[1]][p[2]] \in Nat
  <2>1. ap[p[1]] \in [1 .. MaxNonce -> Nat]
    BY <1>1 DEF Counts
  <2> QED BY <1>1, <2>1
<1>3. st[p[1]].Nonce \in Nat
  BY <1>1 DEF Account
<1>4. Exposed(ap, st, un)[p] = IF p[1] \in un THEN 0
                               ELSE IF p[2] > st[p[1]].Nonce THEN ap[p[1]][p[2]]
                               ELSE IF ap[p[1]][p[2]] > 1 THEN ap[p[1]][p[2]] - 1 ELSE 0
  BY DEF Exposed
<1> QED BY <1>1, <1>2, <1>3, <1>4

\* The effects of nonces beyond the first use add up to an integer.
LEMMA ExposedSum ==
  ASSUME NEW ap \in Counts, NEW st \in [Addr -> Account], NEW un
  PROVE  SumOver(Exposed(ap, st, un), Pairs) \in Int
<1>1. \A p \in Pairs : Exposed(ap, st, un)[p] \in Int
  BY ExposedAt
<1> QED BY <1>1, PairsFinite, SumType

\* A save exposes nothing, and the save of a nonce whose effects are written
\* covers one of them.
LEMMA SaveExposes ==
  ASSUME NEW ap \in Counts, NEW st \in [Addr -> Account], NEW st2 \in [Addr -> Account], NEW un,
         \A a \in Addr \ un : st2[a].Nonce >= st[a].Nonce
  PROVE  /\ SumOver(Exposed(ap, st2, un), Pairs) <= SumOver(Exposed(ap, st, un), Pairs)
         /\ \A q \in Pairs : /\ q[1] \notin un /\ ap[q[1]][q[2]] >= 1
                             /\ q[2] > st[q[1]].Nonce /\ q[2] <= st2[q[1]].Nonce
              => SumOver(Exposed(ap, st2, un), Pairs) <= SumOver(Exposed(ap, st, un), Pairs) - 1
<1>1. ASSUME NEW p \in Pairs PROVE Exposed(ap, st2, un)[p] <= Exposed(ap, st, un)[p]
  <2>1. p[1] \in un \/ st2[p[1]].Nonce >= st[p[1]].Nonce
    BY ExposedAt
  <2> QED BY <2>1, ExposedAt
<1>2. \A p \in Pairs : Exposed(ap, st, un)[p] \in Int /\ Exposed(ap, st2, un)[p] \in Int
  BY ExposedAt
<1>3. SumOver(Exposed(ap, st2, un), Pairs) <= SumOver(Exposed(ap, st, un), Pairs)
  BY <1>1, <1>2, PairsFinite, SumMonotone
<1>4. ASSUME NEW q \in Pairs, q[1] \notin un, ap[q[1]][q[2]] >= 1,
             q[2] > st[q[1]].Nonce, q[2] <= st2[q[1]].Nonce
      PROVE  SumOver(Exposed(ap, st2, un), Pairs) <= SumOver(Exposed(ap, st, un), Pairs) - 1
  <2>1. Exposed(ap, st2, un)[q] <= Exposed(ap, st, un)[q] - 1
    BY <1>4, ExposedAt
  <2> QED BY <1>1, <1>2, <2>1, PairsFinite, SumStrict
<1> QED BY <1>3, <1>4

\* The effects of one call expose at most one.
LEMMA EffectExposes ==
  ASSUME NEW ap \in Counts, NEW ap2 \in Counts, NEW st \in [Addr -> Account], NEW un,
         NEW a \in Addr, NEW n \in 1 .. MaxNonce,
         ap2 = [ap EXCEPT ![a][n] = @ + 1]
  PROVE  SumOver(Exposed(ap2, st, un), Pairs) <= SumOver(Exposed(ap, st, un), Pairs) + 1
<1> DEFINE q == <<a, n>>
           mid == [p \in Pairs |-> IF p = q THEN Exposed(ap, st, un)[p] + 1 ELSE Exposed(ap, st, un)[p]]
<1>0. q \in Pairs /\ q[1] = a /\ q[2] = n
  BY DEF Pairs
<1>a. \A p \in Pairs : p = q \/ p[1] # a \/ p[2] # n
  BY DEF Pairs
<1>b. \A p \in Pairs : ap2[p[1]][p[2]] = IF p[1] = a /\ p[2] = n THEN ap[p[1]][p[2]] + 1
                                         ELSE ap[p[1]][p[2]]
  <2> TAKE p \in Pairs
  <2>1. p[1] \in Addr /\ p[2] \in 1 .. MaxNonce
    BY ExposedAt
  <2>2. ap[p[1]] \in [1 .. MaxNonce -> Nat]
    BY <2>1 DEF Counts
  <2>3. ap2[p[1]] = IF p[1] = a THEN [ap[p[1]] EXCEPT ![n] = @ + 1] ELSE ap[p[1]]
    BY <2>1 DEF Counts
  <2>4. CASE p[1] = a
    <3>1. ap2[p[1]] = [ap[p[1]] EXCEPT ![n] = ap[p[1]][n] + 1]
      BY <2>3, <2>4
    <3> QED BY <2>1, <2>2, <2>4, <3>1
  <2>5. CASE p[1] # a
    BY <2>3, <2>5
  <2> QED BY <2>4, <2>5
<1>1. \A p \in Pairs : Exposed(ap, st, un)[p] \in Int /\ Exposed(ap2, st, un)[p] \in Int
  BY ExposedAt
<1>2. /\ \A p \in Pairs : mid[p] \in Int
      /\ \A p \in Pairs \ {q} : Exposed(ap, st, un)[p] = mid[p]
      /\ mid[q] = Exposed(ap, st, un)[q] + 1 /\ Exposed(ap, st, un)[q] \in Int
  BY <1>0, <1>1
<1>3. ASSUME NEW p \in Pairs PROVE Exposed(ap2, st, un)[p] <= mid[p]
  <2>1. CASE p = q
    <3>1. ap2[q[1]][q[2]] = ap[q[1]][q[2]] + 1
      BY <1>0, <1>b
    <3> HIDE DEF q, mid
    <3>2. ap[q[1]][q[2]] \in Nat
      BY <1>0, ExposedAt
    <3>3. Exposed(ap, st, un)[q] = IF q[1] \in un THEN 0
                                   ELSE IF q[2] > st[q[1]].Nonce THEN ap[q[1]][q[2]]
                                   ELSE IF ap[q[1]][q[2]] > 1 THEN ap[q[1]][q[2]] - 1 ELSE 0
      BY <1>0, ExposedAt
    <3>4. Exposed(ap2, st, un)[q] = IF q[1] \in un THEN 0
                                    ELSE IF q[2] > st[q[1]].Nonce THEN ap2[q[1]][q[2]]
                                    ELSE IF ap2[q[1]][q[2]] > 1 THEN ap2[q[1]][q[2]] - 1 ELSE 0
      BY <1>0 DEF Exposed
    <3> DEFINE x == ap[q[1]][q[2]]
               e == Exposed(ap, st, un)[q]
               e2 == Exposed(ap2, st, un)[q]
               fresh == q[2] > st[q[1]].Nonce
               out == q[1] \in un
    <3>5. /\ x \in Nat
          /\ e = IF out THEN 0 ELSE IF fresh THEN x ELSE IF x > 1 THEN x - 1 ELSE 0
          /\ e2 = IF out THEN 0 ELSE IF fresh THEN x + 1 ELSE IF x + 1 > 1 THEN x + 1 - 1 ELSE 0
      BY <3>1, <3>2, <3>3, <3>4
    <3> HIDE DEF x, e, e2, fresh, out
    <3>6. e2 <= e + 1
      BY <3>5
    <3> QED BY <1>2, <2>1, <3>6 DEF e, e2
  <2>2. CASE p # q
    <3>1. ap2[p[1]][p[2]] = ap[p[1]][p[2]]
      BY <1>a, <1>b, <2>2
    <3>2. Exposed(ap2, st, un)[p] = Exposed(ap, st, un)[p]
      BY <3>1 DEF Exposed
    <3> HIDE DEF q, mid
    <3> QED BY <1>1, <1>2, <2>2, <3>2
  <2> QED BY <2>1, <2>2
<1> HIDE DEF q, mid
<1>4. SumOver(mid, Pairs) = SumOver(Exposed(ap, st, un), Pairs) - Exposed(ap, st, un)[q] + mid[q]
  BY <1>0, <1>1, <1>2, PairsFinite, SumChange
<1>5. SumOver(Exposed(ap2, st, un), Pairs) <= SumOver(mid, Pairs)
  BY <1>1, <1>2, <1>3, PairsFinite, SumMonotone
<1>6. SumOver(Exposed(ap, st, un), Pairs) \in Int
  BY ExposedSum
<1>7. SumOver(mid, Pairs) = SumOver(Exposed(ap, st, un), Pairs) + 1
  BY <1>2, <1>4, <1>6
<1> QED BY <1>5, <1>7

\* The effects of an account that failed to load are not counted.
LEMMA UncountedEffect ==
  ASSUME NEW ap \in Counts, NEW ap2 \in Counts, NEW st \in [Addr -> Account], NEW un,
         \A a \in Addr \ un : ap2[a] = ap[a]
  PROVE  SumOver(Exposed(ap2, st, un), Pairs) <= SumOver(Exposed(ap, st, un), Pairs)
<1>1. ASSUME NEW p \in Pairs PROVE Exposed(ap2, st, un)[p] <= Exposed(ap, st, un)[p]
  <2>1. p[1] \in un \/ ap2[p[1]] = ap[p[1]]
    BY ExposedAt
  <2> QED BY <2>1, ExposedAt
<1>2. \A p \in Pairs : Exposed(ap, st, un)[p] \in Int /\ Exposed(ap2, st, un)[p] \in Int
  BY ExposedAt
<1> QED BY <1>1, <1>2, PairsFinite, SumMonotone

\* The more accounts fail to load, the fewer are counted.
LEMMA FewerCounted ==
  ASSUME NEW ap \in Counts, NEW st \in [Addr -> Account], NEW un, NEW un2, un \subseteq un2
  PROVE  SumOver(Exposed(ap, st, un2), Pairs) <= SumOver(Exposed(ap, st, un), Pairs)
<1>1. ASSUME NEW p \in Pairs PROVE Exposed(ap, st, un2)[p] <= Exposed(ap, st, un)[p]
  <2>1. p[1] \in un => p[1] \in un2
    OBVIOUS
  <2> QED BY <2>1, ExposedAt
<1>2. \A p \in Pairs : Exposed(ap, st, un)[p] \in Int /\ Exposed(ap, st, un2)[p] \in Int
  BY ExposedAt
<1> QED BY <1>1, <1>2, PairsFinite, SumMonotone

-----------------------------------------------------------------------------
(* The other steps. *)

\* A setter's write and its save, or the save that fails.
LEMMA PersistKeeps ==
  ASSUME CallsTypeOK, DiskInv, NEW written \in [Addr -> Account], NEW a \in Addr,
         accounts' = written, unread' = unread, persistAccount(a, written),
         \A b \in Addr \ {a} : written[b] = accounts[b],
         written[a].Nonce >= accounts[a].Nonce
  PROVE  /\ disk' \in [Addr -> Account] /\ unsaved' \in SUBSET Addr /\ failures' \in Nat
         /\ DiskInv'
         /\ \A b \in Addr \ unread : disk'[b].Nonce >= disk[b].Nonce
         /\ \/ disk' = [disk EXCEPT ![a] = written[a]] /\ failures' = failures
            \/ disk' = disk /\ failures' = failures + 1
<1>1. /\ disk \in [Addr -> Account] /\ unsaved \in SUBSET Addr /\ failures \in Nat
      /\ accounts \in [Addr -> Account]
  BY DEF CallsTypeOK
<1>2. /\ \A b \in Addr \ unsaved : disk[b] = accounts[b]
      /\ \A b \in Addr \ unread : disk[b].Nonce <= accounts[b].Nonce
  BY DEF DiskInv
<1>3. \A b \in Addr : /\ disk[b].Nonce \in Nat /\ accounts[b].Nonce \in Nat
                      /\ written[b].Nonce \in Nat
  BY <1>1 DEF Account
<1>4. CASE disk' = [disk EXCEPT ![a] = written[a]] /\ unsaved' = unsaved \ {a}
           /\ UNCHANGED failures
  <2>1. disk' \in [Addr -> Account] /\ unsaved' \in SUBSET Addr /\ failures' \in Nat
    BY <1>1, <1>4
  <2>2. disk'[a] = written[a] /\ \A b \in Addr \ {a} : disk'[b] = disk[b]
    BY <1>1, <1>4
  <2>3. \A b \in Addr \ unsaved' : disk'[b] = accounts'[b]
    BY <1>2, <1>4, <2>2
  <2>4. \A b \in Addr \ unread :
          disk'[b].Nonce <= accounts'[b].Nonce /\ disk'[b].Nonce >= disk[b].Nonce
    <3> TAKE b \in Addr \ unread
    <3>1. CASE b = a
      BY <1>2, <1>3, <2>2, <3>1
    <3>2. CASE b # a
      BY <1>2, <1>3, <2>2, <3>2
    <3> QED BY <3>1, <3>2
  <2> QED BY <1>4, <2>1, <2>3, <2>4 DEF DiskInv
<1>5. CASE failures' = failures + 1 /\ unsaved' = unsaved \cup {a} /\ UNCHANGED disk
  <2>1. disk' \in [Addr -> Account] /\ unsaved' \in SUBSET Addr /\ failures' \in Nat
    BY <1>1, <1>5
  <2>2. \A b \in Addr \ unsaved' : disk'[b] = accounts'[b]
    BY <1>2, <1>5
  <2>3. \A b \in Addr \ unread :
          disk'[b].Nonce <= accounts'[b].Nonce /\ disk'[b].Nonce >= disk[b].Nonce
    <3> TAKE b \in Addr \ unread
    <3>1. CASE b = a
      BY <1>2, <1>3, <1>5, <3>1
    <3>2. CASE b # a
      BY <1>2, <1>3, <1>5, <3>2
    <3> QED BY <3>1, <3>2
  <2> QED BY <1>5, <2>1, <2>2, <2>3 DEF DiskInv
<1> QED BY <1>4, <1>5 DEF persistAccount

\* What the next write is.
LEMMA NextWrite ==
  ASSUME IInv, Set
  PROVE  /\ Len(todo) \in Nat \ {0} /\ todo' \in Seq(WriteRec) /\ Len(todo') = Len(todo) - 1
         /\ \A i \in 1 .. Len(todo') : todo'[i] = todo[i + 1]
         /\ todo[1] \in WriteRec /\ GoodWrite(1) /\ Head(todo) = todo[1]
         /\ accounts' = todo[1].accounts /\ accounts' \in [Addr -> Account]
         /\ persistAccount(todo[1].addr, todo[1].accounts)
         /\ (todo' = <<>> <=> Len(todo) = 1)
<1>1. todo \in Seq(WriteRec) /\ todo # <<>>
  BY DEF IInv, CallsTypeOK, Set
<1>2. Len(todo) \in Nat \ {0} /\ Head(todo) = todo[1] /\ todo[1] \in WriteRec
  BY <1>1
<1>3. todo' = Tail(todo)
  BY DEF Set
<1>4. todo' \in Seq(WriteRec) /\ Len(todo') = Len(todo) - 1
  BY <1>1, <1>2, <1>3
<1>5. \A i \in 1 .. Len(todo') : todo'[i] = todo[i + 1]
  BY <1>1, <1>2, <1>3, <1>4
<1>6. GoodWrite(1)
  BY <1>2 DEF IInv, CallInv
<1>7. accounts' = todo[1].accounts /\ persistAccount(todo[1].addr, todo[1].accounts)
  BY <1>2 DEF Set
<1>8. accounts' \in [Addr -> Account]
  BY <1>2, <1>7 DEF WriteRec
<1>9. todo' = <<>> <=> Len(todo) = 1
  BY <1>2, <1>4
<1> QED BY <1>2, <1>4, <1>5, <1>6, <1>7, <1>8, <1>9

\* The last write of a successful call.
Returns == call # <<>> /\ Len(todo) = 1

\* What a setter does to the database: it saves the account it wrote, or the
\* save fails and is counted.
LEMMA SetDisk ==
  ASSUME IInv, Set
  PROVE  /\ disk' \in [Addr -> Account] /\ unsaved' \in SUBSET Addr /\ failures' \in Nat
         /\ DiskInv'
         /\ \A b \in Addr \ unread : disk'[b].Nonce >= disk[b].Nonce
         /\ \/ disk' = [disk EXCEPT ![todo[1].addr] = accounts'[todo[1].addr]] /\ failures' = failures
            \/ disk' = disk /\ failures' = failures + 1
<1>1. /\ todo[1] \in WriteRec /\ GoodWrite(1) /\ accounts' = todo[1].accounts
      /\ accounts' \in [Addr -> Account] /\ persistAccount(todo[1].addr, accounts')
  BY NextWrite
<1>2. todo[1].addr \in Addr
  BY <1>1 DEF WriteRec
<1>3. \A b \in Addr \ {todo[1].addr} : accounts'[b] = accounts[b]
  BY <1>1 DEF GoodWrite, Old
<1>4. accounts[todo[1].addr].Nonce \in Nat
  BY <1>2 DEF IInv, CallsTypeOK, Account
<1>5. accounts'[todo[1].addr].Nonce >= accounts[todo[1].addr].Nonce
  <2>1. CASE Returns
    <3>1. accounts'[todo[1].addr].Nonce = call[1].Nonce
      BY <1>1, <2>1 DEF GoodWrite, Returns
    <3>2. todo[1].addr = call[1].From /\ call[1].Nonce = accounts[call[1].From].Nonce + 1
      BY <2>1 DEF IInv, CallInv, Returns
    <3> QED BY <1>4, <3>1, <3>2
  <2>2. CASE ~ Returns
    <3>1. accounts'[todo[1].addr].Nonce = accounts[todo[1].addr].Nonce
      BY <1>1, <2>2 DEF GoodWrite, Returns, Old
    <3> QED BY <1>4, <3>1
  <2> QED BY <2>1, <2>2
<1>6. CallsTypeOK /\ DiskInv
  BY DEF IInv
<1> DEFINE written == accounts'
<1>7. written = accounts' /\ unread' = unread
  BY DEF Set
<1> HIDE DEF written
<1> QED BY <1>1, <1>2, <1>3, <1>5, <1>6, <1>7, PersistKeeps

\* What a write that is not the last of a call leaves, and what a return does.
LEMMA SetEffects ==
  ASSUME IInv, Set
  PROVE  /\ crashes' = crashes /\ boot' = boot /\ unread' = unread
         /\ Returns => /\ before' = accounts' /\ call' = <<>> /\ now' = L!Later(now, call[2])
                       /\ unstakedAt' = IF call[1].Type # "Unstake" THEN unstakedAt
                            ELSE [unstakedAt EXCEPT ![call[1].From] =
                                    IF before[call[1].From].UnbondingBalance = 0 THEN call[2]
                                    ELSE L!Later(@, call[2])]
         /\ ~ Returns => /\ before' = before /\ call' = call
                         /\ now' = now /\ unstakedAt' = unstakedAt
         /\ applied' = IF call # <<>> /\ Len(todo) = 2
                       THEN [applied EXCEPT ![call[1].From][call[1].Nonce] = @ + 1]
                       ELSE applied
<1>1. (todo' = <<>> <=> Len(todo) = 1) /\ accounts' = Head(todo).accounts
  BY NextWrite
<1>2. CASE Returns
  BY <1>1, <1>2 DEF Set, Return, Returns
<1>3. CASE ~ Returns
  BY <1>1, <1>3 DEF Set, Returns, history
<1> QED BY <1>2, <1>3

\* The transaction and the timestamp of the running call.
LEMMA RunningCall ==
  ASSUME CallsTypeOK, call # <<>>
  PROVE  call[1] \in L!Transaction /\ call[2] \in L!Timestamps /\ call[2] \in L!Time
BY DEF CallsTypeOK, L!Timestamps

\* A setter keeps the types.
LEMMA SetType ==
  ASSUME IInv, Set
  PROVE  CallsTypeOK'
<1>0. CallsTypeOK
  BY DEF IInv
<1>1. /\ accounts' \in [Addr -> Account] /\ disk' \in [Addr -> Account]
      /\ todo' \in Seq(WriteRec) /\ unsaved' \in SUBSET Addr /\ failures' \in Nat
  BY NextWrite, SetDisk
<1>2. applied' \in [Addr -> [1 .. MaxNonce -> Nat]]
  <2>1. applied \in [Addr -> [1 .. MaxNonce -> Nat]]
    BY <1>0 DEF CallsTypeOK
  <2>2. CASE call # <<>> /\ Len(todo) = 2
    <3> DEFINE a == call[1].From
               n == call[1].Nonce
    <3>1. a \in Addr /\ n \in 1 .. MaxNonce
      BY <1>0, <2>2, RunningCall, CallsTransactionType
    <3>2. applied' = [applied EXCEPT ![a][n] = @ + 1]
      BY <2>2, SetEffects
    <3> HIDE DEF a, n
    <3>a. applied[a] \in [1 .. MaxNonce -> Nat]
      BY <2>1, <3>1
    <3>b. applied[a][n] \in Nat
      BY <3>1, <3>a
    <3> DEFINE m == applied[a][n] + 1
    <3>c. m \in Nat
      BY <3>b
    <3>3. [applied[a] EXCEPT ![n] = m] \in [1 .. MaxNonce -> Nat]
      <4> HIDE DEF m
      <4> QED BY <3>a, <3>c
    <3>4. applied' = [applied EXCEPT ![a] = [applied[a] EXCEPT ![n] = applied[a][n] + 1]]
      BY <3>2
    <3> QED BY <2>1, <3>1, <3>3, <3>4
  <2>3. CASE ~ (call # <<>> /\ Len(todo) = 2)
    BY <2>1, <2>3, SetEffects
  <2> QED BY <2>2, <2>3
<1>3. /\ before' \in [Addr -> Account] /\ now' \in L!Time /\ unstakedAt' \in [Addr -> L!Time]
      /\ call' = <<>> \/ (call' = call /\ now' = now)
  <2>1. CASE Returns
    <3>1. call[1].From \in Addr /\ call[2] \in L!Time
      BY <1>0, <2>1, RunningCall, CallsTransactionType DEF Returns
    <3>2. \A s \in L!Time : L!Later(s, call[2]) \in L!Time
      BY <3>1 DEF L!Later
    <3>3. now \in L!Time /\ unstakedAt \in [Addr -> L!Time]
      BY <1>0 DEF CallsTypeOK
    <3>4. /\ before' = accounts' /\ call' = <<>> /\ now' = L!Later(now, call[2])
          /\ unstakedAt' = IF call[1].Type # "Unstake" THEN unstakedAt
                            ELSE [unstakedAt EXCEPT ![call[1].From] =
                                    IF before[call[1].From].UnbondingBalance = 0 THEN call[2]
                                    ELSE L!Later(@, call[2])]
      BY <2>1, SetEffects
    <3>5. unstakedAt' \in [Addr -> L!Time]
      BY <3>1, <3>2, <3>3, <3>4
    <3> QED BY <1>1, <3>2, <3>3, <3>4, <3>5
  <2>2. CASE ~ Returns
    BY <1>0, <2>2, SetEffects DEF CallsTypeOK
  <2> QED BY <2>1, <2>2
<1>4. call' = <<>> \/ call' \in L!Transaction \X (L!Timestamps)'
  BY <1>0, <1>3 DEF CallsTypeOK, L!Timestamps
<1>5. crashes' \in Nat /\ boot' \in 0 .. 2 * Len(Founders) /\ unread' \in SUBSET Addr
  BY <1>0, SetEffects DEF CallsTypeOK
<1> QED BY <1>1, <1>2, <1>3, <1>4, <1>5 DEF CallsTypeOK

\* A setter keeps the running call on its way to the effect of the atomic operation.
LEMMA SetCall ==
  ASSUME IInv, Set
  PROVE  CallInv'
<1>0. CallsTypeOK /\ CallInv
  BY DEF IInv
<1>1. /\ Len(todo) \in Nat \ {0} /\ todo' \in Seq(WriteRec) /\ Len(todo') = Len(todo) - 1
      /\ \A i \in 1 .. Len(todo') : todo'[i] = todo[i + 1]
      /\ todo[1] \in WriteRec /\ GoodWrite(1)
      /\ accounts' = todo[1].accounts /\ accounts' \in [Addr -> Account]
      /\ (todo' = <<>> <=> Len(todo) = 1)
  BY NextWrite
<1>2. CASE Returns
  <2>1. before' = accounts' /\ call' = <<>> /\ todo' = <<>> /\ Len(todo') = 0
    BY <1>1, <1>2, SetEffects DEF Returns
  <2>2. TotalWealth(accounts') \in Int
    BY <1>1, TotalType
  <2>3. TotalWealth(accounts') <= TotalWealth(before')
    BY <2>1, <2>2
  <2> QED BY <2>1, <2>3 DEF CallInv
<1>3. CASE ~ Returns
  <2>1. before' = before /\ call' = call
    BY <1>3, SetEffects
  <2>2. TotalWealth(accounts') <= TotalWealth(before')
    BY <1>1, <2>1 DEF GoodWrite
  <2>3. ASSUME NEW i \in 1 .. Len(todo') PROVE GoodWrite(i)'
    <3>1. i \in Nat /\ i + 1 \in 1 .. Len(todo) /\ todo'[i] = todo[i + 1] /\ i + 1 # 1
      BY <1>1
    <3>2. GoodWrite(i + 1)
      BY <1>0, <3>1 DEF CallInv
    <3>3. Old(i)' = Old(i + 1)
      <4>1. CASE i = 1
        BY <1>1, <4>1 DEF Old
      <4>2. CASE i # 1
        <5>1. i - 1 \in 1 .. Len(todo') /\ (i - 1) + 1 = i /\ (i + 1) - 1 = i
          BY <1>1, <4>2
        <5>2. todo'[i - 1] = todo[i]
          BY <1>1, <5>1
        <5> QED BY <3>1, <4>2, <5>1, <5>2 DEF Old
      <4> QED BY <4>1, <4>2
    <3>4. i = Len(todo') <=> i + 1 = Len(todo)
      BY <1>1, <3>1
    <3> QED BY <2>1, <3>1, <3>2, <3>3, <3>4 DEF GoodWrite, TotalWealth
  <2>4. CASE todo' = <<>>
    <3>1. Len(todo) = 1 /\ call = <<>>
      BY <1>1, <1>3, <2>4 DEF Returns
    <3>2. accounts' = before
      BY <1>0, <1>1, <3>1 DEF CallInv
    <3> QED BY <2>1, <2>2, <2>3, <2>4, <3>1, <3>2 DEF CallInv
  <2>5. CASE todo' # <<>>
    <3>1. Len(todo) > 1 /\ Len(todo') \in 1 .. Len(todo') /\ Len(todo') + 1 = Len(todo)
      BY <1>1, <2>5
    <3>2. todo'[Len(todo')] = todo[Len(todo)]
      BY <1>1, <3>1
    <3>3. call = <<>> => todo[Len(todo)].accounts = before
      BY <1>0, <1>1 DEF CallInv
    <3>4. ASSUME call # <<>>
          PROVE  /\ todo[Len(todo)].addr = call[1].From
                 /\ call[1].Nonce = accounts'[call[1].From].Nonce + 1
                 /\ Result(call[1], call[2], before, todo[Len(todo)].accounts)
      <4>1. /\ todo[Len(todo)].addr = call[1].From
            /\ call[1].Nonce = accounts[call[1].From].Nonce + 1
            /\ Result(call[1], call[2], before, todo[Len(todo)].accounts)
        BY <1>0, <3>4 DEF CallInv
      <4>2. call[1].From \in Addr
        BY <1>0, <3>4, RunningCall, CallsTransactionType
      <4>3. accounts'[call[1].From].Nonce = accounts[call[1].From].Nonce
        BY <1>1, <3>1, <4>2 DEF GoodWrite, Old
      <4> QED BY <4>1, <4>3
    <3>5. call' # <<>> => Result(call[1], call[2], before, todo[Len(todo)].accounts)'
      <4>1. SUFFICES ASSUME call # <<>>
                     PROVE  Result(call'[1], call'[2], before', todo'[Len(todo')].accounts)
        BY <2>1 DEF Result, TransferResult, StakeResult, UnstakeResult, DelegateResult,
             WithdrawResult, GrantResult, BuyLicenseResult
      <4> QED BY <2>1, <3>2, <3>4, <4>1
    <3> QED BY <2>1, <2>2, <2>3, <2>5, <3>2, <3>3, <3>4, <3>5 DEF CallInv
  <2> QED BY <2>4, <2>5
<1> QED BY <1>2, <1>3

\* A setter keeps the bound on repeated nonces.
LEMMA SetReplay ==
  ASSUME IInv, Set
  PROVE  ReplayInv'
<1>0. CallsTypeOK /\ CallInv /\ DiskInv /\ ReplayInv /\ CallsTypeOK'
  BY SetType DEF IInv
<1>1. /\ Len(todo) \in Nat \ {0} /\ Len(todo') = Len(todo) - 1 /\ GoodWrite(1)
      /\ accounts' = todo[1].accounts
  BY NextWrite
<1>2. /\ disk' \in [Addr -> Account] /\ disk \in [Addr -> Account]
      /\ applied \in Counts /\ applied' \in Counts
      /\ crashes \in Nat /\ crashes' = crashes /\ failures \in Nat /\ unread' = unread
  BY <1>0, SetEffects DEF CallsTypeOK, Counts
<1>3. /\ \A b \in Addr \ unread : disk'[b].Nonce >= disk[b].Nonce
      /\ \/ disk' = [disk EXCEPT ![todo[1].addr] = accounts'[todo[1].addr]] /\ failures' = failures
         \/ disk' = disk /\ failures' = failures + 1
  BY SetDisk
<1> DEFINE Sum(ap, st) == SumOver(Exposed(ap, st, unread), Pairs)
<1>4. Sum(applied, disk) <= crashes + failures + NonceDue
  BY <1>0 DEF ReplayInv
<1>5. Sum(applied, disk) \in Int /\ Sum(applied, disk') \in Int /\ Sum(applied', disk') \in Int
  BY <1>2, ExposedSum
<1>6. Sum(applied, disk') <= Sum(applied, disk)
  BY <1>2, <1>3, SaveExposes
<1>7. CASE Returns /\ call[1].From \notin unread
  <2> DEFINE a == call[1].From
             n == call[1].Nonce
             q == <<a, n>>
  <2>1. NonceDue = 1 /\ NonceDue' = 0 /\ applied' = applied
    BY <1>1, <1>7, SetEffects DEF NonceDue, Returns
  <2>2. a \in Addr /\ n \in 1 .. MaxNonce /\ n \in Nat
    BY <1>0, <1>7, RunningCall, CallsTransactionType DEF Returns
  <2>3. /\ todo[1].addr = a /\ n = accounts[a].Nonce + 1 /\ accounts'[a].Nonce = n
    BY <1>0, <1>1, <1>7 DEF CallInv, Returns, GoodWrite
  <2>4. applied[a][n] >= 1
    BY <1>0, <2>1 DEF ReplayInv
  <2>5. disk[a].Nonce \in Nat /\ disk[a].Nonce <= accounts[a].Nonce /\ accounts[a].Nonce \in Nat
    BY <1>0, <1>7, <2>2 DEF DiskInv, CallsTypeOK, Account
  <2>6. CASE disk' = disk /\ failures' = failures + 1
    <3>1. Sum(applied', disk') <= crashes' + failures' + NonceDue'
      <4> HIDE DEF Sum
      <4> QED BY <1>2, <1>4, <1>5, <2>1, <2>6
    <3> QED BY <1>2, <2>1, <3>1 DEF ReplayInv
  <2>7. CASE disk' = [disk EXCEPT ![todo[1].addr] = accounts'[todo[1].addr]] /\ failures' = failures
    <3>1. disk'[a].Nonce = n
      BY <1>2, <2>2, <2>3, <2>7
    <3>2. q \in Pairs /\ q[1] = a /\ q[2] = n /\ a \notin unread
      BY <1>7, <2>2 DEF Pairs
    <3>3. n > disk[a].Nonce /\ n <= disk'[a].Nonce
      BY <2>2, <2>3, <2>5, <3>1
    <3>4. \A p \in Pairs : /\ p[1] \notin unread /\ applied[p[1]][p[2]] >= 1
                           /\ p[2] > disk[p[1]].Nonce /\ p[2] <= disk'[p[1]].Nonce
            => Sum(applied, disk') <= Sum(applied, disk) - 1
      BY <1>2, <1>3, SaveExposes
    <3> HIDE DEF a, n, q, Sum
    <3>5. Sum(applied, disk') <= Sum(applied, disk) - 1
      BY <2>4, <3>2, <3>3, <3>4
    <3>6. Sum(applied', disk') <= crashes' + failures' + NonceDue'
      BY <1>2, <1>4, <1>5, <2>1, <2>7, <3>5
    <3> QED BY <1>2, <2>1, <3>6 DEF ReplayInv, Sum
  <2> QED BY <1>3, <2>6, <2>7
<1>8. CASE call # <<>> /\ Len(todo) = 2 /\ call[1].From \notin unread
  <2> DEFINE a == call[1].From
             n == call[1].Nonce
  <2>1. NonceDue = 0 /\ NonceDue' = 1 /\ call' = call
    BY <1>1, <1>2, <1>8, SetEffects DEF NonceDue, Returns
  <2>2. a \in Addr /\ n \in 1 .. MaxNonce
    BY <1>0, <1>8, RunningCall, CallsTransactionType
  <2>3. applied' = [applied EXCEPT ![a][n] = @ + 1]
    BY <1>8, SetEffects
  <2>4. applied'[a][n] >= 1
    <3> HIDE DEF a, n
    <3>1. applied[a] \in [1 .. MaxNonce -> Nat] /\ applied[a][n] \in Nat
      BY <1>2, <2>2 DEF Counts
    <3>2. applied'[a] = [applied[a] EXCEPT ![n] = applied[a][n] + 1]
      BY <1>2, <2>2, <2>3 DEF Counts
    <3>3. applied'[a][n] = applied[a][n] + 1
      BY <2>2, <3>1, <3>2
    <3> QED BY <3>1, <3>3
  <2>5. Sum(applied', disk') <= Sum(applied, disk') + 1
    BY <1>2, <2>2, <2>3, EffectExposes
  <2>6. Sum(applied', disk') <= crashes' + failures' + NonceDue'
    <3> HIDE DEF Sum
    <3> QED BY <1>2, <1>3, <1>4, <1>5, <1>6, <2>1, <2>5
  <2> QED BY <1>2, <2>1, <2>4, <2>6 DEF ReplayInv
<1>9. CASE call # <<>> /\ call[1].From \in unread
  <2> DEFINE a == call[1].From
             n == call[1].Nonce
  <2>1. NonceDue = 0 /\ NonceDue' = 0
    <3>1. call' = <<>> \/ call' = call
      BY SetEffects
    <3> QED BY <1>2, <1>9, <3>1 DEF NonceDue
  <2>2. \A b \in Addr \ unread : applied'[b] = applied[b]
    <3>1. applied' = applied \/ applied' = [applied EXCEPT ![a][n] = @ + 1]
      BY SetEffects
    <3> HIDE DEF a, n
    <3>2. \A b \in Addr : b # a => applied'[b] = applied[b]
      BY <1>2, <3>1 DEF Counts
    <3> QED BY <1>9, <3>2 DEF a
  <2>3. Sum(applied', disk') <= Sum(applied, disk')
    BY <1>2, <2>2, UncountedEffect
  <2>4. Sum(applied', disk') <= crashes' + failures' + NonceDue'
    <3> HIDE DEF Sum
    <3> QED BY <1>2, <1>3, <1>4, <1>5, <1>6, <2>1, <2>3
  <2> QED BY <1>2, <2>1, <2>4 DEF ReplayInv
<1>10. CASE ~ Returns /\ ~ (call # <<>> /\ Len(todo) = 2)
  <2>1. NonceDue = 0 /\ NonceDue' = 0 /\ applied' = applied
    <3>1. call' = call /\ applied' = applied
      BY <1>10, SetEffects
    <3> QED BY <1>1, <1>10, <3>1 DEF NonceDue, Returns
  <2>2. Sum(applied', disk') <= crashes' + failures' + NonceDue'
    <3> HIDE DEF Sum
    <3> QED BY <1>2, <1>3, <1>4, <1>5, <1>6, <2>1
  <2> QED BY <1>2, <2>1, <2>2 DEF ReplayInv
<1> QED BY <1>7, <1>8, <1>9, <1>10 DEF Returns

\* A setter keeps the invariant.
LEMMA SetKeeps ==
  ASSUME IInv, Set
  PROVE  IInv'
BY SetType, SetCall, SetDisk, SetReplay DEF IInv

\* The shift, as Ledger sees it.
LEMMA SameShift == \A n, h : L!ShiftRight(n, h) = ShiftRight(n, h)
<1>1. L!Pow2 = Pow2
  BY DEF L!Pow2, Pow2
<1> QED BY <1>1 DEF L!ShiftRight, ShiftRight

\* A reward leaves well-typed accounts, changes the author's only and keeps
\* every nonce.
LEMMA RewardWrites ==
  ASSUME before \in [Addr -> Account], NEW author \in Addr, NEW fees \in Fees,
         NEW t \in L!Time, L!ApplyBlockReward(author, fees, t)
  PROVE  /\ before' \in [Addr -> Account]
         /\ \A b \in Addr \ {author} : before'[b] = before[b]
         /\ before'[author].Nonce = before[author].Nonce
<1> DEFINE share == fees \div 2
           base == L!baseReward(t)
           total == IF SafeAddOk(base, share) THEN base + share ELSE base
<1>1. fees \in Nat /\ share \in Nat
  BY LedgerCallsAssumption DEF Uint
<1>2. base \in Nat
  <2> DEFINE elapsed == IF t < GenesisTime THEN 0 ELSE t - GenesisTime
             h == elapsed \div HalvingPeriod
  <2>1. InitialReward \in Nat /\ h \in Nat
    <3>1. InitialReward \in Uint /\ HalvingPeriod \in Nat \ {0} /\ GenesisTime \in Nat /\ t \in Nat
      BY LedgerCallsAssumption DEF L!Time
    <3> QED BY <3>1 DEF Uint
  <2>2. base = IF ShiftRight(InitialReward, h) = 0 THEN 1 ELSE ShiftRight(InitialReward, h)
    BY SameShift DEF L!baseReward
  <2> HIDE DEF h, base
  <2>3. ShiftRight(InitialReward, h) \in 0 .. InitialReward
    BY <2>1, ShiftValues
  <2> QED BY <2>1, <2>2, <2>3
<1>3. before' = IF SafeAddOk(GetBalance(before, author), total)
                THEN SetBalance(before, author, GetBalance(before, author) + total)
                ELSE before
  BY DEF L!ApplyBlockReward, L!SafeAddOk, SafeAddOk, L!GetBalance, GetBalance,
         L!SetBalance, SetBalance
<1> HIDE DEF base, share
<1>4. total \in Nat
  BY <1>1, <1>2
<1> HIDE DEF total
<1>5. CASE SafeAddOk(GetBalance(before, author), total)
  <2>1. GetBalance(before, author) + total \in Uint
    BY <1>4, <1>5, GetterTypes, SafeResults
  <2>2. Wrote(before, before', author,
              (GetBalance(before, author) + total) - GetBalance(before, author))
    BY <1>3, <1>5, <2>1, WroteBalance
  <2> QED BY <2>2 DEF Wrote
<1>6. CASE ~ SafeAddOk(GetBalance(before, author), total)
  BY <1>3, <1>6
<1> QED BY <1>5, <1>6

\* ApplyBlockReward keeps the invariant.
LEMMA RewardKeeps ==
  ASSUME IInv, NEW author \in Addr, NEW fees \in Fees, NEW t \in L!Timestamps,
         ApplyBlockReward(author, fees, t)
  PROVE  IInv'
<1>1. /\ todo = <<>> /\ todo' = <<>> /\ call = <<>> /\ call' = <<>> /\ accounts = before
      /\ accounts' = before' /\ applied' = applied /\ crashes' = crashes
      /\ boot' = boot /\ unread' = unread
  BY DEF ApplyBlockReward, IInv, CallInv
<1>2. CallsTypeOK /\ DiskInv /\ ReplayInv /\ t \in L!Time
  BY DEF IInv, L!Timestamps
<1>3. /\ accounts' \in [Addr -> Account]
      /\ \A b \in Addr \ {author} : accounts'[b] = accounts[b]
      /\ accounts'[author].Nonce = accounts[author].Nonce
  BY <1>1, <1>2, RewardWrites DEF ApplyBlockReward, CallsTypeOK
<1>4. /\ disk' \in [Addr -> Account] /\ unsaved' \in SUBSET Addr /\ failures' \in Nat
      /\ DiskInv'
      /\ \A b \in Addr \ unread : disk'[b].Nonce >= disk[b].Nonce
      /\ failures' = failures \/ failures' = failures + 1
  <2>1. CASE accounts' = accounts
    <3>1. disk' = disk /\ unsaved' = unsaved /\ failures' = failures
      BY <2>1 DEF ApplyBlockReward
    <3>2. \A b \in Addr : disk[b].Nonce \in Nat
      BY <1>2 DEF CallsTypeOK, Account
    <3> QED BY <1>1, <1>2, <2>1, <3>1, <3>2 DEF CallsTypeOK, DiskInv
  <2>2. CASE accounts' # accounts
    <3>1. persistAccount(author, accounts')
      BY <2>2 DEF ApplyBlockReward
    <3>2. accounts[author].Nonce \in Nat
      BY <1>2 DEF CallsTypeOK, Account
    <3>3. accounts'[author].Nonce >= accounts[author].Nonce
      BY <1>3, <3>2
    <3> DEFINE written == accounts'
    <3>4. written = accounts'
      OBVIOUS
    <3> HIDE DEF written
    <3> QED BY <1>1, <1>2, <1>3, <3>1, <3>3, <3>4, PersistKeeps
  <2> QED BY <2>1, <2>2
<1>5. now' \in L!Time /\ unstakedAt' \in [Addr -> L!Time]
  <2>1. now' = L!Later(now, t) /\ unstakedAt' = unstakedAt
    BY DEF ApplyBlockReward, L!ApplyBlockReward
  <2> QED BY <1>2, <2>1 DEF L!Later, CallsTypeOK
<1>6. CallsTypeOK'
  BY <1>1, <1>2, <1>3, <1>4, <1>5 DEF CallsTypeOK
<1>7. CallInv'
  <2>1. TotalWealth(accounts') \in Int
    BY <1>3, TotalType
  <2>2. TotalWealth(accounts') <= TotalWealth(before')
    BY <1>1, <2>1
  <2>3. Len(todo') = 0
    BY <1>1
  <2> QED BY <1>1, <2>2, <2>3 DEF CallInv
<1>8. ReplayInv'
  <2>1. NonceDue = 0 /\ NonceDue' = 0
    BY <1>1 DEF NonceDue
  <2>2. applied \in Counts /\ disk \in [Addr -> Account] /\ crashes \in Nat /\ failures \in Nat
    BY <1>2 DEF CallsTypeOK, Counts
  <2> DEFINE old == SumOver(Exposed(applied, disk, unread), Pairs)
             new == SumOver(Exposed(applied, disk', unread), Pairs)
  <2>3. old \in Int /\ new \in Int /\ new <= old
    BY <1>4, <2>2, SaveExposes, ExposedSum
  <2>4. old <= crashes + failures + NonceDue
    BY <1>2 DEF ReplayInv
  <2>5. new <= crashes' + failures' + NonceDue'
    <3>1. failures' = failures \/ failures' = failures + 1
      BY <1>4
    <3> HIDE DEF old, new
    <3> QED BY <1>1, <2>1, <2>2, <2>3, <2>4, <3>1
  <2> QED BY <1>1, <2>1, <2>5 DEF ReplayInv
<1> QED BY <1>4, <1>6, <1>7, <1>8 DEF IInv

\* A crash and the restart after it keep the invariant: what was loaded is what
\* the database holds, and an account that failed to load no longer counts.
LEMMA RestartKeeps ==
  ASSUME IInv, NEW lost \in SUBSET Addr, Restart(lost)
  PROVE  IInv'
<1> DEFINE loaded == [a \in Addr |-> IF a \in lost THEN L!NewAccount ELSE disk[a]]
<1>1. /\ accounts' = loaded /\ disk' = disk /\ before' = loaded
      /\ todo' = <<>> /\ call' = <<>> /\ boot' = 0 /\ crashes' = crashes + 1
      /\ unsaved' = lost /\ unread' = unread \cup lost
      /\ now' = now /\ unstakedAt' = unstakedAt /\ applied' = applied /\ failures' = failures
  BY DEF Restart, history
<1>2. CallsTypeOK /\ ReplayInv /\ disk \in [Addr -> Account]
  BY DEF IInv, CallsTypeOK
<1>3. L!NewAccount \in Account
  <2>1. 0 \in Uint /\ 0 \in Nat /\ 0 \in Int
    BY MaxUintAssumption DEF Uint
  <2> QED BY <2>1 DEF L!NewAccount, Account
<1>4. loaded \in [Addr -> Account] /\ \A a \in Addr \ lost : loaded[a] = disk[a]
  BY <1>2, <1>3
<1> HIDE DEF loaded
<1>5. CallsTypeOK'
  <2>1. 0 \in 0 .. 2 * Len(Founders)
    BY FoundersAssumption
  <2> QED BY <1>1, <1>2, <1>4, <2>1 DEF CallsTypeOK
<1>6. CallInv'
  <2>1. TotalWealth(loaded) \in Int
    BY <1>4, TotalType
  <2>2. TotalWealth(accounts') <= TotalWealth(before') /\ Len(todo') = 0
    BY <1>1, <2>1
  <2> QED BY <1>1, <2>2 DEF CallInv
<1>7. DiskInv'
  <2>1. \A a \in Addr : disk[a].Nonce \in Nat
    BY <1>2 DEF Account
  <2> QED BY <1>1, <1>4, <2>1 DEF DiskInv
<1>8. ReplayInv'
  <2>1. NonceDue \in {0, 1} /\ NonceDue' = 0
    BY <1>1 DEF NonceDue
  <2>2. applied \in Counts /\ crashes \in Nat /\ failures \in Nat
    BY <1>2 DEF CallsTypeOK, Counts
  <2> DEFINE old == SumOver(Exposed(applied, disk, unread), Pairs)
             new == SumOver(Exposed(applied, disk, unread'), Pairs)
  <2>3. old \in Int /\ new \in Int /\ new <= old
    BY <1>1, <1>2, <2>2, FewerCounted, ExposedSum
  <2>4. old <= crashes + failures + NonceDue
    BY <1>2 DEF ReplayInv
  <2>5. new <= crashes' + failures' + NonceDue'
    <3> HIDE DEF old, new
    <3> QED BY <1>1, <2>1, <2>2, <2>3, <2>4
  <2> QED BY <1>1, <2>1, <2>5 DEF ReplayInv
<1> QED BY <1>5, <1>6, <1>7, <1>8 DEF IInv

\* No call runs before the allocation is made.
BootInv == ~ Booted => todo = <<>>

\* The founder of the next setter of the allocation.
LEMMA NextFounder ==
  ASSUME CallsTypeOK, ~ Booted
  PROVE  Founders[boot \div 2 + 1] \in Addr /\ boot + 1 \in 0 .. 2 * Len(Founders) /\ boot + 1 # boot
<1>1. Founders \in Seq(Addr) /\ Len(Founders) \in Nat
  BY FoundersAssumption
<1> DEFINE n == Len(Founders)
           k == boot \div 2 + 1
<1>2. boot \in 0 .. 2 * n /\ boot # 2 * n
  BY DEF CallsTypeOK, Booted
<1>3. k \in 1 .. n /\ boot + 1 \in 0 .. 2 * n /\ boot + 1 # boot
  <2>1. n \in Nat
    BY <1>1
  <2> HIDE DEF n
  <2> QED BY <1>2, <2>1
<1> HIDE DEF k
<1>4. Founders[k] \in Addr
  BY <1>1, <1>3
<1> QED BY <1>3, <1>4 DEF k

\* A setter of the allocation keeps the invariant.
LEMMA AllocateKeeps ==
  ASSUME IInv, BootInv, Allocate
  PROVE  IInv'
<1> DEFINE a == Founders[boot \div 2 + 1]
           written == IF boot % 2 = 0 THEN SetBalance(accounts, a, GenesisBalance[a])
                      ELSE SetStake(accounts, a, GenesisStake[a])
<1>1. /\ ~ Booted /\ boot' = boot + 1 /\ accounts' = written /\ before' = written
      /\ persistAccount(a, written) /\ todo' = todo /\ call' = call /\ now' = now
      /\ unstakedAt' = unstakedAt /\ applied' = applied /\ unread' = unread /\ crashes' = crashes
  BY DEF Allocate, history
<1>2. CallsTypeOK /\ DiskInv /\ ReplayInv /\ todo = <<>> /\ call = <<>>
  BY <1>1 DEF IInv, CallInv, BootInv
<1>3. a \in Addr /\ boot + 1 \in 0 .. 2 * Len(Founders)
  BY <1>1, <1>2, NextFounder
<1> HIDE DEF a
<1>4. /\ written \in [Addr -> Account]
      /\ \A b \in Addr \ {a} : written[b] = accounts[b]
      /\ written[a].Nonce = accounts[a].Nonce
  <2>1. accounts \in [Addr -> Account] /\ GenesisBalance[a] \in Uint /\ GenesisStake[a] \in Uint
    BY <1>2, <1>3, LedgerCallsAssumption DEF CallsTypeOK
  <2>2. /\ Wrote(accounts, SetBalance(accounts, a, GenesisBalance[a]), a,
                 GenesisBalance[a] - GetBalance(accounts, a))
        /\ Wrote(accounts, SetStake(accounts, a, GenesisStake[a]), a,
                 GenesisStake[a] - GetStake(accounts, a))
    BY <1>3, <2>1, WroteBalance, WroteStake
  <2> QED BY <2>2 DEF Wrote
<1> HIDE DEF written
<1>5. /\ disk' \in [Addr -> Account] /\ unsaved' \in SUBSET Addr /\ failures' \in Nat
      /\ DiskInv'
      /\ \A b \in Addr \ unread : disk'[b].Nonce >= disk[b].Nonce
      /\ failures' = failures \/ failures' = failures + 1
  <2>1. accounts[a].Nonce \in Nat
    BY <1>2, <1>3 DEF CallsTypeOK, Account
  <2>2. written[a].Nonce >= accounts[a].Nonce
    BY <1>4, <2>1
  <2> QED BY <1>1, <1>2, <1>3, <1>4, <2>2, PersistKeeps
<1>6. CallsTypeOK'
  BY <1>1, <1>2, <1>3, <1>4, <1>5 DEF CallsTypeOK
<1>7. CallInv'
  <2>1. TotalWealth(written) \in Int
    BY <1>4, TotalType
  <2>2. TotalWealth(accounts') <= TotalWealth(before') /\ Len(todo') = 0
    BY <1>1, <1>2, <2>1
  <2> QED BY <1>1, <1>2, <2>2 DEF CallInv
<1>8. ReplayInv'
  <2>1. NonceDue = 0 /\ NonceDue' = 0
    BY <1>1, <1>2 DEF NonceDue
  <2>2. applied \in Counts /\ disk \in [Addr -> Account] /\ crashes \in Nat /\ failures \in Nat
    BY <1>2 DEF CallsTypeOK, Counts
  <2> DEFINE old == SumOver(Exposed(applied, disk, unread), Pairs)
             new == SumOver(Exposed(applied, disk', unread), Pairs)
  <2>3. old \in Int /\ new \in Int /\ new <= old
    BY <1>5, <2>2, SaveExposes, ExposedSum
  <2>4. old <= crashes + failures + NonceDue
    BY <1>2 DEF ReplayInv
  <2>5. new <= crashes' + failures' + NonceDue'
    <3>1. failures' = failures \/ failures' = failures + 1
      BY <1>5
    <3> HIDE DEF old, new
    <3> QED BY <1>1, <2>1, <2>2, <2>3, <2>4, <3>1
  <2> QED BY <1>1, <2>1, <2>5 DEF ReplayInv
<1> QED BY <1>5, <1>6, <1>7, <1>8 DEF IInv

\* The first start.
LEMMA InitKeeps == Init => IInv /\ BootInv
<1> SUFFICES ASSUME Init PROVE IInv /\ BootInv
  OBVIOUS
<1>1. /\ accounts = before /\ disk = before /\ todo = <<>> /\ call = <<>>
      /\ applied = [a \in Addr |-> [n \in 1 .. MaxNonce |-> 0]]
      /\ boot = 2 * Len(Founders) /\ unsaved = {} /\ unread = {} /\ crashes = 0 /\ failures = 0
      /\ now = 0 /\ unstakedAt = [a \in Addr |-> 0]
  BY DEF Init, Booted, L!Init
<1>2. 0 \in Uint /\ 0 \in L!Time /\ 0 \in Nat /\ 0 \in Int
  BY MaxUintAssumption, LedgerCallsAssumption DEF Uint, L!Time
<1>3. before \in [Addr -> Account]
  <2>1. L!NewAccount \in Account
    BY <1>2 DEF L!NewAccount, Account
  <2>2. \A b, s \in Uint : [L!NewAccount EXCEPT !.Balance = b, !.Stake = s] \in Account
    BY <2>1 DEF Account
  <2> QED BY <2>2, LedgerCallsAssumption DEF Init, L!Init
<1>4. applied \in Counts
  BY <1>1, <1>2 DEF Counts
<1>5. CallsTypeOK
  <2>1. 2 * Len(Founders) \in 0 .. 2 * Len(Founders)
    BY FoundersAssumption
  <2> QED BY <1>1, <1>2, <1>3, <1>4, <2>1 DEF CallsTypeOK, Counts
<1>6. CallInv
  <2>1. TotalWealth(before) \in Int
    BY <1>3, TotalType
  <2>2. TotalWealth(accounts) <= TotalWealth(before) /\ Len(todo) = 0
    BY <1>1, <2>1
  <2> QED BY <1>1, <2>2 DEF CallInv
<1>7. DiskInv
  <2>1. \A a \in Addr : before[a].Nonce \in Nat
    BY <1>3 DEF Account
  <2> QED BY <1>1, <2>1 DEF DiskInv
<1>8. ReplayInv
  <2> DEFINE f == Exposed(applied, disk, unread)
  <2>1. \A p \in Pairs : f[p] = 0
    <3> TAKE p \in Pairs
    <3>1. p[1] \in Addr /\ p[2] \in 1 .. MaxNonce
      BY DEF Pairs
    <3>2. applied[p[1]][p[2]] = 0
      BY <1>1, <3>1
    <3> QED BY <3>2 DEF Exposed
  <2>2. NonceDue = 0
    BY <1>1 DEF NonceDue
  <2> HIDE DEF f
  <2>3. SumOver(f, Pairs) = SumOver(f, {})
    BY <2>1, PairsFinite, SumPart
  <2>4. SumOver(f, Pairs) = 0
    BY <2>3, SumEmpty
  <2> QED BY <1>1, <2>2, <2>4 DEF ReplayInv, f
<1> QED BY <1>1, <1>5, <1>6, <1>7, <1>8 DEF IInv, BootInv

\* No step begins a call during the allocation.
LEMMA BootNext == BootInv /\ [Next]_vars => BootInv'
<1> SUFFICES ASSUME BootInv, [Next]_vars, ~ Booted' PROVE todo' = <<>>
  BY DEF BootInv
<1>1. ASSUME NEW tx, NEW t, Execute(tx, t) PROVE FALSE
  BY <1>1 DEF Execute, Booted
<1>2. ASSUME NEW author, NEW fees, NEW t, ApplyBlockReward(author, fees, t) PROVE todo' = <<>>
  BY <1>2 DEF ApplyBlockReward
<1>3. ASSUME Set PROVE FALSE
  BY <1>3 DEF Set, Booted, BootInv
<1>4. ASSUME NEW lost, Restart(lost) PROVE todo' = <<>>
  BY <1>4 DEF Restart
<1>5. ASSUME Allocate PROVE todo' = <<>>
  BY <1>5 DEF Allocate, BootInv
<1>6. ASSUME UNCHANGED vars PROVE todo' = <<>>
  BY <1>6 DEF vars, BootInv, Booted
<1> QED BY <1>1, <1>2, <1>3, <1>4, <1>5, <1>6 DEF Next

\* The invariant is inductive.
LEMMA NextKeeps == IInv /\ BootInv /\ [Next]_vars => IInv'
<1> SUFFICES ASSUME IInv, BootInv, [Next]_vars PROVE IInv'
  OBVIOUS
<1>1. CASE Next
  BY <1>1, ExecuteKeeps, RewardKeeps, SetKeeps, RestartKeeps, AllocateKeeps DEF Next
<1>2. CASE UNCHANGED vars
  <2>1. /\ accounts' = accounts /\ disk' = disk /\ todo' = todo /\ call' = call /\ before' = before
        /\ now' = now /\ unstakedAt' = unstakedAt /\ applied' = applied /\ unsaved' = unsaved
        /\ boot' = boot /\ unread' = unread /\ crashes' = crashes /\ failures' = failures
    BY <1>2 DEF vars
  <2>2. CallsTypeOK'
    BY <2>1 DEF IInv, CallsTypeOK, L!Timestamps
  <2>3. CallInv'
    <3>1. CallInv
      BY DEF IInv
    <3>2. ASSUME NEW i \in 1 .. Len(todo), GoodWrite(i) PROVE GoodWrite(i)'
      BY <2>1, <3>2 DEF GoodWrite, Old
    <3>3. Result(call[1], call[2], before, todo[Len(todo)].accounts)' <=>
            Result(call'[1], call'[2], before', todo'[Len(todo')].accounts)
      BY Zenon DEF Result, TransferResult, StakeResult, UnstakeResult, DelegateResult,
           WithdrawResult, GrantResult, BuyLicenseResult
    <3>4. TotalWealth(accounts)' = TotalWealth(accounts) /\ TotalWealth(before)' = TotalWealth(before)
      BY <2>1 DEF TotalWealth
    <3> QED BY <2>1, <3>1, <3>2, <3>3, <3>4 DEF CallInv
  <2>4. DiskInv' /\ ReplayInv'
    BY <2>1 DEF IInv, DiskInv, ReplayInv, NonceDue
  <2> QED BY <2>2, <2>3, <2>4 DEF IInv
<1> QED BY <1>1, <1>2

\* The invariant of the single writes holds throughout: the last write of a
\* call leaves the accounts as the atomic operation does, value in memory is never
\* more than when the call began, and the database differs from memory only in the
\* accounts whose last save or load failed (Execute, ApplyBlockReward,
\* persistAccount, the allocation of main.go).
THEOREM CallsInvariant == Spec => []IInv
BY InitKeeps, BootNext, NextKeeps, PTL DEF Spec

-----------------------------------------------------------------------------
(* The refinement. *)

\* The accessors and the checks, as Ledger sees them.
LEMMA SameAccessors ==
  /\ \A a, v : L!SafeAddOk(a, v) <=> SafeAddOk(a, v)
  /\ \A st, a : L!GetBalance(st, a) = GetBalance(st, a)
  /\ \A st, a, n : L!SetBalance(st, a, n) = SetBalance(st, a, n)
  /\ \A st, a : L!GetStake(st, a) = GetStake(st, a)
  /\ \A st, a, n : L!SetStake(st, a, n) = SetStake(st, a, n)
  /\ \A st, a : L!GetGrantStake(st, a) = GetGrantStake(st, a)
  /\ \A st, a, n : L!SetGrantStake(st, a, n) = SetGrantStake(st, a, n)
  /\ \A st, a : L!GetUnbonding(st, a) = GetUnbonding(st, a)
  /\ \A st, a, n, r : L!SetUnbonding(st, a, n, r) = SetUnbonding(st, a, n, r)
  /\ \A st, a, v : L!GetDelegation(st, a, v) = GetDelegation(st, a, v)
  /\ \A st, a, v, n : L!SetDelegation(st, a, v, n) = SetDelegation(st, a, v, n)
  /\ \A st, a : L!GetNonce(st, a) = GetNonce(st, a)
  /\ \A st, a, n : L!SetNonce(st, a, n) = SetNonce(st, a, n)
BY DEF L!SafeAddOk, SafeAddOk, L!GetBalance, GetBalance, L!SetBalance, SetBalance,
       L!GetStake, GetStake, L!SetStake, SetStake, L!GetGrantStake, GetGrantStake,
       L!SetGrantStake, SetGrantStake, L!GetUnbonding, GetUnbonding, L!SetUnbonding,
       SetUnbonding, L!GetDelegation, GetDelegation, L!SetDelegation, SetDelegation,
       L!GetNonce, GetNonce, L!SetNonce, SetNonce

\* The step in which a call returns is the step of Ledger.
LEMMA ReturnIsExecute ==
  ASSUME IInv, Set, Returns
  PROVE  L!Execute(call[1], call[2])
<1> DEFINE tx == call[1]
           t == call[2]
<1>1. /\ before' = todo[1].accounts /\ now' = L!Later(now, t)
      /\ unstakedAt' = IF tx.Type # "Unstake" THEN unstakedAt
                       ELSE [unstakedAt EXCEPT ![tx.From] =
                               IF before[tx.From].UnbondingBalance = 0 THEN t
                               ELSE L!Later(@, t)]
  BY NextWrite, SetEffects
<1>2. Result(tx, t, before, before')
  BY <1>1 DEF IInv, CallInv, Returns
<1> HIDE DEF tx, t
<1> USE SameAccessors
<1>3. ASSUME TransferResult(tx, before, before') PROVE L!executeTransfer(tx)
  BY <1>1, <1>3 DEF TransferResult, L!executeTransfer, L!Commit
<1>4. ASSUME StakeResult(tx, before, before') PROVE L!executeStake(tx)
  BY <1>1, <1>4 DEF StakeResult, L!executeStake, L!Commit
<1>5. ASSUME UnstakeResult(tx, t, before, before') PROVE L!executeUnstake(tx, t)
  <2>1. GetUnbonding(before, tx.From)[1] = before[tx.From].UnbondingBalance
    BY DEF GetUnbonding
  <2>2. unstakedAt' = [unstakedAt EXCEPT ![tx.From] =
                         IF GetUnbonding(before, tx.From)[1] = 0 THEN t ELSE L!Later(@, t)]
    BY <1>1, <1>5, <2>1 DEF UnstakeResult
  <2> QED BY <1>5, <2>2 DEF UnstakeResult, L!executeUnstake, L!Commit
<1>6. ASSUME DelegateResult(tx, before, before') PROVE L!executeDelegate(tx)
  BY <1>1, <1>6 DEF DelegateResult, L!executeDelegate, L!Commit
<1>7. ASSUME WithdrawResult(tx, t, before, before') PROVE L!executeWithdraw(tx, t)
  BY <1>1, <1>7 DEF WithdrawResult, L!executeWithdraw, L!Commit
<1>8. ASSUME GrantResult(tx, before, before') PROVE L!executeGrant(tx)
  BY <1>1, <1>8 DEF GrantResult, L!executeGrant, L!Commit
<1>9. ASSUME BuyLicenseResult(tx, before, before') PROVE L!executeBuyLicense(tx)
  BY <1>1, <1>9 DEF BuyLicenseResult, L!executeBuyLicense, L!Commit
<1>10. L!Execute(tx, t)
  BY <1>1, <1>2, <1>3, <1>4, <1>5, <1>6, <1>7, <1>8, <1>9 DEF Result, L!Execute
<1> QED BY <1>10 DEF tx, t

\* Every step here is a step of Ledger, or leaves its variables alone, or belongs
\* to a start.
LEMMA StepIsLedgerStep ==
  IInv /\ [Next]_vars => [crashes' = crashes /\ boot' = boot => LedgerStep /\ L!Next]_(L!vars)
<1> SUFFICES ASSUME IInv, [Next]_vars
             PROVE  UNCHANGED L!vars \/ (crashes' = crashes /\ boot' = boot => LedgerStep /\ L!Next)
  BY DEF L!vars
<1>0. CallsTypeOK
  BY DEF IInv
<1>1. ASSUME NEW tx, NEW t, Execute(tx, t) PROVE UNCHANGED L!vars
  BY <1>1 DEF Execute, L!vars, history
<1>2. ASSUME NEW author \in Addr, NEW fees \in Fees, NEW t \in L!Timestamps,
             ApplyBlockReward(author, fees, t)
      PROVE  LedgerStep /\ L!Next
  <2>1. call = <<>> /\ L!ApplyBlockReward(author, fees, t)
    BY <1>2 DEF ApplyBlockReward, IInv, CallInv
  <2> QED BY <2>1 DEF LedgerStep, L!Next
<1>3. ASSUME Set PROVE UNCHANGED L!vars \/ (LedgerStep /\ L!Next)
  <2>1. CASE Returns
    <3>1. L!Execute(call[1], call[2]) /\ call # <<>>
      BY <1>3, <2>1, ReturnIsExecute DEF Returns
    <3>2. call[1] \in L!Transaction /\ call[2] \in L!Timestamps
      BY <1>0, <3>1, RunningCall
    <3> QED BY <3>1, <3>2 DEF LedgerStep, L!Next
  <2>2. CASE ~ Returns
    BY <1>3, <2>2, SetEffects DEF L!vars
  <2> QED BY <2>1, <2>2
<1>4. ASSUME NEW lost, Restart(lost) PROVE crashes' # crashes
  <2>1. crashes' = crashes + 1 /\ crashes \in Nat
    BY <1>0, <1>4 DEF Restart, CallsTypeOK
  <2> QED BY <2>1
<1>5. ASSUME Allocate PROVE boot' # boot
  BY <1>0, <1>5, NextFounder DEF Allocate
<1>6. ASSUME UNCHANGED vars PROVE UNCHANGED L!vars
  BY <1>6 DEF vars, L!vars
<1> QED BY <1>1, <1>2, <1>3, <1>4, <1>5, <1>6 DEF Next

\* Written one setter at a time, with saves that fail and after any number of
\* restarts, the calls implement the atomic operations of Ledger
\* (executor.go).
THEOREM CallsAreAtomic == Spec => AtomicCalls
<1>1. Init => L!Init
  BY DEF Init
<1>2. IInv /\ [Next]_vars => [crashes' = crashes /\ boot' = boot => LedgerStep]_(L!vars)
  BY StepIsLedgerStep
<1> QED BY <1>1, <1>2, CallsInvariant, PTL DEF Spec, AtomicCalls

\* But for the steps of a start, the accounts of the calls that returned behave as
\* the specification Ledger says.
THEOREM CallsImplementLedger ==
  Spec => L!Init /\ [][crashes' = crashes /\ boot' = boot => L!Next]_(L!vars)
<1>1. Init => L!Init
  BY DEF Init
<1>2. IInv /\ [Next]_vars => [crashes' = crashes /\ boot' = boot => L!Next]_(L!vars)
  BY StepIsLedgerStep
<1> QED BY <1>1, <1>2, CallsInvariant, PTL DEF Spec

-----------------------------------------------------------------------------
(* What the database holds. *)

\* The database holds no more value than the call that is running found,
\* beyond what failed saves and loads left (every operation debits before it
\* credits).
THEOREM CrashesNeverMint == Spec => []CrashNeverMints
<1>1. IInv => CrashNeverMints
  <2> SUFFICES ASSUME IInv PROVE CrashNeverMints
    OBVIOUS
  <2> DEFINE mem == [a \in Addr |-> Wealth(accounts[a])]
             dsk == [a \in Addr |-> Wealth(disk[a])]
             stale == [a \in Addr |-> IF Wealth(disk[a]) > Wealth(accounts[a])
                                      THEN Wealth(disk[a]) - Wealth(accounts[a]) ELSE 0]
             both == [a \in Addr |-> mem[a] + stale[a]]
  <2>1. /\ accounts \in [Addr -> Account] /\ disk \in [Addr -> Account]
        /\ before \in [Addr -> Account] /\ unsaved \in SUBSET Addr /\ IsFiniteSet(Addr)
    BY LedgerCallsAssumption DEF IInv, CallsTypeOK
  <2>2. ASSUME NEW a \in Addr
        PROVE  /\ mem[a] \in Int /\ dsk[a] \in Int /\ stale[a] \in Int /\ both[a] \in Int
               /\ both[a] = mem[a] + stale[a] /\ dsk[a] <= both[a]
    <3>1. Wealth(accounts[a]) \in Nat /\ Wealth(disk[a]) \in Nat
      BY <2>1, WealthType
    <3> QED BY <3>1
  <2>3. \A a \in Addr \ unsaved : stale[a] = 0
    <3> TAKE a \in Addr \ unsaved
    <3>1. disk[a] = accounts[a] /\ Wealth(accounts[a]) \in Nat
      BY <2>1, WealthType DEF IInv, DiskInv
    <3> QED BY <3>1
  <2>4. /\ TotalWealth(accounts) = SumOver(mem, Addr) /\ TotalWealth(disk) = SumOver(dsk, Addr)
        /\ StaleWealth = SumOver(stale, unsaved)
    BY DEF TotalWealth, StaleWealth
  <2>5. TotalWealth(accounts) <= TotalWealth(before) /\ TotalWealth(before) \in Int
    BY <2>1, TotalType DEF IInv, CallInv
  <2> HIDE DEF mem, dsk, stale, both
  <2>6. SumOver(dsk, Addr) <= SumOver(both, Addr)
    BY <2>1, <2>2, SumMonotone
  <2>7. SumOver(both, Addr) = SumOver(mem, Addr) + SumOver(stale, Addr)
    BY <2>1, <2>2, SumAdd
  <2>8. SumOver(stale, Addr) = SumOver(stale, unsaved)
    BY <2>1, <2>2, <2>3, SumPart
  <2>9. /\ SumOver(dsk, Addr) \in Int /\ SumOver(mem, Addr) \in Int
        /\ SumOver(stale, Addr) \in Int
    BY <2>1, <2>2, SumType
  <2>10. TotalWealth(disk) <= TotalWealth(before) + StaleWealth
    BY <2>4, <2>5, <2>6, <2>7, <2>8, <2>9
  <2> QED BY <2>10 DEF CrashNeverMints
<1> QED BY <1>1, CallsInvariant, PTL

\* All the repetitions of effects together are at most as many as the crashes
\* and the failed saves, accounts that failed to load aside (Execute writes the
\* nonce last).
THEOREM ReplaysAreBounded == Spec => []ReplaysBounded
<1>1. IInv => ReplaysBounded
  <2> SUFFICES ASSUME IInv PROVE ReplaysBounded
    OBVIOUS
  <2> DEFINE replays == [p \in Pairs |-> IF p[1] \notin unread /\ applied[p[1]][p[2]] > 1
                                         THEN applied[p[1]][p[2]] - 1 ELSE 0]
             f == Exposed(applied, disk, unread)
  <2>1. /\ applied \in Counts /\ disk \in [Addr -> Account]
        /\ crashes \in Nat /\ failures \in Nat /\ CallsTypeOK
    BY DEF IInv, CallsTypeOK, Counts
  <2>2. ASSUME NEW p \in Pairs PROVE replays[p] \in Int /\ f[p] \in Int /\ replays[p] <= f[p]
    <3>1. /\ applied[p[1]][p[2]] \in Nat /\ disk[p[1]].Nonce \in Nat /\ p[2] \in Nat
          /\ f[p] = IF p[1] \in unread THEN 0
                    ELSE IF p[2] > disk[p[1]].Nonce THEN applied[p[1]][p[2]]
                    ELSE IF applied[p[1]][p[2]] > 1 THEN applied[p[1]][p[2]] - 1 ELSE 0
      BY <2>1, ExposedAt
    <3>2. replays[p] = IF p[1] \notin unread /\ applied[p[1]][p[2]] > 1
                       THEN applied[p[1]][p[2]] - 1 ELSE 0
      OBVIOUS
    <3> HIDE DEF f, replays
    <3> QED BY <3>1, <3>2
  <2>3. SumOver(f, Pairs) <= crashes + failures + NonceDue
    BY DEF IInv, ReplayInv
  <2> HIDE DEF f
  <2>4. SumOver(replays, Pairs) \in Int /\ SumOver(f, Pairs) \in Int
    <3> HIDE DEF replays
    <3> QED BY <2>2, PairsFinite, SumType
  <2>5. CASE NonceDue = 0
    <3> HIDE DEF replays
    <3>1. SumOver(replays, Pairs) <= SumOver(f, Pairs)
      BY <2>2, PairsFinite, SumMonotone
    <3>2. SumOver(replays, Pairs) <= crashes + failures
      BY <2>1, <2>3, <2>4, <2>5, <3>1
    <3> QED BY <3>2 DEF ReplaysBounded, Pairs, replays
  <2>6. CASE NonceDue = 1
    <3> DEFINE a == call[1].From
               n == call[1].Nonce
               q == <<a, n>>
    <3>1. call # <<>> /\ a \notin unread
      BY <2>6 DEF NonceDue
    <3>2. a \in Addr /\ n \in 1 .. MaxNonce /\ n \in Nat
      BY <2>1, <3>1, RunningCall, CallsTransactionType
    <3>3. n = accounts[a].Nonce + 1 /\ disk[a].Nonce <= accounts[a].Nonce /\ applied[a][n] >= 1
      BY <2>6, <3>1, <3>2 DEF IInv, CallInv, DiskInv, ReplayInv
    <3>4. disk[a].Nonce \in Nat /\ accounts[a].Nonce \in Nat /\ applied[a][n] \in Nat
      <4>1. disk[a] \in Account /\ accounts[a] \in Account
        BY <2>1, <3>2 DEF CallsTypeOK
      <4>2. applied[a] \in [1 .. MaxNonce -> Nat]
        BY <2>1, <3>2 DEF Counts
      <4> QED BY <3>2, <4>1, <4>2 DEF Account
    <3>5. q \in Pairs /\ q[1] = a /\ q[2] = n
      BY <3>2 DEF Pairs
    <3> HIDE DEF a, n, q
    <3>6. replays[q] = applied[a][n] - 1
      <4>1. applied[a][n] > 1 \/ applied[a][n] = 1
        BY <3>3, <3>4
      <4> QED BY <3>1, <3>5, <4>1
    <3>7. f[q] = applied[a][n]
      BY <3>1, <3>2, <3>3, <3>4, <3>5 DEF Exposed, f
    <3> HIDE DEF replays
    <3>8. replays[q] <= f[q] - 1
      BY <3>4, <3>6, <3>7
    <3>9. SumOver(replays, Pairs) <= SumOver(f, Pairs) - 1
      BY <2>2, <3>5, <3>8, PairsFinite, SumStrict
    <3>10. SumOver(replays, Pairs) <= crashes + failures
      BY <2>1, <2>3, <2>4, <2>6, <3>9
    <3> QED BY <3>10 DEF ReplaysBounded, Pairs, replays
  <2> QED BY <2>5, <2>6 DEF NonceDue
<1> QED BY <1>1, CallsInvariant, PTL
=============================================================================
