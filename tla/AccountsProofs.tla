--------------------------- MODULE AccountsProofs ---------------------------
(***************************************************************************)
(* What the proofs about the ledger rest on: exactness of the checked      *)
(* arithmetic for every width of the integers, lemmas about the accessors  *)
(* of StateManager, and induction in the form the provers can use.         *)
(***************************************************************************)
EXTENDS Accounts, FiniteSetTheorems, WellFoundedInduction, TLAPS

\* Most steps have no arithmetic: Zenon is tried before the SMT solver.
USE ZenonT(2), SMTT(20), ZenonT(20)

-----------------------------------------------------------------------------
(* core/math/safe.go *)

\* SafeAdd and SafeSub report an error exactly when the result does not fit.
THEOREM SafeAddSubExact ==
  ASSUME NEW a \in Uint, NEW b \in Uint
  PROVE  /\ SafeAddOk(a, b) <=> a + b \in Uint
         /\ SafeSubOk(a, b) <=> a - b \in Uint
BY MaxUintAssumption DEF SafeAddOk, SafeSubOk, Uint

\* Dividing a product by one factor gives the other; a smaller dividend gives
\* a smaller quotient.
LEMMA Quotient ==
  ASSUME NEW a \in Nat \ {0}, NEW b \in Nat, NEW w \in Nat, w <= a * b
  PROVE  w \div a = b <=> w = a * b
<1>1. a * b \in Nat
  OBVIOUS
<1>2. w = a * (w \div a) + (w % a) /\ w % a >= 0 /\ w % a < a /\ w \div a \in Nat
  OBVIOUS
<1>3. ASSUME w \div a = b PROVE w = a * b
  BY <1>1, <1>2, <1>3
<1>4. ASSUME w = a * b PROVE w \div a = b
  <2> DEFINE q == w \div a
             r == w % a
  <2>1. a * b = a * q + r /\ r \in Nat /\ r < a /\ q \in Nat
    BY <1>2, <1>4
  <2> HIDE DEF q, r
  <2>2. CASE q >= b + 1
    <3>1. a * q >= a * (b + 1)
      BY <2>1, <2>2
    <3> QED BY <1>1, <2>1, <3>1
  <2>3. CASE q + 1 <= b
    <3>1. a * b >= a * (q + 1)
      BY <2>1, <2>3
    <3>2. a * (q + 1) = a * q + a /\ a * q \in Nat
      BY <2>1
    <3> QED BY <1>1, <2>1, <3>1, <3>2
  <2> QED BY <2>1, <2>2, <2>3 DEF q
<1> QED BY <1>3, <1>4

\* SafeMul reports an error exactly when the product does not fit: wrapping
\* takes at least MaxUint + 1 away, and the quotient shows it.
THEOREM SafeMulExact ==
  ASSUME NEW a \in Uint, NEW b \in Uint
  PROVE  SafeMulOk(a, b) <=> a * b \in Uint
<1>0. a \in Nat /\ b \in Nat /\ a * b \in Nat /\ MaxUint + 1 \in Nat \ {0}
  BY MaxUintAssumption DEF Uint
<1>1. CASE a = 0 \/ b = 0
  BY <1>0, <1>1, MaxUintAssumption DEF SafeMulOk, Uint
<1>2. CASE a # 0 /\ b # 0
  <2> DEFINE p == a * b
             w == Wrap(p)
  <2>1. /\ p = (MaxUint + 1) * (p \div (MaxUint + 1)) + w
        /\ w \in 0 .. MaxUint /\ p \div (MaxUint + 1) \in Nat
    BY <1>0, MaxUintAssumption DEF Wrap
  <2>2. w <= p
    BY <1>0, <2>1, MaxUintAssumption
  <2>3. w = p <=> p <= MaxUint
    BY <1>0, <2>1, MaxUintAssumption DEF Wrap
  <2>4. w \div a = b <=> w = p
    BY <1>0, <1>2, <2>1, <2>2, Quotient
  <2> QED BY <1>0, <1>2, <2>3, <2>4, MaxUintAssumption DEF SafeMulOk, Uint
<1> QED BY <1>1, <1>2

-----------------------------------------------------------------------------
(* core/execution/state.go *)

\* Writing one field of one account leaves every account well-typed.
LEMMA SetBalanceType ==
  ASSUME NEW st \in [Addr -> Account], NEW a \in Addr, NEW n \in Uint
  PROVE  SetBalance(st, a, n) \in [Addr -> Account]
BY DEF SetBalance, Account

\* SetStake keeps the accounts typed.
LEMMA SetStakeType ==
  ASSUME NEW st \in [Addr -> Account], NEW a \in Addr, NEW n \in Uint
  PROVE  SetStake(st, a, n) \in [Addr -> Account]
BY DEF SetStake, Account

\* SetGrantStake keeps the accounts typed.
LEMMA SetGrantStakeType ==
  ASSUME NEW st \in [Addr -> Account], NEW a \in Addr, NEW n \in Uint
  PROVE  SetGrantStake(st, a, n) \in [Addr -> Account]
BY DEF SetGrantStake, Account

\* SetUnbonding keeps the accounts typed.
LEMMA SetUnbondingType ==
  ASSUME NEW st \in [Addr -> Account], NEW a \in Addr, NEW n \in Uint, NEW r \in Int
  PROVE  SetUnbonding(st, a, n, r) \in [Addr -> Account]
<1> DEFINE acc == [st[a] EXCEPT !.UnbondingBalance = n, !.UnbondingRelease = r]
<1>1. acc \in Account
  BY DEF Account
<1>2. SetUnbonding(st, a, n, r) = [st EXCEPT ![a] = acc]
  BY DEF SetUnbonding
<1> HIDE DEF acc
<1> QED BY <1>1, <1>2

\* SetDelegation keeps the accounts typed.
LEMMA SetDelegationType ==
  ASSUME NEW st \in [Addr -> Account], NEW a \in Addr, NEW v \in Addr, NEW n \in Uint
  PROVE  SetDelegation(st, a, v, n) \in [Addr -> Account]
BY DEF SetDelegation, Account

\* SetNonce keeps the accounts typed.
LEMMA SetNonceType ==
  ASSUME NEW st \in [Addr -> Account], NEW a \in Addr, NEW k \in Nat
  PROVE  SetNonce(st, a, k) \in [Addr -> Account]
BY DEF SetNonce, Account

\* Reading a field of a well-typed account.
LEMMA GetterTypes ==
  ASSUME NEW st \in [Addr -> Account], NEW a \in Addr, NEW v \in Addr
  PROVE  /\ GetBalance(st, a) \in Uint
         /\ GetStake(st, a) \in Uint
         /\ GetGrantStake(st, a) \in Uint
         /\ GetUnbonding(st, a)[1] \in Uint
         /\ GetUnbonding(st, a)[2] \in Int
         /\ GetDelegation(st, a, v) \in Uint
         /\ GetNonce(st, a) \in Nat
BY DEF GetBalance, GetStake, GetGrantStake, GetUnbonding, GetDelegation,
       GetNonce, Account

\* A sum that SafeAdd accepts, and a difference of a covered amount, fit.
LEMMA SafeResults ==
  ASSUME NEW a \in Uint, NEW b \in Nat
  PROVE  /\ SafeAddOk(a, b) => a + b \in Uint
         /\ a >= b => a - b \in Uint
BY MaxUintAssumption DEF SafeAddOk, Uint

-----------------------------------------------------------------------------
(* Induction *)

\* A set of natural numbers has a least element.
LEMMA LeastNat ==
  ASSUME NEW T \in SUBSET Nat, T # {}
  PROVE \E n \in T : \A m \in T : n <= m
<1>1. IsWellFoundedOn({ss \in Nat \X Nat : ss[1] < ss[2]}, Nat)
  BY NatLessThanWellFounded DEF OpToRel
<1>2. PICK n \in T : \A m \in T : ~ (<<m, n>> \in {ss \in Nat \X Nat : ss[1] < ss[2]})
  BY <1>1, WFMin
<1>3. \A m \in T : m \in Nat /\ n \in Nat /\ ~ (m < n)
  BY <1>2
<1> QED BY <1>3

\* Induction over the natural numbers, the property given as the set of the
\* numbers that have it.
LEMMA NatInd ==
  ASSUME NEW P, 0 \in P, \A n \in Nat : n \in P => n + 1 \in P
  PROVE  Nat \subseteq P
<1> DEFINE T == Nat \ P
<1> SUFFICES ASSUME T # {} PROVE FALSE
  OBVIOUS
<1>1. PICK n \in T : \A m \in T : n <= m
  BY LeastNat
<1>2. n \in Nat \ {0} /\ n - 1 \in Nat /\ ~ (n <= n - 1)
  BY <1>1
<1>3. n - 1 \in P
  BY <1>1, <1>2
<1> QED BY <1>1, <1>2, <1>3

\* The same over the subsets of a finite set, smaller ones first.
LEMMA SetInd ==
  ASSUME NEW S, IsFiniteSet(S), NEW P,
         \A s \in SUBSET S : (\A x \in s : s \ {x} \in P) => s \in P
  PROVE  S \in P
<1> DEFINE Q == {n \in Nat : \A s \in SUBSET S : Cardinality(s) = n => s \in P}
<1>0. \A s \in SUBSET S : IsFiniteSet(s) /\ Cardinality(s) \in Nat
  BY FS_Subset, FS_CardinalityType
<1>1. 0 \in Q
  <2>1. ASSUME NEW s \in SUBSET S, Cardinality(s) = 0 PROVE s \in P
    BY <1>0, <2>1, FS_EmptySet
  <2> QED BY <2>1
<1>2. ASSUME NEW n \in Nat, n \in Q PROVE n + 1 \in Q
  <2>1. ASSUME NEW s \in SUBSET S, Cardinality(s) = n + 1 PROVE s \in P
    <3>1. ASSUME NEW x \in s PROVE s \ {x} \in P
      <4>1. Cardinality(s \ {x}) = n
        BY <1>0, <2>1, FS_RemoveElement
      <4> QED BY <4>1, <1>2
    <3> QED BY <3>1
  <2> QED BY <2>1
<1>3. Nat \subseteq Q
  <2> HIDE DEF Q
  <2> QED BY <1>1, <1>2, NatInd
<1> QED BY <1>0, <1>3

-----------------------------------------------------------------------------
(* The shift *)

\* The equation of Pow2 for the function g.
Pow2Step(g, h) == IF h = 0 THEN 1 ELSE 2 * g[h - 1]

\* Functions that solve it up to a number exist.
LEMMA Pow2UpTo ==
  ASSUME NEW n \in Nat
  PROVE  \E g : \A h \in 0 .. n : g[h] = Pow2Step(g, h)
<1> DEFINE P == {m \in Nat : \E g : \A h \in 0 .. m : g[h] = Pow2Step(g, h)}
<1>1. 0 \in P
  <2> DEFINE g == [h \in Nat |-> 1]
  <2>1. \A h \in 0 .. 0 : g[h] = Pow2Step(g, h)
    BY DEF Pow2Step
  <2> HIDE DEF g
  <2> QED BY <2>1
<1>2. ASSUME NEW m \in Nat, m \in P PROVE m + 1 \in P
  <2>1. PICK g : \A h \in 0 .. m : g[h] = Pow2Step(g, h)
    BY <1>2
  <2> DEFINE f == [h \in Nat |-> Pow2Step(g, h)]
  <2>2. ASSUME NEW h \in 0 .. (m + 1) PROVE f[h] = Pow2Step(f, h)
    <3>1. CASE h = 0
      BY <3>1 DEF Pow2Step
    <3>2. CASE h # 0
      <4>1. h - 1 \in 0 .. m /\ h - 1 \in Nat /\ h \in Nat
        BY <3>2
      <4>2. f[h - 1] = g[h - 1]
        BY <2>1, <4>1
      <4> QED BY <3>2, <4>1, <4>2 DEF Pow2Step
    <3> QED BY <3>1, <3>2
  <2> HIDE DEF f
  <2> QED BY <2>2
<1>3. Nat \subseteq P
  <2> HIDE DEF P
  <2> QED BY <1>1, <1>2, NatInd
<1> QED BY <1>3

\* Two of them agree.
LEMMA Pow2Agree ==
  ASSUME NEW f, NEW g, NEW n \in Nat,
         \A h \in 0 .. n : f[h] = Pow2Step(f, h) /\ g[h] = Pow2Step(g, h)
  PROVE  f[n] = g[n]
<1> DEFINE P == {m \in Nat : m <= n => f[m] = g[m]}
<1>1. 0 \in P
  BY DEF Pow2Step
<1>2. ASSUME NEW m \in Nat, m \in P PROVE m + 1 \in P
  <2>1. CASE m + 1 <= n
    <3>1. m + 1 \in 0 .. n /\ m + 1 # 0 /\ (m + 1) - 1 = m /\ m <= n
      BY <2>1
    <3>2. f[m] = g[m]
      BY <1>2, <3>1
    <3>3. f[m + 1] = Pow2Step(f, m + 1) /\ g[m + 1] = Pow2Step(g, m + 1)
      BY <3>1
    <3>4. f[m + 1] = 2 * f[m] /\ g[m + 1] = 2 * g[m]
      BY <3>1, <3>3 DEF Pow2Step
    <3> QED BY <3>2, <3>4
  <2>2. CASE ~ (m + 1 <= n)
    BY <2>2
  <2> QED BY <2>1, <2>2
<1>3. Nat \subseteq P
  <2> HIDE DEF P
  <2> QED BY <1>1, <1>2, NatInd
<1> QED BY <1>3

\* Pow2 solves its equation.
LEMMA Pow2Def ==
  Pow2 = [h \in Nat |-> Pow2Step(Pow2, h)]
<1> DEFINE Upto(n) == CHOOSE g : \A h \in 0 .. n : g[h] = Pow2Step(g, h)
           f == [n \in Nat |-> Upto(n)[n]]
<1>1. ASSUME NEW n \in Nat PROVE \A h \in 0 .. n : Upto(n)[h] = Pow2Step(Upto(n), h)
  BY Pow2UpTo
<1>2. ASSUME NEW n \in Nat PROVE f[n] = Pow2Step(f, n)
  <2>1. n \in 0 .. n /\ f[n] = Upto(n)[n]
    OBVIOUS
  <2>2. f[n] = Pow2Step(Upto(n), n)
    <3> HIDE DEF Upto, f
    <3> QED BY <1>1, <2>1
  <2>3. CASE n = 0
    BY <2>2, <2>3 DEF Pow2Step
  <2>4. CASE n # 0
    <3>1. n - 1 \in Nat /\ 0 .. (n - 1) \subseteq 0 .. n
      BY <2>4
    <3>2. f[n - 1] = Upto(n - 1)[n - 1]
      BY <3>1
    <3> HIDE DEF Upto, f
    <3>3. Upto(n)[n - 1] = Upto(n - 1)[n - 1]
      BY <1>1, <3>1, Pow2Agree
    <3> QED BY <2>2, <2>4, <3>2, <3>3 DEF Pow2Step
  <2> QED BY <2>3, <2>4
<1>3. f = [h \in Nat |-> Pow2Step(f, h)]
  <2>1. f = [h \in Nat |-> f[h]]
    OBVIOUS
  <2> HIDE DEF f
  <2> QED BY <1>2, <2>1
<1>4. \E g : g = [h \in Nat |-> Pow2Step(g, h)]
  <2> HIDE DEF f
  <2> QED BY <1>3
<1>5. Pow2 = CHOOSE g : g = [h \in Nat |-> Pow2Step(g, h)]
  BY DEF Pow2, Pow2Step
<1> QED BY <1>4, <1>5

\* The powers of two.
LEMMA Pow2Values ==
  /\ Pow2[0] = 1
  /\ \A h \in Nat : Pow2[h] \in Nat \ {0} /\ Pow2[h + 1] = 2 * Pow2[h]
<1>1. \A h \in Nat : Pow2[h] = Pow2Step(Pow2, h)
  BY Pow2Def
<1>2. Pow2[0] = 1
  BY <1>1 DEF Pow2Step
<1>3. \A h \in Nat : Pow2[h + 1] = 2 * Pow2[h]
  <2> TAKE h \in Nat
  <2>1. h + 1 \in Nat /\ h + 1 # 0 /\ (h + 1) - 1 = h
    OBVIOUS
  <2> QED BY <1>1, <2>1 DEF Pow2Step
<1> DEFINE P == {m \in Nat : Pow2[m] \in Nat \ {0}}
<1>4. 0 \in P /\ \A m \in Nat : m \in P => m + 1 \in P
  BY <1>2, <1>3
<1>5. Nat \subseteq P
  <2> HIDE DEF P
  <2> QED BY <1>4, NatInd
<1> QED BY <1>2, <1>3, <1>5

\* A shift of an unsigned value, and one more place.
LEMMA ShiftValues ==
  ASSUME NEW n \in Nat, NEW h \in Nat
  PROVE  /\ ShiftRight(n, h) \in 0 .. n
         /\ ShiftRight(n, h + 1) = ShiftRight(n, h) \div 2
<1> DEFINE p == Pow2[h]
<1>1. p \in Nat \ {0} /\ Pow2[h + 1] = 2 * p
  BY Pow2Values
<1>2. ShiftRight(n, h) = n \div p /\ ShiftRight(n, h + 1) = n \div (2 * p)
  BY <1>1 DEF ShiftRight
<1> HIDE DEF p
<1>3. n \div p \in 0 .. n
  BY <1>1
<1>4. n \div (2 * p) = (n \div p) \div 2
  <2> DEFINE q == n \div p
             r == n % p
             s == q \div 2
             b == q % 2
  <2>1. n = p * q + r /\ q \in Nat /\ r \in Nat /\ r < p
    BY <1>1
  <2>2. q = 2 * s + b /\ s \in Nat /\ b \in {0, 1}
    <3> HIDE DEF q
    <3> QED BY <2>1
  <2> HIDE DEF q, r, s, b
  <2>3. p * q = p * (2 * s) + p * b
    BY <1>1, <2>2
  <2>4. p * (2 * s) = (2 * p) * s /\ (2 * p) * s \in Nat /\ p * b \in {0, p}
    BY <1>1, <2>2
  <2>5. n = (2 * p) * s + (p * b + r) /\ p * b + r \in 0 .. (2 * p - 1)
    BY <1>1, <2>1, <2>2, <2>3, <2>4
  <2>6. n \div (2 * p) = s
    BY <1>1, <2>2, <2>4, <2>5
  <2> QED BY <2>6 DEF s, q
<1> QED BY <1>2, <1>3, <1>4
=============================================================================
