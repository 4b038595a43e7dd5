---------------------------- MODULE ExecuteProofs ----------------------------
(***************************************************************************)
(* Proofs about LedgerCalls, first part: sums over finite sets and the     *)
(* total wealth, the inductive invariant, and that it holds after Execute  *)
(* has read the accounts and decided what to write.                        *)
(***************************************************************************)
EXTENDS LedgerCalls, AccountsProofs, FiniteSetTheorems, TLAPS

\* Most steps have no arithmetic: Zenon is tried before the SMT solver.
USE ZenonT(2), SMTT(20), ZenonT(20)

-----------------------------------------------------------------------------
(* Sums over finite sets. *)

\* One element of a set and the sum over the others.
SumStep(f, g, s) ==
  IF s = {} THEN 0 ELSE f[CHOOSE x \in s : TRUE] + g[s \ {CHOOSE x \in s : TRUE}]

\* The sums over the subsets of S, as MapThenSumSet computes them.
SumTable(f, S) == CHOOSE g : g = [s \in SUBSET S |-> SumStep(f, g, s)]

\* A sum is an entry of the table.
LEMMA SumIsTable ==
  ASSUME NEW f, NEW S
  PROVE  SumOver(f, S) = SumTable(f, S)[S]
BY DEF SumOver, MapThenSumSet, MapThenFoldSet, SumTable, SumStep

\* The table exists.
LEMMA TableExists ==
  ASSUME NEW f, NEW S, IsFiniteSet(S)
  PROVE  SumTable(f, S) = [s \in SUBSET S |-> SumStep(f, SumTable(f, S), s)]
<1> DEFINE Solves(g, n) == \A s \in SUBSET S : Cardinality(s) <= n => g[s] = SumStep(f, g, s)
           Q == {n \in Nat : \E g : Solves(g, n)}
<1>0. \A s \in SUBSET S : IsFiniteSet(s) /\ Cardinality(s) \in Nat
  BY FS_Subset, FS_CardinalityType
<1>1. 0 \in Q
  <2> DEFINE g == [s \in SUBSET S |-> 0]
  <2>1. ASSUME NEW s \in SUBSET S, Cardinality(s) <= 0 PROVE s = {}
    BY <1>0, <2>1, FS_EmptySet
  <2>2. Solves(g, 0)
    BY <2>1 DEF SumStep
  <2> QED BY <2>2
<1>2. ASSUME NEW n \in Nat, n \in Q PROVE n + 1 \in Q
  <2>1. PICK g : Solves(g, n)
    BY <1>2
  <2> DEFINE h == [s \in SUBSET S |-> SumStep(f, g, s)]
  <2>2. ASSUME NEW s \in SUBSET S, Cardinality(s) <= n + 1 PROVE h[s] = SumStep(f, h, s)
    <3>1. CASE s = {}
      BY <3>1 DEF SumStep
    <3>2. CASE s # {}
      <4> DEFINE x == CHOOSE x \in s : TRUE
                 r == s \ {x}
      <4>1. x \in s
        BY <3>2
      <4>2. Cardinality(r) = Cardinality(s) - 1
        BY <1>0, <4>1, FS_RemoveElement
      <4>3. r \in SUBSET S /\ Cardinality(r) <= n
        BY <1>0, <2>2, <4>2
      <4>4. h[r] = g[r]
        BY <2>1, <4>3
      <4>5. h[s] = f[x] + g[r] /\ SumStep(f, h, s) = f[x] + h[r]
        BY <3>2 DEF SumStep
      <4> QED BY <4>4, <4>5
    <3> QED BY <3>1, <3>2
  <2>3. Solves(h, n + 1)
    BY <2>2
  <2> HIDE DEF h, Solves
  <2> QED BY <2>3
<1>3. Cardinality(S) \in Q
  <2>1. Nat \subseteq Q
    <3> HIDE DEF Q
    <3> QED BY <1>1, <1>2, NatInd
  <2> QED BY <1>0, <2>1
<1>4. PICK g : Solves(g, Cardinality(S))
  BY <1>3
<1> DEFINE h == [s \in SUBSET S |-> g[s]]
<1>5. \A s \in SUBSET S : Cardinality(s) <= Cardinality(S)
  BY FS_Subset
<1>6. ASSUME NEW s \in SUBSET S PROVE h[s] = SumStep(f, h, s)
  <2>1. g[s] = SumStep(f, g, s)
    BY <1>4, <1>5
  <2>2. CASE s = {}
    BY <2>1, <2>2 DEF SumStep
  <2>3. CASE s # {}
    BY <2>1, <2>3 DEF SumStep
  <2> QED BY <2>2, <2>3
<1>7. h = [s \in SUBSET S |-> SumStep(f, h, s)]
  BY <1>6
<1>8. \E t : t = [s \in SUBSET S |-> SumStep(f, t, s)]
  <2> HIDE DEF h
  <2> QED BY <1>7
<1> QED BY <1>8 DEF SumTable

\* An entry of the table.
LEMMA TableAt ==
  ASSUME NEW f, NEW S, IsFiniteSet(S), NEW s \in SUBSET S
  PROVE  SumTable(f, S)[s] = SumStep(f, SumTable(f, S), s)
<1> DEFINE t == SumTable(f, S)
<1>1. t = [r \in SUBSET S |-> SumStep(f, t, r)]
  BY TableExists
<1> HIDE DEF t
<1>2. t[s] = SumStep(f, t, s)
  BY <1>1
<1> QED BY <1>2 DEF t

\* The tables of a set and of its subsets agree.
LEMMA TablesAgree ==
  ASSUME NEW f, NEW S, IsFiniteSet(S), NEW R \in SUBSET S
  PROVE  SumTable(f, R)[R] = SumTable(f, S)[R]
<1>0. IsFiniteSet(R)
  BY FS_Subset
<1> DEFINE P == {s \in SUBSET R : SumTable(f, R)[s] = SumTable(f, S)[s]}
<1>1. ASSUME NEW s \in SUBSET R, \A x \in s : s \ {x} \in P PROVE s \in P
  <2>1. /\ SumTable(f, R)[s] = SumStep(f, SumTable(f, R), s)
        /\ SumTable(f, S)[s] = SumStep(f, SumTable(f, S), s)
    BY <1>0, TableAt
  <2>2. CASE s = {}
    BY <2>1, <2>2 DEF SumStep
  <2>3. CASE s # {}
    <3> DEFINE x == CHOOSE x \in s : TRUE
    <3>1. x \in s
      BY <2>3
    <3>2. SumTable(f, R)[s \ {x}] = SumTable(f, S)[s \ {x}]
      BY <1>1, <3>1
    <3> QED BY <2>1, <2>3, <3>2 DEF SumStep
  <2> QED BY <2>2, <2>3
<1>2. R \in P
  <2> HIDE DEF P
  <2> QED BY <1>0, <1>1, SetInd
<1> QED BY <1>2

\* The sum over no elements is 0.
LEMMA SumEmpty ==
  ASSUME NEW f
  PROVE  SumOver(f, {}) = 0
<1>1. SumTable(f, {})[{}] = SumStep(f, SumTable(f, {}), {})
  BY FS_EmptySet, TableAt
<1> QED BY <1>1, SumIsTable DEF SumStep

\* A sum takes out one of its elements.
LEMMA SumChosen ==
  ASSUME NEW f, NEW S, IsFiniteSet(S), S # {}
  PROVE  \E x \in S : SumOver(f, S) = f[x] + SumOver(f, S \ {x})
<1> DEFINE x == CHOOSE x \in S : TRUE
<1>0. x \in S
  OBVIOUS
<1>1. SumOver(f, S) = SumStep(f, SumTable(f, S), S)
  BY SumIsTable, TableAt
<1>2. SumTable(f, S)[S \ {x}] = SumOver(f, S \ {x})
  BY SumIsTable, TablesAgree
<1>3. SumOver(f, S) = f[x] + SumOver(f, S \ {x})
  BY <1>1, <1>2 DEF SumStep
<1> HIDE DEF x
<1> QED BY <1>0, <1>3

\* A finite sum of integers is an integer.
LEMMA SumType ==
  ASSUME NEW f, NEW S, IsFiniteSet(S), \A x \in S : f[x] \in Int
  PROVE  SumOver(f, S) \in Int
<1> DEFINE P == {s \in SUBSET S : SumOver(f, s) \in Int}
<1>1. ASSUME NEW s \in SUBSET S, \A x \in s : s \ {x} \in P PROVE s \in P
  <2>1. CASE s = {}
    BY <2>1, SumEmpty
  <2>2. CASE s # {}
    <3>1. PICK x \in s : SumOver(f, s) = f[x] + SumOver(f, s \ {x})
      BY <2>2, SumChosen, FS_Subset
    <3> QED BY <1>1, <3>1
  <2> QED BY <2>1, <2>2
<1>2. S \in P
  <2> HIDE DEF P
  <2> QED BY <1>1, SetInd
<1> QED BY <1>2

\* Any element can be taken out.
LEMMA SumTakeOut ==
  ASSUME NEW f, NEW S, IsFiniteSet(S), \A x \in S : f[x] \in Int, NEW y \in S
  PROVE  SumOver(f, S) = f[y] + SumOver(f, S \ {y})
<1> DEFINE P == {s \in SUBSET S : \A z \in s : SumOver(f, s) = f[z] + SumOver(f, s \ {z})}
<1>1. ASSUME NEW s \in SUBSET S, \A x \in s : s \ {x} \in P PROVE s \in P
  <2> SUFFICES ASSUME NEW z \in s PROVE SumOver(f, s) = f[z] + SumOver(f, s \ {z})
    OBVIOUS
  <2>1. IsFiniteSet(s)
    BY FS_Subset
  <2>2. PICK x \in s : SumOver(f, s) = f[x] + SumOver(f, s \ {x})
    BY <2>1, SumChosen
  <2>3. CASE z = x
    BY <2>2, <2>3
  <2>4. CASE z # x
    <3>1. SumOver(f, s \ {x}) = f[z] + SumOver(f, (s \ {x}) \ {z})
      BY <1>1, <2>1, <2>4
    <3>2. SumOver(f, s \ {z}) = f[x] + SumOver(f, (s \ {z}) \ {x})
      BY <1>1, <2>1, <2>4
    <3>3. (s \ {x}) \ {z} = (s \ {z}) \ {x}
      OBVIOUS
    <3>4. IsFiniteSet((s \ {z}) \ {x}) /\ \A w \in (s \ {z}) \ {x} : f[w] \in Int
      BY <2>1, FS_Subset
    <3>5. SumOver(f, (s \ {z}) \ {x}) \in Int
      BY <3>4, SumType
    <3>6. f[x] \in Int /\ f[z] \in Int
      BY <2>1
    <3> DEFINE rest == SumOver(f, (s \ {z}) \ {x})
    <3>7. SumOver(f, s) = f[x] + (f[z] + rest)
      BY <2>2, <3>1, <3>3
    <3>8. f[z] + SumOver(f, s \ {z}) = f[z] + (f[x] + rest)
      BY <3>2
    <3>9. rest \in Int
      BY <3>5
    <3> HIDE DEF rest
    <3>10. f[x] + (f[z] + rest) = f[z] + (f[x] + rest)
      BY <3>6, <3>9
    <3> QED BY <3>7, <3>8, <3>10
  <2> QED BY <2>3, <2>4
<1>2. S \in P
  <2> HIDE DEF P
  <2> QED BY <1>1, SetInd
<1> QED BY <1>2

\* Smaller values have a smaller sum.
LEMMA SumMonotone ==
  ASSUME NEW f, NEW g, NEW S, IsFiniteSet(S),
         \A x \in S : f[x] \in Int /\ g[x] \in Int /\ f[x] <= g[x]
  PROVE  SumOver(f, S) <= SumOver(g, S)
<1> DEFINE P == {s \in SUBSET S : SumOver(f, s) <= SumOver(g, s)}
<1>1. ASSUME NEW s \in SUBSET S, \A x \in s : s \ {x} \in P PROVE s \in P
  <2>1. CASE s = {}
    BY <2>1, SumEmpty
  <2>2. CASE s # {}
    <3>1. PICK x \in s : TRUE
      BY <2>2
    <3>2. IsFiniteSet(s) /\ IsFiniteSet(s \ {x})
      BY FS_Subset
    <3>3. /\ SumOver(f, s) = f[x] + SumOver(f, s \ {x})
          /\ SumOver(g, s) = g[x] + SumOver(g, s \ {x})
      BY <3>2, SumTakeOut
    <3>4. SumOver(f, s \ {x}) \in Int /\ SumOver(g, s \ {x}) \in Int
      BY <3>2, SumType
    <3>5. SumOver(f, s \ {x}) <= SumOver(g, s \ {x}) /\ f[x] \in Int /\ g[x] \in Int /\ f[x] <= g[x]
      BY <1>1
    <3> QED BY <3>3, <3>4, <3>5
  <2> QED BY <2>1, <2>2
<1>2. S \in P
  <2> HIDE DEF P
  <2> QED BY <1>1, SetInd
<1> QED BY <1>2

\* Equal values have an equal sum.
LEMMA SumSame ==
  ASSUME NEW f, NEW g, NEW S, IsFiniteSet(S), \A x \in S : f[x] \in Int /\ f[x] = g[x]
  PROVE  SumOver(f, S) = SumOver(g, S)
<1>1. SumOver(f, S) <= SumOver(g, S) /\ SumOver(g, S) <= SumOver(f, S)
  BY SumMonotone
<1> QED BY <1>1, SumType

\* A sum over a set and the rest of another one.
LEMMA SumPart ==
  ASSUME NEW f, NEW S, IsFiniteSet(S), NEW R \in SUBSET S, \A x \in S : f[x] \in Int,
         \A x \in S \ R : f[x] = 0
  PROVE  SumOver(f, S) = SumOver(f, R)
<1> DEFINE P == {s \in SUBSET S : SumOver(f, s) = SumOver(f, s \cap R)}
<1>1. ASSUME NEW s \in SUBSET S, \A x \in s : s \ {x} \in P PROVE s \in P
  <2>0. IsFiniteSet(s) /\ IsFiniteSet(s \cap R)
    BY FS_Subset
  <2>1. CASE s \subseteq R
    <3>1. s \cap R = s
      BY <2>1
    <3> QED BY <3>1
  <2>2. CASE ~ (s \subseteq R)
    <3>1. PICK x \in s : x \notin R
      BY <2>2
    <3>2. SumOver(f, s) = f[x] + SumOver(f, s \ {x}) /\ f[x] = 0
      BY <2>0, <3>1, SumTakeOut
    <3>3. (s \ {x}) \cap R = s \cap R
      BY <3>1
    <3>4. SumOver(f, s \ {x}) = SumOver(f, s \cap R)
      BY <1>1, <3>3
    <3>5. SumOver(f, s \cap R) \in Int
      BY <2>0, SumType
    <3> QED BY <3>2, <3>4, <3>5
  <2> QED BY <2>1, <2>2
<1>2. S \in P
  <2> HIDE DEF P
  <2> QED BY <1>1, SetInd
<1>3. S \cap R = R
  OBVIOUS
<1> QED BY <1>2, <1>3

\* The sum of two functions.
LEMMA SumAdd ==
  ASSUME NEW f, NEW g, NEW h, NEW S, IsFiniteSet(S),
         \A x \in S : f[x] \in Int /\ g[x] \in Int /\ h[x] = f[x] + g[x]
  PROVE  SumOver(h, S) = SumOver(f, S) + SumOver(g, S)
<1> DEFINE P == {s \in SUBSET S : SumOver(h, s) = SumOver(f, s) + SumOver(g, s)}
<1>1. ASSUME NEW s \in SUBSET S, \A x \in s : s \ {x} \in P PROVE s \in P
  <2>1. CASE s = {}
    BY <2>1, SumEmpty
  <2>2. CASE s # {}
    <3>1. PICK x \in s : TRUE
      BY <2>2
    <3>2. IsFiniteSet(s) /\ IsFiniteSet(s \ {x}) /\ \A y \in S : h[y] \in Int
      BY FS_Subset
    <3>3. /\ SumOver(f, s) = f[x] + SumOver(f, s \ {x})
          /\ SumOver(g, s) = g[x] + SumOver(g, s \ {x})
          /\ SumOver(h, s) = h[x] + SumOver(h, s \ {x})
      BY <3>2, SumTakeOut
    <3>4. SumOver(f, s \ {x}) \in Int /\ SumOver(g, s \ {x}) \in Int
      BY <3>2, SumType
    <3>5. /\ SumOver(h, s \ {x}) = SumOver(f, s \ {x}) + SumOver(g, s \ {x})
          /\ f[x] \in Int /\ g[x] \in Int /\ h[x] = f[x] + g[x]
      BY <1>1
    <3> QED BY <3>3, <3>4, <3>5
  <2> QED BY <2>1, <2>2
<1>2. S \in P
  <2> HIDE DEF P
  <2> QED BY <1>1, SetInd
<1> QED BY <1>2

\* Changing one value changes the sum by the difference.
LEMMA SumChange ==
  ASSUME NEW f, NEW g, NEW S, IsFiniteSet(S), NEW x \in S,
         \A y \in S : f[y] \in Int /\ g[y] \in Int,
         \A y \in S \ {x} : f[y] = g[y]
  PROVE  SumOver(g, S) = SumOver(f, S) - f[x] + g[x]
<1>1. IsFiniteSet(S \ {x})
  BY FS_Subset
<1>2. /\ SumOver(f, S) = f[x] + SumOver(f, S \ {x})
      /\ SumOver(g, S) = g[x] + SumOver(g, S \ {x})
  BY SumTakeOut
<1>3. SumOver(f, S \ {x}) = SumOver(g, S \ {x}) /\ SumOver(f, S \ {x}) \in Int
  BY <1>1, SumSame, SumType
<1>4. f[x] \in Int /\ g[x] \in Int
  OBVIOUS
<1> QED BY <1>2, <1>3, <1>4

\* One value that is smaller by one.
LEMMA SumStrict ==
  ASSUME NEW f, NEW g, NEW S, IsFiniteSet(S), NEW x \in S,
         \A y \in S : f[y] \in Int /\ g[y] \in Int /\ f[y] <= g[y],
         f[x] <= g[x] - 1
  PROVE  SumOver(f, S) <= SumOver(g, S) - 1
<1>1. IsFiniteSet(S \ {x})
  BY FS_Subset
<1>2. /\ SumOver(f, S) = f[x] + SumOver(f, S \ {x})
      /\ SumOver(g, S) = g[x] + SumOver(g, S \ {x})
  BY SumTakeOut
<1>3. /\ SumOver(f, S \ {x}) <= SumOver(g, S \ {x})
      /\ SumOver(f, S \ {x}) \in Int /\ SumOver(g, S \ {x}) \in Int
  BY <1>1, SumMonotone, SumType
<1>4. f[x] \in Int /\ g[x] \in Int
  OBVIOUS
<1> QED BY <1>2, <1>3, <1>4

-----------------------------------------------------------------------------
(* The total wealth after a setter. *)

\* Wealth is a natural number.
LEMMA WealthType ==
  ASSUME NEW st \in [Addr -> Account], NEW a \in Addr
  PROVE  Wealth(st[a]) \in Nat
<1>1. /\ st[a].Balance \in Nat /\ st[a].Stake \in Nat
      /\ st[a].GrantStake \in Nat /\ st[a].UnbondingBalance \in Nat
  BY DEF Account, Uint
<1> QED BY <1>1 DEF Wealth

\* So is the total.
LEMMA TotalType ==
  ASSUME NEW st \in [Addr -> Account]
  PROVE  TotalWealth(st) \in Int
<1> DEFINE f == [a \in Addr |-> Wealth(st[a])]
<1>1. \A a \in Addr : f[a] \in Int
  BY WealthType
<1> HIDE DEF f
<1>2. SumOver(f, Addr) \in Int
  BY <1>1, SumType, LedgerCallsAssumption
<1> QED BY <1>2 DEF TotalWealth, f

\* A write to one account changes the total by what the account gains.
LEMMA TotalChange ==
  ASSUME NEW st \in [Addr -> Account], NEW st2 \in [Addr -> Account], NEW a \in Addr,
         \A b \in Addr \ {a} : st2[b] = st[b]
  PROVE  TotalWealth(st2) = TotalWealth(st) - Wealth(st[a]) + Wealth(st2[a])
<1> DEFINE f == [b \in Addr |-> Wealth(st[b])]
           g == [b \in Addr |-> Wealth(st2[b])]
<1>1. \A b \in Addr : f[b] \in Int /\ g[b] \in Int
  BY WealthType
<1>2. \A b \in Addr \ {a} : f[b] = g[b]
  OBVIOUS
<1>3. f[a] = Wealth(st[a]) /\ g[a] = Wealth(st2[a])
  OBVIOUS
<1> HIDE DEF f, g
<1>4. SumOver(g, Addr) = SumOver(f, Addr) - f[a] + g[a]
  BY <1>1, <1>2, SumChange, LedgerCallsAssumption
<1> QED BY <1>3, <1>4 DEF TotalWealth, f, g

\* new is st after a call of a setter for account a that keeps the nonce and
\* adds gain to the account.
Wrote(st, new, a, gain) ==
  /\ new \in [Addr -> Account]
  /\ \A b \in Addr \ {a} : new[b] = st[b]
  /\ new[a].Nonce = st[a].Nonce
  /\ TotalWealth(new) = TotalWealth(st) + gain

\* A write to one account, as Wrote says it.
LEMMA OneAccount ==
  ASSUME NEW st \in [Addr -> Account], NEW new \in [Addr -> Account], NEW a \in Addr,
         NEW gain \in Int, \A b \in Addr \ {a} : new[b] = st[b],
         new[a].Nonce = st[a].Nonce, Wealth(new[a]) = Wealth(st[a]) + gain
  PROVE  Wrote(st, new, a, gain)
<1>1. TotalWealth(new) = TotalWealth(st) - Wealth(st[a]) + Wealth(new[a])
  BY TotalChange
<1>2. TotalWealth(st) \in Int /\ Wealth(st[a]) \in Int
  BY TotalType, WealthType
<1>3. TotalWealth(new) = TotalWealth(st) + gain
  BY <1>1, <1>2
<1> QED BY <1>3 DEF Wrote

\* The setters, with what each adds to the account (state.go).
LEMMA WroteBalance ==
  ASSUME NEW st \in [Addr -> Account], NEW a \in Addr, NEW n \in Uint
  PROVE  Wrote(st, SetBalance(st, a, n), a, n - GetBalance(st, a))
<1> DEFINE new == SetBalance(st, a, n)
           gain == n - GetBalance(st, a)
<1>1. /\ new \in [Addr -> Account] /\ st[a] \in Account
      /\ \A b \in Addr \ {a} : new[b] = st[b]
      /\ new[a] = [st[a] EXCEPT !.Balance = n]
  BY SetBalanceType DEF SetBalance
<1>2. /\ new[a].Nonce = st[a].Nonce
      /\ Wealth(new[a]) = Wealth(st[a]) + gain /\ gain \in Int
  BY <1>1 DEF Wealth, Account, GetBalance, Uint
<1> HIDE DEF new, gain
<1>3. Wrote(st, new, a, gain)
  BY <1>1, <1>2, OneAccount
<1> QED BY <1>3 DEF new, gain

\* SetStake changes the wealth of its account by the change of the stake.
LEMMA WroteStake ==
  ASSUME NEW st \in [Addr -> Account], NEW a \in Addr, NEW n \in Uint
  PROVE  Wrote(st, SetStake(st, a, n), a, n - GetStake(st, a))
<1> DEFINE new == SetStake(st, a, n)
           gain == n - GetStake(st, a)
<1>1. /\ new \in [Addr -> Account] /\ st[a] \in Account
      /\ \A b \in Addr \ {a} : new[b] = st[b]
      /\ new[a] = [st[a] EXCEPT !.Stake = n]
  BY SetStakeType DEF SetStake
<1>2. /\ new[a].Nonce = st[a].Nonce
      /\ Wealth(new[a]) = Wealth(st[a]) + gain /\ gain \in Int
  BY <1>1 DEF Wealth, Account, GetStake, Uint
<1> HIDE DEF new, gain
<1>3. Wrote(st, new, a, gain)
  BY <1>1, <1>2, OneAccount
<1> QED BY <1>3 DEF new, gain

\* SetGrantStake changes the wealth of its account by the change of the granted stake.
LEMMA WroteGrantStake ==
  ASSUME NEW st \in [Addr -> Account], NEW a \in Addr, NEW n \in Uint
  PROVE  Wrote(st, SetGrantStake(st, a, n), a, n - GetGrantStake(st, a))
<1> DEFINE new == SetGrantStake(st, a, n)
           gain == n - GetGrantStake(st, a)
<1>1. /\ new \in [Addr -> Account] /\ st[a] \in Account
      /\ \A b \in Addr \ {a} : new[b] = st[b]
      /\ new[a] = [st[a] EXCEPT !.GrantStake = n]
  BY SetGrantStakeType DEF SetGrantStake
<1>2. /\ new[a].Nonce = st[a].Nonce
      /\ Wealth(new[a]) = Wealth(st[a]) + gain /\ gain \in Int
  BY <1>1 DEF Wealth, Account, GetGrantStake, Uint
<1> HIDE DEF new, gain
<1>3. Wrote(st, new, a, gain)
  BY <1>1, <1>2, OneAccount
<1> QED BY <1>3 DEF new, gain

\* SetUnbonding changes the wealth of its account by the change of the unbonding funds.
LEMMA WroteUnbonding ==
  ASSUME NEW st \in [Addr -> Account], NEW a \in Addr, NEW n \in Uint, NEW r \in Int
  PROVE  Wrote(st, SetUnbonding(st, a, n, r), a, n - GetUnbonding(st, a)[1])
<1> DEFINE new == SetUnbonding(st, a, n, r)
           gain == n - GetUnbonding(st, a)[1]
<1>1. /\ new \in [Addr -> Account] /\ st[a] \in Account
      /\ \A b \in Addr \ {a} : new[b] = st[b]
      /\ new[a] = [st[a] EXCEPT !.UnbondingBalance = n, !.UnbondingRelease = r]
  BY SetUnbondingType DEF SetUnbonding
<1>2. /\ new[a].Nonce = st[a].Nonce
      /\ Wealth(new[a]) = Wealth(st[a]) + gain /\ gain \in Int
  BY <1>1 DEF Wealth, Account, GetUnbonding, Uint
<1> HIDE DEF new, gain
<1>3. Wrote(st, new, a, gain)
  BY <1>1, <1>2, OneAccount
<1> QED BY <1>3 DEF new, gain

\* SetDelegation changes no wealth.
LEMMA WroteDelegation ==
  ASSUME NEW st \in [Addr -> Account], NEW a \in Addr, NEW v \in Addr, NEW n \in Uint
  PROVE  Wrote(st, SetDelegation(st, a, v, n), a, 0)
<1> DEFINE new == SetDelegation(st, a, v, n)
           gain == 0
<1>1. /\ new \in [Addr -> Account] /\ st[a] \in Account
      /\ \A b \in Addr \ {a} : new[b] = st[b]
      /\ new[a] = [st[a] EXCEPT !.Delegations[v] = n]
  BY SetDelegationType DEF SetDelegation
<1>2. /\ new[a].Nonce = st[a].Nonce
      /\ Wealth(new[a]) = Wealth(st[a]) + gain /\ gain \in Int
  BY <1>1 DEF Wealth, Account, Uint
<1> HIDE DEF new, gain
<1>3. Wrote(st, new, a, gain)
  BY <1>1, <1>2, OneAccount
<1> QED BY <1>3 DEF new, gain

\* The nonce is written last.
LEMMA WroteNonce ==
  ASSUME NEW st \in [Addr -> Account], NEW a \in Addr, NEW k \in Nat
  PROVE  /\ SetNonce(st, a, k) \in [Addr -> Account]
         /\ \A b \in Addr \ {a} : SetNonce(st, a, k)[b] = st[b]
         /\ SetNonce(st, a, k)[a].Nonce = k
         /\ TotalWealth(SetNonce(st, a, k)) = TotalWealth(st)
<1> DEFINE new == SetNonce(st, a, k)
<1>1. new \in [Addr -> Account]
  BY SetNonceType
<1>2. /\ \A b \in Addr \ {a} : new[b] = st[b]
      /\ new[a] = [st[a] EXCEPT !.Nonce = k] /\ st[a] \in Account
  BY DEF SetNonce
<1>3. new[a].Nonce = k
  BY <1>2 DEF Account
<1>4. Wealth(new[a]) = Wealth(st[a]) /\ Wealth(st[a]) \in Int
  BY <1>2 DEF Wealth, Account, Uint
<1> HIDE DEF new
<1>5. TotalWealth(new) = TotalWealth(st) - Wealth(st[a]) + Wealth(new[a]) /\ TotalWealth(st) \in Int
  BY <1>1, <1>2, TotalChange, TotalType
<1>6. TotalWealth(new) = TotalWealth(st)
  BY <1>4, <1>5
<1> QED BY <1>1, <1>2, <1>3, <1>6 DEF new

-----------------------------------------------------------------------------
(* The invariant. *)

WriteRec == [addr : Addr, accounts : [Addr -> Account]]

Pairs == Addr \X (1 .. MaxNonce)

CallsTypeOK ==
  /\ accounts \in [Addr -> Account]
  /\ disk \in [Addr -> Account]
  /\ before \in [Addr -> Account]
  /\ todo \in Seq(WriteRec)
  /\ call = <<>> \/ call \in L!Transaction \X L!Timestamps
  /\ now \in L!Time
  /\ unstakedAt \in [Addr -> L!Time]
  /\ applied \in [Addr -> [1 .. MaxNonce -> Nat]]
  /\ boot \in 0 .. 2 * Len(Founders)
  /\ unsaved \in SUBSET Addr /\ unread \in SUBSET Addr
  /\ crashes \in Nat
  /\ failures \in Nat

\* What Ledger says a successful Execute makes of the accounts st: one operator
\* for each type of transaction, with the checks and the result.
TransferResult(tx, st, new) ==
  LET debited == SetBalance(st, tx.From, GetBalance(st, tx.From) - (tx.Amount + tx.Fee))
  IN  /\ tx.Type = "Transfer" /\ tx.Amount # 0 /\ tx.From # tx.To
      /\ SafeAddOk(tx.Amount, tx.Fee)
      /\ GetBalance(st, tx.From) >= tx.Amount + tx.Fee
      /\ SafeAddOk(GetBalance(debited, tx.To), tx.Amount)
      /\ new = SetNonce(SetBalance(debited, tx.To, GetBalance(debited, tx.To) + tx.Amount),
                        tx.From, tx.Nonce)

StakeResult(tx, st, new) ==
  LET paid == SetBalance(st, tx.From, GetBalance(st, tx.From) - tx.Amount)
  IN  /\ tx.Type = "Stake" /\ tx.Amount # 0
      /\ GetBalance(st, tx.From) >= tx.Amount
      /\ SafeAddOk(GetStake(st, tx.From), tx.Amount)
      /\ new = SetNonce(SetStake(paid, tx.From, GetStake(st, tx.From) + tx.Amount),
                        tx.From, tx.Nonce)

UnstakeResult(tx, t, st, new) ==
  LET unbonding == GetUnbonding(st, tx.From)[1]
      taken == SetStake(st, tx.From, GetStake(st, tx.From) - tx.Amount)
  IN  /\ tx.Type = "Unstake" /\ tx.Amount # 0
      /\ GetStake(st, tx.From) >= tx.Amount
      /\ SafeAddOk(unbonding, tx.Amount)
      /\ new = SetNonce(SetUnbonding(taken, tx.From, unbonding + tx.Amount, t + UnbondingPeriod),
                        tx.From, tx.Nonce)

DelegateResult(tx, st, new) ==
  LET paid == SetBalance(st, tx.From, GetBalance(st, tx.From) - tx.Amount)
      pooled == SetStake(paid, tx.To, GetStake(st, tx.To) + tx.Amount)
  IN  /\ tx.Type = "Delegate" /\ tx.Amount # 0 /\ tx.From # tx.To
      /\ SafeAddOk(GetStake(st, tx.To), GetGrantStake(st, tx.To))
      /\ GetStake(st, tx.To) + GetGrantStake(st, tx.To) >= MinValidatorStakeForDelegation
      /\ GetBalance(st, tx.From) >= tx.Amount
      /\ SafeAddOk(GetStake(st, tx.To), tx.Amount)
      /\ SafeAddOk(GetDelegation(st, tx.From, tx.To), tx.Amount)
      /\ new = SetNonce(SetDelegation(pooled, tx.From, tx.To,
                                      GetDelegation(st, tx.From, tx.To) + tx.Amount),
                        tx.From, tx.Nonce)

WithdrawResult(tx, t, st, new) ==
  LET unbonding == GetUnbonding(st, tx.From)[1]
      cleared == SetUnbonding(st, tx.From, 0, 0)
  IN  /\ tx.Type = "Withdraw" /\ unbonding # 0
      /\ t >= GetUnbonding(st, tx.From)[2]
      /\ SafeAddOk(GetBalance(st, tx.From), unbonding)
      /\ new = SetNonce(SetBalance(cleared, tx.From, GetBalance(st, tx.From) + unbonding),
                        tx.From, tx.Nonce)

GrantResult(tx, st, new) ==
  LET paid == SetBalance(st, tx.From, GetBalance(st, tx.From) - (tx.Amount + tx.Fee))
  IN  /\ tx.Type = "Grant"
      /\ SafeAddOk(GetStake(st, tx.From), GetGrantStake(st, tx.From))
      /\ GetStake(st, tx.From) + GetGrantStake(st, tx.From) >= MinStakeForGrantAuthority
      /\ tx.From # tx.To
      /\ SafeAddOk(tx.Amount, tx.Fee)
      /\ GetBalance(st, tx.From) >= tx.Amount + tx.Fee
      /\ SafeAddOk(GetGrantStake(st, tx.To), tx.Amount)
      /\ new = SetNonce(SetGrantStake(paid, tx.To, GetGrantStake(st, tx.To) + tx.Amount),
                        tx.From, tx.Nonce)

BuyLicenseResult(tx, st, new) ==
  LET paid == SetBalance(st, tx.From, GetBalance(st, tx.From) - (tx.Amount + tx.Fee))
  IN  /\ tx.Type = "BuyLicense"
      /\ SafeAddOk(tx.Amount, tx.Fee)
      /\ GetBalance(st, tx.From) >= tx.Amount + tx.Fee
      /\ SafeAddOk(GetGrantStake(st, tx.From), tx.Amount)
      /\ new = SetNonce(SetGrantStake(paid, tx.From, GetGrantStake(st, tx.From) + tx.Amount),
                        tx.From, tx.Nonce)

Result(tx, t, st, new) ==
  /\ tx.Nonce = GetNonce(st, tx.From) + 1
  /\ \/ TransferResult(tx, st, new)
     \/ StakeResult(tx, st, new)
     \/ UnstakeResult(tx, t, st, new)
     \/ DelegateResult(tx, st, new)
     \/ WithdrawResult(tx, t, st, new)
     \/ GrantResult(tx, st, new)
     \/ BuyLicenseResult(tx, st, new)

\* The accounts in memory before the i-th write that is still to be made.
Old(i) == IF i = 1 THEN accounts ELSE todo[i - 1].accounts

\* The i-th write changes one account, only the last write of a successful
\* call changes a nonce, and no write brings the total above what it was when
\* the call began.
GoodWrite(i) ==
  /\ \A b \in Addr \ {todo[i].addr} : todo[i].accounts[b] = Old(i)[b]
  /\ todo[i].accounts[todo[i].addr].Nonce =
       IF call # <<>> /\ i = Len(todo) THEN call[1].Nonce ELSE Old(i)[todo[i].addr].Nonce
  /\ TotalWealth(todo[i].accounts) <= TotalWealth(before)

\* The writes of a successful call lead to the result Ledger gives; the other
\* ones lead back to where the call began.
CallInv ==
  /\ TotalWealth(accounts) <= TotalWealth(before)
  /\ \A i \in 1 .. Len(todo) : GoodWrite(i)
  /\ todo = <<>> => call = <<>> /\ accounts = before
  /\ call = <<>> /\ todo # <<>> => todo[Len(todo)].accounts = before
  /\ call # <<>> => /\ todo[Len(todo)].addr = call[1].From
                    /\ call[1].Nonce = accounts[call[1].From].Nonce + 1
                    /\ Result(call[1], call[2], before, todo[Len(todo)].accounts)

\* An account whose last save or load did not fail is in the database as it is
\* in memory, and no nonce in the database is ahead of memory, unless the account
\* once failed to load.
DiskInv ==
  /\ \A a \in Addr \ unsaved : disk[a] = accounts[a]
  /\ \A a \in Addr \ unread : disk[a].Nonce <= accounts[a].Nonce

\* The effects of nonce p[2] of account p[1] that are, or a crash could make,
\* a repetition, if ap counts the effects and st is in the database: all of
\* them while the nonce is not in the database, all but one once it is.  The
\* accounts un, which failed to load, are not counted.
Exposed(ap, st, un) ==
  [p \in Pairs |->
     LET n == IF p[1] \in un THEN 0 ELSE ap[p[1]][p[2]]
     IN  IF p[2] > st[p[1]].Nonce THEN n ELSE IF n > 1 THEN n - 1 ELSE 0]

\* A call is exposed between its last effect and its nonce.
NonceDue == IF call # <<>> /\ Len(todo) = 1 /\ call[1].From \notin unread THEN 1 ELSE 0

ReplayInv ==
  /\ NonceDue = 1 => applied[call[1].From][call[1].Nonce] >= 1
  /\ SumOver(Exposed(applied, disk, unread), Pairs) <= crashes + failures + NonceDue

IInv == CallsTypeOK /\ CallInv /\ DiskInv /\ ReplayInv

-----------------------------------------------------------------------------
(* A call begins. *)

\* The fields of a transaction.
LEMMA CallsTransactionType ==
  ASSUME NEW tx \in L!Transaction
  PROVE  /\ tx.From \in Addr /\ tx.To \in Addr /\ tx.Amount \in Uint /\ tx.Fee \in Uint
         /\ tx.Nonce \in 1 .. MaxNonce /\ tx.Nonce \in Nat
         /\ tx.Amount \in Nat /\ tx.Fee \in Nat /\ tx.Amount + tx.Fee \in Nat
<1>1. /\ tx.From \in Addr /\ tx.To \in Addr /\ tx.Amount \in Amounts /\ tx.Fee \in Fees
      /\ tx.Nonce \in 1 .. MaxNonce
  BY DEF L!Transaction
<1>2. tx.Amount \in Uint /\ tx.Fee \in Uint
  BY <1>1, LedgerCallsAssumption
<1> QED BY <1>1, <1>2, MaxUintAssumption, LedgerCallsAssumption DEF Uint

\* Everything but the writes to be made and the running call.
Rest == <<accounts, disk, before, history, applied, boot, unsaved, unread, crashes, failures>>

\* A call that has only read so far keeps the invariant if its writes do.
LEMMA Begin ==
  ASSUME IInv, UNCHANGED Rest, todo = <<>>,
         todo' \in Seq(WriteRec), Len(todo') >= 2,
         call' = <<>> \/ call' \in L!Transaction \X L!Timestamps,
         \A i \in 1 .. Len(todo') : GoodWrite(i)',
         call' = <<>> => todo'[Len(todo')].accounts = before,
         call' # <<>> => /\ todo'[Len(todo')].addr = call'[1].From
                         /\ Result(call'[1], call'[2], before, todo'[Len(todo')].accounts)
  PROVE  IInv'
<1>0. accounts = before /\ call = <<>> /\ now' = now
  BY DEF IInv, CallInv, Rest, history
<1>1. CallsTypeOK'
  BY DEF IInv, CallsTypeOK, Rest, history, L!Timestamps
<1>2. CallInv'
  <2>1. TotalWealth(accounts)' <= TotalWealth(before)'
    BY DEF IInv, CallInv, Rest, TotalWealth
  <2>2. call' # <<>> => call'[1].Nonce = accounts'[call'[1].From].Nonce + 1
    BY <1>0 DEF Result, GetNonce, Rest
  <2>3. todo' # <<>>
    OBVIOUS
  <2>4. before' = before
    BY DEF Rest
  <2> QED BY <2>1, <2>2, <2>3, <2>4 DEF CallInv, Result, TransferResult, StakeResult,
        UnstakeResult, DelegateResult, WithdrawResult, GrantResult, BuyLicenseResult
<1>3. DiskInv'
  BY DEF IInv, DiskInv, Rest
<1>4. ReplayInv'
  <2>1. NonceDue = 0 /\ NonceDue' = 0
    BY DEF NonceDue
  <2>2. /\ applied' = applied /\ disk' = disk /\ unread' = unread
        /\ crashes' = crashes /\ failures' = failures
    BY DEF Rest
  <2> QED BY <2>1, <2>2 DEF IInv, ReplayInv
<1> QED BY <1>1, <1>2, <1>3, <1>4 DEF IInv

\* w is a setter's write on st that keeps the nonces.
Follows(st, w) ==
  /\ w \in WriteRec
  /\ \A b \in Addr \ {w.addr} : w.accounts[b] = st[b]
  /\ w.accounts[w.addr].Nonce = st[w.addr].Nonce
  /\ TotalWealth(w.accounts) <= TotalWealth(before)

\* A write that is not the last one of its call and follows from what is there.
LEMMA GoodFollows ==
  ASSUME NEW i \in Nat, NEW st, NEW w, Follows(st, w), Old(i)' = st, todo'[i] = w,
         Len(todo') # i, before' = before
  PROVE  GoodWrite(i)'
<1>1. TotalWealth(todo[i].accounts)' = TotalWealth(w.accounts)
  BY DEF TotalWealth
<1>2. TotalWealth(before)' = TotalWealth(before)
  BY DEF TotalWealth
<1> QED BY <1>1, <1>2 DEF GoodWrite, Follows

\* A setter's write, from what the setter adds.
LEMMA FollowsWrote ==
  ASSUME NEW st, NEW new, NEW a \in Addr, NEW gain \in Int, Wrote(st, new, a, gain),
         TotalWealth(st) + gain <= TotalWealth(before)
  PROVE  Follows(st, Write(a, new))
BY DEF Follows, Wrote, Write, WriteRec

\* A call's first setter takes some of the sender's wealth.
LEMMA FollowsLoss ==
  ASSUME NEW st, NEW new, NEW a \in Addr, NEW gain, NEW loss \in Nat,
         Wrote(st, new, a, gain), gain = - loss, TotalWealth(st) \in Int,
         TotalWealth(before) \in Int, TotalWealth(st) <= TotalWealth(before)
  PROVE  Follows(st, Write(a, new))
<1>1. gain \in Int /\ TotalWealth(st) + gain <= TotalWealth(before)
  OBVIOUS
<1> QED BY <1>1, FollowsWrote, Zenon

\* Its second setter gives no more than the first one took.
LEMMA FollowsGain ==
  ASSUME NEW st0, NEW st, NEW new, NEW a \in Addr, NEW gain, NEW loss \in Nat, NEW given \in Nat,
         Wrote(st, new, a, gain), gain = given, given <= loss,
         TotalWealth(st) = TotalWealth(st0) + (- loss), TotalWealth(st0) \in Int,
         TotalWealth(before) \in Int, TotalWealth(st0) <= TotalWealth(before)
  PROVE  Follows(st, Write(a, new))
<1>1. gain \in Int /\ TotalWealth(st) + gain <= TotalWealth(before)
  OBVIOUS
<1> QED BY <1>1, FollowsWrote, Zenon

\* The write of the nonce.
LEMMA NonceWrite ==
  ASSUME NEW st \in [Addr -> Account], NEW tx \in L!Transaction,
         TotalWealth(st) <= TotalWealth(before)
  PROVE  LET w == Write(tx.From, SetNonce(st, tx.From, tx.Nonce))
         IN  /\ w \in WriteRec /\ w.addr = tx.From
             /\ w.accounts = SetNonce(st, tx.From, tx.Nonce)
             /\ \A b \in Addr \ {w.addr} : w.accounts[b] = st[b]
             /\ w.accounts[w.addr].Nonce = tx.Nonce
             /\ TotalWealth(w.accounts) <= TotalWealth(before)
<1>1. tx.From \in Addr /\ tx.Nonce \in Nat
  BY CallsTransactionType
<1> QED BY <1>1, WroteNonce DEF Write, WriteRec

\* A successful call with two writes and the nonce.
LEMMA TwoWrites ==
  ASSUME IInv, UNCHANGED Rest, todo = <<>>,
         NEW tx \in L!Transaction, NEW t \in L!Timestamps, NEW w1, NEW w2,
         Follows(accounts, w1), Follows(w1.accounts, w2),
         Succeed(tx, t, <<w1, w2>>),
         Result(tx, t, accounts, SetNonce(w2.accounts, tx.From, tx.Nonce))
  PROVE  IInv'
<1> DEFINE w3 == Write(tx.From, SetNonce(w2.accounts, tx.From, tx.Nonce))
<1>0. w1 \in WriteRec /\ w2 \in WriteRec /\ w2.accounts \in [Addr -> Account]
  BY DEF Follows, WriteRec
<1>1. /\ w3 \in WriteRec /\ w3.addr = tx.From
      /\ w3.accounts = SetNonce(w2.accounts, tx.From, tx.Nonce)
      /\ \A b \in Addr \ {w3.addr} : w3.accounts[b] = w2.accounts[b]
      /\ w3.accounts[w3.addr].Nonce = tx.Nonce
      /\ TotalWealth(w3.accounts) <= TotalWealth(before)
  BY <1>0, NonceWrite DEF Follows
<1>2. todo' = Append(<<w1, w2>>, w3) /\ call' = <<tx, t>>
  BY DEF Succeed
<1> HIDE DEF w3
<1>3. /\ todo' \in Seq(WriteRec) /\ Len(todo') = 3
      /\ todo'[1] = w1 /\ todo'[2] = w2 /\ todo'[3] = w3
  BY <1>0, <1>1, <1>2
<1>4. call' # <<>> /\ call'[1] = tx /\ call'[2] = t /\ call' \in L!Transaction \X L!Timestamps
  BY <1>2
<1>5. accounts' = accounts /\ before' = before /\ TotalWealth(before)' = TotalWealth(before)
  BY DEF Rest, TotalWealth
<1>6. GoodWrite(1)'
  <2>1. Old(1)' = accounts
    BY <1>3, <1>5 DEF Old
  <2>2. 1 \in Nat /\ Len(todo') # 1
    BY <1>3
  <2> QED BY <1>3, <1>5, <2>1, <2>2, GoodFollows
<1>7. GoodWrite(2)'
  <2>1. Old(2)' = w1.accounts
    BY <1>3, <1>5 DEF Old
  <2>2. 2 \in Nat /\ Len(todo') # 2
    BY <1>3
  <2> QED BY <1>3, <1>5, <2>1, <2>2, GoodFollows
<1>8. GoodWrite(3)'
  <2>1. Old(3)' = w2.accounts
    BY <1>3 DEF Old
  <2>2. TotalWealth(todo[3].accounts)' = TotalWealth(w3.accounts)
    BY <1>3 DEF TotalWealth
  <2> QED BY <1>1, <1>3, <1>4, <1>5, <2>1, <2>2 DEF GoodWrite
<1>9. \A i \in 1 .. Len(todo') : GoodWrite(i)'
  <2>1. \A i \in 1 .. Len(todo') : i = 1 \/ i = 2 \/ i = 3
    BY <1>3
  <2> QED BY <1>6, <1>7, <1>8, <2>1
<1>10. accounts = before
  BY DEF IInv, CallInv
<1> QED BY <1>1, <1>3, <1>4, <1>9, <1>10, Begin

\* A successful call with three writes and the nonce.
LEMMA ThreeWrites ==
  ASSUME IInv, UNCHANGED Rest, todo = <<>>,
         NEW tx \in L!Transaction, NEW t \in L!Timestamps, NEW w1, NEW w2, NEW w3,
         Follows(accounts, w1), Follows(w1.accounts, w2), Follows(w2.accounts, w3),
         Succeed(tx, t, <<w1, w2, w3>>),
         Result(tx, t, accounts, SetNonce(w3.accounts, tx.From, tx.Nonce))
  PROVE  IInv'
<1> DEFINE w4 == Write(tx.From, SetNonce(w3.accounts, tx.From, tx.Nonce))
<1>0. /\ w1 \in WriteRec /\ w2 \in WriteRec /\ w3 \in WriteRec
      /\ w3.accounts \in [Addr -> Account]
  BY DEF Follows, WriteRec
<1>1. /\ w4 \in WriteRec /\ w4.addr = tx.From
      /\ w4.accounts = SetNonce(w3.accounts, tx.From, tx.Nonce)
      /\ \A b \in Addr \ {w4.addr} : w4.accounts[b] = w3.accounts[b]
      /\ w4.accounts[w4.addr].Nonce = tx.Nonce
      /\ TotalWealth(w4.accounts) <= TotalWealth(before)
  BY <1>0, NonceWrite DEF Follows
<1>2. todo' = Append(<<w1, w2, w3>>, w4) /\ call' = <<tx, t>>
  BY DEF Succeed
<1> HIDE DEF w4
<1>3. /\ todo' \in Seq(WriteRec) /\ Len(todo') = 4
      /\ todo'[1] = w1 /\ todo'[2] = w2 /\ todo'[3] = w3 /\ todo'[4] = w4
  BY <1>0, <1>1, <1>2
<1>4. call' # <<>> /\ call'[1] = tx /\ call'[2] = t /\ call' \in L!Transaction \X L!Timestamps
  BY <1>2
<1>5. accounts' = accounts /\ before' = before /\ TotalWealth(before)' = TotalWealth(before)
  BY DEF Rest, TotalWealth
<1>6. GoodWrite(1)'
  <2>1. Old(1)' = accounts
    BY <1>3, <1>5 DEF Old
  <2>2. 1 \in Nat /\ Len(todo') # 1
    BY <1>3
  <2> QED BY <1>3, <1>5, <2>1, <2>2, GoodFollows
<1>7. GoodWrite(2)'
  <2>1. Old(2)' = w1.accounts
    BY <1>3, <1>5 DEF Old
  <2>2. 2 \in Nat /\ Len(todo') # 2
    BY <1>3
  <2> QED BY <1>3, <1>5, <2>1, <2>2, GoodFollows
<1>8. GoodWrite(3)'
  <2>1. Old(3)' = w2.accounts
    BY <1>3, <1>5 DEF Old
  <2>2. 3 \in Nat /\ Len(todo') # 3
    BY <1>3
  <2> QED BY <1>3, <1>5, <2>1, <2>2, GoodFollows
<1>9. GoodWrite(4)'
  <2>1. Old(4)' = w3.accounts
    BY <1>3 DEF Old
  <2>2. TotalWealth(todo[4].accounts)' = TotalWealth(w4.accounts)
    BY <1>3 DEF TotalWealth
  <2> QED BY <1>1, <1>3, <1>4, <1>5, <2>1, <2>2 DEF GoodWrite
<1>10. \A i \in 1 .. Len(todo') : GoodWrite(i)'
  <2>1. \A i \in 1 .. Len(todo') : i = 1 \/ i = 2 \/ i = 3 \/ i = 4
    BY <1>3
  <2> QED BY <1>6, <1>7, <1>8, <1>9, <2>1
<1>11. accounts = before
  BY DEF IInv, CallInv
<1> QED BY <1>1, <1>3, <1>4, <1>10, <1>11, Begin

\* A call that undoes its first write with the second.
LEMMA UndoneWrites ==
  ASSUME IInv, UNCHANGED Rest, todo = <<>>, NEW w1, NEW w2,
         Follows(accounts, w1), Follows(w1.accounts, w2),
         todo' = <<w1, w2>>, UNCHANGED call, w2.accounts = accounts
  PROVE  IInv'
<1>0. w1 \in WriteRec /\ w2 \in WriteRec
  BY DEF Follows
<1>1. /\ todo' \in Seq(WriteRec) /\ Len(todo') = 2
      /\ todo'[1] = w1 /\ todo'[2] = w2
  BY <1>0
<1>2. accounts' = accounts /\ before' = before /\ TotalWealth(before)' = TotalWealth(before)
  BY DEF Rest, TotalWealth
<1>3. accounts = before /\ call = <<>> /\ call' = <<>>
  BY DEF IInv, CallInv
<1>4. GoodWrite(1)'
  BY <1>1, <1>2, <1>3 DEF GoodWrite, Follows, Old, TotalWealth
<1>5. GoodWrite(2)'
  BY <1>1, <1>2, <1>3 DEF GoodWrite, Follows, Old, TotalWealth
<1>6. \A i \in 1 .. Len(todo') : GoodWrite(i)'
  <2>1. \A i \in 1 .. Len(todo') : i = 1 \/ i = 2
    BY <1>1
  <2> QED BY <1>4, <1>5, <2>1
<1> QED BY <1>1, <1>3, <1>6, Begin

\* A setter changes its own field only.
LEMMA OtherFields ==
  ASSUME NEW st \in [Addr -> Account], NEW a \in Addr, NEW b \in Addr, NEW n
  PROVE  /\ GetBalance(SetBalance(st, a, n), b) = IF b = a THEN n ELSE GetBalance(st, b)
         /\ GetStake(SetBalance(st, a, n), b) = GetStake(st, b)
         /\ GetGrantStake(SetBalance(st, a, n), b) = GetGrantStake(st, b)
         /\ GetUnbonding(SetStake(st, a, n), b) = GetUnbonding(st, b)
<1>1. st[b] \in Account /\ st[a] \in Account
  OBVIOUS
<1>2. SetBalance(st, a, n)[b] = IF b = a THEN [st[b] EXCEPT !.Balance = n] ELSE st[b]
  BY DEF SetBalance
<1>3. SetStake(st, a, n)[b] = IF b = a THEN [st[b] EXCEPT !.Stake = n] ELSE st[b]
  BY DEF SetStake
<1>4. /\ GetBalance(SetBalance(st, a, n), b) = IF b = a THEN n ELSE GetBalance(st, b)
      /\ GetStake(SetBalance(st, a, n), b) = GetStake(st, b)
      /\ GetGrantStake(SetBalance(st, a, n), b) = GetGrantStake(st, b)
  BY <1>1, <1>2 DEF GetBalance, GetStake, GetGrantStake, Account
<1>5. GetUnbonding(SetStake(st, a, n), b) = GetUnbonding(st, b)
  BY <1>1, <1>3 DEF GetUnbonding, Account
<1> QED BY <1>4, <1>5

\* SetUnbonding leaves the balances alone.
LEMMA UnbondingKeepsBalance ==
  ASSUME NEW st \in [Addr -> Account], NEW a \in Addr, NEW n, NEW r
  PROVE  GetBalance(SetUnbonding(st, a, n, r), a) = GetBalance(st, a)
<1>1. /\ SetUnbonding(st, a, n, r)[a] = [st[a] EXCEPT !.UnbondingBalance = n, !.UnbondingRelease = r]
      /\ st[a] \in Account
  BY DEF SetUnbonding
<1> QED BY <1>1 DEF GetBalance, Account

\* What every call finds when it begins.
LEMMA CallBegins ==
  ASSUME IInv, todo = <<>>
  PROVE  /\ accounts \in [Addr -> Account] /\ accounts = before
         /\ TotalWealth(accounts) \in Int /\ TotalWealth(accounts) <= TotalWealth(before)
<1>1. accounts \in [Addr -> Account] /\ accounts = before
  BY DEF IInv, CallsTypeOK, CallInv
<1>2. TotalWealth(accounts) \in Int
  BY <1>1, TotalType
<1> QED BY <1>1, <1>2

\* The writes that executeStake starts establish the invariant.
LEMMA StakeBegins ==
  ASSUME IInv, UNCHANGED Rest, todo = <<>>,
         NEW tx \in L!Transaction, NEW t \in L!Timestamps,
         tx.Nonce = GetNonce(accounts, tx.From) + 1, executeStake(tx, t)
  PROVE  IInv'
<1> DEFINE paid == SetBalance(accounts, tx.From, Bal(tx.From) - tx.Amount)
           staked == SetStake(paid, tx.From, Stk(tx.From) + tx.Amount)
<1> USE CallsTransactionType
<1>1. /\ accounts \in [Addr -> Account] /\ accounts = before
      /\ TotalWealth(accounts) \in Int /\ TotalWealth(before) \in Int
      /\ TotalWealth(accounts) <= TotalWealth(before)
  BY CallBegins
<1>2. /\ Bal(tx.From) \in Uint /\ Stk(tx.From) \in Uint
      /\ Bal(tx.From) - tx.Amount \in Uint /\ Stk(tx.From) + tx.Amount \in Uint
  BY <1>1, GetterTypes, SafeResults DEF executeStake, Bal, Stk
<1>3. Wrote(accounts, paid, tx.From, (Bal(tx.From) - tx.Amount) - Bal(tx.From))
  BY <1>1, <1>2, WroteBalance DEF Bal
<1>4. paid \in [Addr -> Account] /\ GetStake(paid, tx.From) = Stk(tx.From)
  BY <1>1, <1>2, SetBalanceType, OtherFields DEF Stk
<1>5. Wrote(paid, staked, tx.From, (Stk(tx.From) + tx.Amount) - Stk(tx.From))
  BY <1>2, <1>4, WroteStake
<1>6. /\ (Bal(tx.From) - tx.Amount) - Bal(tx.From) = - tx.Amount
      /\ (Stk(tx.From) + tx.Amount) - Stk(tx.From) = tx.Amount
      /\ tx.Amount \in Nat /\ tx.Amount <= tx.Amount
  BY <1>2 DEF Uint
<1>7. Succeed(tx, t, <<Write(tx.From, paid), Write(tx.From, staked)>>)
  BY DEF executeStake
<1>8. Result(tx, t, accounts, SetNonce(staked, tx.From, tx.Nonce))
  BY DEF executeStake, Result, StakeResult, Bal, Stk
<1> HIDE DEF paid, staked
<1>9. TotalWealth(paid) = TotalWealth(accounts) + (- tx.Amount)
  BY <1>3, <1>6 DEF Wrote
<1>10. Follows(accounts, Write(tx.From, paid))
  BY <1>1, <1>3, <1>6, FollowsLoss, Zenon
<1>11. Follows(paid, Write(tx.From, staked))
  BY <1>1, <1>5, <1>6, <1>9, FollowsGain, Zenon
<1>12. Write(tx.From, paid).accounts = paid /\ Write(tx.From, staked).accounts = staked
  BY DEF Write
<1> QED BY <1>7, <1>8, <1>10, <1>11, <1>12, TwoWrites

\* The writes that executeUnstake starts establish the invariant.
LEMMA UnstakeBegins ==
  ASSUME IInv, UNCHANGED Rest, todo = <<>>,
         NEW tx \in L!Transaction, NEW t \in L!Timestamps,
         tx.Nonce = GetNonce(accounts, tx.From) + 1, executeUnstake(tx, t)
  PROVE  IInv'
<1> DEFINE unbonding == GetUnbonding(accounts, tx.From)[1]
           taken == SetStake(accounts, tx.From, Stk(tx.From) - tx.Amount)
           moved == SetUnbonding(taken, tx.From, unbonding + tx.Amount, t + UnbondingPeriod)
<1> USE CallsTransactionType
<1>1. /\ accounts \in [Addr -> Account] /\ accounts = before
      /\ TotalWealth(accounts) \in Int /\ TotalWealth(before) \in Int
      /\ TotalWealth(accounts) <= TotalWealth(before)
  BY CallBegins
<1>2. /\ Stk(tx.From) \in Uint /\ unbonding \in Uint
      /\ Stk(tx.From) - tx.Amount \in Uint /\ unbonding + tx.Amount \in Uint
      /\ t + UnbondingPeriod \in Int
  <2>1. Stk(tx.From) \in Uint /\ unbonding \in Uint
    BY <1>1, GetterTypes DEF Stk
  <2>2. Stk(tx.From) >= tx.Amount /\ SafeAddOk(unbonding, tx.Amount)
    BY DEF executeUnstake
  <2>3. t + UnbondingPeriod \in Int
    BY LedgerCallsAssumption DEF L!Timestamps, L!Time
  <2> HIDE DEF unbonding
  <2> QED BY <2>1, <2>2, <2>3, SafeResults
<1>3. Wrote(accounts, taken, tx.From, (Stk(tx.From) - tx.Amount) - Stk(tx.From))
  BY <1>1, <1>2, WroteStake DEF Stk
<1>4. taken \in [Addr -> Account] /\ GetUnbonding(taken, tx.From)[1] = unbonding
  BY <1>1, <1>2, SetStakeType, OtherFields
<1>5. Wrote(taken, moved, tx.From, (unbonding + tx.Amount) - unbonding)
  <2> HIDE DEF unbonding, taken
  <2>1. Wrote(taken, moved, tx.From, (unbonding + tx.Amount) - GetUnbonding(taken, tx.From)[1])
    BY <1>2, <1>4, WroteUnbonding
  <2> QED BY <1>4, <2>1
<1>6. /\ (Stk(tx.From) - tx.Amount) - Stk(tx.From) = - tx.Amount
      /\ (unbonding + tx.Amount) - unbonding = tx.Amount
      /\ tx.Amount \in Nat /\ tx.Amount <= tx.Amount
  BY <1>2 DEF Uint
<1>7. Succeed(tx, t, <<Write(tx.From, taken), Write(tx.From, moved)>>)
  BY DEF executeUnstake
<1>8. Result(tx, t, accounts, SetNonce(moved, tx.From, tx.Nonce))
  BY DEF executeUnstake, Result, UnstakeResult, Stk
<1> HIDE DEF unbonding, taken, moved
<1>9. TotalWealth(taken) = TotalWealth(accounts) + (- tx.Amount)
  BY <1>3, <1>6 DEF Wrote
<1>10. Follows(accounts, Write(tx.From, taken))
  BY <1>1, <1>3, <1>6, FollowsLoss, Zenon
<1>11. Follows(taken, Write(tx.From, moved))
  BY <1>1, <1>5, <1>6, <1>9, FollowsGain, Zenon
<1>12. Write(tx.From, taken).accounts = taken /\ Write(tx.From, moved).accounts = moved
  BY DEF Write
<1> QED BY <1>7, <1>8, <1>10, <1>11, <1>12, TwoWrites

\* The writes that executeWithdraw starts establish the invariant.
LEMMA WithdrawBegins ==
  ASSUME IInv, UNCHANGED Rest, todo = <<>>,
         NEW tx \in L!Transaction, NEW t \in L!Timestamps,
         tx.Nonce = GetNonce(accounts, tx.From) + 1, executeWithdraw(tx, t)
  PROVE  IInv'
<1> DEFINE unbonding == GetUnbonding(accounts, tx.From)[1]
           cleared == SetUnbonding(accounts, tx.From, 0, 0)
           paid == SetBalance(cleared, tx.From, Bal(tx.From) + unbonding)
<1> USE CallsTransactionType
<1>1. /\ accounts \in [Addr -> Account] /\ accounts = before
      /\ TotalWealth(accounts) \in Int /\ TotalWealth(before) \in Int
      /\ TotalWealth(accounts) <= TotalWealth(before)
  BY CallBegins
<1>2. /\ Bal(tx.From) \in Uint /\ unbonding \in Uint /\ 0 \in Uint /\ 0 \in Int
      /\ unbonding \in Nat
  BY <1>1, GetterTypes, MaxUintAssumption DEF Bal, Uint
<1>3. Bal(tx.From) + unbonding \in Uint
  BY <1>2, SafeResults DEF executeWithdraw
<1>4. Wrote(accounts, cleared, tx.From, 0 - unbonding)
  BY <1>1, <1>2, WroteUnbonding
<1>5. cleared \in [Addr -> Account] /\ GetBalance(cleared, tx.From) = Bal(tx.From)
  <2>1. cleared \in [Addr -> Account]
    BY <1>1, <1>2, SetUnbondingType
  <2>2. GetBalance(cleared, tx.From) = GetBalance(accounts, tx.From)
    BY <1>1, UnbondingKeepsBalance
  <2> QED BY <2>1, <2>2 DEF Bal
<1>6. Wrote(cleared, paid, tx.From, (Bal(tx.From) + unbonding) - Bal(tx.From))
  <2> HIDE DEF cleared, unbonding
  <2>1. Wrote(cleared, paid, tx.From, (Bal(tx.From) + unbonding) - GetBalance(cleared, tx.From))
    BY <1>3, <1>5, WroteBalance
  <2> QED BY <1>5, <2>1
<1>7. /\ (Bal(tx.From) + unbonding) - Bal(tx.From) = unbonding /\ 0 - unbonding = - unbonding
      /\ unbonding \in Nat /\ unbonding <= unbonding
  BY <1>2 DEF Uint
<1>8. Succeed(tx, t, <<Write(tx.From, cleared), Write(tx.From, paid)>>)
  BY DEF executeWithdraw
<1>9. Result(tx, t, accounts, SetNonce(paid, tx.From, tx.Nonce))
  BY DEF executeWithdraw, Result, WithdrawResult, Bal
<1> HIDE DEF unbonding, cleared, paid
<1>10. TotalWealth(cleared) = TotalWealth(accounts) + (- unbonding)
  BY <1>4, <1>7 DEF Wrote
<1>11. Follows(accounts, Write(tx.From, cleared))
  BY <1>1, <1>4, <1>7, FollowsLoss, Zenon
<1>12. Follows(cleared, Write(tx.From, paid))
  BY <1>1, <1>6, <1>7, <1>10, FollowsGain, Zenon
<1>13. Write(tx.From, cleared).accounts = cleared /\ Write(tx.From, paid).accounts = paid
  BY DEF Write
<1> QED BY <1>8, <1>9, <1>11, <1>12, <1>13, TwoWrites

\* The writes that executeGrant starts establish the invariant.
LEMMA GrantBegins ==
  ASSUME IInv, UNCHANGED Rest, todo = <<>>,
         NEW tx \in L!Transaction, NEW t \in L!Timestamps,
         tx.Nonce = GetNonce(accounts, tx.From) + 1, executeGrant(tx, t)
  PROVE  IInv'
<1> DEFINE cost == tx.Amount + tx.Fee
           paid == SetBalance(accounts, tx.From, Bal(tx.From) - cost)
           granted == SetGrantStake(paid, tx.To, Grt(tx.To) + tx.Amount)
<1> USE CallsTransactionType
<1>1. /\ accounts \in [Addr -> Account] /\ accounts = before
      /\ TotalWealth(accounts) \in Int /\ TotalWealth(before) \in Int
      /\ TotalWealth(accounts) <= TotalWealth(before)
  BY CallBegins
<1>2. /\ Bal(tx.From) \in Uint /\ Grt(tx.To) \in Uint
      /\ Bal(tx.From) - cost \in Uint /\ Grt(tx.To) + tx.Amount \in Uint
  BY <1>1, GetterTypes, SafeResults DEF executeGrant, Bal, Grt
<1>3. Wrote(accounts, paid, tx.From, (Bal(tx.From) - cost) - Bal(tx.From))
  BY <1>1, <1>2, WroteBalance DEF Bal
<1>4. paid \in [Addr -> Account] /\ GetGrantStake(paid, tx.To) = Grt(tx.To)
  BY <1>1, <1>2, SetBalanceType, OtherFields DEF Grt
<1>5. Wrote(paid, granted, tx.To, (Grt(tx.To) + tx.Amount) - Grt(tx.To))
  BY <1>2, <1>4, WroteGrantStake
<1>6. /\ (Bal(tx.From) - cost) - Bal(tx.From) = - cost
      /\ (Grt(tx.To) + tx.Amount) - Grt(tx.To) = tx.Amount
      /\ cost \in Nat /\ tx.Amount \in Nat /\ tx.Amount <= cost
  BY <1>2 DEF Uint
<1>7. Succeed(tx, t, <<Write(tx.From, paid), Write(tx.To, granted)>>)
  BY DEF executeGrant
<1>8. Result(tx, t, accounts, SetNonce(granted, tx.From, tx.Nonce))
  BY DEF executeGrant, Result, GrantResult, Bal, Stk, Grt
<1> HIDE DEF cost, paid, granted
<1>9. TotalWealth(paid) = TotalWealth(accounts) + (- cost)
  BY <1>3, <1>6 DEF Wrote
<1>10. Follows(accounts, Write(tx.From, paid))
  BY <1>1, <1>3, <1>6, FollowsLoss, Zenon
<1>11. Follows(paid, Write(tx.To, granted))
  BY <1>1, <1>5, <1>6, <1>9, FollowsGain, Zenon
<1>12. Write(tx.From, paid).accounts = paid /\ Write(tx.To, granted).accounts = granted
  BY DEF Write
<1> QED BY <1>7, <1>8, <1>10, <1>11, <1>12, TwoWrites

\* The writes that executeBuyLicense starts establish the invariant.
LEMMA BuyLicenseBegins ==
  ASSUME IInv, UNCHANGED Rest, todo = <<>>,
         NEW tx \in L!Transaction, NEW t \in L!Timestamps,
         tx.Nonce = GetNonce(accounts, tx.From) + 1, executeBuyLicense(tx, t)
  PROVE  IInv'
<1> DEFINE cost == tx.Amount + tx.Fee
           paid == SetBalance(accounts, tx.From, Bal(tx.From) - cost)
           granted == SetGrantStake(paid, tx.From, Grt(tx.From) + tx.Amount)
<1> USE CallsTransactionType
<1>1. /\ accounts \in [Addr -> Account] /\ accounts = before
      /\ TotalWealth(accounts) \in Int /\ TotalWealth(before) \in Int
      /\ TotalWealth(accounts) <= TotalWealth(before)
  BY CallBegins
<1>2. /\ Bal(tx.From) \in Uint /\ Grt(tx.From) \in Uint
      /\ Bal(tx.From) - cost \in Uint /\ Grt(tx.From) + tx.Amount \in Uint
  BY <1>1, GetterTypes, SafeResults DEF executeBuyLicense, Bal, Grt
<1>3. Wrote(accounts, paid, tx.From, (Bal(tx.From) - cost) - Bal(tx.From))
  BY <1>1, <1>2, WroteBalance DEF Bal
<1>4. paid \in [Addr -> Account] /\ GetGrantStake(paid, tx.From) = Grt(tx.From)
  BY <1>1, <1>2, SetBalanceType, OtherFields DEF Grt
<1>5. Wrote(paid, granted, tx.From, (Grt(tx.From) + tx.Amount) - Grt(tx.From))
  BY <1>2, <1>4, WroteGrantStake
<1>6. /\ (Bal(tx.From) - cost) - Bal(tx.From) = - cost
      /\ (Grt(tx.From) + tx.Amount) - Grt(tx.From) = tx.Amount
      /\ cost \in Nat /\ tx.Amount \in Nat /\ tx.Amount <= cost
  BY <1>2 DEF Uint
<1>7. Succeed(tx, t, <<Write(tx.From, paid), Write(tx.From, granted)>>)
  BY DEF executeBuyLicense
<1>8. Result(tx, t, accounts, SetNonce(granted, tx.From, tx.Nonce))
  BY DEF executeBuyLicense, Result, BuyLicenseResult, Bal, Grt
<1> HIDE DEF cost, paid, granted
<1>9. TotalWealth(paid) = TotalWealth(accounts) + (- cost)
  BY <1>3, <1>6 DEF Wrote
<1>10. Follows(accounts, Write(tx.From, paid))
  BY <1>1, <1>3, <1>6, FollowsLoss, Zenon
<1>11. Follows(paid, Write(tx.From, granted))
  BY <1>1, <1>5, <1>6, <1>9, FollowsGain, Zenon
<1>12. Write(tx.From, paid).accounts = paid /\ Write(tx.From, granted).accounts = granted
  BY DEF Write
<1> QED BY <1>7, <1>8, <1>10, <1>11, <1>12, TwoWrites

\* The writes that executeDelegate starts establish the invariant.
LEMMA DelegateBegins ==
  ASSUME IInv, UNCHANGED Rest, todo = <<>>,
         NEW tx \in L!Transaction, NEW t \in L!Timestamps,
         tx.Nonce = GetNonce(accounts, tx.From) + 1, executeDelegate(tx, t)
  PROVE  IInv'
<1> DEFINE paid == SetBalance(accounts, tx.From, Bal(tx.From) - tx.Amount)
           pooled == SetStake(paid, tx.To, Stk(tx.To) + tx.Amount)
           delegated == GetDelegation(accounts, tx.From, tx.To) + tx.Amount
           noted == SetDelegation(pooled, tx.From, tx.To, delegated)
<1> USE CallsTransactionType
<1>1. /\ accounts \in [Addr -> Account] /\ accounts = before
      /\ TotalWealth(accounts) \in Int /\ TotalWealth(before) \in Int
      /\ TotalWealth(accounts) <= TotalWealth(before)
  BY CallBegins
<1>2. /\ Bal(tx.From) \in Uint /\ Stk(tx.To) \in Uint
      /\ Bal(tx.From) - tx.Amount \in Uint /\ Stk(tx.To) + tx.Amount \in Uint
  BY <1>1, GetterTypes, SafeResults DEF executeDelegate, Bal, Stk
<1>a. delegated \in Uint
  BY <1>1, GetterTypes, SafeResults DEF executeDelegate
<1>3. Wrote(accounts, paid, tx.From, (Bal(tx.From) - tx.Amount) - Bal(tx.From))
  BY <1>1, <1>2, WroteBalance DEF Bal
<1>4. paid \in [Addr -> Account] /\ GetStake(paid, tx.To) = Stk(tx.To)
  BY <1>1, <1>2, SetBalanceType, OtherFields DEF Stk
<1>5. Wrote(paid, pooled, tx.To, (Stk(tx.To) + tx.Amount) - Stk(tx.To))
  BY <1>2, <1>4, WroteStake
<1>6. /\ (Bal(tx.From) - tx.Amount) - Bal(tx.From) = - tx.Amount
      /\ (Stk(tx.To) + tx.Amount) - Stk(tx.To) = tx.Amount
      /\ tx.Amount \in Nat /\ tx.Amount <= tx.Amount
  BY <1>2 DEF Uint
<1>b. Wrote(pooled, noted, tx.From, 0)
  <2>1. pooled \in [Addr -> Account]
    BY <1>2, <1>4, SetStakeType
  <2> HIDE DEF paid, pooled, delegated
  <2> QED BY <1>a, <2>1, WroteDelegation
<1>7. Succeed(tx, t, <<Write(tx.From, paid), Write(tx.To, pooled), Write(tx.From, noted)>>)
  BY DEF executeDelegate
<1>8. Result(tx, t, accounts, SetNonce(noted, tx.From, tx.Nonce))
  BY DEF executeDelegate, Result, DelegateResult, Bal, Stk, Grt
<1> HIDE DEF paid, pooled, noted, delegated
<1>9. TotalWealth(paid) = TotalWealth(accounts) + (- tx.Amount)
  BY <1>3, <1>6 DEF Wrote
<1>10. TotalWealth(pooled) = TotalWealth(paid) + tx.Amount
  BY <1>5, <1>6 DEF Wrote
<1>11. Follows(accounts, Write(tx.From, paid))
  BY <1>1, <1>3, <1>6, FollowsLoss, Zenon
<1>12. Follows(paid, Write(tx.To, pooled))
  BY <1>1, <1>5, <1>6, <1>9, FollowsGain, Zenon
<1>13. Follows(pooled, Write(tx.From, noted))
  <2>1. TotalWealth(pooled) + 0 <= TotalWealth(before)
    BY <1>1, <1>9, <1>10
  <2>2. tx.From \in Addr /\ 0 \in Int
    OBVIOUS
  <2> QED BY <1>b, <2>1, <2>2, FollowsWrote, Zenon
<1>14. /\ Write(tx.From, paid).accounts = paid /\ Write(tx.To, pooled).accounts = pooled
       /\ Write(tx.From, noted).accounts = noted
  BY DEF Write
<1> QED BY <1>7, <1>8, <1>11, <1>12, <1>13, <1>14, ThreeWrites

\* Writing the old balance back undoes a write of the balance.
LEMMA BalanceUndone ==
  ASSUME NEW st \in [Addr -> Account], NEW a \in Addr, NEW n
  PROVE  SetBalance(SetBalance(st, a, n), a, GetBalance(st, a)) = st
<1> DEFINE new == SetBalance(SetBalance(st, a, n), a, GetBalance(st, a))
<1>1. new = [b \in Addr |-> new[b]] /\ st = [b \in Addr |-> st[b]]
  BY DEF SetBalance
<1>2. new[a] = [[st[a] EXCEPT !.Balance = n] EXCEPT !.Balance = st[a].Balance] /\ st[a] \in Account
  BY DEF SetBalance, GetBalance
<1>3. new[a] = st[a]
  BY <1>2 DEF Account
<1>4. \A b \in Addr \ {a} : new[b] = st[b]
  BY DEF SetBalance
<1> HIDE DEF new
<1>5. new = st
  BY <1>1, <1>3, <1>4
<1> QED BY <1>5 DEF new

\* The writes that executeTransfer starts, a restored sender included, establish
\* the invariant.
LEMMA TransferBegins ==
  ASSUME IInv, UNCHANGED Rest, todo = <<>>,
         NEW tx \in L!Transaction, NEW t \in L!Timestamps,
         tx.Nonce = GetNonce(accounts, tx.From) + 1, executeTransfer(tx, t)
  PROVE  IInv'
<1> DEFINE cost == tx.Amount + tx.Fee
           debited == SetBalance(accounts, tx.From, Bal(tx.From) - cost)
<1> USE CallsTransactionType
<1>1. /\ accounts \in [Addr -> Account] /\ accounts = before
      /\ TotalWealth(accounts) \in Int /\ TotalWealth(before) \in Int
      /\ TotalWealth(accounts) <= TotalWealth(before)
  BY CallBegins
<1>2. Bal(tx.From) \in Uint /\ Bal(tx.From) - cost \in Uint
  BY <1>1, GetterTypes, SafeResults DEF executeTransfer, Bal
<1>3. Wrote(accounts, debited, tx.From, (Bal(tx.From) - cost) - Bal(tx.From))
  BY <1>1, <1>2, WroteBalance DEF Bal
<1>4. debited \in [Addr -> Account] /\ GetBalance(debited, tx.To) \in Uint
  <2>1. debited \in [Addr -> Account]
    BY <1>1, <1>2, SetBalanceType
  <2> HIDE DEF debited
  <2> QED BY <2>1, GetterTypes
<1>5. /\ (Bal(tx.From) - cost) - Bal(tx.From) = - cost
      /\ cost \in Nat /\ tx.Amount \in Nat /\ tx.Amount <= cost
  BY <1>2 DEF Uint
<1>6. TotalWealth(debited) = TotalWealth(accounts) + (- cost)
  <2> HIDE DEF debited, cost
  <2> QED BY <1>3, <1>5 DEF Wrote
<1>7. Follows(accounts, Write(tx.From, debited))
  <2> HIDE DEF debited, cost
  <2> QED BY <1>1, <1>3, <1>5, FollowsLoss, Zenon
<1>8. Write(tx.From, debited).accounts = debited
  BY DEF Write
<1>9. CASE SafeAddOk(GetBalance(debited, tx.To), tx.Amount)
  <2> DEFINE held == GetBalance(debited, tx.To)
             credited == SetBalance(debited, tx.To, held + tx.Amount)
  <2>1. /\ Succeed(tx, t, <<Write(tx.From, debited), Write(tx.To, credited)>>)
        /\ Result(tx, t, accounts, SetNonce(credited, tx.From, tx.Nonce))
    BY <1>9 DEF executeTransfer, Result, TransferResult, Bal
  <2> HIDE DEF debited, cost
  <2>2. held + tx.Amount \in Uint /\ held \in Uint
    BY <1>4, <1>9, SafeResults
  <2>3. Wrote(debited, credited, tx.To, (held + tx.Amount) - held)
    BY <1>4, <2>2, WroteBalance
  <2> HIDE DEF held, credited
  <2>4. (held + tx.Amount) - held = tx.Amount
    BY <2>2 DEF Uint
  <2>5. Follows(debited, Write(tx.To, credited))
    BY <1>1, <1>5, <1>6, <2>3, <2>4, FollowsGain, Zenon
  <2>6. Write(tx.To, credited).accounts = credited
    BY DEF Write
  <2> QED BY <1>7, <1>8, <2>1, <2>5, <2>6, TwoWrites
<1>10. CASE ~ SafeAddOk(GetBalance(debited, tx.To), tx.Amount)
  <2> DEFINE restored == SetBalance(debited, tx.From, Bal(tx.From))
  <2>1. restored = accounts
    BY <1>1, BalanceUndone DEF Bal
  <2>2. todo' = <<Write(tx.From, debited), Write(tx.From, restored)>> /\ UNCHANGED call
    <3>1. Bal(tx.From) - tx.Amount - tx.Fee = Bal(tx.From) - cost
      BY <1>2 DEF Uint
    <3> QED BY <1>10, <3>1 DEF executeTransfer, Restore
  <2>3. Follows(debited, Write(tx.From, restored))
    <3>1. \A b \in Addr \ {tx.From} : accounts[b] = debited[b]
      BY <1>3 DEF Wrote
    <3>2. accounts[tx.From].Nonce = debited[tx.From].Nonce
      BY <1>3 DEF Wrote
    <3> HIDE DEF restored, debited
    <3>3. Follows(debited, Write(tx.From, accounts))
      BY <1>1, <3>1, <3>2 DEF Follows, Write, WriteRec
    <3> QED BY <2>1, <3>3
  <2> HIDE DEF restored, debited
  <2>4. Write(tx.From, restored).accounts = accounts
    BY <2>1 DEF Write
  <2> QED BY <1>7, <1>8, <2>2, <2>3, <2>4, UndoneWrites
<1> QED BY <1>9, <1>10

\* Every call keeps the invariant when it begins.
LEMMA ExecuteKeeps ==
  ASSUME IInv, NEW tx \in L!Transaction, NEW t \in L!Timestamps, Execute(tx, t)
  PROVE  IInv'
<1>1. UNCHANGED Rest /\ todo = <<>> /\ tx.Nonce = GetNonce(accounts, tx.From) + 1
  BY DEF Execute, Rest
<1>2. \/ executeTransfer(tx, t) \/ executeStake(tx, t) \/ executeUnstake(tx, t)
      \/ executeDelegate(tx, t) \/ executeWithdraw(tx, t) \/ executeGrant(tx, t)
      \/ executeBuyLicense(tx, t)
  BY DEF Execute
<1> QED BY <1>1, <1>2, TransferBegins, StakeBegins, UnstakeBegins, DelegateBegins,
           WithdrawBegins, GrantBegins, BuyLicenseBegins

=============================================================================
