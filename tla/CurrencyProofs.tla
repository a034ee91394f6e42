--------------------------- MODULE CurrencyProofs ---------------------------
(***************************************************************************)
(* Facts every proof about money needs: balances stay natural numbers,     *)
(* whatever the pallets ask of them, and what the sum of a function over a *)
(* finite set is.  SumFunctionOnSet is a fold of the community modules; it *)
(* is opened here once, and the other modules use the lemmas.              *)
(***************************************************************************)
EXTENDS Currency, FiniteSets, Functions, FiniteSetTheorems, WellFoundedInduction,
        TLAPS

\* reserve() keeps every balance a natural number when it does not fail.
LEMMA ReserveType ==
  ASSUME NEW A, NEW l \in Ledger(A), NEW who \in A, NEW amount \in Nat,
         CanReserve(l, who, amount)
  PROVE  Reserve(l, who, amount) \in Ledger(A)
BY DEF Ledger, CanReserve, Reserve

\* A best-effort transfer out of the reserve keeps every balance natural,
\* however much is asked of it.
LEMMA RepatriateType ==
  ASSUME NEW A, NEW l \in Ledger(A), NEW from \in A, NEW to \in A,
         NEW amount \in Nat
  PROVE  Repatriate(l, from, to, amount) \in Ledger(A)
<1>1. /\ Reachable(l, from, amount) \in Nat
      /\ Reachable(l, from, amount) <= l.reserved[from]
  BY DEF Ledger, Reachable
<1> QED BY <1>1 DEF Ledger, Repatriate

\* So does unreserve().
LEMMA UnreserveType ==
  ASSUME NEW A, NEW l \in Ledger(A), NEW who \in A, NEW amount \in Nat
  PROVE  Unreserve(l, who, amount) \in Ledger(A)
BY RepatriateType DEF Unreserve

\* Nobody but who has less in reserve in m than in l, and who at most amount less.
TakesAtMost(l, m, who, amount) ==
  \A a \in DOMAIN l.reserved :
    l.reserved[a] <= m.reserved[a] + (IF a = who THEN amount ELSE 0)

\* A best-effort transfer takes no more than was asked for, and from one account.
LEMMA RepatriateTakes ==
  ASSUME NEW A, NEW l \in Ledger(A), NEW from \in A, NEW to \in A, NEW amount \in Nat
  PROVE  TakesAtMost(l, Repatriate(l, from, to, amount), from, amount)
<1> SUFFICES ASSUME NEW a \in A
             PROVE  l.reserved[a] <= Repatriate(l, from, to, amount).reserved[a]
                                       + (IF a = from THEN amount ELSE 0)
  BY DEF TakesAtMost, Ledger
<1>1. PICK moved \in Nat : moved = Reachable(l, from, amount) /\ moved <= amount
  BY DEF Reachable, Ledger
<1>2. Repatriate(l, from, to, amount).reserved = [l.reserved EXCEPT ![from] = @ - moved]
  BY <1>1 DEF Repatriate
<1>3. l.reserved \in [A -> Nat]
  BY DEF Ledger
<1>4. CASE a = from
  BY <1>1, <1>2, <1>3, <1>4
<1>5. CASE a # from
  BY <1>2, <1>3, <1>5
<1> QED BY <1>4, <1>5

\* Two operations in a row take at most what each of them takes.
LEMMA TakesBoth ==
  ASSUME NEW A, NEW l \in Ledger(A), NEW m \in Ledger(A), NEW n \in Ledger(A),
         NEW who, NEW x \in Nat, NEW y \in Nat,
         TakesAtMost(l, m, who, x), TakesAtMost(m, n, who, y)
  PROVE  TakesAtMost(l, n, who, x + y)
<1> SUFFICES ASSUME NEW a \in A
             PROVE  l.reserved[a] <= n.reserved[a] + (IF a = who THEN x + y ELSE 0)
  BY DEF TakesAtMost, Ledger
<1>1. l.reserved[a] \in Nat /\ m.reserved[a] \in Nat /\ n.reserved[a] \in Nat
  BY DEF Ledger
<1>2. /\ l.reserved[a] <= m.reserved[a] + (IF a = who THEN x ELSE 0)
      /\ m.reserved[a] <= n.reserved[a] + (IF a = who THEN y ELSE 0)
  BY DEF TakesAtMost, Ledger
<1> QED BY <1>1, <1>2

-----------------------------------------------------------------------------
(* Sums.                                                                   *)

\* Induction on a finite set.  The predicate is a set of subsets: a subset of
\* least size among those outside it would have all its own subsets in it.
LEMMA SubsetInduction ==
  ASSUME NEW S, IsFiniteSet(S), NEW good,
         \A T \in SUBSET S : (\A U \in SUBSET T : U # T => U \in good) => T \in good
  PROVE  \A T \in SUBSET S : T \in good
<1>1. SUFFICES ASSUME NEW B \in SUBSET S, B \notin good PROVE FALSE
  OBVIOUS
<1> DEFINE Bad == {T \in SUBSET S : T \notin good}
<1>2. FiniteSubsetsOf(S) = SUBSET S
  BY FS_FiniteSubsetsOfFinite
<1>3. IsWellFoundedOn(StrictSubsetOrdering(S), SUBSET S)
  BY <1>2, FS_StrictSubsetOrderingWellFounded
<1>4. Bad \subseteq SUBSET S /\ Bad # {}
  BY <1>1
<1> HIDE DEF Bad
<1>5. PICK T \in Bad : \A U \in Bad : <<U, T>> \notin StrictSubsetOrdering(S)
  BY <1>3, <1>4, WFMin
<1> USE DEF Bad
<1>6. ASSUME NEW U \in SUBSET T, U # T PROVE U \in good
  BY <1>5 DEF StrictSubsetOrdering
<1> QED BY <1>5, <1>6

\* SumFunctionOnSet takes the elements of a set one by one, in the order of a
\* CHOOSE; it is the last value of this function on the subsets.
SumPick(s) == CHOOSE x \in s : TRUE

Sums(f, S) ==
  CHOOSE iter : iter = [s \in SUBSET S |->
    IF s = {} THEN 0 ELSE f[SumPick(s)] + iter[s \ {SumPick(s)}]]

IsSums(g, f, S) ==
  g = [s \in SUBSET S |-> IF s = {} THEN 0 ELSE f[SumPick(s)] + g[s \ {SumPick(s)}]]

\* The community module's operator, by its definition.
LEMMA Unfold ==
  ASSUME NEW f, NEW S
  PROVE  SumFunctionOnSet(f, S) = Sums(f, S)[S]
BY DEF SumFunctionOnSet, FoldFunctionOnSet, MapThenFoldSet, Sums, SumPick

\* An element is picked from a set that has one.
LEMMA SumPickIn == ASSUME NEW s, s # {} PROVE SumPick(s) \in s
BY Zenon DEF SumPick

\* Two functions that obey the recursion agree wherever both do.
LEMMA SumsUnique ==
  ASSUME NEW f, NEW S, IsFiniteSet(S), NEW T \in SUBSET S, NEW g, NEW h,
         IsSums(g, f, S), IsSums(h, f, T)
  PROVE  g[T] = h[T]
<1> DEFINE good == {U \in SUBSET T : g[U] = h[U]}
<1>1. IsFiniteSet(T)
  BY FS_Subset
<1>2. ASSUME NEW V \in SUBSET T, \A U \in SUBSET V : U # V => U \in good
      PROVE  V \in good
  <2>1. CASE V = {}
    <3>1. g[V] = 0
      BY <2>1 DEF IsSums
    <3>2. h[V] = 0
      BY <2>1 DEF IsSums
    <3> QED BY <3>1, <3>2
  <2>2. CASE V # {}
    <3> DEFINE U == V \ {SumPick(V)}
    <3>1. U \in SUBSET V /\ U # V
      BY <2>2, SumPickIn
    <3>2. g[U] = h[U]
      BY <3>1, <1>2
    <3>3. g[V] = f[SumPick(V)] + g[U]
      BY <2>2 DEF IsSums
    <3>4. h[V] = f[SumPick(V)] + h[U]
      BY <2>2 DEF IsSums
    <3> QED BY <3>2, <3>3, <3>4
  <2> QED BY <2>1, <2>2
<1> HIDE DEF good
<1>3. \A V \in SUBSET T : V \in good
  BY <1>1, <1>2, SubsetInduction
<1> QED BY <1>3 DEF good

\* Some function obeys it, so the CHOOSE finds one.
LEMMA SumsExist ==
  ASSUME NEW f, NEW S, IsFiniteSet(S)
  PROVE  IsSums(Sums(f, S), f, S)
<1>0. ASSUME NEW T, NEW g, IsSums(g, f, T) PROVE IsSums(Sums(f, T), f, T)
  BY <1>0, Zenon DEF IsSums, Sums
<1> DEFINE good == {T \in SUBSET S : IsSums(Sums(f, T), f, T)}
<1>1. ASSUME NEW V \in SUBSET S, \A U \in SUBSET V : U # V => U \in good
      PROVE  V \in good
  <2> DEFINE total(s) == Sums(f, s)[s]
             value(s) == IF s = {} THEN 0 ELSE f[SumPick(s)] + total(s \ {SumPick(s)})
             g == [s \in SUBSET V |-> value(s)]
  <2>1. ASSUME NEW U \in SUBSET V, U # V PROVE total(U) = value(U)
    <3>1. IsSums(Sums(f, U), f, U)
      BY <1>1, <2>1
    <3>2. CASE U = {}
      BY <3>1, <3>2 DEF IsSums
    <3>3. CASE U # {}
      <4> DEFINE W == U \ {SumPick(U)}
      <4>1. Sums(f, U)[U] = f[SumPick(U)] + Sums(f, U)[W]
        BY <3>1, <3>3 DEF IsSums
      <4>2. IsSums(Sums(f, W), f, W)
        BY <1>1, <2>1
      <4>3. IsFiniteSet(U) /\ W \in SUBSET U
        BY FS_Subset
      <4>4. Sums(f, U)[W] = Sums(f, W)[W]
        BY <3>1, <4>2, <4>3, SumsUnique
      <4> QED BY <3>3, <4>1, <4>4
    <3> QED BY <3>2, <3>3
  <2>2. ASSUME NEW s \in SUBSET V, s # {}
        PROVE  g[s \ {SumPick(s)}] = total(s \ {SumPick(s)})
    <3>1. s \ {SumPick(s)} \in SUBSET V /\ s \ {SumPick(s)} # V
      BY <2>2, SumPickIn
    <3> HIDE DEF value, total
    <3>2. g[s \ {SumPick(s)}] = value(s \ {SumPick(s)})
      BY <3>1
    <3> QED BY <3>1, <3>2, <2>1
  <2>3. ASSUME NEW s \in SUBSET V
        PROVE  value(s) = IF s = {} THEN 0 ELSE f[SumPick(s)] + g[s \ {SumPick(s)}]
    <3> HIDE DEF total, g
    <3> QED BY <2>2
  <2>4. IsSums(g, f, V)
    <3> HIDE DEF value
    <3>1. g = [s \in SUBSET V |-> value(s)]
      OBVIOUS
    <3> HIDE DEF g
    <3> QED BY <3>1, <2>3, Zenon DEF IsSums
  <2> HIDE DEF g
  <2> QED BY <2>4, <1>0
<1> HIDE DEF good
<1>2. \A V \in SUBSET S : V \in good
  BY <1>1, SubsetInduction
<1> QED BY <1>2 DEF good

\* The sum over the empty set.
LEMMA SumEmpty ==
  ASSUME NEW f PROVE SumFunctionOnSet(f, {}) = 0
<1>1. IsSums(Sums(f, {}), f, {})
  BY SumsExist, FS_EmptySet
<1> QED BY <1>1, Unfold DEF IsSums

\* One step of the recursion.
LEMMA SumPicked ==
  ASSUME NEW f, NEW S, IsFiniteSet(S), S # {}
  PROVE  SumFunctionOnSet(f, S) = f[SumPick(S)] + SumFunctionOnSet(f, S \ {SumPick(S)})
<1> DEFINE T == S \ {SumPick(S)}
<1>1. IsFiniteSet(T) /\ T \in SUBSET S
  BY FS_Subset
<1>2. IsSums(Sums(f, S), f, S) /\ IsSums(Sums(f, T), f, T)
  BY <1>1, SumsExist
<1>3. Sums(f, S)[T] = Sums(f, T)[T]
  BY <1>1, <1>2, SumsUnique
<1>4. Sums(f, S)[S] = f[SumPick(S)] + Sums(f, S)[T]
  BY <1>2 DEF IsSums
<1> QED BY <1>3, <1>4, Unfold

\* A sum of natural numbers is one.
LEMMA SumNat ==
  ASSUME NEW f, NEW S, IsFiniteSet(S), \A x \in S : f[x] \in Nat
  PROVE  SumFunctionOnSet(f, S) \in Nat
<1> DEFINE good == {T \in SUBSET S : SumFunctionOnSet(f, T) \in Nat}
<1>1. ASSUME NEW T \in SUBSET S, \A U \in SUBSET T : U # T => U \in good
      PROVE  T \in good
  <2>1. CASE T = {}
    BY <2>1, SumEmpty
  <2>2. CASE T # {}
    <3>1. IsFiniteSet(T) /\ SumPick(T) \in T
      BY <2>2, FS_Subset, SumPickIn
    <3>2. SumFunctionOnSet(f, T \ {SumPick(T)}) \in Nat
      BY <1>1, <3>1
    <3>3. SumFunctionOnSet(f, T) = f[SumPick(T)] + SumFunctionOnSet(f, T \ {SumPick(T)})
      BY <2>2, <3>1, SumPicked
    <3> QED BY <3>1, <3>2, <3>3
  <2> QED BY <2>1, <2>2
<1> HIDE DEF good
<1>2. \A T \in SUBSET S : T \in good
  BY <1>1, SubsetInduction
<1> QED BY <1>2 DEF good

\* Any element may be set apart, not only the one that is picked.
LEMMA SumApart ==
  ASSUME NEW f, NEW S, IsFiniteSet(S), \A y \in S : f[y] \in Nat, NEW x \in S
  PROVE  SumFunctionOnSet(f, S) = f[x] + SumFunctionOnSet(f, S \ {x})
<1> DEFINE good == {T \in SUBSET S : \A y \in T :
              SumFunctionOnSet(f, T) = f[y] + SumFunctionOnSet(f, T \ {y})}
<1>0. ASSUME NEW T \in SUBSET S
      PROVE  IsFiniteSet(T) /\ SumFunctionOnSet(f, T) \in Nat
  <2>1. IsFiniteSet(T)
    BY FS_Subset
  <2> QED BY <2>1, SumNat
<1>1. ASSUME NEW T \in SUBSET S, \A U \in SUBSET T : U # T => U \in good
      PROVE  T \in good
  <2> SUFFICES ASSUME NEW y \in T
               PROVE  SumFunctionOnSet(f, T) = f[y] + SumFunctionOnSet(f, T \ {y})
    OBVIOUS
  <2> DEFINE p == SumPick(T)
  <2>1. p \in T
    BY SumPickIn
  <2>2. SumFunctionOnSet(f, T) = f[p] + SumFunctionOnSet(f, T \ {p})
    BY <1>0, SumPicked
  <2> HIDE DEF p
  <2>3. CASE y = p
    BY <2>2, <2>3
  <2>4. CASE y # p
    <3>1. T \ {p} \in good /\ T \ {y} \in good
      <4>1. /\ T \ {p} \in SUBSET T /\ T \ {p} # T
            /\ T \ {y} \in SUBSET T /\ T \ {y} # T
        BY <2>1
      <4> QED BY <4>1, <1>1
    <3>2. SumFunctionOnSet(f, T \ {p}) = f[y] + SumFunctionOnSet(f, (T \ {p}) \ {y})
      BY <3>1, <2>4
    <3>3. SumFunctionOnSet(f, T \ {y}) = f[p] + SumFunctionOnSet(f, (T \ {y}) \ {p})
      BY <3>1, <2>1, <2>4
    <3>4. (T \ {p}) \ {y} = (T \ {y}) \ {p}
      OBVIOUS
    <3>5. f[y] \in Nat /\ f[p] \in Nat /\ SumFunctionOnSet(f, (T \ {y}) \ {p}) \in Nat
      <4>1. (T \ {y}) \ {p} \in SUBSET S
        OBVIOUS
      <4> QED BY <4>1, <1>0, <2>1
    <3> QED BY <2>2, <3>2, <3>3, <3>4, <3>5
  <2> QED BY <2>3, <2>4
<1> HIDE DEF good
<1>2. \A T \in SUBSET S : T \in good
  BY <1>1, SubsetInduction
<1> QED BY <1>2 DEF good

\* A sum depends on the values within the set only.
LEMMA SumSame ==
  ASSUME NEW f, NEW g, NEW S, IsFiniteSet(S), \A x \in S : f[x] = g[x]
  PROVE  SumFunctionOnSet(f, S) = SumFunctionOnSet(g, S)
<1> DEFINE good == {T \in SUBSET S : SumFunctionOnSet(f, T) = SumFunctionOnSet(g, T)}
<1>1. ASSUME NEW T \in SUBSET S, \A U \in SUBSET T : U # T => U \in good
      PROVE  T \in good
  <2>1. CASE T = {}
    BY <2>1, SumEmpty
  <2>2. CASE T # {}
    <3>1. IsFiniteSet(T) /\ SumPick(T) \in T
      BY <2>2, FS_Subset, SumPickIn
    <3>2. SumFunctionOnSet(f, T \ {SumPick(T)}) = SumFunctionOnSet(g, T \ {SumPick(T)})
      BY <1>1, <3>1
    <3>3. /\ SumFunctionOnSet(f, T) = f[SumPick(T)] + SumFunctionOnSet(f, T \ {SumPick(T)})
          /\ SumFunctionOnSet(g, T) = g[SumPick(T)] + SumFunctionOnSet(g, T \ {SumPick(T)})
      BY <2>2, <3>1, SumPicked
    <3> QED BY <3>1, <3>2, <3>3
  <2> QED BY <2>1, <2>2
<1> HIDE DEF good
<1>2. \A T \in SUBSET S : T \in good
  BY <1>1, SubsetInduction
<1> QED BY <1>2 DEF good

\* The sum of a function that is zero throughout.
LEMMA SumZero ==
  ASSUME NEW f, NEW S, IsFiniteSet(S), \A x \in S : f[x] = 0
  PROVE  SumFunctionOnSet(f, S) = 0
<1> DEFINE good == {T \in SUBSET S : SumFunctionOnSet(f, T) = 0}
<1>1. ASSUME NEW T \in SUBSET S, \A U \in SUBSET T : U # T => U \in good
      PROVE  T \in good
  <2>1. CASE T = {}
    BY <2>1, SumEmpty
  <2>2. CASE T # {}
    <3>1. IsFiniteSet(T) /\ SumPick(T) \in T
      BY <2>2, FS_Subset, SumPickIn
    <3>2. SumFunctionOnSet(f, T \ {SumPick(T)}) = 0
      BY <1>1, <3>1
    <3>3. SumFunctionOnSet(f, T) = f[SumPick(T)] + SumFunctionOnSet(f, T \ {SumPick(T)})
      BY <2>2, <3>1, SumPicked
    <3> QED BY <3>1, <3>2, <3>3
  <2> QED BY <2>1, <2>2
<1> HIDE DEF good
<1>2. \A T \in SUBSET S : T \in good
  BY <1>1, SubsetInduction
<1> QED BY <1>2 DEF good

\* Two sums over sets, of functions, that differ at most at one element.
LEMMA SumBesides ==
  ASSUME NEW f, NEW g, NEW S, NEW T, NEW x, IsFiniteSet(S), IsFiniteSet(T),
         S \ {x} = T \ {x}, \A y \in S : f[y] \in Nat, \A y \in T : g[y] \in Nat,
         \A y \in S \ {x} : f[y] = g[y]
  PROVE  \E rest \in Nat :
           /\ SumFunctionOnSet(f, S) = rest + (IF x \in S THEN f[x] ELSE 0)
           /\ SumFunctionOnSet(g, T) = rest + (IF x \in T THEN g[x] ELSE 0)
<1> DEFINE R == S \ {x}
<1>1. IsFiniteSet(R) /\ R \subseteq S /\ R \subseteq T
  BY FS_Subset
<1>2. SumFunctionOnSet(f, R) \in Nat /\ SumFunctionOnSet(f, R) = SumFunctionOnSet(g, R)
  BY <1>1, SumNat, SumSame
<1>3. SumFunctionOnSet(f, S) = SumFunctionOnSet(f, R) + (IF x \in S THEN f[x] ELSE 0)
  <2>1. CASE x \in S
    <3>1. SumFunctionOnSet(f, S) = f[x] + SumFunctionOnSet(f, R)
      BY <2>1, SumApart
    <3> HIDE DEF R
    <3> QED BY <1>2, <2>1, <3>1
  <2>2. CASE x \notin S
    <3>1. R = S
      BY <2>2
    <3> HIDE DEF R
    <3> QED BY <1>2, <2>2, <3>1
  <2> QED BY <2>1, <2>2
<1>4. SumFunctionOnSet(g, T) = SumFunctionOnSet(g, R) + (IF x \in T THEN g[x] ELSE 0)
  <2>0. R = T \ {x} /\ SumFunctionOnSet(g, R) \in Nat
    BY <1>2
  <2> HIDE DEF R
  <2>1. CASE x \in T
    <3>1. SumFunctionOnSet(g, T) = g[x] + SumFunctionOnSet(g, R)
      BY <2>0, <2>1, SumApart
    <3> QED BY <2>0, <2>1, <3>1
  <2>2. CASE x \notin T
    <3>1. R = T
      BY <2>0, <2>2
    <3> QED BY <2>0, <2>2, <3>1
  <2> QED BY <2>1, <2>2
<1> HIDE DEF R
<1> QED BY <1>2, <1>3, <1>4

\* A greater function has a sum no smaller.
LEMMA SumMonotone ==
  ASSUME NEW f, NEW g, NEW S, IsFiniteSet(S),
         \A x \in S : f[x] \in Nat /\ g[x] \in Nat /\ f[x] <= g[x]
  PROVE  SumFunctionOnSet(f, S) <= SumFunctionOnSet(g, S)
<1> DEFINE good == {T \in SUBSET S : SumFunctionOnSet(f, T) <= SumFunctionOnSet(g, T)}
<1>1. ASSUME NEW T \in SUBSET S, \A U \in SUBSET T : U # T => U \in good
      PROVE  T \in good
  <2>1. CASE T = {}
    BY <2>1, SumEmpty
  <2>2. CASE T # {}
    <3> DEFINE p == SumPick(T)
               U == T \ {p}
    <3>1. IsFiniteSet(T) /\ p \in T
      BY <2>2, FS_Subset, SumPickIn
    <3>2. IsFiniteSet(U) /\ U \in SUBSET T /\ U # T
      BY <3>1, FS_Subset
    <3>3. SumFunctionOnSet(f, U) <= SumFunctionOnSet(g, U)
      BY <1>1, <3>2
    <3>4. /\ SumFunctionOnSet(f, T) = f[p] + SumFunctionOnSet(f, U)
          /\ SumFunctionOnSet(g, T) = g[p] + SumFunctionOnSet(g, U)
      BY <2>2, <3>1, SumPicked
    <3>5. SumFunctionOnSet(f, U) \in Nat /\ SumFunctionOnSet(g, U) \in Nat
      BY <3>2, SumNat
    <3>6. f[p] \in Nat /\ g[p] \in Nat /\ f[p] <= g[p]
      BY <3>1
    <3> HIDE DEF p, U
    <3> QED BY <3>3, <3>4, <3>5, <3>6
  <2> QED BY <2>1, <2>2
<1> HIDE DEF good
<1>2. \A T \in SUBSET S : T \in good
  BY <1>1, SubsetInduction
<1> QED BY <1>2 DEF good

\* Elements where the function is zero add nothing.
LEMMA SumSupport ==
  ASSUME NEW f, NEW S, NEW T, IsFiniteSet(T), S \subseteq T,
         \A x \in T : f[x] \in Nat, \A x \in T \ S : f[x] = 0
  PROVE  SumFunctionOnSet(f, T) = SumFunctionOnSet(f, S)
<1> DEFINE good == {V \in SUBSET T : SumFunctionOnSet(f, V) = SumFunctionOnSet(f, V \cap S)}
<1>1. ASSUME NEW V \in SUBSET T, \A U \in SUBSET V : U # V => U \in good
      PROVE  V \in good
  <2>1. CASE V = {}
    <3>1. V \cap S = V
      BY <2>1
    <3> QED BY <3>1
  <2>2. CASE V # {}
    <3> DEFINE p == SumPick(V)
               U == V \ {p}
    <3>1. IsFiniteSet(V) /\ p \in V /\ IsFiniteSet(V \cap S)
      BY <2>2, FS_Subset, SumPickIn
    <3>2. IsFiniteSet(U) /\ U \in SUBSET V /\ U # V
      BY <3>1, FS_Subset
    <3>3. SumFunctionOnSet(f, U) = SumFunctionOnSet(f, U \cap S)
      BY <1>1, <3>2
    <3>4. SumFunctionOnSet(f, V) = f[p] + SumFunctionOnSet(f, U)
      BY <2>2, <3>1, SumPicked
    <3>5. SumFunctionOnSet(f, U) \in Nat
      BY <3>2, SumNat
    <3>6. CASE p \in S
      <4>1. (V \cap S) \ {p} = U \cap S /\ p \in V \cap S
        BY <3>1, <3>6
      <4>2. \A y \in V \cap S : f[y] \in Nat
        OBVIOUS
      <4>3. SumFunctionOnSet(f, V \cap S) = f[p] + SumFunctionOnSet(f, (V \cap S) \ {p})
        BY ONLY <3>1, <4>1, <4>2, SumApart
      <4> HIDE DEF p, U
      <4> QED BY <3>3, <3>4, <4>1, <4>3
    <3>7. CASE p \notin S
      <4>1. V \cap S = U \cap S /\ f[p] = 0
        BY <3>1, <3>7
      <4> HIDE DEF p, U
      <4> QED BY <3>3, <3>4, <3>5, <4>1
    <3> QED BY <3>6, <3>7
  <2> QED BY <2>1, <2>2
<1> HIDE DEF good
<1>2. T \in good
  BY <1>1, SubsetInduction
<1>3. T \cap S = S
  OBVIOUS
<1> QED BY <1>2, <1>3 DEF good

\* A function that is no greater where the other is defined, and zero elsewhere.
LEMMA SumWithin ==
  ASSUME NEW f, NEW S, IsFiniteSet(S), NEW g, NEW T, IsFiniteSet(T),
         \A x \in T : g[x] \in Nat,
         \A x \in S : f[x] \in Nat /\ f[x] <= (IF x \in T THEN g[x] ELSE 0)
  PROVE  SumFunctionOnSet(f, S) <= SumFunctionOnSet(g, T)
<1> DEFINE low  == [x \in S \cup T |-> IF x \in S THEN f[x] ELSE 0]
           high == [x \in S \cup T |-> IF x \in T THEN g[x] ELSE 0]
<1>1. IsFiniteSet(S \cup T)
  BY FS_Union
<1>2. \A x \in S \cup T : low[x] \in Nat /\ high[x] \in Nat /\ low[x] <= high[x]
  OBVIOUS
<1>3. /\ \A x \in S : f[x] = low[x]
      /\ \A x \in T : g[x] = high[x]
      /\ \A x \in (S \cup T) \ S : low[x] = 0
      /\ \A x \in (S \cup T) \ T : high[x] = 0
      /\ S \subseteq S \cup T /\ T \subseteq S \cup T
  OBVIOUS
<1> HIDE DEF low, high
<1>4. SumFunctionOnSet(low, S \cup T) <= SumFunctionOnSet(high, S \cup T)
  BY ONLY <1>1, <1>2, SumMonotone
<1>5. SumFunctionOnSet(low, S \cup T) = SumFunctionOnSet(low, S)
  BY ONLY <1>1, <1>2, <1>3, SumSupport
<1>6. SumFunctionOnSet(high, S \cup T) = SumFunctionOnSet(high, T)
  BY ONLY <1>1, <1>2, <1>3, SumSupport
<1>7. SumFunctionOnSet(f, S) = SumFunctionOnSet(low, S)
  BY <1>3, SumSame
<1>8. SumFunctionOnSet(g, T) = SumFunctionOnSet(high, T)
  BY <1>3, SumSame
<1> QED BY <1>4, <1>5, <1>6, <1>7, <1>8

\* Parts in proportion to weights make up no more than the weights' whole.
LEMMA SumOfParts ==
  ASSUME NEW f, NEW w, NEW S, IsFiniteSet(S), NEW scale \in Nat, NEW rate \in Nat,
         \A x \in S : f[x] \in Nat /\ w[x] \in Nat /\ f[x] * scale <= rate * w[x]
  PROVE  SumFunctionOnSet(f, S) * scale <= rate * SumFunctionOnSet(w, S)
<1>0. ASSUME NEW x \in Nat, NEW y \in Nat, NEW u \in Nat, NEW v \in Nat,
             x * scale <= rate * u, y * scale <= rate * v
      PROVE  (x + y) * scale <= rate * (u + v)
  <2>1. (x + y) * scale = x * scale + y * scale
    OBVIOUS
  <2>2. rate * (u + v) = rate * u + rate * v
    OBVIOUS
  <2>3. x * scale \in Nat /\ y * scale \in Nat /\ rate * u \in Nat /\ rate * v \in Nat
    OBVIOUS
  <2>4. x * scale + y * scale <= rate * u + rate * v
    BY ONLY <1>0, <2>3
  <2> QED BY <2>1, <2>2, <2>4
<1> DEFINE good == {T \in SUBSET S :
              SumFunctionOnSet(f, T) * scale <= rate * SumFunctionOnSet(w, T)}
<1>1. ASSUME NEW T \in SUBSET S, \A U \in SUBSET T : U # T => U \in good
      PROVE  T \in good
  <2>1. CASE T = {}
    BY <2>1, SumEmpty
  <2>2. CASE T # {}
    <3> DEFINE p == SumPick(T)
               U == T \ {p}
    <3>1. IsFiniteSet(T) /\ p \in T
      BY <2>2, FS_Subset, SumPickIn
    <3>2. IsFiniteSet(U) /\ U \in SUBSET T /\ U # T
      BY <3>1, FS_Subset
    <3>3. SumFunctionOnSet(f, U) * scale <= rate * SumFunctionOnSet(w, U)
      BY <1>1, <3>2
    <3>4. /\ SumFunctionOnSet(f, T) = f[p] + SumFunctionOnSet(f, U)
          /\ SumFunctionOnSet(w, T) = w[p] + SumFunctionOnSet(w, U)
      BY <2>2, <3>1, SumPicked
    <3>5. SumFunctionOnSet(f, U) \in Nat /\ SumFunctionOnSet(w, U) \in Nat
      BY <3>2, SumNat
    <3>6. f[p] \in Nat /\ w[p] \in Nat /\ f[p] * scale <= rate * w[p]
      BY <3>1
    <3> HIDE DEF p, U
    <3>7. (f[p] + SumFunctionOnSet(f, U)) * scale <= rate * (w[p] + SumFunctionOnSet(w, U))
      BY ONLY <1>0, <3>3, <3>5, <3>6
    <3> QED BY <3>4, <3>7
  <2> QED BY <2>1, <2>2
<1> HIDE DEF good
<1>2. \A T \in SUBSET S : T \in good
  BY <1>1, SubsetInduction
<1> QED BY <1>2 DEF good

\* Raising one value raises the sum by as much.
LEMMA SumRaised ==
  ASSUME NEW f, NEW S, IsFiniteSet(S), \A y \in S : f[y] \in Nat,
         NEW x \in S, NEW v \in Nat, NEW g,
         \A y \in S : g[y] = f[y] + (IF y = x THEN v ELSE 0)
  PROVE  SumFunctionOnSet(g, S) = SumFunctionOnSet(f, S) + v
<1>1. /\ \A y \in S : f[y] \in Nat
      /\ \A y \in S : g[y] \in Nat
      /\ \A y \in S \ {x} : f[y] = g[y]
      /\ S \ {x} = S \ {x} /\ IsFiniteSet(S)
  OBVIOUS
<1>2. PICK rest \in Nat :
        /\ SumFunctionOnSet(f, S) = rest + (IF x \in S THEN f[x] ELSE 0)
        /\ SumFunctionOnSet(g, S) = rest + (IF x \in S THEN g[x] ELSE 0)
  BY ONLY <1>1, SumBesides
<1>3. g[x] = f[x] + v /\ f[x] \in Nat
  OBVIOUS
<1> QED BY <1>2, <1>3

\* What a transfer adds to the free balances of some accounts.
LEMMA SumRepatriated ==
  ASSUME NEW A, NEW l \in Ledger(A), NEW S, IsFiniteSet(S), S \subseteq A,
         NEW from \in A, NEW to \in A, NEW amount \in Nat
  PROVE  /\ SumFunctionOnSet(Repatriate(l, from, to, amount).free, S)
              = SumFunctionOnSet(l.free, S)
                  + (IF to \in S THEN Reachable(l, from, amount) ELSE 0)
         /\ SumFunctionOnSet(l.free, S) \in Nat
         /\ Reachable(l, from, amount) \in Nat
<1>0. l.free \in [A -> Nat] /\ l.reserved \in [A -> Nat]
  BY DEF Ledger
<1> PICK f \in [A -> Nat] : f = l.free
  BY <1>0
<1> PICK moved \in Nat : moved = Reachable(l, from, amount)
  BY <1>0 DEF Reachable
<1> PICK g : g = [f EXCEPT ![to] = @ + moved]
  OBVIOUS
<1>1. IsFiniteSet(S) /\ \A x \in S : f[x] \in Nat
  OBVIOUS
<1>2. SumFunctionOnSet(f, S) \in Nat
  BY ONLY <1>1, SumNat
<1>3. Repatriate(l, from, to, amount).free = g
  BY DEF Repatriate
<1>4. \A x \in S : g[x] = f[x] + (IF x = to THEN moved ELSE 0)
  OBVIOUS
<1>5. CASE to \in S
  <2>1. moved \in Nat
    OBVIOUS
  <2>2. SumFunctionOnSet(g, S) = SumFunctionOnSet(f, S) + moved
    BY ONLY <1>1, <1>4, <1>5, <2>1, SumRaised
  <2> QED BY <1>2, <1>3, <1>5, <2>2
<1>6. CASE to \notin S
  <2>1. \A x \in S : f[x] = g[x]
    BY <1>4, <1>6
  <2>2. SumFunctionOnSet(f, S) = SumFunctionOnSet(g, S)
    BY ONLY <1>1, <2>1, SumSame
  <2> QED BY <1>2, <1>3, <1>6, <2>2
<1> QED BY <1>5, <1>6

=============================================================================
