----------------------------- MODULE FiniteSums -----------------------------
(***************************************************************************)
(* The sum of a function over a finite set, for the proofs: that the fold  *)
(* it is defined by has a value at all, and the arithmetic that rests on   *)
(* it.  Each induction is stated by its least counterexample.              *)
(***************************************************************************)
EXTENDS Integers, FiniteSets, Functions, FiniteSetTheorems, WellFoundedInduction, TLAPS

\* A set of naturals that is not empty has a least element.
LEMMA LeastNatural ==
    ASSUME NEW T \in SUBSET Nat, T # {}
    PROVE  \E m \in T : \A n \in T : m <= n
<1> DEFINE R == OpToRel(<, Nat)
<1>1. IsWellFoundedOn(R, Nat)
      BY NatLessThanWellFounded
<1> HIDE DEF R
<1>2. \E m \in T : \A n \in T : ~ (<<n, m>> \in R)
      BY <1>1, WFMin
<1>3. \A m, n \in T : n < m => <<n, m>> \in R
      BY DEF R, OpToRel
<1>4. PICK m \in T : \A n \in T : ~ (<<n, m>> \in R)
      BY <1>2
<1>5. ASSUME NEW n \in T PROVE m <= n
  <2>1. m \in Nat /\ n \in Nat /\ ~ (n < m)
        BY <1>3, <1>4, <1>5
  <2> QED BY <2>1
<1> QED BY <1>4, <1>5

\* One element more, one less.
LEMMA OneMore ==
    ASSUME NEW A, NEW A1, IsFiniteSet(A), NEW x, A1 \subseteq A \cup {x}
    PROVE  Cardinality(A1) \in Nat /\ Cardinality(A1) <= Cardinality(A) + 1
<1>1. /\ IsFiniteSet(A \cup {x}) /\ Cardinality(A) \in Nat
      /\ Cardinality(A \cup {x}) <= Cardinality(A) + 1
  <2>1. Cardinality(A) \in Nat
        BY FS_CardinalityType
  <2> QED BY <2>1, FS_AddElement
<1>2. IsFiniteSet(A1) /\ Cardinality(A1) <= Cardinality(A \cup {x})
      BY <1>1, FS_Subset
<1>3. Cardinality(A1) \in Nat /\ Cardinality(A \cup {x}) \in Nat
      BY <1>1, <1>2, FS_CardinalityType
<1> QED BY <1>1, <1>2, <1>3

\* A set without one of its elements, or without that and more.
LEMMA OneLess ==
    ASSUME NEW B, NEW B1, IsFiniteSet(B), NEW w \in B, B1 \subseteq B \ {w}
    PROVE  Cardinality(B1) \in Nat /\ Cardinality(B1) <= Cardinality(B) - 1
<1>1. IsFiniteSet(B \ {w}) /\ Cardinality(B \ {w}) = Cardinality(B) - 1
      BY FS_RemoveElement
<1>2. IsFiniteSet(B1) /\ Cardinality(B1) <= Cardinality(B \ {w})
      BY <1>1, FS_Subset
<1>3. Cardinality(B1) \in Nat
      BY <1>2, FS_CardinalityType
<1> QED BY <1>1, <1>2, <1>3

\* Of some subsets of a finite set, one has no other below it.
LEMMA LeastSubset ==
    ASSUME NEW S, IsFiniteSet(S), NEW B \in SUBSET SUBSET S, B # {}
    PROVE  \E T \in B : \A U \in B : U \subseteq T => U = T
<1> DEFINE R == StrictSubsetOrdering(S)
<1>1. IsWellFoundedOn(R, FiniteSubsetsOf(S))
      BY FS_StrictSubsetOrderingWellFounded
<1>2. B \subseteq FiniteSubsetsOf(S)
      BY FS_Subset DEF FiniteSubsetsOf
<1> HIDE DEF R
<1>3. PICK T \in B : \A U \in B : ~ (<<U, T>> \in R)
      BY <1>1, <1>2, WFMin
<1>4. ASSUME NEW U \in B, U \subseteq T PROVE U = T
      BY <1>3, <1>4 DEF R, StrictSubsetOrdering
<1> QED BY <1>3, <1>4

-----------------------------------------------------------------------------
(* The fold adds up the element that CHOOSE takes and the rest.            *)

Some(s) == CHOOSE x \in s : TRUE

AddUp(fun, g, s) == IF s = {} THEN 0 ELSE fun[Some(s)] + g[s \ {Some(s)}]

IsSum(g, fun, S) == g = [s \in SUBSET S |-> AddUp(fun, g, s)]

\* The library's fold, as the function it chooses.
LEMMA SumDefinition ==
    ASSUME NEW fun, NEW S
    PROVE  SumFunctionOnSet(fun, S) = (CHOOSE g : IsSum(g, fun, S))[S]
BY DEF SumFunctionOnSet, FoldFunctionOnSet, MapThenFoldSet, IsSum, AddUp, Some

\* An element is one of its set.
LEMMA SomeIn == ASSUME NEW s, s # {} PROVE Some(s) \in s
BY DEF Some

\* The function the fold chooses exists: for sets up to n elements, for every n.
LEMMA SumExists ==
    ASSUME NEW fun, NEW S, IsFiniteSet(S)
    PROVE  \E g : IsSum(g, fun, S)
<1> DEFINE Upto(n) == {s \in SUBSET S : Cardinality(s) <= n}
           Partial(g, n) == g = [s \in Upto(n) |-> AddUp(fun, g, s)]
           Bad == {n \in Nat : ~ \E g : Partial(g, n)}
<1>1. \A s \in SUBSET S : IsFiniteSet(s) /\ Cardinality(s) \in Nat
      BY FS_Subset, FS_CardinalityType
<1>2. \A s \in SUBSET S : s # {} => /\ s \ {Some(s)} \in SUBSET S
                                    /\ Cardinality(s \ {Some(s)}) = Cardinality(s) - 1
                                    /\ Cardinality(s) # 0
  <2> SUFFICES ASSUME NEW s \in SUBSET S, s # {}
               PROVE  /\ s \ {Some(s)} \in SUBSET S
                      /\ Cardinality(s \ {Some(s)}) = Cardinality(s) - 1
                      /\ Cardinality(s) # 0
      OBVIOUS
  <2> QED BY <1>1, FS_RemoveElement, FS_EmptySet, SomeIn
<1>3. Bad = {}
  <2> SUFFICES ASSUME Bad # {} PROVE FALSE
      OBVIOUS
  <2>1. PICK m \in Bad : \A n \in Bad : m <= n
        BY LeastNatural
  <2>2. m \in Nat
        OBVIOUS
  <2>3. CASE m = 0
    <3> DEFINE g == [s \in Upto(0) |-> 0]
    <3>1. ASSUME NEW s \in Upto(0) PROVE s = {}
      <4>1. s \in SUBSET S /\ Cardinality(s) <= 0
            OBVIOUS
      <4>2. Cardinality(s) = 0
        <5> HIDE DEF Bad, Upto
        <5> QED BY <1>1, <4>1
      <4> QED BY <1>2, <4>1, <4>2
    <3>2. \A s \in Upto(0) : AddUp(fun, g, s) = 0
          BY <3>1 DEF AddUp
    <3>3. Partial(g, 0)
          BY <3>2
    <3> QED BY <2>1, <2>3, <3>3
  <2>4. CASE m # 0
    <3>1. m - 1 \in Nat /\ ~ (m <= m - 1)
      <4> HIDE DEF Bad
      <4> QED BY <2>2, <2>4
    <3>2. PICK g : Partial(g, m - 1)
      <4>1. m - 1 \notin Bad
        <5> HIDE DEF Bad
        <5> QED BY <2>1, <3>1
      <4> QED BY <3>1, <4>1
    <3> DEFINE h == [s \in Upto(m) |-> AddUp(fun, g, s)]
    <3>3. ASSUME NEW s \in Upto(m) PROVE AddUp(fun, h, s) = AddUp(fun, g, s)
      <4>1. CASE s = {}
            BY <4>1 DEF AddUp
      <4>2. CASE s # {}
        <5> DEFINE t == s \ {Some(s)}
        <5>1. t \in Upto(m) /\ t \in Upto(m - 1)
              BY <1>1, <1>2, <2>2, <4>2
        <5>2. h[t] = AddUp(fun, g, t) /\ g[t] = AddUp(fun, g, t)
              BY <3>2, <5>1
        <5> QED BY <4>2, <5>2 DEF AddUp
      <4> QED BY <4>1, <4>2
    <3>4. Partial(h, m)
          BY <3>3
    <3> QED BY <2>1, <3>4
  <2> QED BY <2>3, <2>4
<1>4. Cardinality(S) \in Nat /\ Upto(Cardinality(S)) = SUBSET S
      BY <1>1, FS_Subset
<1>5. PICK g : Partial(g, Cardinality(S))
      BY <1>3, <1>4
<1> QED BY <1>4, <1>5 DEF IsSum

\* The value at a subset does not depend on the set the fold is taken over.
LEMMA SumUnique ==
    ASSUME NEW fun, NEW S, IsFiniteSet(S), NEW T \in SUBSET S, NEW g, NEW h,
           IsSum(g, fun, S), IsSum(h, fun, T)
    PROVE  g[T] = h[T]
<1> DEFINE B == {s \in SUBSET T : g[s] # h[s]}
<1>1. IsFiniteSet(T) /\ B \in SUBSET SUBSET T
      BY FS_Subset
<1>2. \A s \in SUBSET T : g[s] = AddUp(fun, g, s) /\ h[s] = AddUp(fun, h, s)
      BY DEF IsSum
<1>3. ASSUME B # {} PROVE FALSE
  <2>1. PICK s \in B : \A u \in B : u \subseteq s => u = s
    <3> HIDE DEF B
    <3> QED BY <1>1, <1>3, LeastSubset
  <2>2. CASE s = {}
        BY <1>2, <2>2 DEF AddUp
  <2>3. CASE s # {}
    <3> DEFINE u == s \ {Some(s)}
    <3>1. u \in SUBSET T /\ u \subseteq s /\ u # s
          BY <2>3, SomeIn
    <3>2. g[u] = h[u]
          BY <2>1, <3>1
    <3> QED BY <1>2, <2>3, <3>2 DEF AddUp
  <2> QED BY <2>2, <2>3
<1> QED BY <1>3

\* The sum over a part is what the function for the whole says.
LEMMA SumIs ==
    ASSUME NEW fun, NEW S, IsFiniteSet(S), NEW g, IsSum(g, fun, S), NEW T \in SUBSET S
    PROVE  SumFunctionOnSet(fun, T) = g[T]
<1>1. IsFiniteSet(T)
      BY FS_Subset
<1> DEFINE h == CHOOSE h : IsSum(h, fun, T)
<1>2. IsSum(h, fun, T)
      BY <1>1, SumExists
<1>3. SumFunctionOnSet(fun, T) = h[T]
      BY SumDefinition
<1> HIDE DEF h
<1> QED BY <1>2, <1>3, SumUnique

\* The sum over nothing.
LEMMA SumEmpty == ASSUME NEW fun PROVE SumFunctionOnSet(fun, {}) = 0
<1>1. PICK g : IsSum(g, fun, {})
      BY SumExists, FS_EmptySet
<1>2. g[{}] = 0
      BY <1>1 DEF IsSum, AddUp
<1>3. IsFiniteSet({}) /\ {} \in SUBSET {}
      BY FS_EmptySet
<1> QED BY <1>1, <1>2, <1>3, SumIs

\* The sum, one element at a time.
LEMMA SumTakesSome ==
    ASSUME NEW fun, NEW S, IsFiniteSet(S), S # {}
    PROVE  SumFunctionOnSet(fun, S) = fun[Some(S)] + SumFunctionOnSet(fun, S \ {Some(S)})
<1>1. PICK g : IsSum(g, fun, S)
      BY SumExists
<1>2. g[S] = fun[Some(S)] + g[S \ {Some(S)}]
      BY <1>1 DEF IsSum, AddUp
<1> QED BY <1>1, <1>2, SumIs

-----------------------------------------------------------------------------
(* Sums of naturals.                                                       *)

NatOn(fun, S) == \A x \in S : fun[x] \in Nat

\* A sum of naturals is a natural.
LEMMA SumType ==
    ASSUME NEW fun, NEW S, IsFiniteSet(S), NatOn(fun, S)
    PROVE  SumFunctionOnSet(fun, S) \in Nat
<1> DEFINE B == {T \in SUBSET S : SumFunctionOnSet(fun, T) \notin Nat}
<1>1. ASSUME B # {} PROVE FALSE
  <2>1. PICK T \in B : \A U \in B : U \subseteq T => U = T
    <3>1. B \in SUBSET SUBSET S
          OBVIOUS
    <3> HIDE DEF B
    <3> QED BY <1>1, <3>1, LeastSubset
  <2>2. IsFiniteSet(T)
        BY FS_Subset
  <2>3. T # {}
        BY SumEmpty
  <2>4. Some(T) \in S /\ T \ {Some(T)} \in SUBSET S /\ T \ {Some(T)} \notin B
        BY <2>1, <2>3, SomeIn
  <2>5. fun[Some(T)] \in Nat /\ SumFunctionOnSet(fun, T \ {Some(T)}) \in Nat
        BY <2>4 DEF NatOn
  <2>6. SumFunctionOnSet(fun, T) \in Nat
        BY <2>2, <2>3, <2>5, SumTakesSome
  <2> QED BY <2>6
<1> QED BY <1>1

\* Any element may be taken out first.
LEMMA SumRemove ==
    ASSUME NEW fun, NEW S, IsFiniteSet(S), NatOn(fun, S), NEW x \in S
    PROVE  SumFunctionOnSet(fun, S) = fun[x] + SumFunctionOnSet(fun, S \ {x})
<1> DEFINE B == {T \in SUBSET S : \E y \in T : SumFunctionOnSet(fun, T) #
                                                fun[y] + SumFunctionOnSet(fun, T \ {y})}
<1>1. ASSUME B # {} PROVE FALSE
  <2>1. PICK T \in B : \A U \in B : U \subseteq T => U = T
    <3>1. B \in SUBSET SUBSET S
          OBVIOUS
    <3> HIDE DEF B
    <3> QED BY <1>1, <3>1, LeastSubset
  <2>2. PICK y \in T : SumFunctionOnSet(fun, T) # fun[y] + SumFunctionOnSet(fun, T \ {y})
        OBVIOUS
  <2> DEFINE c == Some(T)
  <2>3. IsFiniteSet(T) /\ T \in SUBSET S
        BY FS_Subset
  <2>4. c \in T /\ SumFunctionOnSet(fun, T) = fun[c] + SumFunctionOnSet(fun, T \ {c})
        BY <2>3, SomeIn, SumTakesSome
  <2> HIDE DEF c
  <2>5. c # y
        BY <2>2, <2>4
  <2>6. T \ {c} \in SUBSET S /\ T \ {c} \notin B /\ T \ {y} \in SUBSET S /\ T \ {y} \notin B
        BY <2>1, <2>3, <2>4
  <2>7. SumFunctionOnSet(fun, T \ {c}) = fun[y] + SumFunctionOnSet(fun, (T \ {c}) \ {y})
        BY <2>5, <2>6
  <2>8. SumFunctionOnSet(fun, T \ {y}) = fun[c] + SumFunctionOnSet(fun, (T \ {y}) \ {c})
        BY <2>4, <2>5, <2>6
  <2>9. (T \ {c}) \ {y} = (T \ {y}) \ {c}
        OBVIOUS
  <2> DEFINE s == SumFunctionOnSet(fun, (T \ {y}) \ {c})
  <2>10. s \in Nat /\ fun[c] \in Nat /\ fun[y] \in Nat
    <3>1. IsFiniteSet((T \ {y}) \ {c}) /\ (T \ {y}) \ {c} \subseteq S
          BY <2>3, FS_Subset
    <3> QED BY <2>3, <2>4, <3>1, SumType DEF NatOn
  <2>11. SumFunctionOnSet(fun, T) = fun[c] + (fun[y] + s)
        BY <2>4, <2>7, <2>9
  <2>12. SumFunctionOnSet(fun, T \ {y}) = fun[c] + s
        BY <2>8
  <2> HIDE DEF s
  <2> QED BY <2>2, <2>10, <2>11, <2>12
<1>2. S \notin B
      BY <1>1
<1> QED BY <1>2

\* The sum over one element more.
LEMMA SumAdd ==
    ASSUME NEW fun, NEW S, IsFiniteSet(S), NEW x, x \notin S, NatOn(fun, S \cup {x})
    PROVE  SumFunctionOnSet(fun, S \cup {x}) = fun[x] + SumFunctionOnSet(fun, S)
<1>1. IsFiniteSet(S \cup {x}) /\ (S \cup {x}) \ {x} = S
      BY FS_AddElement
<1> QED BY <1>1, SumRemove

\* The sum over one element.
LEMMA SumOne ==
    ASSUME NEW fun, NEW x, fun[x] \in Nat
    PROVE  SumFunctionOnSet(fun, {x}) = fun[x]
<1>1. IsFiniteSet({}) /\ {} \cup {x} = {x} /\ NatOn(fun, {x})
      BY FS_EmptySet DEF NatOn
<1>2. SumFunctionOnSet(fun, {} \cup {x}) = fun[x] + SumFunctionOnSet(fun, {})
      BY <1>1, SumAdd
<1> QED BY <1>1, <1>2, SumEmpty

\* The sum depends on the function's values in the set alone.
LEMMA SumSame ==
    ASSUME NEW fun, NEW gun, NEW S, IsFiniteSet(S), \A x \in S : fun[x] = gun[x]
    PROVE  SumFunctionOnSet(fun, S) = SumFunctionOnSet(gun, S)
<1> DEFINE B == {T \in SUBSET S : SumFunctionOnSet(fun, T) # SumFunctionOnSet(gun, T)}
<1>1. ASSUME B # {} PROVE FALSE
  <2>1. PICK T \in B : \A U \in B : U \subseteq T => U = T
    <3>1. B \in SUBSET SUBSET S
          OBVIOUS
    <3> HIDE DEF B
    <3> QED BY <1>1, <3>1, LeastSubset
  <2>2. IsFiniteSet(T)
        BY FS_Subset
  <2>3. T # {}
        BY SumEmpty
  <2>4. Some(T) \in S /\ T \ {Some(T)} \in SUBSET S /\ T \ {Some(T)} \notin B
        BY <2>1, <2>3, SomeIn
  <2>5. SumFunctionOnSet(fun, T \ {Some(T)}) = SumFunctionOnSet(gun, T \ {Some(T)})
        BY <2>4
  <2>6. SumFunctionOnSet(fun, T) = SumFunctionOnSet(gun, T)
        BY <2>2, <2>3, <2>4, <2>5, SumTakesSome
  <2> QED BY <2>6
<1> QED BY <1>1

\* The sum over disjoint sets.
LEMMA SumUnion ==
    ASSUME NEW fun, NEW S, NEW T, IsFiniteSet(S), IsFiniteSet(T), S \cap T = {},
           NatOn(fun, S \cup T)
    PROVE  SumFunctionOnSet(fun, S \cup T) = SumFunctionOnSet(fun, S) + SumFunctionOnSet(fun, T)
<1> DEFINE B == {U \in SUBSET T : SumFunctionOnSet(fun, S \cup U) #
                                   SumFunctionOnSet(fun, S) + SumFunctionOnSet(fun, U)}
<1>0. SumFunctionOnSet(fun, S) \in Nat
      BY SumType DEF NatOn
<1>1. ASSUME B # {} PROVE FALSE
  <2>1. PICK U \in B : \A V \in B : V \subseteq U => V = U
    <3>1. B \in SUBSET SUBSET T
          OBVIOUS
    <3> HIDE DEF B
    <3> QED BY <1>1, <3>1, LeastSubset
  <2>2. IsFiniteSet(U) /\ IsFiniteSet(S \cup U) /\ U \subseteq T
        BY FS_Subset, FS_Union
  <2>3. U # {}
    <3>1. SumFunctionOnSet(fun, {}) = 0 /\ S \cup {} = S
          BY SumEmpty
    <3>2. SumFunctionOnSet(fun, S \cup {}) = SumFunctionOnSet(fun, S) + SumFunctionOnSet(fun, {})
      <4> HIDE DEF B
      <4> QED BY <1>0, <3>1
    <3>3. {} \notin B
          BY <3>2
    <3> QED BY <3>3
  <2>4. PICK x \in U : TRUE
        BY <2>3
  <2> DEFINE V == U \ {x}
  <2>5. V \in SUBSET T /\ V \notin B /\ (S \cup U) \ {x} = S \cup V
        BY <2>1, <2>2, <2>4
  <2>6. SumFunctionOnSet(fun, S \cup V) = SumFunctionOnSet(fun, S) + SumFunctionOnSet(fun, V)
        BY <2>5
  <2>7. SumFunctionOnSet(fun, S \cup U) = fun[x] + SumFunctionOnSet(fun, S \cup V)
    <3>1. NatOn(fun, S \cup U) /\ x \in S \cup U
          BY <2>2, <2>4 DEF NatOn
    <3> QED BY <2>2, <2>5, <3>1, SumRemove
  <2>8. SumFunctionOnSet(fun, U) = fun[x] + SumFunctionOnSet(fun, V)
    <3>1. NatOn(fun, U)
          BY <2>2 DEF NatOn
    <3> QED BY <2>2, <2>4, <3>1, SumRemove
  <2>9. fun[x] \in Nat /\ SumFunctionOnSet(fun, V) \in Nat
    <3>1. IsFiniteSet(V) /\ NatOn(fun, V)
          BY <2>2, FS_Subset DEF NatOn
    <3> QED BY <2>2, <2>4, <3>1, SumType DEF NatOn
  <2> HIDE DEF V
  <2>10. SumFunctionOnSet(fun, S \cup U) = SumFunctionOnSet(fun, S) + SumFunctionOnSet(fun, U)
        BY <1>0, <2>6, <2>7, <2>8, <2>9
  <2> QED BY <2>10
<1>2. T \notin B
      BY <1>1
<1> QED BY <1>2

\* A part sums to no more than the whole.
LEMMA SumSubset ==
    ASSUME NEW fun, NEW S, IsFiniteSet(S), NEW T \in SUBSET S, NatOn(fun, S)
    PROVE  /\ SumFunctionOnSet(fun, S) = SumFunctionOnSet(fun, T) + SumFunctionOnSet(fun, S \ T)
           /\ SumFunctionOnSet(fun, T) <= SumFunctionOnSet(fun, S)
<1>1. IsFiniteSet(T) /\ IsFiniteSet(S \ T) /\ T \cap (S \ T) = {} /\ T \cup (S \ T) = S
      BY FS_Subset
<1>2. SumFunctionOnSet(fun, S) = SumFunctionOnSet(fun, T) + SumFunctionOnSet(fun, S \ T)
      BY <1>1, SumUnion
<1>3. SumFunctionOnSet(fun, T) \in Nat /\ SumFunctionOnSet(fun, S \ T) \in Nat
      BY <1>1, SumType DEF NatOn
<1> QED BY <1>2, <1>3

\* Summands of at most M.
LEMMA SumAtMost ==
    ASSUME NEW fun, NEW S, IsFiniteSet(S), NEW M \in Nat,
           \A x \in S : fun[x] \in Nat /\ fun[x] <= M
    PROVE  SumFunctionOnSet(fun, S) <= Cardinality(S) * M
<1> DEFINE B == {T \in SUBSET S : ~ (SumFunctionOnSet(fun, T) <= Cardinality(T) * M)}
<1>1. ASSUME B # {} PROVE FALSE
  <2>1. PICK T \in B : \A U \in B : U \subseteq T => U = T
    <3>1. B \in SUBSET SUBSET S
          OBVIOUS
    <3> HIDE DEF B
    <3> QED BY <1>1, <3>1, LeastSubset
  <2>2. IsFiniteSet(T) /\ T \subseteq S
        BY FS_Subset
  <2>3. T # {}
    <3>1. 0 <= 0 * M
          OBVIOUS
    <3> QED BY <3>1, SumEmpty, FS_EmptySet
  <2>4. PICK x \in T : TRUE
        BY <2>3
  <2> DEFINE U == T \ {x}
             n == Cardinality(U)
             s == SumFunctionOnSet(fun, U)
  <2>5. IsFiniteSet(U) /\ n \in Nat /\ Cardinality(T) = n + 1
    <3>1. IsFiniteSet(U) /\ Cardinality(U) = Cardinality(T) - 1
          BY <2>2, <2>4, FS_RemoveElement
    <3>2. Cardinality(U) \in Nat /\ Cardinality(T) \in Nat
          BY <2>2, <3>1, FS_CardinalityType
    <3> QED BY <3>1, <3>2
  <2>6. s <= n * M
        BY <2>1, <2>2, <2>4
  <2>7. SumFunctionOnSet(fun, T) = fun[x] + s /\ s \in Nat
        BY <2>2, <2>4, <2>5, SumRemove, SumType DEF NatOn
  <2>8. fun[x] \in Nat /\ fun[x] <= M
        BY <2>2, <2>4
  <2> HIDE DEF s, n, U
  <2>9. (n + 1) * M = n * M + M /\ n * M \in Nat
        BY <2>5
  <2>10. SumFunctionOnSet(fun, T) <= Cardinality(T) * M
        BY <2>5, <2>6, <2>7, <2>8, <2>9
  <2> QED BY <2>10
<1>2. S \notin B
      BY <1>1
<1> QED BY <1>2

\* Larger values add up to more.
LEMMA SumMonotone ==
    ASSUME NEW fun, NEW gun, NEW S, IsFiniteSet(S), NatOn(fun, S), NatOn(gun, S),
           \A x \in S : fun[x] <= gun[x]
    PROVE  SumFunctionOnSet(fun, S) <= SumFunctionOnSet(gun, S)
<1> DEFINE B == {T \in SUBSET S : ~ (SumFunctionOnSet(fun, T) <= SumFunctionOnSet(gun, T))}
<1>1. ASSUME B # {} PROVE FALSE
  <2>1. PICK T \in B : \A U \in B : U \subseteq T => U = T
    <3>1. B \in SUBSET SUBSET S
          OBVIOUS
    <3> HIDE DEF B
    <3> QED BY <1>1, <3>1, LeastSubset
  <2>2. IsFiniteSet(T) /\ T \subseteq S
        BY FS_Subset
  <2>3. T # {}
    <3>1. 0 <= 0
          OBVIOUS
    <3> QED BY <3>1, SumEmpty
  <2>4. PICK x \in T : TRUE
        BY <2>3
  <2> DEFINE U == T \ {x}
             s == SumFunctionOnSet(fun, U)
             t == SumFunctionOnSet(gun, U)
  <2>5. IsFiniteSet(U) /\ s <= t
        BY <2>1, <2>2, <2>4, FS_Subset
  <2>6. NatOn(fun, T) /\ NatOn(gun, T) /\ NatOn(fun, U) /\ NatOn(gun, U)
        BY <2>2 DEF NatOn
  <2>7. /\ SumFunctionOnSet(fun, T) = fun[x] + s /\ s \in Nat
        /\ SumFunctionOnSet(gun, T) = gun[x] + t /\ t \in Nat
        BY <2>2, <2>4, <2>5, <2>6, SumRemove, SumType
  <2>8. fun[x] \in Nat /\ gun[x] \in Nat /\ fun[x] <= gun[x]
        BY <2>2, <2>4 DEF NatOn
  <2> HIDE DEF s, t, U
  <2>9. SumFunctionOnSet(fun, T) <= SumFunctionOnSet(gun, T)
        BY <2>5, <2>7, <2>8
  <2> QED BY <2>9
<1>2. S \notin B
      BY <1>1
<1> QED BY <1>2

\* The sum over the places where something is.
LEMMA SumSupport ==
    ASSUME NEW fun, NEW S, IsFiniteSet(S), NEW T \in SUBSET S, NatOn(fun, S),
           \A x \in S \ T : fun[x] = 0
    PROVE  SumFunctionOnSet(fun, S) = SumFunctionOnSet(fun, T)
<1>1. IsFiniteSet(T) /\ IsFiniteSet(S \ T)
      BY FS_Subset
<1>2. SumFunctionOnSet(fun, S \ T) <= Cardinality(S \ T) * 0
      BY <1>1, SumAtMost
<1>3. /\ Cardinality(S \ T) \in Nat
      /\ SumFunctionOnSet(fun, S \ T) \in Nat /\ SumFunctionOnSet(fun, T) \in Nat
      BY <1>1, FS_CardinalityType, SumType DEF NatOn
<1>4. SumFunctionOnSet(fun, S) = SumFunctionOnSet(fun, T) + SumFunctionOnSet(fun, S \ T)
      BY SumSubset
<1> QED BY <1>2, <1>3, <1>4

\* The sum over sets that may overlap.
LEMMA SumOverlap ==
    ASSUME NEW fun, NEW S, NEW T, IsFiniteSet(S), IsFiniteSet(T), NatOn(fun, S \cup T)
    PROVE  SumFunctionOnSet(fun, S \cup T) <= SumFunctionOnSet(fun, S) + SumFunctionOnSet(fun, T)
<1>1. /\ IsFiniteSet(T \ S) /\ S \cap (T \ S) = {} /\ S \cup (T \ S) = S \cup T
      /\ NatOn(fun, S) /\ NatOn(fun, T) /\ NatOn(fun, T \ S)
      BY FS_Subset DEF NatOn
<1>2. SumFunctionOnSet(fun, S \cup T) = SumFunctionOnSet(fun, S) + SumFunctionOnSet(fun, T \ S)
      BY <1>1, SumUnion
<1>3. SumFunctionOnSet(fun, T \ S) <= SumFunctionOnSet(fun, T)
      BY <1>1, SumSubset
<1>4. /\ SumFunctionOnSet(fun, S) \in Nat /\ SumFunctionOnSet(fun, T) \in Nat
      /\ SumFunctionOnSet(fun, T \ S) \in Nat
      BY <1>1, SumType
<1> QED BY <1>2, <1>3, <1>4

\* Parts that may overlap, each with a number of its own, of at most M together.
LEMMA SumOfParts ==
    ASSUME NEW fun, NEW gun, NEW part, NEW S, IsFiniteSet(S), NEW M \in Nat,
           NEW whole, whole = UNION {part[x] : x \in S},
           \A x \in S : /\ IsFiniteSet(part[x]) /\ NatOn(fun, part[x]) /\ gun[x] \in Nat
                        /\ SumFunctionOnSet(fun, part[x]) + gun[x] <= M
    PROVE  /\ IsFiniteSet(whole) /\ NatOn(fun, whole)
           /\ SumFunctionOnSet(fun, whole) + SumFunctionOnSet(gun, S) <= Cardinality(S) * M
<1> DEFINE Whole(T) == UNION {part[x] : x \in T}
           Good(T) == /\ IsFiniteSet(Whole(T))
                      /\ SumFunctionOnSet(fun, Whole(T)) + SumFunctionOnSet(gun, T)
                            <= Cardinality(T) * M
           B == {T \in SUBSET S : ~ Good(T)}
<1>n. \A T \in SUBSET S : NatOn(fun, Whole(T)) /\ NatOn(gun, T)
      BY DEF NatOn
<1>1. ASSUME B # {} PROVE FALSE
  <2>1. PICK T \in B : \A U \in B : U \subseteq T => U = T
    <3>1. B \in SUBSET SUBSET S
          OBVIOUS
    <3> HIDE DEF B
    <3> QED BY <1>1, <3>1, LeastSubset
  <2>2. IsFiniteSet(T) /\ T \subseteq S
        BY FS_Subset
  <2>3. T # {}
    <3>1. Whole({}) = {} /\ 0 + 0 <= 0 * M
          OBVIOUS
    <3>2. Good({})
          BY <3>1, SumEmpty, FS_EmptySet
    <3> QED BY <3>2
  <2>4. PICK x \in T : TRUE
        BY <2>3
  <2> DEFINE U == T \ {x}
             n == Cardinality(U)
             f == SumFunctionOnSet(fun, Whole(U))
             p == SumFunctionOnSet(fun, part[x])
             w == SumFunctionOnSet(fun, Whole(T))
             g == SumFunctionOnSet(gun, U)
  <2>5. IsFiniteSet(U) /\ n \in Nat /\ Cardinality(T) = n + 1 /\ U \in SUBSET S
    <3>1. IsFiniteSet(U) /\ Cardinality(U) = Cardinality(T) - 1
          BY <2>2, <2>4, FS_RemoveElement
    <3>2. Cardinality(U) \in Nat /\ Cardinality(T) \in Nat
          BY <2>2, <3>1, FS_CardinalityType
    <3> QED BY <2>2, <3>1, <3>2
  <2>6. IsFiniteSet(Whole(U)) /\ f + g <= n * M
    <3>1. U \notin B
      <4> HIDE DEF B
      <4> QED BY <2>1, <2>4
    <3>2. Good(U)
      <4> HIDE DEF Good
      <4> QED BY <2>5, <3>1
    <3> QED BY <3>2
  <2>7. SumFunctionOnSet(gun, T) = gun[x] + g /\ g \in Nat
    <3>1. NatOn(gun, T) /\ NatOn(gun, U)
          BY <1>n, <2>2, <2>5
    <3> QED BY <2>2, <2>4, <2>5, <3>1, SumRemove, SumType
  <2>8. /\ gun[x] \in Nat /\ p + gun[x] <= M
        /\ IsFiniteSet(part[x]) /\ NatOn(fun, part[x])
        BY <2>2, <2>4
  <2>9. Whole(T) = Whole(U) \cup part[x]
        BY <2>4
  <2>10. IsFiniteSet(Whole(T)) /\ w <= f + p
    <3>1. IsFiniteSet(Whole(T))
      <4> HIDE DEF Whole
      <4> QED BY <2>6, <2>8, <2>9, FS_Union
    <3>2. NatOn(fun, Whole(U) \cup part[x])
          BY <1>n, <2>2, <2>9
    <3>3. PICK A, C : A = Whole(U) /\ C = part[x]
          OBVIOUS
    <3>4. SumFunctionOnSet(fun, A \cup C) <= SumFunctionOnSet(fun, A) + SumFunctionOnSet(fun, C)
          BY <2>6, <2>8, <3>2, <3>3, SumOverlap
    <3> QED BY <2>9, <3>1, <3>3, <3>4
  <2>11. f \in Nat /\ p \in Nat /\ w \in Nat
    <3>1. NatOn(fun, Whole(U)) /\ NatOn(fun, Whole(T))
          BY <1>n, <2>2, <2>5
    <3> HIDE DEF Whole
    <3> QED BY <2>6, <2>8, <2>10, <3>1, SumType
  <2>12. IsFiniteSet(Whole(T)) /\ ~ Good(T)
         BY <2>10
  <2> HIDE DEF f, p, w, g, n, U
  <2>13. (n + 1) * M = n * M + M /\ n * M \in Nat
         BY <2>5
  <2>14. w + SumFunctionOnSet(gun, T) <= Cardinality(T) * M
         BY <2>5, <2>6, <2>7, <2>8, <2>10, <2>11, <2>13
  <2> QED BY <2>12, <2>14 DEF w
<1>2. S \notin B
      BY <1>1
<1> HIDE DEF Whole
<1>3. Good(S) /\ NatOn(fun, Whole(S))
      BY <1>2, <1>n
<1>4. whole = Whole(S)
      BY DEF Whole
<1> QED BY <1>3, <1>4

\* One value changes.
LEMMA SumChange ==
    ASSUME NEW fun, NEW gun, NEW S, IsFiniteSet(S), NatOn(fun, S), NatOn(gun, S), NEW x \in S,
           \A y \in S \ {x} : gun[y] = fun[y]
    PROVE  SumFunctionOnSet(gun, S) - gun[x] = SumFunctionOnSet(fun, S) - fun[x]
<1> DEFINE R == S \ {x}
<1>1. IsFiniteSet(R) /\ NatOn(fun, R)
      BY FS_Subset DEF NatOn
<1>2. /\ SumFunctionOnSet(fun, S) = fun[x] + SumFunctionOnSet(fun, R)
      /\ SumFunctionOnSet(gun, S) = gun[x] + SumFunctionOnSet(gun, R)
      BY SumRemove
<1>3. SumFunctionOnSet(gun, R) = SumFunctionOnSet(fun, R)
      BY <1>1, SumSame
<1>4. SumFunctionOnSet(fun, R) \in Nat /\ fun[x] \in Nat /\ gun[x] \in Nat
      BY <1>1, SumType DEF NatOn
<1> HIDE DEF R
<1> QED BY <1>2, <1>3, <1>4
=============================================================================
