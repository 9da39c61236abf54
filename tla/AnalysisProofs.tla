---------------------------- MODULE AnalysisProofs ----------------------------
(***************************************************************************)
(* The properties of Analysis, for any attempts of any number of solvers,  *)
(* instances and seeds, any verdicts and replies, and any sequence of      *)
(* commands, changes and failures.                                         *)
(***************************************************************************)
EXTENDS Analysis, FiniteSetTheorems, WellFoundedInduction, TLAPS

-----------------------------------------------------------------------------
(* Totals.  A proof about every part T of a finite set looks at a smallest *)
(* part for which it would fail.                                           *)

LEMMA SmallestPart ==
  ASSUME NEW S, IsFiniteSet(S), NEW B \in SUBSET (SUBSET S), B # {}
  PROVE  \E T \in B : \A U \in B : U \subseteq T => U = T
<1>1. B \subseteq FiniteSubsetsOf(S)
  <2> SUFFICES ASSUME NEW T \in B PROVE T \in SUBSET S /\ IsFiniteSet(T)
    BY DEF FiniteSubsetsOf
  <2> QED BY FS_Subset
<1>2. PICK T \in B : \A U \in B : <<U, T>> \notin StrictSubsetOrdering(S)
  BY <1>1, FS_StrictSubsetOrderingWellFounded, WFMin
<1>3. \A U \in B : U \subseteq T => U = T
  BY <1>2 DEF StrictSubsetOrdering
<1> QED BY <1>3

Some(s) == CHOOSE x \in s : TRUE
Sums(f, S, g) ==
  g = [s \in SUBSET S |-> IF s = {} THEN 0 ELSE f[Some(s)] + g[s \ {Some(s)}]]
Sum(f, S) == (CHOOSE g : Sums(f, S, g))[S]

LEMMA TotalIsSum == \A f : Total(f) = Sum(f, DOMAIN f)
BY DEF Total, SumFunction, SumFunctionOnSet, FoldFunctionOnSet, MapThenFoldSet, Sum, Sums, Some

LEMMA SumsAgree ==
  ASSUME NEW T, IsFiniteSet(T), NEW U \in SUBSET T, NEW f, NEW g, NEW h,
         Sums(f, T, g), Sums(f, U, h)
  PROVE  \A V \in SUBSET U : g[V] = h[V]
<1> DEFINE B == {V \in SUBSET U : g[V] # h[V]}
<1> SUFFICES ASSUME B # {} PROVE FALSE
  OBVIOUS
<1>1. IsFiniteSet(U)
  BY FS_Subset
<1>0. B \in SUBSET (SUBSET U) /\ B # {}
  OBVIOUS
<1> HIDE DEF B
<1>2. PICK V \in B : \A W \in B : W \subseteq V => W = V
  BY <1>0, <1>1, SmallestPart
<1> USE DEF B
<1>3. V \in SUBSET U /\ V \in SUBSET T
  OBVIOUS
<1>4. /\ g[V] = IF V = {} THEN 0 ELSE f[Some(V)] + g[V \ {Some(V)}]
      /\ h[V] = IF V = {} THEN 0 ELSE f[Some(V)] + h[V \ {Some(V)}]
  BY <1>3 DEF Sums
<1>5. V # {}
  BY <1>4
<1>6. Some(V) \in V
  BY <1>5 DEF Some
<1>7. V \ {Some(V)} \notin B
  BY <1>2, <1>6
<1>8. g[V \ {Some(V)}] = h[V \ {Some(V)}]
  BY <1>3, <1>7
<1> QED BY <1>4, <1>5, <1>8

LEMMA SumsExist ==
  ASSUME NEW S, IsFiniteSet(S), NEW f
  PROVE  \E g : Sums(f, S, g)
<1> DEFINE B == {T \in SUBSET S : ~\E g : Sums(f, T, g)}
           G(U) == CHOOSE g : Sums(f, U, g)
<1> SUFFICES ASSUME B # {} PROVE FALSE
  OBVIOUS
<1>0. B \in SUBSET (SUBSET S) /\ B # {}
  OBVIOUS
<1> HIDE DEF B
<1>1. PICK T \in B : \A U \in B : U \subseteq T => U = T
  BY <1>0, SmallestPart
<1> USE DEF B
<1>2. \A U \in SUBSET T : U # T => Sums(f, U, G(U))
  BY <1>1
<1>3. \A U \in SUBSET T : IsFiniteSet(U)
  BY FS_Subset
<1> DEFINE h == [s \in SUBSET T |->
                   IF s = {} THEN 0 ELSE f[Some(s)] + G(s \ {Some(s)})[s \ {Some(s)}]]
<1> HIDE DEF G
<1>4. ASSUME NEW s \in SUBSET T, s # {}
      PROVE  h[s \ {Some(s)}] = G(s \ {Some(s)})[s \ {Some(s)}]
  <2> DEFINE u == s \ {Some(s)}
             v == u \ {Some(u)}
  <2>1. Some(s) \in s /\ (u # {} => Some(u) \in u)
    BY <1>4 DEF Some
  <2>2. u \in SUBSET T /\ u # T /\ v \in SUBSET T /\ v # T /\ v \in SUBSET u
    BY <2>1
  <2>3. Sums(f, u, G(u)) /\ Sums(f, v, G(v))
    BY <1>2, <2>2
  <2>4. G(u)[u] = IF u = {} THEN 0 ELSE f[Some(u)] + G(u)[v]
    BY <2>3 DEF Sums
  <2>5. G(u)[v] = G(v)[v]
    <3>1. IsFiniteSet(u)
      BY <1>3, <2>2
    <3> QED BY <2>2, <2>3, <3>1, SumsAgree
  <2>6. h[u] = IF u = {} THEN 0 ELSE f[Some(u)] + G(v)[v]
    BY <2>2
  <2> QED BY <2>4, <2>5, <2>6
<1>5. Sums(f, T, h)
  <2>1. h = [s \in SUBSET T |-> IF s = {} THEN 0 ELSE f[Some(s)] + h[s \ {Some(s)}]]
    <3>1. \A s \in SUBSET T : h[s] = IF s = {} THEN 0 ELSE f[Some(s)] + h[s \ {Some(s)}]
      BY <1>4
    <3> DEFINE k == [s \in SUBSET T |-> IF s = {} THEN 0 ELSE f[Some(s)] + h[s \ {Some(s)}]]
    <3>2. DOMAIN h = SUBSET T /\ DOMAIN k = SUBSET T /\ h = [s \in DOMAIN h |-> h[s]] /\ k = [s \in DOMAIN k |-> k[s]]
      OBVIOUS
    <3>3. \A s \in SUBSET T : k[s] = h[s]
      BY <3>1
    <3> HIDE DEF h, k
    <3>4. h = k
      BY <3>2, <3>3
    <3> QED BY <3>4 DEF k
  <2> QED BY <2>1 DEF Sums
<1> QED BY <1>1, <1>5

LEMMA SumStep ==
  ASSUME NEW S, IsFiniteSet(S), NEW f
  PROVE  Sum(f, S) = IF S = {} THEN 0 ELSE f[Some(S)] + Sum(f, S \ {Some(S)})
<1> DEFINE s == S \ {Some(S)}
           g == CHOOSE k : Sums(f, S, k)
           h == CHOOSE k : Sums(f, s, k)
<1>1. IsFiniteSet(s) /\ s \in SUBSET S
  BY FS_Subset
<1>2. Sums(f, S, g) /\ Sums(f, s, h)
  BY <1>1, SumsExist
<1>3. Sum(f, S) = g[S] /\ Sum(f, s) = h[s]
  BY DEF Sum
<1> HIDE DEF g, h
<1>4. g[S] = IF S = {} THEN 0 ELSE f[Some(S)] + g[s]
  BY <1>2 DEF Sums
<1>5. g[s] = h[s]
  BY <1>1, <1>2, SumsAgree
<1> QED BY <1>3, <1>4, <1>5

LEMMA SumType ==
  ASSUME NEW S, IsFiniteSet(S), NEW f, \A x \in S : f[x] \in Int
  PROVE  Sum(f, S) \in Int /\ ((\A x \in S : f[x] >= 0) => Sum(f, S) >= 0)
<1> DEFINE Ok(T) == Sum(f, T) \in Int /\ ((\A x \in S : f[x] >= 0) => Sum(f, T) >= 0)
           B == {T \in SUBSET S : ~Ok(T)}
<1> SUFFICES ASSUME B # {} PROVE FALSE
  OBVIOUS
<1>0. B \in SUBSET (SUBSET S) /\ B # {}
  OBVIOUS
<1> HIDE DEF B
<1>1. PICK T \in B : \A U \in B : U \subseteq T => U = T
  BY <1>0, SmallestPart
<1> USE DEF B
<1>2. Sum(f, T) = IF T = {} THEN 0 ELSE f[Some(T)] + Sum(f, T \ {Some(T)})
  BY FS_Subset, SumStep
<1>3. T # {}
  BY <1>2
<1>4. Some(T) \in T
  BY <1>3 DEF Some
<1>5. Ok(T \ {Some(T)})
  BY <1>1, <1>4
<1>6. f[Some(T)] \in Int
  BY <1>4
<1> QED BY <1>2, <1>3, <1>4, <1>5, <1>6

LEMMA SumPick ==
  ASSUME NEW S, IsFiniteSet(S), NEW f, \A x \in S : f[x] \in Int, NEW x \in S
  PROVE  Sum(f, S) = f[x] + Sum(f, S \ {x})
<1> DEFINE Ok(T) == \A y \in T : Sum(f, T) = f[y] + Sum(f, T \ {y})
           B == {T \in SUBSET S : ~Ok(T)}
<1> SUFFICES ASSUME B # {} PROVE FALSE
  OBVIOUS
<1>0. B \in SUBSET (SUBSET S) /\ B # {}
  OBVIOUS
<1> HIDE DEF B
<1>1. PICK T \in B : \A U \in B : U \subseteq T => U = T
  BY <1>0, SmallestPart
<1> USE DEF B
<1>2. PICK y \in T : Sum(f, T) # f[y] + Sum(f, T \ {y})
  OBVIOUS
<1> DEFINE c == Some(T)
<1>3. c \in T
  BY DEF Some
<1>4. IsFiniteSet(T)
  BY FS_Subset
<1>5. Sum(f, T) = f[c] + Sum(f, T \ {c})
  BY <1>3, <1>4, SumStep
<1> HIDE DEF c
<1>6. y # c
  BY <1>2, <1>5
<1>7. Ok(T \ {c}) /\ Ok(T \ {y})
  BY <1>1, <1>2, <1>3
<1>8. /\ Sum(f, T \ {c}) = f[y] + Sum(f, (T \ {c}) \ {y})
      /\ Sum(f, T \ {y}) = f[c] + Sum(f, (T \ {y}) \ {c})
  BY <1>2, <1>3, <1>6, <1>7
<1>9. (T \ {c}) \ {y} = (T \ {y}) \ {c}
  OBVIOUS
<1>10. f[c] \in Int /\ f[y] \in Int /\ Sum(f, (T \ {y}) \ {c}) \in Int
  <2>1. IsFiniteSet((T \ {y}) \ {c})
    BY <1>4, FS_Subset
  <2>2. \A z \in (T \ {y}) \ {c} : f[z] \in Int
    OBVIOUS
  <2> QED BY <1>2, <1>3, <2>1, <2>2, SumType
<1> DEFINE w == Sum(f, (T \ {y}) \ {c})
<1>11. Sum(f, T \ {c}) = f[y] + w /\ Sum(f, T \ {y}) = f[c] + w /\ w \in Int
  BY <1>8, <1>9, <1>10
<1> HIDE DEF w
<1>12. Sum(f, T) = f[y] + Sum(f, T \ {y})
  <2>1. f[y] + Sum(f, T \ {y}) = f[y] + (f[c] + w)
    BY <1>11
  <2>2. Sum(f, T) = f[c] + (f[y] + w)
    BY <1>5, <1>11
  <2>3. f[y] + (f[c] + w) = f[c] + (f[y] + w)
    BY <1>10, <1>11
  <2> QED BY <2>1, <2>2, <2>3
<1> QED BY <1>2, <1>12

LEMMA SumLeq ==
  ASSUME NEW S, IsFiniteSet(S), NEW f, NEW g,
         \A x \in S : f[x] \in Int /\ g[x] \in Int /\ f[x] <= g[x]
  PROVE  Sum(f, S) <= Sum(g, S)
<1> DEFINE B == {T \in SUBSET S : ~(Sum(f, T) <= Sum(g, T))}
<1> SUFFICES ASSUME B # {} PROVE FALSE
  OBVIOUS
<1>0. B \in SUBSET (SUBSET S) /\ B # {}
  OBVIOUS
<1> HIDE DEF B
<1>1. PICK T \in B : \A U \in B : U \subseteq T => U = T
  BY <1>0, SmallestPart
<1> USE DEF B
<1>2. IsFiniteSet(T)
  BY FS_Subset
<1>3. /\ Sum(f, T) = IF T = {} THEN 0 ELSE f[Some(T)] + Sum(f, T \ {Some(T)})
      /\ Sum(g, T) = IF T = {} THEN 0 ELSE g[Some(T)] + Sum(g, T \ {Some(T)})
  BY <1>2, SumStep
<1>4. T # {}
  BY <1>3
<1>5. Some(T) \in T
  BY <1>4 DEF Some
<1> DEFINE U == T \ {Some(T)}
<1>6. Sum(f, U) <= Sum(g, U)
  BY <1>1, <1>5
<1>7. Sum(f, U) \in Int /\ Sum(g, U) \in Int
  <2>1. IsFiniteSet(U) /\ \A x \in U : f[x] \in Int /\ g[x] \in Int
    BY <1>2, FS_Subset
  <2> QED BY <2>1, SumType
<1>8. f[Some(T)] \in Int /\ g[Some(T)] \in Int /\ f[Some(T)] <= g[Some(T)]
  BY <1>5
<1> HIDE DEF U
<1>9. Sum(f, T) = f[Some(T)] + Sum(f, U) /\ Sum(g, T) = g[Some(T)] + Sum(g, U)
  BY <1>3, <1>4 DEF U
<1>10. ~(Sum(f, T) <= Sum(g, T))
  OBVIOUS
<1> QED BY <1>6, <1>7, <1>8, <1>9, <1>10

\* The sum over a part is not larger.
LEMMA SumOfPart ==
  ASSUME NEW S, IsFiniteSet(S), NEW f, \A x \in S : f[x] \in Int /\ f[x] >= 0, NEW U \in SUBSET S
  PROVE  Sum(f, U) <= Sum(f, S)
<1> DEFINE B == {T \in SUBSET S : ~(Sum(f, T \cap U) <= Sum(f, T))}
<1> SUFFICES ASSUME B # {} PROVE FALSE
  <2>1. S \in SUBSET S /\ S \cap U = U
    OBVIOUS
  <2> QED BY <2>1
<1>0. B \in SUBSET (SUBSET S) /\ B # {}
  OBVIOUS
<1> HIDE DEF B
<1>1. PICK T \in B : \A V \in B : V \subseteq T => V = T
  BY <1>0, SmallestPart
<1> USE DEF B
<1>2. IsFiniteSet(T) /\ IsFiniteSet(T \cap U)
  BY FS_Subset
<1>3. PICK c \in T : TRUE
  <2>1. T # {}
    <3> SUFFICES ASSUME T = {} PROVE FALSE
      OBVIOUS
    <3>1. T \cap U = {} /\ Sum(f, {}) = 0
      BY FS_EmptySet, SumStep
    <3> QED BY <3>1
  <2> QED BY <2>1
<1> DEFINE R == T \ {c}
           Q == R \cap U
<1>4. R \notin B
  <2> HIDE DEF B
  <2> QED BY <1>1, <1>3
<1>5. Sum(f, Q) <= Sum(f, R)
  BY <1>4
<1>6. f[c] \in Int /\ f[c] >= 0
  BY <1>3
<1>7. Sum(f, T) = f[c] + Sum(f, R)
  BY <1>2, <1>3, SumPick
<1>8. Sum(f, T \cap U) = (IF c \in U THEN f[c] ELSE 0) + Sum(f, Q)
  <2>1. CASE c \in U
    <3>1. c \in T \cap U /\ (T \cap U) \ {c} = Q /\ \A x \in T \cap U : f[x] \in Int
      BY <1>3, <2>1
    <3> HIDE DEF Q
    <3>2. Sum(f, T \cap U) = f[c] + Sum(f, (T \cap U) \ {c})
      BY <1>2, <3>1, SumPick
    <3> QED BY <2>1, <3>1, <3>2
  <2>2. CASE c \notin U
    <3>1. T \cap U = Q
      BY <2>2
    <3>2. Sum(f, T \cap U) \in Int
      BY <1>2, SumType
    <3> HIDE DEF Q
    <3> QED BY <2>2, <3>1, <3>2
  <2> QED BY <2>1, <2>2
<1>9. Sum(f, Q) \in Int /\ Sum(f, R) \in Int
  <2>1. IsFiniteSet(Q) /\ IsFiniteSet(R) /\ \A x \in R : f[x] \in Int
    BY <1>2, FS_Subset
  <2> QED BY <2>1, SumType
<1>10. ~(Sum(f, T \cap U) <= Sum(f, T))
  OBVIOUS
<1> HIDE DEF B, Q, R
<1> QED BY <1>5, <1>6, <1>7, <1>8, <1>9, <1>10

\* As many as there are in all the parts that a value splits a set into.
LEMMA PartsAddUp ==
  ASSUME NEW S, IsFiniteSet(S), NEW k, NEW K, IsFiniteSet(K), NEW f,
         \A v \in K : f[v] = Cardinality({x \in S : k[x] = v})
  PROVE  Sum(f, K) = Cardinality({x \in S : k[x] \in K})
<1> DEFINE In(T) == {x \in S : k[x] \in T}
           B == {T \in SUBSET K : Sum(f, T) # Cardinality(In(T))}
<1> SUFFICES ASSUME B # {} PROVE FALSE
  OBVIOUS
<1>0. B \in SUBSET (SUBSET K) /\ B # {}
  OBVIOUS
<1> HIDE DEF B
<1>1. PICK T \in B : \A V \in B : V \subseteq T => V = T
  BY <1>0, SmallestPart
<1> USE DEF B
<1>2. Sum(f, T) = IF T = {} THEN 0 ELSE f[Some(T)] + Sum(f, T \ {Some(T)})
  BY FS_Subset, SumStep
<1>3. T # {}
  <2> SUFFICES ASSUME T = {} PROVE FALSE
    OBVIOUS
  <2>1. In(T) = {}
    OBVIOUS
  <2> HIDE DEF In
  <2> QED BY <1>2, <2>1, FS_EmptySet
<1> DEFINE c == Some(T)
           R == T \ {c}
           own == {x \in S : k[x] = c}
<1>4. c \in T
  BY <1>3 DEF Some
<1> HIDE DEF c
<1>5. Sum(f, R) = Cardinality(In(R))
  <2>1. R \notin B
    <3> HIDE DEF B
    <3> QED BY <1>1, <1>4
  <2> QED BY <2>1
<1>6. In(T) = In(R) \cup own /\ In(R) \cap own = {}
  BY <1>4
<1>7. IsFiniteSet(In(R)) /\ IsFiniteSet(own)
  BY FS_Subset
<1>8. f[c] = Cardinality(own)
  BY <1>4
<1>9. Sum(f, T) # Cardinality(In(T))
  OBVIOUS
<1>10. Sum(f, T) = f[c] + Sum(f, R)
  BY <1>2, <1>3 DEF c
<1> HIDE DEF B, In, R, own
<1>11. Cardinality(In(T)) = Cardinality(In(R)) + Cardinality(own)
  <2>1. Cardinality(In(R) \cup own) = Cardinality(In(R)) + Cardinality(own) - Cardinality(In(R) \cap own)
    BY <1>7, FS_Union
  <2>2. Cardinality(In(R) \cap own) = 0
    BY <1>6, FS_EmptySet
  <2>3. Cardinality(In(R)) \in Nat /\ Cardinality(own) \in Nat
    BY <1>7, FS_CardinalityType
  <2> QED BY <1>6, <2>1, <2>2, <2>3
<1>12. Cardinality(In(R)) \in Nat /\ Cardinality(own) \in Nat
  BY <1>7, FS_CardinalityType
<1> QED BY <1>5, <1>8, <1>9, <1>10, <1>11, <1>12

\* A sum is not larger than one that has a term for each of its terms.
LEMMA SumUnder ==
  ASSUME NEW S, IsFiniteSet(S), NEW f, NEW U, IsFiniteSet(U), NEW g, NEW h,
         DOMAIN h = S, h = [x \in S |-> h[x]],
         \A x \in S : h[x] \in U /\ f[x] \in Int /\ f[x] <= g[h[x]],
         \A x, y \in S : h[x] = h[y] => x = y,
         \A u \in U : g[u] \in Int /\ g[u] >= 0
  PROVE  Sum(f, S) <= Sum(g, U)
<1> DEFINE Of(T) == {h[x] : x \in T}
           B == {T \in SUBSET S : ~(Sum(f, T) <= Sum(g, Of(T)))}
<1>1. \A T \in SUBSET S : IsFiniteSet(T) /\ IsFiniteSet(Of(T)) /\ Of(T) \in SUBSET U
  <2> SUFFICES ASSUME NEW T \in SUBSET S PROVE IsFiniteSet(T) /\ IsFiniteSet(Of(T)) /\ Of(T) \in SUBSET U
    OBVIOUS
  <2>1. IsFiniteSet(T) /\ Of(T) \in SUBSET U
    BY FS_Subset
  <2> HIDE DEF Of
  <2> QED BY <2>1, FS_Subset
<1>2. ASSUME B # {} PROVE FALSE
  <2>0. B \in SUBSET (SUBSET S) /\ B # {}
    BY <1>2
  <2> HIDE DEF B
  <2>1. PICK T \in B : \A V \in B : V \subseteq T => V = T
    BY <2>0, SmallestPart
  <2> USE DEF B
  <2>2. ~(Sum(f, T) <= Sum(g, Of(T))) /\ T \in SUBSET S
    OBVIOUS
  <2>3. PICK c \in T : TRUE
    <3> SUFFICES ASSUME T = {} PROVE FALSE
      OBVIOUS
    <3>1. Of(T) = {}
      OBVIOUS
    <3> HIDE DEF Of, B
    <3>2. Sum(f, {}) = 0 /\ Sum(g, {}) = 0
      BY FS_EmptySet, SumStep
    <3>3. Sum(f, T) = 0 /\ Sum(g, Of(T)) = 0
      BY <3>1, <3>2
    <3> QED BY <2>2, <3>3
  <2> DEFINE V == T \ {c}
  <2>4. Sum(f, V) <= Sum(g, Of(V))
    <3>1. V \notin B
      <4> HIDE DEF B
      <4> QED BY <2>1, <2>3
    <3>2. V \in SUBSET S
      BY <2>2
    <3> HIDE DEF V, Of
    <3> QED BY <3>1, <3>2
  <2>5. Of(V) = Of(T) \ {h[c]} /\ h[c] \in Of(T) /\ V \in SUBSET S
    BY <2>2, <2>3
  <2> HIDE DEF B, V, Of
  <2>6. Sum(f, T) = f[c] + Sum(f, V)
    BY <1>1, <2>2, <2>3, SumPick DEF V
  <2>7. Sum(g, Of(T)) = g[h[c]] + Sum(g, Of(V))
    <3>1. IsFiniteSet(Of(T)) /\ \A u \in Of(T) : g[u] \in Int
      BY <1>1, <2>2
    <3>2. Sum(g, Of(T)) = g[h[c]] + Sum(g, Of(T) \ {h[c]})
      BY <2>5, <3>1, SumPick
    <3> QED BY <2>5, <3>2
  <2>8. Sum(f, V) \in Int /\ Sum(g, Of(V)) \in Int
    <3>1. IsFiniteSet(V) /\ IsFiniteSet(Of(V)) /\ \A x \in V : f[x] \in Int
      BY <1>1, <2>5
    <3>2. \A u \in Of(V) : g[u] \in Int
      BY <1>1, <2>5
    <3> QED BY <3>1, <3>2, SumType
  <2>9. f[c] \in Int /\ g[h[c]] \in Int /\ f[c] <= g[h[c]]
    BY <2>2, <2>3
  <2> QED BY <2>2, <2>4, <2>6, <2>7, <2>8, <2>9
<1>3. Sum(f, S) <= Sum(g, Of(S))
  BY <1>2
<1>4. IsFiniteSet(Of(S)) /\ Of(S) \in SUBSET U
  BY <1>1
<1> HIDE DEF Of, B
<1>5. Sum(g, Of(S)) <= Sum(g, U)
  BY <1>4, SumOfPart
<1>6. Sum(f, S) \in Int /\ Sum(g, Of(S)) \in Int /\ Sum(g, U) \in Int
  <2>1. \A u \in Of(S) : g[u] \in Int
    BY <1>4
  <2> QED BY <1>4, <2>1, SumType
<1> QED BY <1>3, <1>5, <1>6

-----------------------------------------------------------------------------
(* The rows of a report                                                    *)

Row ==
  [id : Nat, solver : Nat, instance : Nat, seed : Nat, index : Nat,
   state : {"succeeded", "failed", "timed_out", "invalid_patch", "budget_exceeded", "skipped"},
   patch : Nat, cost : Nat \cup {Unknown}, ms : Nat, exit : STRING, error : STRING,
   resolved : BOOLEAN, outcome : {"resolved", "failed", "unknown"}, reason : {"tests failed", ""}]

Rows(rows) ==
  /\ rows \subseteq Row /\ rows # {} /\ IsFiniteSet(rows)
  /\ \A r, o \in rows : r.id = o.id => r = o
  /\ \A r, o \in rows : PairOf(r) = PairOf(o) => r.resolved = o.resolved
  /\ \A r, o \in rows : JobOf(r) = JobOf(o) /\ r.id < o.id => r.patch = NoPatch

LEMMA ImageIsFinite ==
  ASSUME NEW S, IsFiniteSet(S), NEW f, DOMAIN f = S, f = [x \in S |-> f[x]]
  PROVE  /\ IsFiniteSet({f[x] : x \in S})
         /\ Cardinality({f[x] : x \in S}) <= Cardinality(S)
<1>1. f \in Surjection(S, {f[x] : x \in S})
  <2>1. f \in [S -> {f[x] : x \in S}]
    OBVIOUS
  <2>2. \A t \in {f[x] : x \in S} : \E x \in S : f[x] = t
    OBVIOUS
  <2> QED BY <2>1, <2>2 DEF Surjection
<1> QED BY <1>1, FS_Surjection

LEMMA ValuesFinite ==
  ASSUME NEW S, IsFiniteSet(S)
  PROVE  IsFiniteSet({r.instance : r \in S}) /\ IsFiniteSet({r.cost : r \in S})
<1> DEFINE f == [r \in S |-> r.instance]
           g == [r \in S |-> r.cost]
<1>1. DOMAIN f = S /\ f = [r \in S |-> f[r]] /\ {r.instance : r \in S} = {f[r] : r \in S}
  OBVIOUS
<1>2. DOMAIN g = S /\ g = [r \in S |-> g[r]] /\ {r.cost : r \in S} = {g[r] : r \in S}
  OBVIOUS
<1> HIDE DEF f, g
<1>3. IsFiniteSet({f[r] : r \in S}) /\ IsFiniteSet({g[r] : r \in S})
  BY <1>1, <1>2, ImageIsFinite
<1> QED BY <1>1, <1>2, <1>3

LEMMA RowType ==
  ASSUME NEW r \in Row
  PROVE  /\ r.id \in Nat /\ r.solver \in Nat /\ r.index \in Nat /\ r.patch \in Nat /\ r.ms \in Nat
         /\ r.id \in Int /\ r.cost \in Int /\ r.resolved \in BOOLEAN
<1>1. r.id \in Nat /\ r.solver \in Nat /\ r.index \in Nat /\ r.patch \in Nat /\ r.ms \in Nat
  BY DEF Row
<1>2. r.cost \in Nat \cup {Unknown}
  BY DEF Row
<1>3. r.resolved \in BOOLEAN
  BY DEF Row
<1> QED BY <1>1, <1>2, <1>3 DEF Unknown

LEMMA JoinedRows ==
  ASSUME NEW w, World(w), NEW v \in Verdicts(w)
  PROVE  Rows(Joined(w, v))
<1> DEFINE J(a) ==
             LET judged == PairOf(a) \in DOMAIN v
                 won    == judged /\ v[PairOf(a)]
             IN  [id |-> a.id, solver |-> a.solver, instance |-> a.instance, seed |-> a.seed,
                  index |-> a.index, state |-> a.state, patch |-> a.patch, cost |-> a.cost, ms |-> a.ms,
                  exit |-> a.exit, error |-> a.error,
                  resolved |-> won,
                  outcome  |-> IF won THEN "resolved" ELSE IF judged THEN "failed" ELSE "unknown",
                  reason   |-> IF judged /\ ~won THEN "tests failed" ELSE ""]
<1>1. Joined(w, v) = {J(a) : a \in w}
  BY DEF Joined
<1>2. \A a \in w : a \in Attempt
  BY DEF World
<1>3. \A p \in DOMAIN v : v[p] \in BOOLEAN
  BY DEF Verdicts
<1>4. \A a \in w : J(a) \in Row
  <2> SUFFICES ASSUME NEW a \in w PROVE J(a) \in Row
    OBVIOUS
  <2> QED BY <1>2, <1>3 DEF Attempt, Row
<1>5. \A a \in w : J(a).id = a.id /\ PairOf(J(a)) = PairOf(a) /\ JobOf(J(a)) = JobOf(a)
                   /\ J(a).patch = a.patch /\ J(a).resolved = (PairOf(a) \in DOMAIN v /\ v[PairOf(a)])
  BY DEF PairOf, JobOf
<1>6. IsFiniteSet({J(a) : a \in w})
  <2> DEFINE f == [a \in w |-> J(a)]
  <2>1. {J(a) : a \in w} = {f[a] : a \in w}
    OBVIOUS
  <2>2. DOMAIN f = w /\ f = [a \in w |-> f[a]]
    OBVIOUS
  <2> HIDE DEF f
  <2>3. IsFiniteSet({f[a] : a \in w})
    BY <2>2, ImageIsFinite DEF World
  <2> QED BY <2>1, <2>3
<1> HIDE DEF J
<1> QED BY <1>1, <1>4, <1>5, <1>6 DEF World, Rows

-----------------------------------------------------------------------------
(* What is inductive                                                       *)

Now == Joined(attempts, results)

RunInv ==
  /\ World(attempts) /\ results \in Verdicts(attempts)
  /\ changes \in Nat /\ faults \in Nat

(* Judgements. *)

\* What a judgement says of itself follows from its question and its delta.
Sound(j) ==
  /\ j.solver = j.question.solver /\ j.instance = j.question.instance
  /\ j.resolved = j.question.resolved /\ j.resolved \in BOOLEAN
  /\ j.delta \in Int /\ j.label = LabelOf(j.delta)
  /\ j.status \in {"scored", "error"}

About(j, r) == Sound(j) /\ j.attempt = r.id /\ j.question = Question(r)

\* One judgement of each candidate that is no longer pending.
JudgedSet(rows, judged, pending) ==
  LET done == Candidates(rows) \ pending
  IN  /\ IsFiniteSet(judged)
      /\ \A j \in judged : \E r \in done : About(j, r)
      /\ \A r \in done : \E j \in judged : j.attempt = r.id
      /\ \A j, k \in judged : j.attempt = k.attempt => j = k

\* A candidate that the file could answer has been answered from it.
FileUsed(rows, judged, pending) ==
  \A r \in Candidates(rows) \ pending :
    OnFile(r) # {} => \E j \in judged : j.attempt = r.id /\ j.question = Question(r) /\ j.status = "scored"

JudgeInv ==
  /\ \A j \in judgements : Sound(j)
  /\ session.open <=> At("judging")
  /\ session.open =>
       /\ session = [open |-> TRUE, pending |-> session.pending, judged |-> session.judged,
                     absent |-> session.absent]
       /\ session.pending \subseteq Candidates(Now)
       /\ JudgedSet(Now, session.judged, session.pending)
       /\ FileUsed(Now, session.judged, session.pending)

\* The questions that a run of analyze would ask now, and those of them that
\* need not be asked.
Current == {<<r.id, Question(r)>> : r \in Candidates(Now)}
Held ==
  {<<j.attempt, j.question>> :
     j \in {k \in judgements \cup (IF session.open THEN session.judged ELSE {}) : k.status = "scored"}}

PaidInv ==
  \A q \in DOMAIN bought :
    /\ bought[q] \in Nat
    /\ bought[q] <= faults + changes + (IF q \in Held \cap Current THEN 1 ELSE 0)

(* analyze. *)

AnalyzeInv ==
  /\ "step" \in DOMAIN cmd
  /\ At("judging") => cmd = [step |-> "judging", rows |-> Now]
  /\ At("reporting") \/ At("tabling") =>
       /\ cmd = [step |-> cmd.step, rows |-> Now, judged |-> cmd.judged, judging |-> cmd.judging]
       /\ cmd.judging \in BOOLEAN
       /\ cmd.judging => JudgedSet(Now, cmd.judged, {})
  /\ At("tabling") =>
       page = [present |-> TRUE, rows |-> cmd.rows, judged |-> cmd.judged, judging |-> cmd.judging]

\* What OracleIsBest says of a row, and what the scores need of it.
Facts(t) ==
  LET p == t.policies
  IN  /\ \A n \in DOMAIN p :
           p[n].resolved => t.oracle.resolved /\ t.oracle.cost <= p[n].cost
      /\ t.label = "cheap_is_enough" <=> p.always_cheap.resolved
      /\ t.label = "likely_unsolved" <=> ~p.on_failure.resolved
      /\ p.on_failure.resolved <=> p.always_cheap.resolved \/ p.always_expensive.resolved
      /\ p.on_signal.escalated => p.on_failure.escalated
      /\ p.on_signal.resolved => p.on_failure.resolved
      /\ p.on_signal.cost <= p.on_failure.cost
      /\ t.cheapSolver \in t.ran => t.cheap.solver = t.cheapSolver
      /\ t.expensiveSolver \in t.ran => t.expensive.solver = t.expensiveSolver

Outcomes == [resolved : BOOLEAN, cost : Nat, ms : Nat, escalated : BOOLEAN]

TableInv(T) ==
  /\ IsFiniteSet(T)
  /\ \A t, u \in T : t.instance = u.instance => t = u
  /\ \A t \in T : /\ Facts(t) /\ t.label \in Labels
                  /\ t.policies \in [always_cheap : Outcomes, always_expensive : Outcomes,
                                     on_failure : Outcomes, on_signal : Outcomes]

AllSplits(T) == UNION {Splits(T, f[1], f[2]) : f \in Fractions}

(* train-router. *)

TrainInv ==
  /\ table.present => TableInv(table.rows)
  /\ At("analyzed") => table.present
  /\ At("fitting") \/ At("scoring") =>
       /\ cmd = [step |-> cmd.step, split |-> cmd.split, table |-> cmd.table]
       /\ TableInv(cmd.table) /\ cmd.split \in AllSplits(cmd.table)
  /\ At("scoring") =>
       /\ model.present /\ model.table = cmd.table /\ model.fitted = FittedOn(cmd.split)
       /\ model.tree \in Trees(FittedOn(cmd.split), cmd.table)
  /\ At("trained") =>
       /\ model.present /\ scores.present /\ scores.tree = model.tree
       /\ TableInv(model.table)
       /\ \E split \in AllSplits(model.table) :
            /\ model.fitted = FittedOn(split)
            /\ model.tree \in Trees(FittedOn(split), model.table)
            /\ scores.report = RouterReport(EvaluatedOn(split), model.tree)
  /\ "train-router" \in succeeded =>
       /\ ~At("fitting") /\ ~At("scoring") /\ ~At("trained")
       /\ scores.present /\ model.present /\ scores.tree = model.tree

AnalysisInv == RunInv /\ JudgeInv /\ PaidInv /\ AnalyzeInv /\ TrainInv

-----------------------------------------------------------------------------
(* Judging                                                                 *)

LEMMA DimensionsFinite == IsFiniteSet(Dimensions)
<1>1. Dimensions = {"task_fit"} \cup {"correctness_safety"} \cup {"maintainability"}
                     \cup {"test_quality"} \cup {"change_focus"}
  BY DEF Dimensions, Weight
<1> QED BY <1>1, FS_Singleton, FS_Union

LEMMA DeltaType ==
  ASSUME NEW reply, Usable(reply)
  PROVE  OverallDelta(reply) \in Int
<1> DEFINE f == [d \in Dimensions |-> Weight[d] * reply[d]]
<1>1. \A d \in Dimensions : f[d] \in Int
  <2> SUFFICES ASSUME NEW d \in Dimensions PROVE Weight[d] * reply[d] \in Int
    OBVIOUS
  <2>1. Weight[d] \in Int
    BY DEF Dimensions, Weight
  <2>2. reply[d] \in Int
    BY DEF Usable
  <2> QED BY <2>1, <2>2
<1>2. DOMAIN f = Dimensions
  OBVIOUS
<1>3. OverallDelta(reply) = Sum(f, Dimensions)
  <2>1. OverallDelta(reply) = Total(f)
    BY DEF OverallDelta
  <2> HIDE DEF f
  <2> QED BY <1>2, <2>1, TotalIsSum
<1> HIDE DEF f
<1> QED BY <1>1, <1>3, DimensionsFinite, SumType

LEMMA JudgementAbout ==
  ASSUME NEW r \in Row, NEW status \in {"scored", "error"}, NEW delta \in Int
  PROVE  /\ About(Judgement(r, status, delta), r)
         /\ Judgement(r, status, delta).status = status
BY DEF About, Sound, Judgement, Question, Row

\* A pending candidate is judged.
LEMMA OneMore ==
  ASSUME NEW rows, Rows(rows), NEW judged, NEW pending \in SUBSET Candidates(rows),
         JudgedSet(rows, judged, pending),
         NEW r \in pending, NEW j, About(j, r)
  PROVE  JudgedSet(rows, judged \cup {j}, pending \ {r})
<1> DEFINE done == Candidates(rows) \ pending
           more == Candidates(rows) \ (pending \ {r})
<1>1. more = done \cup {r} /\ r \notin done
  OBVIOUS
<1>2. IsFiniteSet(judged \cup {j})
  BY FS_AddElement DEF JudgedSet
<1>3. \A k \in judged : k.attempt # j.attempt
  <2> SUFFICES ASSUME NEW k \in judged PROVE k.attempt # j.attempt
    OBVIOUS
  <2>1. PICK o \in done : About(k, o)
    BY DEF JudgedSet
  <2>2. o \in rows /\ r \in rows /\ o # r
    BY <2>1 DEF Candidates
  <2> QED BY <2>1, <2>2 DEF About, Rows
<1> QED BY <1>1, <1>2, <1>3 DEF JudgedSet, About

-----------------------------------------------------------------------------
(* The run                                                                 *)

LEMMA InitHolds == Init => AnalysisInv
<1> SUFFICES ASSUME Init PROVE AnalysisInv
  OBVIOUS
<1> USE DEF Init, Idle, NoFile, At, JudgeInit, NoSession
<1>1. RunInv
  BY AnalysisAssumption DEF RunInv
<1>2. JudgeInv
  BY DEF JudgeInv
<1>3. PaidInv
  BY DEF PaidInv
<1>4. AnalyzeInv
  BY DEF AnalyzeInv
<1>5. TrainInv
  BY DEF TrainInv
<1> QED BY <1>1, <1>2, <1>3, <1>4, <1>5 DEF AnalysisInv

LEMMA RunAgainKeeps ==
  ASSUME RunInv, NEW a \in attempts, RunAgain(a)
  PROVE  World(attempts') /\ results \in Verdicts(attempts')
<1> DEFINE b == [a EXCEPT !.patch = @ + 1]
<1>1. a \in Attempt /\ a.patch # NoPatch
  BY DEF RunInv, World, RunAgain
<1>2. /\ b \in Attempt /\ b.id = a.id /\ PairOf(b) = PairOf(a) /\ JobOf(b) = JobOf(a)
      /\ b.patch # NoPatch
  BY <1>1 DEF Attempt, PairOf, JobOf, NoPatch
<1>3. attempts' = (attempts \ {a}) \cup {b}
  BY DEF RunAgain
<1> HIDE DEF b
<1>4. IsFiniteSet(attempts')
  <2>1. IsFiniteSet(attempts \ {a})
    BY FS_RemoveElement DEF RunInv, World
  <2> QED BY <1>3, <2>1, FS_AddElement
<1>5. World(attempts')
  <2>1. attempts' \subseteq Attempt /\ attempts' # {}
    BY <1>2, <1>3 DEF RunInv, World
  <2>2. \A x, y \in attempts' : x.id = y.id => x = y
    BY <1>2, <1>3 DEF RunInv, World
  <2>3. \A x, y \in attempts' : JobOf(x) = JobOf(y) /\ x.id < y.id => x.patch = NoPatch
    <3> SUFFICES ASSUME NEW x \in attempts', NEW y \in attempts', JobOf(x) = JobOf(y), x.id < y.id,
                        x.patch # NoPatch
                 PROVE  FALSE
      OBVIOUS
    <3> DEFINE x0 == IF x = b THEN a ELSE x
               y0 == IF y = b THEN a ELSE y
    <3>1. x0 \in attempts /\ y0 \in attempts
      BY <1>3
    <3>2. JobOf(x0) = JobOf(y0) /\ x0.id < y0.id /\ x0.patch # NoPatch
      BY <1>1, <1>2
    <3> HIDE DEF x0, y0
    <3> QED BY <3>1, <3>2 DEF RunInv, World
  <2> QED BY <1>4, <2>1, <2>2, <2>3 DEF World
<1>6. {PairOf(x) : x \in {y \in attempts' : y.patch # NoPatch}} =
        {PairOf(x) : x \in {y \in attempts : y.patch # NoPatch}}
  BY <1>1, <1>2, <1>3
<1> QED BY <1>5, <1>6 DEF RunInv, Verdicts

LEMMA RunStep == AnalysisInv /\ [Next]_vars => RunInv'
<1> SUFFICES ASSUME AnalysisInv, [Next]_vars PROVE RunInv'
  OBVIOUS
<1>0. RunInv
  BY DEF AnalysisInv
<1>1. CASE JudgeAgain
  BY <1>0, <1>1 DEF JudgeAgain, Change, RunInv
<1>2. ASSUME NEW a \in attempts, RunAgain(a) PROVE RunInv'
  <2>1. World(attempts') /\ results' \in Verdicts(attempts')
    BY <1>0, <1>2, RunAgainKeeps DEF RunAgain
  <2> QED BY <1>0, <1>2, <2>1 DEF RunAgain, Change, RunInv
<1>3. CASE UNCHANGED <<attempts, results, changes, faults>>
  BY <1>0, <1>3 DEF RunInv
<1>4. CASE FailJudging \/ Abandon
  BY <1>0, <1>4 DEF FailJudging, Abandon, RunInv
<1>5. ASSUME NEW dataset \in Datasets, AnalyzeAndJudge(dataset) PROVE RunInv'
  BY <1>3, <1>5 DEF AnalyzeAndJudge, StartAnalyze
<1>6. ASSUME NEW f \in Fractions, StartTrain(f) PROVE RunInv'
  BY <1>3, <1>6 DEF StartTrain
<1>7. CASE AnalyzeOnly \/ JudgeOne \/ EndJudging \/ WriteReport \/ WriteTable \/ FinishAnalyze
           \/ WriteModel \/ WriteScores \/ FinishTrain \/ UNCHANGED vars
  BY <1>3, <1>7 DEF AnalyzeOnly, StartAnalyze, JudgeOne, EndJudging, WriteReport, WriteTable,
       FinishAnalyze, WriteModel, WriteScores, FinishTrain, vars
<1> QED BY <1>1, <1>2, <1>4, <1>5, <1>6, <1>7 DEF Next

-----------------------------------------------------------------------------
(* The judgements                                                          *)

LEMMA NowIs == RunInv => Rows(Now)
BY JoinedRows DEF RunInv, Now

\* What a step of run_diff_judge does: a candidate that was pending is judged.
LEMMA JudgeOneIs ==
  ASSUME AnalysisInv, JudgeOne
  PROVE  \E r \in session.pending : \E j :
           /\ About(j, r)
           /\ session' = [session EXCEPT !.pending = @ \ {r}, !.judged = @ \cup {j}]
           /\ judgements' = judgements
           /\ OnFile(r) # {} => j \in OnFile(r) /\ bought' = bought
           /\ OnFile(r) = {} =>
                \/ bought' = bought
                \/ /\ bought' = [k \in DOMAIN bought \cup {<<r.id, Question(r)>>} |->
                        (IF k \in DOMAIN bought THEN bought[k] ELSE 0)
                          + (IF k = <<r.id, Question(r)>> THEN 1 ELSE 0)]
                   /\ j.status = "scored"
<1>1. /\ session.open /\ session.pending \subseteq Candidates(Now) /\ Rows(Now)
      /\ \A j \in judgements : Sound(j)
  BY NowIs DEF AnalysisInv, JudgeInv, JudgeOne
<1>2. \A r \in session.pending : r \in Row
  BY <1>1 DEF Candidates, Rows
<1>3. PICK r \in session.pending :
        TakeFromFile(r) \/ \E reply \in Replies : Ask(r, reply) \/ AskInVain(r, reply)
  BY DEF JudgeOne
<1>4. CASE TakeFromFile(r)
  <2>1. PICK j \in OnFile(r) : Judged(r, j)
    BY <1>4 DEF TakeFromFile
  <2>2. About(j, r)
    BY <1>1 DEF OnFile, About
  <2> QED BY <1>4, <2>1, <2>2 DEF TakeFromFile, Judged
<1>5. ASSUME NEW reply \in Replies, Ask(r, reply)
      PROVE  \E j : /\ About(j, r) /\ j.status = "scored"
                    /\ Judged(r, j)
  <2>1. OverallDelta(reply) \in Int
    BY <1>5, DeltaType DEF Ask
  <2>2. /\ About(Judgement(r, "scored", OverallDelta(reply)), r)
        /\ Judgement(r, "scored", OverallDelta(reply)).status = "scored"
    BY <1>2, <2>1, JudgementAbout
  <2> QED BY <1>5, <2>2 DEF Ask
<1>6. ASSUME NEW reply \in Replies, AskInVain(r, reply)
      PROVE  \E j : About(j, r) /\ Judged(r, j)
  <2>1. About(Judgement(r, "error", 0), r)
    BY <1>2, JudgementAbout
  <2> QED BY <1>6, <2>1 DEF AskInVain
<1>7. CASE \E reply \in Replies : Ask(r, reply)
  BY <1>5, <1>7 DEF Ask, Judged
<1>8. CASE \E reply \in Replies : AskInVain(r, reply)
  BY <1>6, <1>8 DEF AskInVain, Judged
<1> QED BY <1>3, <1>4, <1>7, <1>8

LEMMA JudgeStep == AnalysisInv /\ [Next]_vars => JudgeInv'
<1> SUFFICES ASSUME AnalysisInv, [Next]_vars PROVE JudgeInv'
  OBVIOUS
<1>0. JudgeInv /\ AnalyzeInv
  BY DEF AnalysisInv
<1>1. ASSUME UNCHANGED <<attempts, results, judgeVars>>, At("judging") <=> At("judging")'
      PROVE  JudgeInv'
  <2>1. Now' = Now /\ judgements' = judgements /\ session' = session
    BY <1>1 DEF Now, judgeVars
  <2> QED BY <1>0, <1>1, <2>1 DEF JudgeInv, JudgedSet, FileUsed, OnFile
<1>2. ASSUME ~session.open, ~At("judging")', judgements' = judgements, session' = session
      PROVE  JudgeInv'
  BY <1>0, <1>2 DEF JudgeInv
<1>3. CASE JudgeAgain
  BY <1>0, <1>2, <1>3 DEF JudgeAgain, Change, judgeVars, At, JudgeInv
<1>4. ASSUME NEW a \in attempts, RunAgain(a) PROVE JudgeInv'
  BY <1>0, <1>2, <1>4 DEF RunAgain, Change, judgeVars, At, JudgeInv
<1>5. ASSUME NEW dataset \in Datasets, AnalyzeAndJudge(dataset) PROVE JudgeInv'
  <2>1. Now' = Now /\ judgements' = judgements /\ cmd' = [step |-> "judging", rows |-> Now]
    BY <1>5 DEF AnalyzeAndJudge, StartAnalyze, OpenSession, Now
  <2>2. session' = [open |-> TRUE, pending |-> Candidates(Now), judged |-> {},
                    absent |-> {r.instance : r \in Candidates(Now)} \ dataset]
    BY <1>5 DEF AnalyzeAndJudge, OpenSession, Now
  <2>3. JudgedSet(Now, {}, Candidates(Now)) /\ FileUsed(Now, {}, Candidates(Now))'
    BY FS_EmptySet DEF JudgedSet, FileUsed
  <2>4. JudgedSet(Now', {}, Candidates(Now)) /\ FileUsed(Now, {}, Candidates(Now))'
    BY <2>1, <2>3
  <2>5. session'.pending = Candidates(Now') /\ session'.judged = {}
    BY <2>1, <2>2
  <2> QED BY <1>0, <2>1, <2>2, <2>4, <2>5 DEF JudgeInv, At, FileUsed
<1>6. CASE JudgeOne
  <2>0. PICK r \in session.pending : \E j :
          /\ About(j, r)
          /\ session' = [session EXCEPT !.pending = @ \ {r}, !.judged = @ \cup {j}]
          /\ judgements' = judgements
          /\ OnFile(r) # {} => j \in OnFile(r)
    BY <1>6, JudgeOneIs
  <2>1. PICK j :
          /\ About(j, r)
          /\ session' = [session EXCEPT !.pending = @ \ {r}, !.judged = @ \cup {j}]
          /\ judgements' = judgements
          /\ OnFile(r) # {} => j \in OnFile(r)
    BY <2>0
  <2>2. Now' = Now /\ At("judging") /\ At("judging")'
    BY <1>6 DEF JudgeOne, Now, At
  <2>3. /\ session.open
        /\ session = [open |-> TRUE, pending |-> session.pending, judged |-> session.judged,
                      absent |-> session.absent]
        /\ session.pending \subseteq Candidates(Now)
        /\ JudgedSet(Now, session.judged, session.pending)
        /\ FileUsed(Now, session.judged, session.pending)
    BY <1>0, <2>2 DEF JudgeInv
  <2>4. Rows(Now)
    BY NowIs DEF AnalysisInv
  <2> DEFINE judged == session.judged \cup {j}
             pending == session.pending \ {r}
  <2>5. session' = [open |-> TRUE, pending |-> pending, judged |-> judged, absent |-> session.absent]
    BY <2>1, <2>3
  <2>6. JudgedSet(Now, judged, pending)
    BY <2>1, <2>3, <2>4, OneMore
  <2>7. FileUsed(Now, judged, pending)
    <3> SUFFICES ASSUME NEW o \in Candidates(Now) \ pending, OnFile(o) # {}
                 PROVE  \E k \in judged : k.attempt = o.id /\ k.question = Question(o) /\ k.status = "scored"
      BY DEF FileUsed
    <3>1. CASE o = r
      BY <2>1, <3>1 DEF OnFile
    <3>2. CASE o # r
      BY <2>3, <3>2 DEF FileUsed
    <3> QED BY <3>1, <3>2
  <2>8. pending \subseteq Candidates(Now)
    BY <2>3
  <2> HIDE DEF judged, pending
  <2>9. /\ session'.open /\ session'.pending = pending /\ session'.judged = judged
        /\ session' = [open |-> TRUE, pending |-> session'.pending, judged |-> session'.judged,
                       absent |-> session'.absent]
    BY <2>5
  <2>10. JudgedSet(Now', session'.judged, session'.pending)
    BY <2>2, <2>6, <2>9
  <2>11. FileUsed(Now, session.judged, session.pending)'
    BY <2>1, <2>2, <2>7, <2>9 DEF FileUsed, OnFile
  <2> QED BY <1>0, <2>1, <2>2, <2>8, <2>9, <2>10, <2>11 DEF JudgeInv
<1>7. CASE EndJudging
  <2>1. judgements' = session.judged /\ session' = NoSession /\ ~At("judging")'
    BY <1>7 DEF EndJudging, WriteJudgements, At
  <2>2. \A j \in session.judged : Sound(j)
    BY <1>0, <1>7 DEF JudgeInv, JudgedSet, About, EndJudging
  <2> QED BY <2>1, <2>2 DEF JudgeInv, NoSession
<1>8. CASE FailJudging \/ Abandon
  <2>1. judgements' = judgements /\ session' = NoSession /\ ~At("judging")'
    BY <1>8 DEF FailJudging, MissingFromDataset, Abandon, At, Idle
  <2> QED BY <1>0, <2>1 DEF JudgeInv, NoSession
<1>9. CASE AnalyzeOnly \/ WriteReport \/ WriteTable \/ FinishAnalyze
           \/ WriteModel \/ WriteScores \/ FinishTrain \/ UNCHANGED vars
  <2>1. AnalyzeInv
    BY <1>0
  <2> USE DEF At, Idle, judgeVars
  <2>2. CASE AnalyzeOnly
    BY <1>1, <2>2 DEF AnalyzeOnly, StartAnalyze
  <2>3. CASE WriteReport
    BY <1>1, <2>1, <2>3 DEF WriteReport, AnalyzeInv
  <2>4. CASE WriteTable \/ FinishAnalyze
    BY <1>1, <2>4 DEF WriteTable, FinishAnalyze
  <2>5. CASE WriteModel
    <3>1. cmd'.step = "scoring"
      BY <2>1, <2>5 DEF WriteModel, AnalyzeInv
    <3> QED BY <1>1, <2>5, <3>1 DEF WriteModel
  <2>6. CASE WriteScores \/ FinishTrain
    BY <1>1, <2>6 DEF WriteScores, FinishTrain
  <2>7. CASE UNCHANGED vars
    BY <1>1, <2>7 DEF vars
  <2> QED BY <1>9, <2>2, <2>3, <2>4, <2>5, <2>6, <2>7
<1>10. ASSUME NEW f \in Fractions, StartTrain(f) PROVE JudgeInv'
  BY <1>1, <1>10 DEF StartTrain, At
<1> QED BY <1>3, <1>4, <1>5, <1>6, <1>7, <1>8, <1>9, <1>10 DEF Next

LEMMA PaidStep == AnalysisInv /\ [Next]_vars => PaidInv'
<1> SUFFICES ASSUME AnalysisInv, [Next]_vars PROVE PaidInv'
  OBVIOUS
<1>0. /\ PaidInv /\ JudgeInv /\ RunInv /\ RunInv' /\ Rows(Now)
      /\ faults \in Nat /\ changes \in Nat /\ faults' \in Nat /\ changes' \in Nat
  BY RunStep, NowIs DEF AnalysisInv, RunInv
\* No question is dropped from those that are held.
<1>1. ASSUME bought' = bought, faults' = faults, changes' = changes,
             Held \cap Current \subseteq (Held \cap Current)'
      PROVE  PaidInv'
  BY <1>0, <1>1 DEF PaidInv
\* An answer may be lost.
<1>2. ASSUME bought' = bought, faults' + changes' = faults + changes + 1
      PROVE  PaidInv'
  <2> SUFFICES ASSUME NEW q \in DOMAIN bought
               PROVE  bought[q] \in Nat /\ bought[q] <= faults' + changes'
    BY <1>0, <1>2 DEF PaidInv
  <2>1. bought[q] \in Nat /\ bought[q] <= faults + changes + (IF q \in Held \cap Current THEN 1 ELSE 0)
    BY <1>0 DEF PaidInv
  <2>2. bought[q] <= faults + changes + 1
    BY <1>0, <2>1
  <2> QED BY <1>2, <2>1, <2>2
<1>3. CASE JudgeAgain
  BY <1>0, <1>2, <1>3 DEF JudgeAgain, Change, judgeVars
<1>4. ASSUME NEW a \in attempts, RunAgain(a) PROVE PaidInv'
  BY <1>0, <1>2, <1>4 DEF RunAgain, Change, judgeVars
<1>5. CASE FailJudging \/ Abandon
  <2>1. bought' = bought /\ faults' = faults + 1 /\ changes' = changes
    BY <1>5 DEF FailJudging, MissingFromDataset, Abandon
  <2>2. faults' + changes' = faults + changes + 1
    BY <1>0, <2>1
  <2> QED BY <1>2, <2>1, <2>2
<1>6. ASSUME NEW dataset \in Datasets, AnalyzeAndJudge(dataset) PROVE PaidInv'
  <2>1. /\ ~session.open /\ judgements' = judgements /\ bought' = bought
        /\ session'.open /\ session'.judged = {}
        /\ UNCHANGED <<attempts, results, faults, changes>>
    BY <1>6 DEF AnalyzeAndJudge, StartAnalyze, OpenSession
  <2>2. Current' = Current /\ Held' = Held
    BY <2>1 DEF Current, Held, Now
  <2> QED BY <1>1, <2>1, <2>2
<1>7. CASE JudgeOne
  <2>0. PICK r \in session.pending : \E j :
          /\ About(j, r)
          /\ session' = [session EXCEPT !.pending = @ \ {r}, !.judged = @ \cup {j}]
          /\ judgements' = judgements
          /\ OnFile(r) # {} => j \in OnFile(r) /\ bought' = bought
          /\ OnFile(r) = {} =>
               \/ bought' = bought
               \/ /\ bought' = [k \in DOMAIN bought \cup {<<r.id, Question(r)>>} |->
                       (IF k \in DOMAIN bought THEN bought[k] ELSE 0)
                         + (IF k = <<r.id, Question(r)>> THEN 1 ELSE 0)]
                  /\ j.status = "scored"
    BY <1>7, JudgeOneIs
  <2>1. PICK j :
          /\ About(j, r)
          /\ session' = [session EXCEPT !.pending = @ \ {r}, !.judged = @ \cup {j}]
          /\ judgements' = judgements
          /\ OnFile(r) # {} => j \in OnFile(r) /\ bought' = bought
          /\ OnFile(r) = {} =>
               \/ bought' = bought
               \/ /\ bought' = [k \in DOMAIN bought \cup {<<r.id, Question(r)>>} |->
                       (IF k \in DOMAIN bought THEN bought[k] ELSE 0)
                         + (IF k = <<r.id, Question(r)>> THEN 1 ELSE 0)]
                  /\ j.status = "scored"
    BY <2>0
  <2>2. /\ UNCHANGED <<attempts, results, faults, changes>> /\ session.open
        /\ session = [open |-> TRUE, pending |-> session.pending, judged |-> session.judged,
                      absent |-> session.absent]
        /\ r \in Candidates(Now) /\ r \in Now
        /\ JudgedSet(Now, session.judged, session.pending)
    BY <1>0, <1>7 DEF JudgeOne, JudgeInv, Candidates
  <2>3. session'.open /\ session'.judged = session.judged \cup {j}
    BY <2>1, <2>2
  <2>4. Current' = Current /\ Held \subseteq Held'
    BY <2>1, <2>2, <2>3 DEF Current, Held, Now
  <2>5. CASE bought' = bought
    BY <1>1, <2>2, <2>4, <2>5
  <2> DEFINE q == <<r.id, Question(r)>>
  <2>6. CASE bought' # bought
    <3>1. OnFile(r) = {} /\ j.status = "scored"
      BY <2>1, <2>6
    <3>2. bought' = [k \in DOMAIN bought \cup {q} |->
                       (IF k \in DOMAIN bought THEN bought[k] ELSE 0) + (IF k = q THEN 1 ELSE 0)]
      BY <2>1, <2>6
    <3>3. q \in Current'
      BY <2>2, <2>4 DEF Current
    <3>4. q \in Held'
      BY <2>1, <2>3, <3>1 DEF Held, About
    <3>5. q \notin Held
      <4> SUFFICES ASSUME NEW k \in judgements \cup session.judged, k.status = "scored",
                          k.attempt = r.id, k.question = Question(r)
                   PROVE  FALSE
        BY <2>2 DEF Held
      <4>1. k \in session.judged
        BY <3>1 DEF OnFile
      <4>2. PICK o \in Candidates(Now) \ session.pending : About(k, o)
        BY <2>2, <4>1 DEF JudgedSet
      <4>3. o \in Now /\ o # r /\ o.id = r.id
        BY <4>2 DEF Candidates, About
      <4> QED BY <1>0, <2>2, <4>3 DEF Rows
    <3> HIDE DEF q
    <3>6. ASSUME NEW k \in DOMAIN bought', k # q
          PROVE  /\ bought'[k] \in Nat
                 /\ bought'[k] <= faults' + changes' + (IF k \in (Held \cap Current)' THEN 1 ELSE 0)
      <4>1. k \in DOMAIN bought /\ bought'[k] = bought[k]
        <5>1. k \in DOMAIN bought
          BY <3>2, <3>6
        <5>2. bought[k] \in Nat
          BY <1>0, <5>1 DEF PaidInv
        <5> QED BY <3>2, <3>6, <5>1, <5>2
      <4> QED BY <1>0, <2>2, <2>4, <4>1 DEF PaidInv
    <3>7. bought'[q] \in Nat /\ bought'[q] <= faults' + changes' + 1
      <4>1. q \in DOMAIN bought => bought[q] \in Nat /\ bought[q] <= faults + changes
        BY <1>0, <3>5 DEF PaidInv
      <4>2. bought'[q] = (IF q \in DOMAIN bought THEN bought[q] ELSE 0) + 1
        BY <3>2
      <4> QED BY <1>0, <2>2, <4>1, <4>2
    <3> QED BY <3>3, <3>4, <3>6, <3>7 DEF PaidInv
  <2> QED BY <2>5, <2>6
<1>8. CASE EndJudging
  <2>1. /\ judgements' = session.judged /\ session.open /\ session.pending = {}
        /\ ~session'.open /\ bought' = bought /\ UNCHANGED <<attempts, results, faults, changes>>
    BY <1>8 DEF EndJudging, WriteJudgements, NoSession
  <2>2. JudgedSet(Now, session.judged, {}) /\ FileUsed(Now, session.judged, {})
    BY <1>0, <2>1 DEF JudgeInv
  <2>3. Current' = Current
    BY <2>1 DEF Current, Now
  <2>4. ASSUME NEW q \in Held \cap Current PROVE q \in Held'
    <3>1. PICK r \in Candidates(Now) : q = <<r.id, Question(r)>>
      BY DEF Current
    <3>2. PICK k \in judgements \cup session.judged :
            k.status = "scored" /\ q = <<k.attempt, k.question>>
      BY <2>1 DEF Held
    <3>3. CASE k \in session.judged
      BY <2>1, <3>2, <3>3 DEF Held
    <3>4. CASE k \in judgements
      <4>1. k \in OnFile(r)
        BY <3>1, <3>2, <3>4 DEF OnFile
      <4>2. PICK i \in session.judged :
              i.attempt = r.id /\ i.question = Question(r) /\ i.status = "scored"
        BY <2>2, <4>1 DEF FileUsed
      <4> QED BY <2>1, <3>1, <4>2 DEF Held
    <3> QED BY <3>3, <3>4
  <2> QED BY <1>1, <2>1, <2>3, <2>4
<1>9. ASSUME UNCHANGED <<attempts, results, faults, changes, judgeVars>> PROVE PaidInv'
  <2>1. Current' = Current /\ Held' = Held /\ bought' = bought
    BY <1>9 DEF Current, Held, Now, judgeVars
  <2> QED BY <1>1, <1>9, <2>1
<1>10. CASE AnalyzeOnly \/ WriteReport \/ WriteTable \/ FinishAnalyze
            \/ WriteModel \/ WriteScores \/ FinishTrain \/ UNCHANGED vars
  BY <1>9, <1>10 DEF AnalyzeOnly, StartAnalyze, WriteReport, WriteTable, FinishAnalyze,
       WriteModel, WriteScores, FinishTrain, vars
<1>11. ASSUME NEW f \in Fractions, StartTrain(f) PROVE PaidInv'
  BY <1>9, <1>11 DEF StartTrain
<1> QED BY <1>3, <1>4, <1>5, <1>6, <1>7, <1>8, <1>10, <1>11 DEF Next

LEMMA AnalyzeStep == AnalysisInv /\ [Next]_vars => AnalyzeInv'
<1> SUFFICES ASSUME AnalysisInv, [Next]_vars PROVE AnalyzeInv'
  OBVIOUS
<1>0. AnalyzeInv /\ JudgeInv
  BY DEF AnalysisInv
<1> USE DEF AnalyzeInv, At, Idle, Now
<1>1. CASE JudgeAgain
  BY <1>0, <1>1 DEF JudgeAgain, Change
<1>2. ASSUME NEW a \in attempts, RunAgain(a) PROVE AnalyzeInv'
  BY <1>0, <1>2 DEF RunAgain, Change
<1>3. CASE AnalyzeOnly
  BY <1>0, <1>3 DEF AnalyzeOnly, StartAnalyze
<1>4. ASSUME NEW dataset \in Datasets, AnalyzeAndJudge(dataset) PROVE AnalyzeInv'
  BY <1>0, <1>4 DEF AnalyzeAndJudge, StartAnalyze
<1>5. CASE JudgeOne
  BY <1>0, <1>5 DEF JudgeOne
<1>6. CASE EndJudging
  <2>1. JudgedSet(Now, session.judged, {})
    BY <1>0, <1>6 DEF EndJudging, WriteJudgements, JudgeInv
  <2>2. /\ cmd' = [step |-> "reporting", rows |-> Now, judged |-> session.judged, judging |-> TRUE]
        /\ Now' = Now
    <3>1. At("judging") /\ UNCHANGED <<attempts, results>>
      BY <1>6 DEF EndJudging
    <3>2. cmd = [step |-> "judging", rows |-> Now]
      BY <1>0, <3>1
    <3>3. cmd.rows = Now
      BY <3>2
    <3>4. cmd' = [step |-> "reporting", rows |-> cmd.rows, judged |-> session.judged, judging |-> TRUE]
      BY <1>6 DEF EndJudging
    <3> QED BY <3>1, <3>3, <3>4
  <2>3. JudgedSet(Now', cmd'.judged, {})
    BY <2>1, <2>2
  <2>4. At("judging")' = FALSE /\ At("tabling")' = FALSE
    BY <2>2
  <2> QED BY <2>2, <2>3, <2>4
<1>7. CASE WriteReport
  BY <1>0, <1>7 DEF WriteReport
<1>8. CASE WriteTable \/ FinishAnalyze \/ WriteScores \/ FinishTrain \/ FailJudging \/ Abandon
  BY <1>0, <1>8 DEF WriteTable, FinishAnalyze, WriteScores, FinishTrain, FailJudging, Abandon
<1>9. CASE WriteModel
  BY <1>0, <1>9 DEF WriteModel
<1>10. CASE UNCHANGED vars
  BY <1>0, <1>10 DEF vars, files
<1>11. ASSUME NEW f \in Fractions, StartTrain(f) PROVE AnalyzeInv'
  BY <1>0, <1>11 DEF StartTrain
<1> QED BY <1>1, <1>2, <1>3, <1>4, <1>5, <1>6, <1>7, <1>8, <1>9, <1>10, <1>11 DEF Next

-----------------------------------------------------------------------------
(* What the judgements in a report say                                     *)

Orders(R, S) ==
  /\ \A x, y \in S : x # y => <<x, y>> \in R \/ <<y, x>> \in R
  /\ \A x, y, z \in S : <<x, y>> \in R /\ <<y, z>> \in R => <<x, z>> \in R

\* A finite set has a least element in any order of it.
LEMMA LeastExists ==
  ASSUME NEW S, IsFiniteSet(S), S # {}, NEW R, Orders(R, S)
  PROVE  \E x \in S : \A y \in S \ {x} : <<x, y>> \in R
<1> DEFINE Least(T) == \E x \in T : \A y \in T \ {x} : <<x, y>> \in R
           B == {T \in SUBSET S : T # {} /\ ~Least(T)}
<1> SUFFICES ASSUME B # {} PROVE FALSE
  OBVIOUS
<1>0. B \in SUBSET (SUBSET S) /\ B # {}
  OBVIOUS
<1> HIDE DEF B
<1>1. PICK T \in B : \A U \in B : U \subseteq T => U = T
  BY <1>0, SmallestPart
<1> USE DEF B
<1>2. PICK c \in T : TRUE
  OBVIOUS
<1>3. T \ {c} # {}
  <2>1. ~Least(T)
    OBVIOUS
  <2> QED BY <1>2, <2>1
<1>4. Least(T \ {c})
  <2>1. T \ {c} \notin B
    <3> HIDE DEF B
    <3> QED BY <1>1, <1>2
  <2>2. T \ {c} \in SUBSET S
    OBVIOUS
  <2> HIDE DEF Least
  <2> QED BY <1>3, <2>1, <2>2
<1>5. PICK u \in T \ {c} : \A y \in (T \ {c}) \ {u} : <<u, y>> \in R
  BY <1>4
<1>6. CASE <<u, c>> \in R
  <2>1. \A y \in T \ {u} : <<u, y>> \in R
    BY <1>5, <1>6 DEF Orders
  <2> QED BY <2>1
<1>7. CASE <<c, u>> \in R
  <2>1. \A y \in T \ {c} : <<c, y>> \in R
    BY <1>2, <1>5, <1>7 DEF Orders
  <2> QED BY <1>2, <2>1
<1> QED BY <1>2, <1>5, <1>6, <1>7 DEF Orders

LEMMA Extremes ==
  ASSUME NEW S \in SUBSET Int, IsFiniteSet(S), S # {}
  PROVE  /\ Min(S) \in S /\ \A x \in S : Min(S) <= x
         /\ Max(S) \in S /\ \A x \in S : x <= Max(S)
<1>1. \E x \in S : \A y \in S : x <= y
  <2> DEFINE R == {p \in S \X S : p[1] <= p[2]}
  <2>1. \E x \in S : \A y \in S \ {x} : <<x, y>> \in R
    <3>1. Orders(R, S)
      BY DEF Orders
    <3> HIDE DEF R
    <3> QED BY <3>1, LeastExists
  <2>2. PICK x \in S : \A y \in S \ {x} : x <= y
    BY <2>1
  <2>3. x <= x
    OBVIOUS
  <2> QED BY <2>2, <2>3
<1>2. \E x \in S : \A y \in S : y <= x
  <2> DEFINE R == {p \in S \X S : p[2] <= p[1]}
  <2>1. \E x \in S : \A y \in S \ {x} : <<x, y>> \in R
    <3>1. Orders(R, S)
      BY DEF Orders
    <3> HIDE DEF R
    <3> QED BY <3>1, LeastExists
  <2>2. PICK x \in S : \A y \in S \ {x} : y <= x
    BY <2>1
  <2>3. x <= x
    OBVIOUS
  <2> QED BY <2>2, <2>3
<1>3. Min(S) \in S /\ \A x \in S : Min(S) <= x
  BY <1>1 DEF Min
<1>4. Max(S) \in S /\ \A x \in S : x <= Max(S)
  BY <1>2 DEF Max
<1> QED BY <1>3, <1>4

LEMMA LabelBounds ==
  ASSUME NEW delta \in Int
  PROVE  /\ LabelOf(delta) \in {"worse", "much_worse"} <=> delta <= -35
         /\ LabelOf(delta) \in {"better", "much_better"} <=> delta >= 35
BY DEF LabelOf

LEMMA LatestIs ==
  ASSUME NEW rows, Rows(rows), NEW p \in {PairOf(r) : r \in rows}
  PROVE  /\ LatestOf(rows, p) \in rows /\ PairOf(LatestOf(rows, p)) = p
         /\ \A o \in rows : PairOf(o) = p => o.id <= LatestOf(rows, p).id
<1> DEFINE own == {r \in rows : PairOf(r) = p}
           ids == {r.id : r \in own}
           f == [r \in own |-> r.id]
<1>1. IsFiniteSet(own) /\ own # {}
  BY FS_Subset DEF Rows
<1>2. IsFiniteSet(ids)
  <2>1. DOMAIN f = own /\ f = [r \in own |-> f[r]] /\ ids = {f[r] : r \in own}
    OBVIOUS
  <2> HIDE DEF f, ids, own
  <2> QED BY <1>1, <2>1, ImageIsFinite
<1>3. ids \in SUBSET Int /\ ids # {}
  <2>1. \A r \in rows : r.id \in Int
    BY RowType DEF Rows
  <2> QED BY <1>1, <2>1
<1>4. Max(ids) \in ids /\ \A x \in ids : x <= Max(ids)
  <2> HIDE DEF ids
  <2> QED BY <1>2, <1>3, Extremes
<1>5. \E r \in rows : PairOf(r) = p /\ \A o \in rows : PairOf(o) = p => o.id <= r.id
  BY <1>4
<1> QED BY <1>5 DEF LatestOf

LEMMA EachIsJudged ==
  ASSUME NEW rows, Rows(rows), NEW judged, JudgedSet(rows, judged, {}), NEW r \in Candidates(rows)
  PROVE  \E j \in judged : {o \in judged : o.attempt = r.id} = {j} /\ About(j, r)
<1>1. PICK j \in judged : j.attempt = r.id
  BY DEF JudgedSet
<1>2. {o \in judged : o.attempt = r.id} = {j}
  BY <1>1 DEF JudgedSet
<1>3. PICK o \in Candidates(rows) : About(j, o)
  BY DEF JudgedSet
<1>4. o = r
  BY <1>1, <1>3 DEF About, Rows, Candidates
<1> QED BY <1>2, <1>3, <1>4

\* Beside the patch of a pair with a single job stands the judgement of it.
LEMMA BrowserIsRight ==
  ASSUME NEW rows, Rows(rows), NEW judged, JudgedSet(rows, judged, {}),
         NEW b \in Browser(rows, judged),
         \A r \in rows : PairOf(r) = PairOf(b.row) => r.seed = b.row.seed
  PROVE  {j.attempt : j \in b.judge} = {r.id : r \in Candidates({b.row})}
<1>1. PICK p \in {PairOf(r) : r \in rows} :
        LET about == {j \in judged : <<j.solver, j.instance>> = p}
        IN  b = [row |-> LatestOf(rows, p),
                 judge |-> {j \in about : \A o \in about : o.attempt <= j.attempt}]
  BY DEF Browser
<1> DEFINE last  == LatestOf(rows, p)
           about == {j \in judged : <<j.solver, j.instance>> = p}
<1>2. /\ b.row = last
      /\ b.judge = {j \in about : \A o \in about : o.attempt <= j.attempt}
  BY <1>1
<1>3. last \in rows /\ PairOf(last) = p /\ \A o \in rows : PairOf(o) = p => o.id <= last.id
  BY LatestIs
<1> HIDE DEF last
<1>4. ASSUME NEW j \in about PROVE last \in Candidates(rows) /\ About(j, last)
  <2>1. PICK r \in Candidates(rows) : About(j, r)
    BY DEF JudgedSet
  <2>2. PairOf(r) = p
    BY <2>1 DEF About, Sound, Question, PairOf
  <2>3. r \in rows /\ r.patch # NoPatch
    BY DEF Candidates
  <2>4. JobOf(r) = JobOf(last) /\ r.id <= last.id
    BY <1>2, <1>3, <2>2, <2>3 DEF JobOf, PairOf
  <2>5. ~(r.id < last.id)
    BY <1>3, <2>3, <2>4 DEF Rows
  <2>6. r.id \in Nat /\ last.id \in Nat
    BY <1>3, <2>3 DEF Rows, Row
  <2>7. r = last
    BY <1>3, <2>3, <2>4, <2>5, <2>6 DEF Rows
  <2> QED BY <2>1, <2>7
<1>5. \A j \in about : j.attempt = last.id /\ last.id \in Nat
  BY <1>3, <1>4 DEF About, Rows, Row
<1>6. b.judge = about
  BY <1>2, <1>5
<1>7. Candidates({b.row}) = IF last.patch # NoPatch THEN {last} ELSE {}
  BY <1>2 DEF Candidates
<1>8. CASE last.patch # NoPatch
  <2>1. last \in Candidates(rows)
    BY <1>3, <1>8 DEF Candidates
  <2>2. PICK j \in judged : About(j, last)
    BY <2>1, EachIsJudged
  <2>3. j \in about
    BY <1>3, <2>2 DEF About, Sound, Question, PairOf
  <2> HIDE DEF about
  <2> QED BY <1>5, <1>6, <1>7, <1>8, <2>3
<1>9. CASE last.patch = NoPatch
  <2>1. about = {}
    BY <1>4, <1>9 DEF Candidates
  <2> HIDE DEF about
  <2> QED BY <1>6, <1>7, <1>9, <2>1
<1> QED BY <1>8, <1>9

LEMMA ReportIsRight ==
  ASSUME NEW rows, Rows(rows), NEW judged, JudgedSet(rows, judged, {})
  PROVE  LET report == JudgeReport(judged)
         IN  /\ \A j \in report.resolvedButWorse : \E r \in rows : r.id = j.attempt /\ r.resolved
             /\ report.scored + report.errors = report.jobs
             /\ report.resolvedButWorse = {j \in report.worse : j.resolved}
             /\ report.unresolvedPromising = {j \in report.better : ~j.resolved}
<1> DEFINE latest == LatestByJob(judged)
           scored == {j \in latest : j.status = "scored"}
           report == JudgeReport(judged)
<1>1. latest \subseteq judged
  BY DEF LatestByJob
<1> HIDE DEF latest
<1>2. /\ report.jobs = Cardinality(latest) /\ report.scored = Cardinality(scored)
      /\ report.errors = Cardinality(latest \ scored)
      /\ report.better = {j \in scored : j.label \in {"better", "much_better"}}
      /\ report.worse = {j \in scored : j.label \in {"worse", "much_worse"}}
      /\ report.resolvedButWorse = {j \in scored : j.resolved /\ j.delta <= -35}
      /\ report.unresolvedPromising = {j \in scored : ~j.resolved /\ j.delta >= 35}
  BY DEF JudgeReport, latest
<1> HIDE DEF report
<1>3. ASSUME NEW j \in judged
      PROVE  \E r \in rows : r.id = j.attempt /\ (j.resolved = r.resolved) /\ Sound(j)
  <2>1. PICK r \in Candidates(rows) : About(j, r)
    BY DEF JudgedSet
  <2>2. j.resolved = r.resolved /\ j.attempt = r.id /\ Sound(j) /\ r \in rows
    BY <2>1 DEF About, Sound, Question, Candidates
  <2> QED BY <2>2
<1>4. \A j \in judged : /\ j.label \in {"worse", "much_worse"} <=> j.delta <= -35
                        /\ j.label \in {"better", "much_better"} <=> j.delta >= 35
  BY <1>3, LabelBounds DEF Sound
<1>5. report.scored + report.errors = report.jobs
  <2>1. IsFiniteSet(latest)
    BY <1>1, FS_Subset DEF JudgedSet
  <2>2. Cardinality(latest \ scored) = Cardinality(latest) - Cardinality(latest \cap scored)
    BY <2>1, FS_Difference
  <2>3. latest \cap scored = scored
    OBVIOUS
  <2>4. Cardinality(latest) \in Nat /\ Cardinality(scored) \in Nat
    BY <2>1, FS_Subset, FS_CardinalityType
  <2> HIDE DEF scored
  <2> QED BY <1>2, <2>2, <2>3, <2>4
<1>6. \A j \in report.resolvedButWorse : \E r \in rows : r.id = j.attempt /\ r.resolved
  BY <1>1, <1>2, <1>3
<1>7. report.resolvedButWorse = {j \in report.worse : j.resolved}
  BY <1>1, <1>2, <1>4
<1>8. report.unresolvedPromising = {j \in report.better : ~j.resolved}
  BY <1>1, <1>2, <1>4
<1> QED BY <1>5, <1>6, <1>7, <1>8 DEF report

LEMMA ReportIsCurrent == AnalysisInv => JudgementsAreCurrent
<1> SUFFICES ASSUME AnalysisInv, At("tabling"), page.judging PROVE JudgementsAreCurrent
  BY DEF JudgementsAreCurrent
<1> DEFINE rows == page.rows
           judged == page.judged
<1>1. rows = Now /\ judged = cmd.judged /\ JudgedSet(Now, cmd.judged, {}) /\ Rows(Now)
  BY NowIs DEF AnalysisInv, AnalyzeInv
<1>2. Rows(rows) /\ JudgedSet(rows, judged, {})
  BY <1>1
<1> HIDE DEF rows, judged
<1>3. \A r \in Candidates(rows) :
        \E j \in judged :
          /\ {o \in judged : o.attempt = r.id} = {j}
          /\ j.question.patch = r.patch /\ j.resolved = r.resolved
  <2> SUFFICES ASSUME NEW r \in Candidates(rows)
               PROVE  \E j \in judged :
                        /\ {o \in judged : o.attempt = r.id} = {j}
                        /\ j.question.patch = r.patch /\ j.resolved = r.resolved
    OBVIOUS
  <2>1. PICK j \in judged : {o \in judged : o.attempt = r.id} = {j} /\ About(j, r)
    BY <1>2, EachIsJudged
  <2>2. j.question.patch = r.patch /\ j.resolved = r.resolved
    BY <2>1 DEF About, Sound, Question
  <2> QED BY <2>1, <2>2
<1>4. \A b \in Browser(rows, judged) :
        LET own == {r \in rows : PairOf(r) = PairOf(b.row)}
        IN  (\A r \in own : r.seed = b.row.seed) =>
              {j.attempt : j \in b.judge} = {r.id : r \in Candidates({b.row})}
  BY <1>2, BrowserIsRight
<1>5. LET report == JudgeReport(judged)
      IN  /\ \A j \in report.resolvedButWorse : \E r \in rows : r.id = j.attempt /\ r.resolved
          /\ report.scored + report.errors = report.jobs
          /\ report.resolvedButWorse = {j \in report.worse : j.resolved}
          /\ report.unresolvedPromising = {j \in report.better : ~j.resolved}
  BY <1>2, ReportIsRight
<1> QED BY <1>3, <1>4, <1>5 DEF JudgementsAreCurrent, rows, judged

-----------------------------------------------------------------------------
(* Quotients and the order of keys                                         *)

Quotient == {q \in Int \X Nat : q[2] = 0 => q[1] = 1}

LEMMA Scale ==
  ASSUME NEW x \in Int, NEW y \in Int, NEW k \in Nat, k > 0
  PROVE  x < y <=> x * k < y * k
<1>1. ASSUME NEW d \in Int, d > 0 PROVE d * k > 0
  BY <1>1
<1>2. ASSUME x < y PROVE x * k < y * k
  <2>1. (y - x) * k > 0
    BY <1>1, <1>2
  <2>2. (y - x) * k = y * k - x * k
    OBVIOUS
  <2>3. x * k \in Int /\ y * k \in Int
    OBVIOUS
  <2> QED BY <2>1, <2>2, <2>3
<1>3. ASSUME ~(x < y) PROVE ~(x * k < y * k)
  <2>1. CASE x = y
    BY <2>1
  <2>2. CASE x > y
    <3>1. (x - y) * k > 0
      BY <1>1, <2>2
    <3>2. (x - y) * k = x * k - y * k
      OBVIOUS
    <3>3. x * k \in Int /\ y * k \in Int
      OBVIOUS
    <3> QED BY <3>1, <3>2, <3>3
  <2> QED BY <1>3, <2>1, <2>2
<1> QED BY <1>2, <1>3

LEMMA Products ==
  ASSUME NEW x \in Int, NEW y \in Int, NEW z \in Int
  PROVE  x * y \in Int /\ (x * y) * z = (x * z) * y /\ (x * y) * z = (y * z) * x
OBVIOUS

\* Not after, and at least one of the two not the same.
LEMMA LessTransitive ==
  ASSUME NEW a \in Quotient, NEW b \in Quotient, NEW c \in Quotient,
         ~Less(b, a), ~Less(c, b)
  PROVE  /\ ~Less(c, a)
         /\ Less(a, b) \/ Less(b, c) => Less(a, c)
<1> DEFINE a1 == a[1]  a2 == a[2]
           b1 == b[1]  b2 == b[2]
           c1 == c[1]  c2 == c[2]
<1>1. /\ {a1, b1, c1} \subseteq Int /\ {a2, b2, c2} \subseteq Nat
      /\ (a2 = 0 => a1 = 1) /\ (b2 = 0 => b1 = 1) /\ (c2 = 0 => c1 = 1)
  BY DEF Quotient
<1>2. /\ Less(b, a) <=> b1 * a2 < a1 * b2
      /\ Less(c, b) <=> c1 * b2 < b1 * c2
      /\ Less(c, a) <=> c1 * a2 < a1 * c2
      /\ Less(a, b) <=> a1 * b2 < b1 * a2
      /\ Less(b, c) <=> b1 * c2 < c1 * b2
      /\ Less(a, c) <=> a1 * c2 < c1 * a2
  BY DEF Less
<1> HIDE DEF a1, a2, b1, b2, c1, c2
<1>3. /\ a1 * b2 \in Int /\ b1 * a2 \in Int /\ b1 * c2 \in Int /\ c1 * b2 \in Int
      /\ a1 * c2 \in Int /\ c1 * a2 \in Int
  BY <1>1
<1>4. a1 * b2 <= b1 * a2 /\ b1 * c2 <= c1 * b2
  BY <1>2, <1>3
<1>5. CASE b2 = 0
  BY <1>1, <1>2, <1>4, <1>5
<1>6. CASE b2 > 0 /\ c2 = 0
  BY <1>1, <1>2, <1>4, <1>6
<1>7. CASE b2 > 0 /\ a2 = 0
  BY <1>1, <1>2, <1>4, <1>7
<1>8. CASE b2 > 0 /\ c2 > 0 /\ a2 > 0
  <2>1. /\ (a1 * b2) * c2 = (a1 * c2) * b2 /\ (b1 * a2) * c2 = (b1 * c2) * a2
        /\ (c1 * b2) * a2 = (c1 * a2) * b2
    BY <1>1, Products
  <2>2. /\ (a1 * b2) * c2 \in Int /\ (b1 * a2) * c2 \in Int /\ (c1 * b2) * a2 \in Int
    BY <1>1, <1>3
  <2>3. /\ ~((b1 * a2) * c2 < (a1 * b2) * c2)
        /\ ~((c1 * b2) * a2 < (b1 * c2) * a2)
        /\ a1 * b2 < b1 * a2 <=> (a1 * b2) * c2 < (b1 * a2) * c2
        /\ b1 * c2 < c1 * b2 <=> (b1 * c2) * a2 < (c1 * b2) * a2
    BY <1>1, <1>3, <1>4, <1>8, Scale
  <2>4. /\ a1 * c2 < c1 * a2 <=> (a1 * c2) * b2 < (c1 * a2) * b2
        /\ c1 * a2 < a1 * c2 <=> (c1 * a2) * b2 < (a1 * c2) * b2
    BY <1>1, <1>3, <1>8, Scale
  <2> QED BY <1>2, <2>1, <2>2, <2>3, <2>4
<1> QED BY <1>1, <1>5, <1>6, <1>7, <1>8

LEMMA LessTotal ==
  ASSUME NEW a \in Quotient, NEW b \in Quotient
  PROVE  /\ Equal(a, b) <=> ~Less(a, b) /\ ~Less(b, a)
         /\ ~(Less(a, b) /\ Less(b, a))
         /\ Equal(a, b) <=> Equal(b, a)
<1>1. a[1] \in Int /\ a[2] \in Int /\ b[1] \in Int /\ b[2] \in Int
  BY DEF Quotient
<1>2. a[1] * b[2] \in Int /\ b[1] * a[2] \in Int
  BY <1>1
<1> QED BY <1>2 DEF Less, Equal

Keys(n) == [1 .. n -> Quotient]

LEMMA BeforeTransitive ==
  ASSUME NEW n \in Nat, NEW k \in Keys(n), NEW l \in Keys(n), NEW m \in Keys(n),
         Before(k, l), Before(l, m)
  PROVE  Before(k, m)
<1>1. PICK i \in 1 .. n : Less(k[i], l[i]) /\ \A x \in 1 .. i - 1 : Equal(k[x], l[x])
  BY DEF Before, Keys
<1>2. PICK j \in 1 .. n : Less(l[j], m[j]) /\ \A x \in 1 .. j - 1 : Equal(l[x], m[x])
  BY DEF Before, Keys
<1>3. \A x \in 1 .. n : k[x] \in Quotient /\ l[x] \in Quotient /\ m[x] \in Quotient
  BY DEF Keys
<1>4. ASSUME NEW x \in 1 .. n, ~Less(l[x], k[x]), ~Less(m[x], l[x])
      PROVE  /\ ~Less(m[x], k[x])
             /\ Less(k[x], l[x]) \/ Less(l[x], m[x]) => Less(k[x], m[x])
  BY <1>3, <1>4, LessTransitive
<1>5. ASSUME NEW x \in 1 .. n, Equal(k[x], l[x]), Equal(l[x], m[x]) PROVE Equal(k[x], m[x])
  <2>1. ~Less(m[x], k[x])
    BY <1>3, <1>4, <1>5, LessTotal
  <2>2. ~Less(k[x], l[x]) /\ ~Less(l[x], m[x])
    BY <1>3, <1>5, LessTotal
  <2>3. ~Less(k[x], m[x])
    BY <1>3, <2>2, LessTransitive
  <2> QED BY <1>3, <2>1, <2>3, LessTotal
<1>6. CASE i <= j
  <2>1. Less(k[i], m[i])
    <3>1. i < j => Equal(l[i], m[i])
      BY <1>2
    <3>2. ~Less(l[i], k[i]) /\ ~Less(m[i], l[i])
      BY <1>1, <1>2, <1>3, <1>6, <3>1, LessTotal
    <3> QED BY <1>1, <1>4, <3>2
  <2>2. \A x \in 1 .. i - 1 : Equal(k[x], m[x])
    BY <1>1, <1>2, <1>5, <1>6
  <2> QED BY <2>1, <2>2 DEF Before, Keys
<1>7. CASE j < i
  <2>1. Less(k[j], m[j])
    <3>1. Equal(k[j], l[j])
      BY <1>1, <1>7
    <3>2. ~Less(l[j], k[j]) /\ ~Less(m[j], l[j])
      BY <1>2, <1>3, <3>1, LessTotal
    <3> QED BY <1>2, <1>4, <3>2
  <2>2. \A x \in 1 .. j - 1 : Equal(k[x], m[x])
    BY <1>1, <1>2, <1>5, <1>7
  <2> QED BY <2>1, <2>2 DEF Before, Keys
<1> QED BY <1>6, <1>7

LEMMA BeforeAsymmetric ==
  ASSUME NEW n \in Nat, NEW k \in Keys(n), NEW l \in Keys(n), Before(k, l)
  PROVE  ~Before(l, k)
<1> SUFFICES ASSUME Before(l, k) PROVE FALSE
  OBVIOUS
<1>1. Before(k, k)
  BY BeforeTransitive
<1>2. PICK i \in 1 .. n : Less(k[i], k[i])
  BY <1>1 DEF Before, Keys
<1> QED BY <1>2, LessTotal DEF Keys

LEMMA BeforeTotal ==
  ASSUME NEW n \in Nat, NEW k \in Keys(n), NEW l \in Keys(n),
         \E i \in 1 .. n : ~Equal(k[i], l[i])
  PROVE  Before(k, l) \/ Before(l, k)
<1> DEFINE D == {i \in 1 .. n : ~Equal(k[i], l[i])}
<1>1. IsFiniteSet(D) /\ D # {} /\ D \in SUBSET Int
  <2>1. IsFiniteSet(1 .. n)
    BY FS_Interval
  <2>2. D \in SUBSET (1 .. n) /\ D # {}
    OBVIOUS
  <2>3. 1 .. n \subseteq Int
    OBVIOUS
  <2> HIDE DEF D
  <2>4. IsFiniteSet(D)
    BY <2>1, <2>2, FS_Subset
  <2> QED BY <2>2, <2>3, <2>4
<1>2. \A i \in D : Min(D) <= i
  <2> HIDE DEF D
  <2> QED BY <1>1, Extremes
<1>3. Min(D) \in D
  <2> HIDE DEF D
  <2> QED BY <1>1, Extremes
<1> DEFINE i == Min(D)
<1>4. i \in 1 .. n /\ ~Equal(k[i], l[i]) /\ \A j \in 1 .. i - 1 : Equal(k[j], l[j])
  BY <1>2, <1>3
<1> HIDE DEF i
<1>5. k[i] \in Quotient /\ l[i] \in Quotient /\ \A j \in 1 .. n : Equal(k[j], l[j]) => Equal(l[j], k[j])
  BY <1>4, LessTotal DEF Keys
<1>6. Less(k[i], l[i]) \/ Less(l[i], k[i])
  BY <1>4, <1>5, LessTotal
<1> QED BY <1>4, <1>5, <1>6 DEF Before, Keys

\* The first by a key that tells all of them apart.
LEMMA FirstByIs ==
  ASSUME NEW n \in Nat, NEW S, IsFiniteSet(S), S # {}, NEW key \in [S -> Keys(n)],
         \A x, y \in S : x # y => \E i \in 1 .. n : ~Equal(key[x][i], key[y][i])
  PROVE  FirstBy(key) \in S /\ \A y \in S \ {FirstBy(key)} : Before(key[FirstBy(key)], key[y])
<1> DEFINE R == {p \in S \X S : Before(key[p[1]], key[p[2]])}
<1>1. \A x, y \in S : <<x, y>> \in R <=> Before(key[x], key[y])
  OBVIOUS
<1>2. \A x, y \in S : x # y => <<x, y>> \in R \/ <<y, x>> \in R
  BY <1>1, BeforeTotal
<1>3. \A x, y, z \in S : <<x, y>> \in R /\ <<y, z>> \in R => <<x, z>> \in R
  BY <1>1, BeforeTransitive
<1> HIDE DEF R
<1>4. \E x \in S : \A y \in S \ {x} : <<x, y>> \in R
  <2>1. Orders(R, S)
    BY <1>2, <1>3 DEF Orders
  <2> QED BY <2>1, LeastExists
<1>5. \E x \in S : \A y \in S \ {x} : Before(key[x], key[y])
  BY <1>1, <1>4
<1>6. DOMAIN key = S
  OBVIOUS
<1> QED BY <1>5, <1>6 DEF FirstBy

-----------------------------------------------------------------------------
(* The routing table                                                       *)

\* One row per pair that was tried.
Aggs(aggs) ==
  /\ IsFiniteSet(aggs) /\ aggs # {}
  /\ \A g \in aggs : /\ g.solver \in Nat /\ g.instance \in Nat /\ g.cost \in Nat /\ g.ms \in Nat
                     /\ g.resolved \in BOOLEAN
  /\ \A g, h \in aggs : g.solver = h.solver /\ g.instance = h.instance => g = h

LEMMA AggregateIs ==
  ASSUME NEW rows, Rows(rows), NEW p \in {PairOf(r) : r \in rows}
  PROVE  LET g == Aggregate(rows, p)
         IN  /\ g.solver = p[1] /\ g.instance = p[2] /\ p[1] \in Nat /\ p[2] \in Nat
             /\ g.cost \in Nat /\ g.ms \in Nat /\ g.resolved \in BOOLEAN
             /\ \A r \in rows : PairOf(r) = p => g.resolved = r.resolved /\ Paid(r) <= g.cost
<1> DEFINE own  == {r \in rows : PairOf(r) = p}
           key  == [r \in own |-> <<<<-r.index, 1>>, <<-r.id, 1>>>>]
           last == FirstBy(key)
           paid == [r \in own |-> Paid(r)]
           took == [r \in own |-> r.ms]
           g    == Aggregate(rows, p)
<1>1. /\ g.solver = p[1] /\ g.instance = p[2] /\ g.cost = Total(paid) /\ g.ms = Total(took)
      /\ g.resolved = last.resolved
  BY DEF Aggregate
<1>2. \A r \in rows : r \in Row
  BY DEF Rows
<1>3. IsFiniteSet(own) /\ own # {}
  BY FS_Subset DEF Rows
<1>4. DOMAIN paid = own /\ DOMAIN took = own
  OBVIOUS
<1>5. \A r \in own : paid[r] \in Int /\ paid[r] >= 0 /\ took[r] \in Int /\ took[r] >= 0
  BY <1>2, RowType DEF Paid, Positive
<1>6. last \in own
  <2>1. key \in [own -> Keys(2)]
    <3> SUFFICES ASSUME NEW r \in own PROVE <<<<-r.index, 1>>, <<-r.id, 1>>>> \in Keys(2)
      OBVIOUS
    <3>1. r.index \in Nat /\ r.id \in Nat
      BY <1>2, RowType
    <3> QED BY <3>1 DEF Keys, Quotient
  <2>2. ASSUME NEW x \in own, NEW y \in own, x # y
        PROVE  \E i \in 1 .. 2 : ~Equal(key[x][i], key[y][i])
    <3>1. x.id \in Nat /\ y.id \in Nat
      BY <1>2, RowType
    <3>2. x.id # y.id
      BY <2>2 DEF Rows
    <3>3. ~Equal(<<-x.id, 1>>, <<-y.id, 1>>)
      BY <3>1, <3>2 DEF Equal
    <3>4. key[x][2] = <<-x.id, 1>> /\ key[y][2] = <<-y.id, 1>>
      OBVIOUS
    <3> QED BY <3>3, <3>4
  <2> HIDE DEF key, own
  <2> QED BY <1>3, <2>1, <2>2, FirstByIs
<1>7. Total(paid) \in Int /\ Total(paid) >= 0 /\ Total(took) \in Int /\ Total(took) >= 0
  <2> HIDE DEF paid, took, own
  <2> QED BY <1>3, <1>4, <1>5, TotalIsSum, SumType
<1>8. \A r \in own : Paid(r) <= Total(paid)
  <2> SUFFICES ASSUME NEW r \in own PROVE paid[r] <= Total(paid)
    OBVIOUS
  <2> HIDE DEF paid, own
  <2>1. Total(paid) = paid[r] + Sum(paid, own \ {r})
    BY <1>3, <1>4, <1>5, TotalIsSum, SumPick
  <2>2. Sum(paid, own \ {r}) \in Int /\ Sum(paid, own \ {r}) >= 0
    <3>1. IsFiniteSet(own \ {r})
      BY <1>3, FS_RemoveElement
    <3> QED BY <1>5, <3>1, SumType
  <2> QED BY <1>5, <2>1, <2>2
<1>9. PICK r \in rows : p = PairOf(r)
  OBVIOUS
<1>10. p[1] \in Nat /\ p[2] \in Nat
  <2>1. r.solver \in Nat /\ r.instance \in Nat
    BY <1>2 DEF Row
  <2> QED BY <1>9, <2>1 DEF PairOf
<1> HIDE DEF g, paid, took, last
<1>11. \A o \in own : o.resolved = last.resolved /\ o.resolved \in BOOLEAN
  BY <1>2, <1>6, RowType DEF Rows
<1>12. last.resolved \in BOOLEAN
  BY <1>6, <1>11
<1>13. g.cost \in Nat /\ g.ms \in Nat
  BY <1>1, <1>7
<1> QED BY <1>1, <1>8, <1>10, <1>11, <1>12, <1>13 DEF g

LEMMA AggregatesAre ==
  ASSUME NEW rows, Rows(rows)
  PROVE  Aggs(Aggregates(rows))
<1> DEFINE pairs == {PairOf(r) : r \in rows}
           aggs == Aggregates(rows)
           f == [r \in rows |-> PairOf(r)]
           g == [p \in pairs |-> Aggregate(rows, p)]
<1>1. IsFiniteSet(pairs)
  <2>1. DOMAIN f = rows /\ f = [r \in rows |-> f[r]] /\ pairs = {f[r] : r \in rows} /\ IsFiniteSet(rows)
    BY DEF Rows
  <2> HIDE DEF f, pairs
  <2> QED BY <2>1, ImageIsFinite
<1>2. IsFiniteSet(aggs)
  <2>1. DOMAIN g = pairs /\ g = [p \in pairs |-> g[p]] /\ aggs = {g[p] : p \in pairs}
    BY DEF Aggregates
  <2> HIDE DEF g, pairs, aggs
  <2> QED BY <1>1, <2>1, ImageIsFinite
<1>3. aggs # {}
  BY DEF Aggregates, Rows
<1>4. ASSUME NEW h \in aggs
      PROVE  \E p \in pairs : h = Aggregate(rows, p) /\ p = <<h.solver, h.instance>>
  <2>1. PICK r \in rows : h = Aggregate(rows, PairOf(r))
    BY DEF Aggregates
  <2>2. h.solver = PairOf(r)[1] /\ h.instance = PairOf(r)[2]
    BY <2>1, AggregateIs
  <2>3. PairOf(r) = <<h.solver, h.instance>>
    BY <2>2 DEF PairOf
  <2> QED BY <2>1, <2>3
<1>5. \A h \in aggs : /\ h.solver \in Nat /\ h.instance \in Nat /\ h.cost \in Nat /\ h.ms \in Nat
                      /\ h.resolved \in BOOLEAN
  BY <1>4, AggregateIs
<1>6. \A h, k \in aggs : h.solver = k.solver /\ h.instance = k.instance => h = k
  <2> HIDE DEF aggs, pairs
  <2> QED BY <1>4
<1> QED BY <1>2, <1>3, <1>5, <1>6 DEF Aggs

LEMMA PickIs ==
  ASSUME NEW own, Aggs(own), NEW s, NEW preferLast \in BOOLEAN
  PROVE  /\ Pick(own, s, preferLast) \in own
         /\ s \in {g.solver : g \in own} => Pick(own, s, preferLast).solver = s
<1> DEFINE ids == {g.solver : g \in own}
           f == [g \in own |-> g.solver]
           t == IF s \in ids THEN s ELSE IF preferLast THEN Max(ids) ELSE Min(ids)
<1>1. IsFiniteSet(ids) /\ ids # {} /\ ids \in SUBSET Int
  <2>1. DOMAIN f = own /\ f = [g \in own |-> f[g]] /\ ids = {f[g] : g \in own}
    OBVIOUS
  <2>2. ids # {} /\ ids \in SUBSET Int
    BY DEF Aggs
  <2> HIDE DEF f, ids
  <2> QED BY <2>1, <2>2, ImageIsFinite DEF Aggs
<1>2. t \in ids
  <2> HIDE DEF ids
  <2> QED BY <1>1, Extremes
<1>3. Pick(own, s, preferLast) = CHOOSE g \in own : g.solver = t
  BY DEF Pick
<1>4. \E g \in own : g.solver = t
  BY <1>2
<1> HIDE DEF t
<1>5. Pick(own, s, preferLast) \in own /\ Pick(own, s, preferLast).solver = t
  BY <1>3, <1>4
<1> QED BY <1>5 DEF t

\* The rows of an instance, one per solver.
LEMMA OracleIs ==
  ASSUME NEW own, Aggs(own), \A g, h \in own : g.instance = h.instance, \E g \in own : g.resolved
  PROVE  /\ Oracle(own) \in own /\ Oracle(own).resolved
         /\ \A g \in own : g.resolved => Oracle(own).cost <= g.cost
<1> DEFINE won == {g \in own : g.resolved}
           key == [g \in won |-> <<<<g.cost, 1>>, <<g.ms, 1>>, <<g.solver, 1>>>>]
           o == FirstBy(key)
<1>1. Oracle(own) = o
  BY DEF Oracle
<1>2. IsFiniteSet(won) /\ won # {}
  BY FS_Subset DEF Aggs
<1>3. key \in [won -> Keys(3)]
  <2> SUFFICES ASSUME NEW g \in won
               PROVE  <<<<g.cost, 1>>, <<g.ms, 1>>, <<g.solver, 1>>>> \in Keys(3)
    OBVIOUS
  <2>1. g.cost \in Nat /\ g.ms \in Nat /\ g.solver \in Nat
    BY DEF Aggs
  <2> QED BY <2>1 DEF Keys, Quotient
<1>4. ASSUME NEW x \in won, NEW y \in won, x # y
      PROVE  \E i \in 1 .. 3 : ~Equal(key[x][i], key[y][i])
  <2>1. x.solver \in Nat /\ y.solver \in Nat /\ x.solver # y.solver
    BY <1>4 DEF Aggs
  <2>2. ~Equal(<<x.solver, 1>>, <<y.solver, 1>>)
    BY <2>1 DEF Equal
  <2>3. key[x][3] = <<x.solver, 1>> /\ key[y][3] = <<y.solver, 1>>
    OBVIOUS
  <2> QED BY <2>2, <2>3
<1>5. o \in won /\ \A y \in won \ {o} : Before(key[o], key[y])
  <2> HIDE DEF key, won
  <2> QED BY <1>2, <1>3, <1>4, FirstByIs
<1> HIDE DEF o
<1>6. ASSUME NEW g \in won PROVE o.cost <= g.cost
  <2>1. o.cost \in Nat /\ g.cost \in Nat
    BY <1>5 DEF Aggs
  <2>2. CASE g = o
    BY <2>1, <2>2
  <2>3. CASE g # o
    <3>1. Before(key[o], key[g])
      BY <1>5, <2>3
    <3>2. key[o][1] = <<o.cost, 1>> /\ key[g][1] = <<g.cost, 1>> /\ DOMAIN key[o] = 1 .. 3
      BY <1>5
    <3> HIDE DEF key
    <3>3. Less(<<o.cost, 1>>, <<g.cost, 1>>) \/ Equal(<<o.cost, 1>>, <<g.cost, 1>>)
      BY <3>1, <3>2 DEF Before
    <3> QED BY <2>1, <3>3 DEF Less, Equal
  <2> QED BY <2>2, <2>3
<1> QED BY <1>1, <1>5, <1>6

LEMMA TableRowIs ==
  ASSUME NEW aggs, Aggs(aggs), NEW i \in {g.instance : g \in aggs}
  PROVE  LET t == TableRow(aggs, i)
         IN  /\ t.instance = i /\ Facts(t) /\ t.label \in Labels
             /\ t.policies \in [always_cheap : Outcomes, always_expensive : Outcomes,
                                on_failure : Outcomes, on_signal : Outcomes]
<1> DEFINE own       == {g \in aggs : g.instance = i}
           cheap     == Pick(own, Cheap(aggs), FALSE)
           expensive == Pick(own, Expensive(aggs), TRUE)
           oracle    == Oracle(own)
           p == Policies(cheap, expensive)
           t == TableRow(aggs, i)
<1>1. /\ t.instance = i /\ t.ran = {g.solver : g \in own}
      /\ t.cheapSolver = Cheap(aggs) /\ t.expensiveSolver = Expensive(aggs)
      /\ t.cheap = cheap /\ t.expensive = expensive /\ t.oracle = oracle
      /\ t.label = RouteLabel(cheap, expensive) /\ t.policies = p
  BY DEF TableRow
<1>2. Aggs(own) /\ \A g, h \in own : g.instance = h.instance
  <2>1. IsFiniteSet(own)
    BY FS_Subset DEF Aggs
  <2> QED BY <2>1 DEF Aggs
<1> HIDE DEF own
<1>3. /\ cheap \in own /\ (Cheap(aggs) \in {g.solver : g \in own} => cheap.solver = Cheap(aggs))
      /\ expensive \in own
      /\ (Expensive(aggs) \in {g.solver : g \in own} => expensive.solver = Expensive(aggs))
  BY <1>2, PickIs
<1>4. /\ cheap.resolved => oracle.resolved /\ oracle.cost <= cheap.cost
      /\ expensive.resolved => oracle.resolved /\ oracle.cost <= expensive.cost
      /\ oracle.resolved => oracle.cost \in Nat
  <2>1. CASE \E g \in own : g.resolved
    BY <1>2, <1>3, <2>1, OracleIs DEF Aggs
  <2>2. CASE ~\E g \in own : g.resolved
    BY <1>3, <2>2 DEF Oracle
  <2> QED BY <2>1, <2>2
<1>5. /\ cheap.cost \in Nat /\ expensive.cost \in Nat /\ cheap.ms \in Nat /\ expensive.ms \in Nat
      /\ cheap.resolved \in BOOLEAN /\ expensive.resolved \in BOOLEAN
      /\ SignalTriggered(cheap) \in BOOLEAN /\ (SignalTriggered(cheap) => ~cheap.resolved)
  BY <1>2, <1>3 DEF Aggs, SignalTriggered
<1> HIDE DEF cheap, expensive, oracle, t
<1>6. /\ p.always_cheap = [resolved |-> cheap.resolved, cost |-> cheap.cost, ms |-> cheap.ms, escalated |-> FALSE]
      /\ p.always_expensive = [resolved |-> expensive.resolved, cost |-> expensive.cost,
                               ms |-> expensive.ms, escalated |-> FALSE]
      /\ p.on_failure = Escalate(cheap, expensive, ~cheap.resolved)
      /\ p.on_signal = Escalate(cheap, expensive, SignalTriggered(cheap))
      /\ DOMAIN p = {"always_cheap", "always_expensive", "on_failure", "on_signal"}
      /\ p = [always_cheap |-> p.always_cheap, always_expensive |-> p.always_expensive,
              on_failure |-> p.on_failure, on_signal |-> p.on_signal]
  BY DEF Policies, Outcome
<1> HIDE DEF p
<1>7. ASSUME NEW when \in BOOLEAN
      PROVE  LET e == Escalate(cheap, expensive, when)
             IN  /\ e \in Outcomes /\ e.escalated = when
                 /\ e.resolved = (cheap.resolved \/ (when /\ expensive.resolved))
                 /\ e.cost = cheap.cost + (IF when THEN expensive.cost ELSE 0)
  BY <1>5 DEF Escalate, Outcomes
<1>8. /\ p.always_cheap \in Outcomes /\ p.always_expensive \in Outcomes
      /\ p.on_failure \in Outcomes /\ p.on_signal \in Outcomes
  <2>1. p.always_cheap \in Outcomes /\ p.always_expensive \in Outcomes
    BY <1>5, <1>6 DEF Outcomes
  <2>2. p.on_failure \in Outcomes
    BY <1>5, <1>6, <1>7
  <2>3. p.on_signal \in Outcomes
    BY <1>5, <1>6, <1>7
  <2> QED BY <2>1, <2>2, <2>3
<1>9. /\ p.on_failure.escalated = ~cheap.resolved
      /\ p.on_failure.resolved = (cheap.resolved \/ expensive.resolved)
      /\ p.on_failure.cost = cheap.cost + (IF ~cheap.resolved THEN expensive.cost ELSE 0)
  BY <1>5, <1>6, <1>7
<1>10. /\ p.on_signal.escalated = SignalTriggered(cheap)
       /\ p.on_signal.resolved = (cheap.resolved \/ (SignalTriggered(cheap) /\ expensive.resolved))
       /\ p.on_signal.cost = cheap.cost + (IF SignalTriggered(cheap) THEN expensive.cost ELSE 0)
  BY <1>5, <1>6, <1>7
<1>11. /\ p.always_cheap.resolved = cheap.resolved /\ p.always_cheap.cost = cheap.cost
       /\ p.always_expensive.resolved = expensive.resolved /\ p.always_expensive.cost = expensive.cost
  BY <1>6
<1>12. \A n \in DOMAIN p : p[n].resolved => oracle.resolved /\ oracle.cost <= p[n].cost
  <2>1. p.always_cheap.resolved => oracle.resolved /\ oracle.cost <= p.always_cheap.cost
    BY <1>4, <1>11
  <2>2. p.always_expensive.resolved => oracle.resolved /\ oracle.cost <= p.always_expensive.cost
    BY <1>4, <1>11
  <2>3. p.on_failure.resolved => oracle.resolved /\ oracle.cost <= p.on_failure.cost
    BY <1>4, <1>5, <1>9
  <2>4. p.on_signal.resolved => oracle.resolved /\ oracle.cost <= p.on_signal.cost
    BY <1>4, <1>5, <1>10
  <2> QED BY <1>6, <2>1, <2>2, <2>3, <2>4
<1>13. /\ t.label \in Labels
       /\ t.label = "cheap_is_enough" <=> cheap.resolved
       /\ t.label = "likely_unsolved" <=> ~cheap.resolved /\ ~expensive.resolved
  BY <1>1, <1>5 DEF RouteLabel, Labels
<1>14. Facts(t)
  <2>1. p.on_signal.cost <= p.on_failure.cost
    BY <1>5, <1>9, <1>10
  <2>2. /\ p.on_signal.escalated => p.on_failure.escalated
        /\ p.on_signal.resolved => p.on_failure.resolved
        /\ p.on_failure.resolved <=> p.always_cheap.resolved \/ p.always_expensive.resolved
    BY <1>5, <1>9, <1>10, <1>11
  <2>3. /\ t.label = "cheap_is_enough" <=> p.always_cheap.resolved
        /\ t.label = "likely_unsolved" <=> ~p.on_failure.resolved
    BY <1>5, <1>9, <1>11, <1>13
  <2>4. /\ t.cheapSolver \in t.ran => t.cheap.solver = t.cheapSolver
        /\ t.expensiveSolver \in t.ran => t.expensive.solver = t.expensiveSolver
    BY <1>1, <1>3
  <2> QED BY <1>1, <1>12, <2>1, <2>2, <2>3, <2>4 DEF Facts
<1>15. p \in [always_cheap : Outcomes, always_expensive : Outcomes,
              on_failure : Outcomes, on_signal : Outcomes]
  BY <1>6, <1>8
<1> QED BY <1>1, <1>13, <1>14, <1>15 DEF t

LEMMA TableIs ==
  ASSUME NEW rows, Rows(rows)
  PROVE  TableInv(RouterTable(rows))
<1> DEFINE aggs == Aggregates(rows)
           ids == {g.instance : g \in aggs}
           f == [g \in aggs |-> g.instance]
           h == [i \in ids |-> TableRow(aggs, i)]
           T == RouterTable(rows)
<1>1. Aggs(aggs)
  BY AggregatesAre
<1>2. T = {TableRow(aggs, i) : i \in ids}
  BY DEF RouterTable
<1> HIDE DEF aggs
<1>3. IsFiniteSet(ids)
  <2>1. DOMAIN f = aggs /\ f = [g \in aggs |-> f[g]] /\ ids = {f[g] : g \in aggs} /\ IsFiniteSet(aggs)
    BY <1>1 DEF Aggs
  <2> HIDE DEF f, ids
  <2> QED BY <2>1, ImageIsFinite
<1>4. IsFiniteSet(T)
  <2>1. DOMAIN h = ids /\ h = [i \in ids |-> h[i]] /\ T = {h[i] : i \in ids}
    BY <1>2
  <2> HIDE DEF h, ids, T
  <2> QED BY <1>3, <2>1, ImageIsFinite
<1>5. \A i \in ids : LET t == TableRow(aggs, i)
                     IN  /\ t.instance = i /\ Facts(t) /\ t.label \in Labels
                         /\ t.policies \in [always_cheap : Outcomes, always_expensive : Outcomes,
                                            on_failure : Outcomes, on_signal : Outcomes]
  BY <1>1, TableRowIs
<1> HIDE DEF ids, T
<1>6. TableInv(T)
  BY <1>2, <1>4, <1>5 DEF TableInv
<1> QED BY <1>6 DEF T

-----------------------------------------------------------------------------
(* Training and scoring                                                    *)

LEMMA OfTwo ==
  ASSUME NEW a \in Int, NEW b \in Int
  PROVE  /\ Min({a, b}) \in {a, b} /\ Min({a, b}) <= a /\ Min({a, b}) <= b
         /\ Max({a, b}) \in {a, b} /\ a <= Max({a, b}) /\ b <= Max({a, b})
<1> DEFINE S == {a, b}
<1>1. IsFiniteSet(S)
  <2>1. S = {a} \cup {b}
    OBVIOUS
  <2>2. IsFiniteSet({a})
    BY FS_Singleton
  <2> HIDE DEF S
  <2> QED BY <2>1, <2>2, FS_AddElement
<1>2. S \in SUBSET Int /\ S # {} /\ a \in S /\ b \in S
  OBVIOUS
<1> HIDE DEF S
<1>3. Min(S) \in S /\ Max(S) \in S /\ Min(S) <= a /\ Min(S) <= b /\ a <= Max(S) /\ b <= Max(S)
  BY <1>1, <1>2, Extremes
<1> QED BY <1>3 DEF S

LEMMA SharesAre ==
  ASSUME NEW n \in Nat, n > 1, NEW p \in Nat, NEW q \in Nat
  PROVE  LET c == SplitCounts(n, p, q)
         IN  c.train \in Nat /\ c.validation \in Nat /\ c.train + c.validation < n
<1>1. \A m \in Nat : RoundedShare(n, m) \in Nat
  <2> SUFFICES ASSUME NEW m \in Nat PROVE RoundedShare(n, m) \in Nat
    OBVIOUS
  <2>1. n * m \in Nat
    OBVIOUS
  <2>2. (n * m) \div 100 \in Nat
    BY <2>1
  <2> QED BY <2>2 DEF RoundedShare
<1> DEFINE t    == Clamp(RoundedShare(n, p), 1, n - 1)
           left == n - t
           v    == RoundedShare(n, q)
           some == IF q > 0 /\ left > 1 /\ v = 0 THEN 1 ELSE v
           c == SplitCounts(n, p, q)
<1>2. c.train = t /\ c.validation = Min({some, left - 1})
  BY DEF SplitCounts
<1>3. t \in 1 .. n - 1
  <2>1. RoundedShare(n, p) \in Int /\ n - 1 \in Int
    BY <1>1
  <2> DEFINE low == Min({n - 1, RoundedShare(n, p)})
  <2>2. low \in Int /\ low <= n - 1
    BY <2>1, OfTwo
  <2> HIDE DEF low
  <2>3. Max({1, low}) \in {1, low} /\ 1 <= Max({1, low})
    <3>1. 1 \in Int
      OBVIOUS
    <3> QED BY <2>2, <3>1, OfTwo
  <2>4. t = Max({1, low})
    <3>1. {n - 1, RoundedShare(n, p)} = {RoundedShare(n, p), n - 1}
      OBVIOUS
    <3> QED BY <3>1 DEF Clamp, low
  <2> QED BY <2>2, <2>3, <2>4
<1> HIDE DEF t
<1>4. some \in Nat /\ left - 1 \in Nat
  BY <1>1, <1>3
<1> HIDE DEF some
<1>5. /\ Min({some, left - 1}) \in {some, left - 1}
      /\ Min({some, left - 1}) <= left - 1
  BY <1>4, OfTwo
<1> HIDE DEF c
<1>6. c.train \in Nat /\ c.validation \in Nat /\ c.train + c.validation < n
  BY <1>2, <1>3, <1>4, <1>5
<1> QED BY <1>6 DEF c

\* Of a label with two rows, one is left over for the test.
LEMMA SplitIs ==
  ASSUME NEW T, TableInv(T), NEW p \in Nat, NEW q \in Nat, NEW split \in Splits(T, p, q)
  PROVE  /\ split.train \subseteq T /\ split.validation \subseteq T
         /\ split.test = T \ (split.train \cup split.validation)
         /\ (\E l \in Labels : Cardinality({t \in T : t.label = l}) > 1) => split.test # {}
<1> DEFINE Of(l)     == {r.instance : r \in {x \in T : x.label = l}}
           Counts(l) == SplitCounts(Cardinality(Of(l)), p, q)
           used      == {l \in Labels : Of(l) # {}}
           Parts(l)  == {b \in kSubset(Counts(l).train, Of(l)) \X kSubset(Counts(l).validation, Of(l)) :
                           b[1] \cap b[2] = {}}
           In(f, n)  == {r \in T : \E l \in used : r.instance \in f[l][n]}
<1>1. PICK f \in [used -> UNION {Parts(l) : l \in used}] :
        /\ \A l \in used : f[l] \in Parts(l)
        /\ split = [train |-> In(f, 1), validation |-> In(f, 2), test |-> T \ (In(f, 1) \cup In(f, 2))]
  BY DEF Splits
<1>2. split.train = In(f, 1) /\ split.validation = In(f, 2) /\ split.test = T \ (In(f, 1) \cup In(f, 2))
  BY <1>1
<1>3. ASSUME NEW l \in Labels, Cardinality({t \in T : t.label = l}) > 1
      PROVE  \E r \in T : r \notin In(f, 1) /\ r \notin In(f, 2)
  <2> DEFINE own == {t \in T : t.label = l}
             g == [t \in own |-> t.instance]
             n == Cardinality(own)
             c == Counts(l)
  <2>1. IsFiniteSet(own)
    BY FS_Subset DEF TableInv
  <2>2. n \in Nat
    BY <2>1, FS_CardinalityType
  <2>3. g \in Injection(own, Of(l)) /\ g \in Surjection(own, Of(l))
    <3>1. g \in [own -> Of(l)]
      OBVIOUS
    <3>2. \A x, y \in own : g[x] = g[y] => x = y
      BY DEF TableInv
    <3>3. \A i \in Of(l) : \E x \in own : g[x] = i
      OBVIOUS
    <3> HIDE DEF g, own, Of
    <3> QED BY <3>1, <3>2, <3>3 DEF Injection, IsInjective, Surjection
  <2>4. IsFiniteSet(Of(l)) /\ Cardinality(Of(l)) = n
    <3> HIDE DEF own, g, Of
    <3> QED BY <2>1, <2>3, FS_Surjection
  <2>5. Of(l) # {}
    <3> HIDE DEF Of
    <3> QED BY <1>3, <2>4, FS_EmptySet
  <2>6. c.train \in Nat /\ c.validation \in Nat /\ c.train + c.validation < n
    <3>1. c = SplitCounts(n, p, q)
      BY <2>4
    <3> HIDE DEF c, n
    <3> QED BY <1>3, <2>2, <3>1, SharesAre DEF n
  <2>7. /\ f[l][1] \in SUBSET Of(l) /\ Cardinality(f[l][1]) = c.train
        /\ f[l][2] \in SUBSET Of(l) /\ Cardinality(f[l][2]) = c.validation
    <3>1. f[l] \in Parts(l)
      BY <1>1, <2>5
    <3>2. f[l][1] \in kSubset(c.train, Of(l)) /\ f[l][2] \in kSubset(c.validation, Of(l))
      <4> HIDE DEF Of, Counts
      <4> QED BY <3>1
    <3> HIDE DEF Of, c
    <3> QED BY <3>2 DEF kSubset
  <2> DEFINE taken == f[l][1] \cup f[l][2]
  <2>8. taken # Of(l)
    <3>1. IsFiniteSet(f[l][1]) /\ IsFiniteSet(f[l][2])
      <4> HIDE DEF Of
      <4> QED BY <2>4, <2>7, FS_Subset
    <3>2. Cardinality(taken) = Cardinality(f[l][1]) + Cardinality(f[l][2]) - Cardinality(f[l][1] \cap f[l][2])
      BY <3>1, FS_Union
    <3>3. Cardinality(f[l][1] \cap f[l][2]) \in Nat
      <4>1. IsFiniteSet(f[l][1] \cap f[l][2])
        BY <3>1, FS_Intersection
      <4> QED BY <4>1, FS_CardinalityType
    <3>4. Cardinality(taken) < n
      <4> HIDE DEF c, n, taken
      <4> QED BY <2>2, <2>6, <2>7, <3>2, <3>3
    <3> HIDE DEF Of, taken, n
    <3> QED BY <2>2, <2>4, <3>4
  <2>9. PICK i \in Of(l) : i \notin taken
    <3>1. taken \subseteq Of(l)
      BY <2>7
    <3> HIDE DEF taken, Of
    <3> QED BY <2>8, <3>1
  <2>10. PICK r \in T : r.label = l /\ r.instance = i
    BY <2>9
  <2>11. ASSUME NEW m \in used, NEW k \in {1, 2}, r.instance \in f[m][k] PROVE FALSE
    <3>1. f[m] \in Parts(m)
      BY <1>1
    <3>2. f[m][k] \in SUBSET Of(m)
      <4>1. f[m][1] \in SUBSET Of(m) /\ f[m][2] \in SUBSET Of(m)
        <5> HIDE DEF Of, Counts
        <5> QED BY <3>1 DEF kSubset
      <4> HIDE DEF Of
      <4> QED BY <4>1
    <3>3. PICK x \in T : x.label = m /\ x.instance = r.instance
      BY <2>11, <3>2
    <3>4. x = r
      BY <2>10, <3>3 DEF TableInv
    <3> QED BY <2>9, <2>10, <2>11, <3>3, <3>4
  <2> HIDE DEF used
  <2> QED BY <2>10, <2>11
<1> HIDE DEF Of, used
<1> QED BY <1>2, <1>3


\* A part of a finite set that is as large as the set.
LEMMA SameCardinality ==
  ASSUME NEW S, IsFiniteSet(S), NEW A \in SUBSET S, Cardinality(A) = Cardinality(S)
  PROVE  A = S
BY FS_Subset

LEMMA FromTable ==
  ASSUME NEW T, TableInv(T), NEW f \in Fractions, NEW split \in Splits(T, f[1], f[2])
  PROVE  /\ EvaluatedOn(split) \subseteq T /\ FittedOn(split) \subseteq T
         /\ (\E l \in Labels : Cardinality({t \in T : t.label = l}) > 1) =>
              EvaluatedOn(split) # {} /\ EvaluatedOn(split) \cap FittedOn(split) = {}
<1>1. f[1] \in Nat /\ f[2] \in Nat
  BY AnalysisAssumption
<1>2. /\ split.train \subseteq T /\ split.validation \subseteq T
      /\ split.test = T \ (split.train \cup split.validation)
      /\ (\E l \in Labels : Cardinality({t \in T : t.label = l}) > 1) => split.test # {}
  <2> DEFINE p == f[1]
             q == f[2]
  <2>1. p \in Nat /\ q \in Nat /\ split \in Splits(T, p, q)
    BY <1>1
  <2> HIDE DEF p, q
  <2> QED BY <2>1, SplitIs
<1> QED BY <1>2 DEF EvaluatedOn, FittedOn

\* The learned router does what one of the two solvers does on a row.
LEMMA LearnedIs ==
  ASSUME NEW T, TableInv(T), NEW t \in T, NEW tree
  PROVE  LearnedOutcome(t, tree).resolved =
           IF tree[t.instance] = "needs_expensive" THEN t.policies.always_expensive.resolved
           ELSE t.policies.always_cheap.resolved
<1>1. t.policies.always_expensive \in Outcomes /\ t.policies.always_cheap \in Outcomes
  BY DEF TableInv
<1>2. \A o \in Outcomes : \A b : [o EXCEPT !.escalated = b].resolved = o.resolved
  BY DEF Outcomes
<1> QED BY <1>1, <1>2 DEF LearnedOutcome

LEMMA ScoresAre ==
  ASSUME NEW T, TableInv(T), NEW rows \in SUBSET T, NEW tree
  PROVE  LET report == RouterReport(rows, tree)
         IN  /\ report.rows = rows
             /\ report.learned.resolved <= report.solvable
             /\ report.correct = Cardinality(rows) =>
                  report.learned.resolved = report.baselines.on_failure.resolved
<1> DEFINE report   == RouterReport(rows, tree)
           won      == {r \in rows : LearnedOutcome(r, tree).resolved}
           solvable == {r \in rows : r.oracle.resolved}
           either   == {r \in rows : r.policies.on_failure.resolved}
           correct  == {r \in rows : tree[r.instance] = r.label}
<1>1. /\ report.rows = rows
      /\ report.learned.resolved = Cardinality(won)
      /\ report.solvable = Cardinality(solvable)
      /\ report.correct = Cardinality(correct)
      /\ report.baselines.on_failure.resolved = Cardinality(either)
  BY DEF RouterReport, Score
<1> HIDE DEF report
<1>2. IsFiniteSet(rows)
  BY FS_Subset DEF TableInv
<1>3. \A t \in rows :
        /\ LearnedOutcome(t, tree).resolved =
             IF tree[t.instance] = "needs_expensive" THEN t.policies.always_expensive.resolved
             ELSE t.policies.always_cheap.resolved
        /\ Facts(t) /\ t.label \in Labels
        /\ t.policies \in [always_cheap : Outcomes, always_expensive : Outcomes,
                           on_failure : Outcomes, on_signal : Outcomes]
  BY LearnedIs DEF TableInv
<1>4. Cardinality(won) <= Cardinality(solvable)
  <2>1. won \subseteq solvable
    <3> SUFFICES ASSUME NEW t \in rows, LearnedOutcome(t, tree).resolved PROVE t.oracle.resolved
      OBVIOUS
    <3>1. t.policies.always_expensive.resolved \/ t.policies.always_cheap.resolved
      BY <1>3
    <3>2. {"always_cheap", "always_expensive"} \subseteq DOMAIN t.policies
      BY <1>3
    <3>3. \A n \in DOMAIN t.policies : t.policies[n].resolved => t.oracle.resolved
      BY <1>3 DEF Facts
    <3> QED BY <3>1, <3>2, <3>3
  <2>2. IsFiniteSet(solvable)
    BY <1>2, FS_Subset
  <2> HIDE DEF won, solvable
  <2> QED BY <2>1, <2>2, FS_Subset
<1>5. ASSUME Cardinality(correct) = Cardinality(rows) PROVE won = either
  <2>1. correct = rows
    <3>1. correct \in SUBSET rows
      OBVIOUS
    <3> HIDE DEF correct
    <3> QED BY <1>2, <1>5, <3>1, SameCardinality
  <2>2. ASSUME NEW t \in rows
        PROVE  LearnedOutcome(t, tree).resolved <=> t.policies.on_failure.resolved
    <3>1. tree[t.instance] = t.label
      BY <2>1
    <3>2. /\ t.label = "cheap_is_enough" <=> t.policies.always_cheap.resolved
          /\ t.label = "likely_unsolved" <=> ~t.policies.on_failure.resolved
          /\ t.policies.on_failure.resolved <=>
               t.policies.always_cheap.resolved \/ t.policies.always_expensive.resolved
      BY <1>3 DEF Facts
    <3>3. t.label \in {"cheap_is_enough", "needs_expensive", "likely_unsolved"}
      BY <1>3 DEF Labels
    <3>4. LearnedOutcome(t, tree).resolved =
            IF t.label = "needs_expensive" THEN t.policies.always_expensive.resolved
            ELSE t.policies.always_cheap.resolved
      BY <1>3, <3>1
    <3> QED BY <3>2, <3>3, <3>4
  <2> QED BY <2>2
<1> QED BY <1>1, <1>4, <1>5 DEF report


LEMMA TrainStep == AnalysisInv /\ [Next]_vars => TrainInv'
<1> SUFFICES ASSUME AnalysisInv, [Next]_vars PROVE TrainInv'
  OBVIOUS
<1>0. TrainInv /\ AnalyzeInv /\ Rows(Now)
  BY NowIs DEF AnalysisInv
<1> USE DEF At, Idle
\* A command other than train-router has begun, goes on or ends.
<1>1. ASSUME UNCHANGED files, succeeded' \subseteq succeeded \cup {"analyze"},
             cmd'.step \in {"idle", "judging", "reporting"}
      PROVE  TrainInv'
  BY <1>0, <1>1 DEF TrainInv, files
<1>2. CASE JudgeAgain
  BY <1>0, <1>1, <1>2 DEF JudgeAgain, Change
<1>3. ASSUME NEW a \in attempts, RunAgain(a) PROVE TrainInv'
  BY <1>0, <1>1, <1>3 DEF RunAgain, Change
<1>4. CASE AnalyzeOnly
  BY <1>0, <1>1, <1>4 DEF AnalyzeOnly, StartAnalyze
<1>5. ASSUME NEW dataset \in Datasets, AnalyzeAndJudge(dataset) PROVE TrainInv'
  BY <1>0, <1>1, <1>5 DEF AnalyzeAndJudge, StartAnalyze
<1>6. CASE JudgeOne \/ EndJudging
  BY <1>0, <1>1, <1>6 DEF JudgeOne, EndJudging
<1>7. CASE WriteReport
  <2>1. cmd'.step = "tabling"
    BY <1>0, <1>7 DEF WriteReport, AnalyzeInv
  <2> QED BY <1>0, <1>7, <2>1 DEF WriteReport, TrainInv
<1>8. CASE WriteTable
  <2>1. cmd.rows = Now
    BY <1>0, <1>8 DEF WriteTable, AnalyzeInv
  <2>2. TableInv(RouterTable(cmd.rows))
    BY <1>0, <2>1, TableIs
  <2>3. /\ table'.present /\ table'.rows = RouterTable(cmd.rows) /\ cmd'.step = "analyzed"
        /\ UNCHANGED <<model, scores, succeeded>>
    BY <1>8 DEF WriteTable
  <2> QED BY <1>0, <2>2, <2>3 DEF TrainInv
<1>9. CASE FinishAnalyze
  BY <1>0, <1>1, <1>9 DEF FinishAnalyze
<1>10. ASSUME NEW f \in Fractions, StartTrain(f) PROVE TrainInv'
  <2>1. PICK split \in Splits(table.rows, f[1], f[2]) :
          cmd' = [step |-> "fitting", split |-> split, table |-> table.rows]
    BY <1>10 DEF StartTrain
  <2>2. TableInv(table.rows) /\ split \in AllSplits(table.rows)
    BY <1>0, <1>10, <2>1 DEF StartTrain, TrainInv, AllSplits
  <2>3. /\ cmd'.step = "fitting" /\ cmd'.split = split /\ cmd'.table = table.rows
        /\ cmd' = [step |-> cmd'.step, split |-> cmd'.split, table |-> cmd'.table]
    BY <2>1
  <2>4. "train-router" \notin succeeded' /\ UNCHANGED files
    BY <1>10 DEF StartTrain
  <2> QED BY <1>0, <2>2, <2>3, <2>4 DEF TrainInv, files
<1>11. CASE WriteModel
  <2>1. /\ cmd = [step |-> cmd.step, split |-> cmd.split, table |-> cmd.table]
        /\ TableInv(cmd.table) /\ cmd.split \in AllSplits(cmd.table)
        /\ "train-router" \notin succeeded
    BY <1>0, <1>11 DEF WriteModel, TrainInv
  <2>2. PICK tree \in Trees(FittedOn(cmd.split), cmd.table) :
          model' = [present |-> TRUE, fitted |-> FittedOn(cmd.split), tree |-> tree, table |-> cmd.table]
    BY <1>11 DEF WriteModel
  <2>3. /\ cmd'.step = "scoring" /\ cmd'.split = cmd.split /\ cmd'.table = cmd.table
        /\ cmd' = [step |-> cmd'.step, split |-> cmd'.split, table |-> cmd'.table]
    BY <1>11, <2>1 DEF WriteModel
  <2>4. /\ model'.present /\ model'.fitted = FittedOn(cmd.split) /\ model'.tree = tree
        /\ model'.table = cmd.table
    BY <2>2
  <2>5. UNCHANGED <<table, scores, succeeded>>
    BY <1>11 DEF WriteModel
  <2> QED BY <1>0, <2>1, <2>3, <2>4, <2>5 DEF TrainInv
<1>12. CASE WriteScores
  <2>1. /\ TableInv(cmd.table) /\ cmd.split \in AllSplits(cmd.table)
        /\ model.present /\ model.table = cmd.table /\ model.fitted = FittedOn(cmd.split)
        /\ model.tree \in Trees(FittedOn(cmd.split), cmd.table)
        /\ "train-router" \notin succeeded
    BY <1>0, <1>12 DEF WriteScores, TrainInv
  <2>2. /\ scores'.present /\ scores'.tree = model.tree
        /\ scores'.report = RouterReport(EvaluatedOn(cmd.split), model.tree)
        /\ cmd'.step = "trained" /\ UNCHANGED <<table, model, succeeded>>
    BY <1>12 DEF WriteScores
  <2> QED BY <1>0, <2>1, <2>2 DEF TrainInv
<1>13. CASE FinishTrain
  <2>1. scores.present /\ model.present /\ scores.tree = model.tree
    BY <1>0, <1>13 DEF FinishTrain, TrainInv
  <2>2. cmd'.step = "idle" /\ UNCHANGED files
    BY <1>13 DEF FinishTrain
  <2> QED BY <1>0, <2>1, <2>2 DEF TrainInv, files
<1>14. CASE FailJudging \/ Abandon
  BY <1>0, <1>1, <1>14 DEF FailJudging, Abandon
<1>15. CASE UNCHANGED vars
  BY <1>0, <1>15 DEF TrainInv, vars, files
<1> QED BY <1>2, <1>3, <1>4, <1>5, <1>6, <1>7, <1>8, <1>9, <1>10, <1>11, <1>12, <1>13, <1>14, <1>15
        DEF Next

-----------------------------------------------------------------------------
(* A report: solvers, their ranking and the frontier                       *)

\* Every unresolved attempt has one reason.
LEMMA BreakdownIs ==
  ASSUME NEW rows, Rows(rows)
  PROVE  Total(FailureBreakdown(rows)) = Cardinality(Unresolved(rows))
<1> DEFINE lost == Unresolved(rows)
           k == [r \in lost |-> FailureReason(r)]
           K == {FailureReason(r) : r \in lost}
           f == [v \in K |-> Cardinality({r \in lost : FailureReason(r) = v})]
<1>1. FailureBreakdown(rows) = f /\ DOMAIN f = K
  BY DEF FailureBreakdown
<1>2. IsFiniteSet(lost)
  BY FS_Subset DEF Rows, Unresolved
<1>3. IsFiniteSet(K)
  <2>1. DOMAIN k = lost /\ k = [r \in lost |-> k[r]] /\ K = {k[r] : r \in lost}
    OBVIOUS
  <2> HIDE DEF k, K, lost
  <2> QED BY <1>2, <2>1, ImageIsFinite
<1>4. \A v \in K : f[v] = Cardinality({r \in lost : k[r] = v})
  <2>1. \A v \in K : {r \in lost : k[r] = v} = {r \in lost : FailureReason(r) = v}
    OBVIOUS
  <2> QED BY <2>1
<1>5. {r \in lost : k[r] \in K} = lost
  OBVIOUS
<1> HIDE DEF k, K, f, lost
<1>6. Sum(f, K) = Cardinality({r \in lost : k[r] \in K})
  BY <1>2, <1>3, <1>4, PartsAddUp
<1> QED BY <1>1, <1>5, <1>6, TotalIsSum DEF lost

\* One summary per solver.
Board(sums) ==
  /\ IsFiniteSet(sums) /\ sums # {}
  /\ \A s \in sums : /\ s.solver \in Nat /\ s.tried \in Nat /\ s.tried > 0 /\ s.won \in Nat
                     /\ s.spent \in Int /\ s.wonCost \in Int /\ s.wonMs \in Int
  /\ \A s, o \in sums : s.solver = o.solver => s = o

LEMMA SummaryIs ==
  ASSUME NEW rows, Rows(rows), NEW n \in {r.solver : r \in rows}
  PROVE  LET s == Summary(rows, n)
         IN  /\ s.solver = n /\ n \in Nat /\ s.tried \in Nat /\ s.tried > 0 /\ s.won \in Nat
             /\ s.spent \in Int /\ s.wonCost \in Int /\ s.wonMs \in Int
<1> DEFINE own        == {r \in rows : r.solver = n}
           good       == own \ Unresolved(own)
           won        == {r.instance : r \in good}
           priced     == {r \in own : r.cost > 0}
           Costs(i)   == {r.cost : r \in {x \in priced : x.instance = i}}
           Cheapest(i) == IF Costs(i) = {} THEN 0 ELSE Min(Costs(i))
           spent      == [r \in priced |-> r.cost]
           wonCost    == [i \in won |-> Cheapest(i)]
           wonMs      == [r \in good |-> r.ms]
           tried      == {r.instance : r \in own}
           s          == Summary(rows, n)
<1>1. /\ s.solver = n /\ s.tried = Cardinality(tried) /\ s.won = Cardinality(won)
      /\ s.spent = Total(spent) /\ s.wonCost = Total(wonCost) /\ s.wonMs = Total(wonMs)
  BY DEF Summary
<1>2. IsFiniteSet(own) /\ IsFiniteSet(good) /\ IsFiniteSet(priced)
  BY FS_Subset DEF Rows
<1>3. IsFiniteSet(tried) /\ IsFiniteSet(won)
  <2> HIDE DEF own, good
  <2> QED BY <1>2, ValuesFinite
<1>4. tried # {} /\ n \in Nat
  BY RowType DEF Rows
<1>5. Cardinality(tried) \in Nat /\ Cardinality(tried) > 0 /\ Cardinality(won) \in Nat
  <2> HIDE DEF tried, won
  <2>1. Cardinality(tried) \in Nat /\ Cardinality(won) \in Nat
    BY <1>3, FS_CardinalityType
  <2>2. Cardinality(tried) # 0
    BY <1>3, <1>4, FS_EmptySet
  <2> QED BY <2>1, <2>2
<1>6. \A r \in own : r.cost \in Int /\ r.ms \in Int
  BY RowType DEF Rows
<1>7. \A i : Cheapest(i) \in Int
  <2> SUFFICES ASSUME NEW i PROVE Cheapest(i) \in Int
    OBVIOUS
  <2>1. IsFiniteSet(Costs(i))
    <3>1. IsFiniteSet({x \in priced : x.instance = i})
      BY <1>2, FS_Subset
    <3> QED BY <3>1, ValuesFinite
  <2>2. Costs(i) \in SUBSET Int
    BY <1>6
  <2> DEFINE C == Costs(i)
  <2>3. C # {} => Min(C) \in Int
    <3> HIDE DEF C
    <3> QED BY <2>1, <2>2, Extremes DEF C
  <2> QED BY <2>3
<1>8. Total(spent) \in Int /\ Total(wonCost) \in Int /\ Total(wonMs) \in Int
  <2>1. /\ DOMAIN spent = priced /\ \A x \in priced : spent[x] \in Int
        /\ DOMAIN wonCost = won /\ \A x \in won : wonCost[x] \in Int
        /\ DOMAIN wonMs = good /\ \A x \in good : wonMs[x] \in Int
    BY <1>6, <1>7
  <2> HIDE DEF spent, wonCost, wonMs, priced, won, good
  <2> QED BY <1>2, <1>3, <2>1, TotalIsSum, SumType
<1> HIDE DEF own, tried, won, spent, wonCost, wonMs, s
<1> QED BY <1>1, <1>4, <1>5, <1>8 DEF s

LEMMA SummariesAre ==
  ASSUME NEW rows, Rows(rows)
  PROVE  Board(Summaries(rows))
<1> DEFINE ids == {r.solver : r \in rows}
           f == [r \in rows |-> r.solver]
           g == [n \in ids |-> Summary(rows, n)]
           sums == Summaries(rows)
<1>1. IsFiniteSet(ids)
  <2>1. DOMAIN f = rows /\ f = [r \in rows |-> f[r]] /\ ids = {f[r] : r \in rows} /\ IsFiniteSet(rows)
    BY DEF Rows
  <2> HIDE DEF f, ids
  <2> QED BY <2>1, ImageIsFinite
<1>2. IsFiniteSet(sums)
  <2>1. DOMAIN g = ids /\ g = [n \in ids |-> g[n]] /\ sums = {g[n] : n \in ids}
    BY DEF Summaries
  <2> HIDE DEF g, ids, sums
  <2> QED BY <1>1, <2>1, ImageIsFinite
<1>3. sums # {} /\ \A s \in sums : \E n \in ids : s = Summary(rows, n)
  BY DEF Summaries, Rows
<1>4. \A n \in ids : LET s == Summary(rows, n)
                     IN  /\ s.solver = n /\ n \in Nat /\ s.tried \in Nat /\ s.tried > 0 /\ s.won \in Nat
                         /\ s.spent \in Int /\ s.wonCost \in Int /\ s.wonMs \in Int
  BY SummaryIs
<1> HIDE DEF ids, sums
<1>5. Board(sums)
  BY <1>2, <1>3, <1>4 DEF Board
<1> QED BY <1>5 DEF sums

LEMMA PartOfBoard ==
  ASSUME NEW sums, Board(sums), NEW part \in SUBSET sums, part # {}
  PROVE  Board(part)
BY FS_Subset DEF Board

LEMMA MeasuresAre ==
  ASSUME NEW sums, Board(sums), NEW s \in sums
  PROVE  /\ <<-s.won, s.tried>> \in Quotient /\ <<-s.won, 1>> \in Quotient
         /\ CostPerWin(s) \in Quotient /\ LatencyPerWin(s) \in Quotient
         /\ <<s.spent, 1>> \in Quotient /\ <<s.solver, 1>> \in Quotient
<1>1. /\ s.solver \in Nat /\ s.tried \in Nat /\ s.tried > 0 /\ s.won \in Nat
      /\ s.spent \in Int /\ s.wonCost \in Int /\ s.wonMs \in Int
  BY DEF Board
<1> QED BY <1>1 DEF Quotient, CostPerWin, LatencyPerWin, PerWin

LEMMA KeysAre ==
  ASSUME NEW sums, Board(sums), NEW s \in sums
  PROVE  RankingKey(s) \in Keys(6) /\ CostKey(s) \in Keys(4)
<1> DEFINE rate == <<-s.won, s.tried>>  won == <<-s.won, 1>>  cost == CostPerWin(s)
           time == LatencyPerWin(s)  spent == <<s.spent, 1>>  name == <<s.solver, 1>>
<1>1. /\ rate \in Quotient /\ won \in Quotient /\ cost \in Quotient /\ time \in Quotient
      /\ spent \in Quotient /\ name \in Quotient
  BY MeasuresAre
<1>2. /\ RankingKey(s) = <<rate, won, cost, time, spent, name>>
      /\ CostKey(s) = <<cost, rate, time, name>>
  BY DEF RankingKey, CostKey
<1> HIDE DEF rate, won, cost, time, spent, name
<1> QED BY <1>1, <1>2 DEF Keys

LEMMA BestIs ==
  ASSUME NEW sums, Board(sums)
  PROVE  /\ BestSolver(sums) \in sums
         /\ \A o \in sums \ {BestSolver(sums)} : Before(RankingKey(BestSolver(sums)), RankingKey(o))
<1> DEFINE key == [s \in sums |-> RankingKey(s)]
<1>1. key \in [sums -> Keys(6)]
  <2> SUFFICES ASSUME NEW s \in sums PROVE RankingKey(s) \in Keys(6)
    OBVIOUS
  <2> QED BY KeysAre
<1>2. ASSUME NEW x \in sums, NEW y \in sums, x # y
      PROVE  \E i \in 1 .. 6 : ~Equal(key[x][i], key[y][i])
  <2>1. x.solver \in Nat /\ y.solver \in Nat /\ x.solver # y.solver
    BY <1>2 DEF Board
  <2>2. ~Equal(<<x.solver, 1>>, <<y.solver, 1>>)
    BY <2>1 DEF Equal
  <2>3. key[x][6] = <<x.solver, 1>> /\ key[y][6] = <<y.solver, 1>>
    BY DEF RankingKey
  <2> QED BY <2>2, <2>3
<1>3. BestSolver(sums) = FirstBy(key)
  BY DEF BestSolver
<1> HIDE DEF key
<1>4. FirstBy(key) \in sums /\ \A y \in sums \ {FirstBy(key)} : Before(key[FirstBy(key)], key[y])
  BY <1>1, <1>2, FirstByIs DEF Board
<1> QED BY <1>3, <1>4 DEF key

LEMMA BestIsOnly ==
  ASSUME NEW sums, Board(sums), NEW s \in sums,
         \A o \in sums \ {s} : Before(RankingKey(s), RankingKey(o))
  PROVE  s = BestSolver(sums)
<1> DEFINE b == BestSolver(sums)
<1>1. b \in sums /\ (s # b => Before(RankingKey(b), RankingKey(s)) /\ Before(RankingKey(s), RankingKey(b)))
  BY BestIs
<1> HIDE DEF b
<1>2. RankingKey(s) \in Keys(6) /\ RankingKey(b) \in Keys(6)
  BY <1>1, KeysAre
<1> QED BY <1>1, <1>2, BeforeAsymmetric DEF b

LEMMA CheapestIs ==
  ASSUME NEW sums, Board(sums)
  PROVE  /\ CheapestSolver(sums) \in sums
         /\ \A o \in sums \ {CheapestSolver(sums)} : Before(CostKey(CheapestSolver(sums)), CostKey(o))
<1> DEFINE key == [s \in sums |-> CostKey(s)]
<1>1. key \in [sums -> Keys(4)]
  <2> SUFFICES ASSUME NEW s \in sums PROVE CostKey(s) \in Keys(4)
    OBVIOUS
  <2> QED BY KeysAre
<1>2. ASSUME NEW x \in sums, NEW y \in sums, x # y
      PROVE  \E i \in 1 .. 4 : ~Equal(key[x][i], key[y][i])
  <2>1. x.solver \in Nat /\ y.solver \in Nat /\ x.solver # y.solver
    BY <1>2 DEF Board
  <2>2. ~Equal(<<x.solver, 1>>, <<y.solver, 1>>)
    BY <2>1 DEF Equal
  <2>3. key[x][4] = <<x.solver, 1>> /\ key[y][4] = <<y.solver, 1>>
    BY DEF CostKey
  <2> QED BY <2>2, <2>3
<1>3. CheapestSolver(sums) = FirstBy(key)
  BY DEF CheapestSolver
<1> HIDE DEF key
<1>4. FirstBy(key) \in sums /\ \A y \in sums \ {FirstBy(key)} : Before(key[FirstBy(key)], key[y])
  BY <1>1, <1>2, FirstByIs DEF Board
<1> QED BY <1>3, <1>4 DEF key

Rate(s) == <<-s.won, s.tried>>

\* What Dominates compares, measure by measure.
LEMMA DominatesIs ==
  ASSUME NEW a, NEW b
  PROVE  Dominates(a, b) <=>
           /\ ~Less(Rate(b), Rate(a)) /\ ~Less(CostPerWin(b), CostPerWin(a))
           /\ ~Less(LatencyPerWin(b), LatencyPerWin(a))
           /\ \/ Less(Rate(a), Rate(b)) \/ Less(CostPerWin(a), CostPerWin(b))
              \/ Less(LatencyPerWin(a), LatencyPerWin(b))
<1> DEFINE As == <<Rate(a), CostPerWin(a), LatencyPerWin(a)>>
           Bs == <<Rate(b), CostPerWin(b), LatencyPerWin(b)>>
<1>1. Dominates(a, b) <=> /\ \A i \in 1 .. 3 : ~Less(Bs[i], As[i])
                          /\ \E i \in 1 .. 3 : Less(As[i], Bs[i])
  BY DEF Dominates, Rate
<1>2. /\ As[1] = Rate(a) /\ As[2] = CostPerWin(a) /\ As[3] = LatencyPerWin(a)
      /\ Bs[1] = Rate(b) /\ Bs[2] = CostPerWin(b) /\ Bs[3] = LatencyPerWin(b)
  OBVIOUS
<1>3. \A i \in 1 .. 3 : i = 1 \/ i = 2 \/ i = 3
  OBVIOUS
<1>4. 1 \in 1 .. 3 /\ 2 \in 1 .. 3 /\ 3 \in 1 .. 3
  OBVIOUS
<1> HIDE DEF As, Bs
<1> QED BY <1>1, <1>2, <1>3, <1>4

LEMMA RatesAre ==
  ASSUME NEW sums, Board(sums), NEW s \in sums
  PROVE  Rate(s) \in Quotient /\ CostPerWin(s) \in Quotient /\ LatencyPerWin(s) \in Quotient
BY MeasuresAre DEF Rate

LEMMA DominatesOrders ==
  ASSUME NEW sums, Board(sums), NEW a \in sums, NEW b \in sums, NEW c \in sums
  PROVE  /\ ~Dominates(a, a)
         /\ Dominates(a, b) /\ Dominates(b, c) => Dominates(a, c)
<1>1. \A s \in {a, b, c} : Rate(s) \in Quotient /\ CostPerWin(s) \in Quotient /\ LatencyPerWin(s) \in Quotient
  BY RatesAre
<1>2. ~Dominates(a, a)
  BY <1>1, LessTotal, DominatesIs
<1>3. ASSUME Dominates(a, b), Dominates(b, c) PROVE Dominates(a, c)
  <2>1. /\ ~Less(Rate(c), Rate(a))
        /\ Less(Rate(a), Rate(b)) \/ Less(Rate(b), Rate(c)) => Less(Rate(a), Rate(c))
    BY <1>1, <1>3, DominatesIs, LessTransitive
  <2>2. /\ ~Less(CostPerWin(c), CostPerWin(a))
        /\ Less(CostPerWin(a), CostPerWin(b)) \/ Less(CostPerWin(b), CostPerWin(c)) =>
             Less(CostPerWin(a), CostPerWin(c))
    BY <1>1, <1>3, DominatesIs, LessTransitive
  <2>3. /\ ~Less(LatencyPerWin(c), LatencyPerWin(a))
        /\ Less(LatencyPerWin(a), LatencyPerWin(b)) \/ Less(LatencyPerWin(b), LatencyPerWin(c)) =>
             Less(LatencyPerWin(a), LatencyPerWin(c))
    BY <1>1, <1>3, DominatesIs, LessTransitive
  <2> QED BY <1>3, <2>1, <2>2, <2>3, DominatesIs
<1> QED BY <1>2, <1>3

\* A solver off the frontier is dominated by one on it: by the one with the
\* fewest that dominate it in turn.
LEMMA FrontierDominates ==
  ASSUME NEW sums, Board(sums), NEW s \in sums \ ParetoFrontier(sums)
  PROVE  \E o \in ParetoFrontier(sums) : Dominates(o, s)
<1> DEFINE Above(o) == {x \in sums : Dominates(x, o)}
           B == {Above(o) : o \in Above(s)}
<1>1. Above(s) # {}
  BY DEF ParetoFrontier
<1>2. B \in SUBSET (SUBSET sums) /\ B # {}
  BY <1>1
<1> HIDE DEF B
<1>3. PICK T \in B : \A U \in B : U \subseteq T => U = T
  BY <1>2, SmallestPart DEF Board
<1>4. PICK o \in Above(s) : T = Above(o)
  BY <1>3 DEF B
<1>5. o \in ParetoFrontier(sums)
  <2> SUFFICES ASSUME NEW x \in sums, Dominates(x, o) PROVE FALSE
    BY <1>4 DEF ParetoFrontier
  <2>1. x \in Above(s)
    BY <1>4, DominatesOrders
  <2>2. Above(x) \subseteq Above(o) /\ x \notin Above(x) /\ x \in Above(o)
    BY <1>4, DominatesOrders
  <2>3. Above(x) \in B
    BY <2>1 DEF B
  <2> QED BY <1>3, <1>4, <2>2, <2>3
<1> QED BY <1>4, <1>5

\* A key that begins with the three measures, in any order, puts no solver
\* before one that dominates it.
LEMMA CheapestOnFrontier ==
  ASSUME NEW sums, Board(sums)
  PROVE  CheapestSolver(sums) \in ParetoFrontier(sums)
<1> DEFINE c == CheapestSolver(sums)
<1>1. c \in sums /\ \A o \in sums \ {c} : Before(CostKey(c), CostKey(o))
  BY CheapestIs
<1> HIDE DEF c
<1>2. ASSUME NEW o \in sums \ {c}, Dominates(o, c) PROVE FALSE
  <2>1. PICK i \in DOMAIN CostKey(c) :
          Less(CostKey(c)[i], CostKey(o)[i]) /\ \A j \in 1 .. i - 1 : Equal(CostKey(c)[j], CostKey(o)[j])
    BY <1>1 DEF Before
  <2>2. /\ DOMAIN CostKey(c) = 1 .. 4
        /\ CostKey(c)[1] = CostPerWin(c) /\ CostKey(c)[2] = Rate(c) /\ CostKey(c)[3] = LatencyPerWin(c)
        /\ CostKey(o)[1] = CostPerWin(o) /\ CostKey(o)[2] = Rate(o) /\ CostKey(o)[3] = LatencyPerWin(o)
    BY DEF CostKey, Rate
  <2>3. /\ ~Less(Rate(c), Rate(o)) /\ ~Less(CostPerWin(c), CostPerWin(o))
        /\ ~Less(LatencyPerWin(c), LatencyPerWin(o))
        /\ \/ Less(Rate(o), Rate(c)) \/ Less(CostPerWin(o), CostPerWin(c))
           \/ Less(LatencyPerWin(o), LatencyPerWin(c))
    BY <1>2, DominatesIs
  <2>4. i = 4
    BY <2>1, <2>2, <2>3
  <2>5. Equal(CostPerWin(c), CostPerWin(o)) /\ Equal(Rate(c), Rate(o)) /\ Equal(LatencyPerWin(c), LatencyPerWin(o))
    BY <2>1, <2>2, <2>4
  <2>6. \A s \in {c, o} : Rate(s) \in Quotient /\ CostPerWin(s) \in Quotient /\ LatencyPerWin(s) \in Quotient
    BY <1>1, RatesAre
  <2> QED BY <2>3, <2>5, <2>6, LessTotal
<1> QED BY <1>1, <1>2 DEF ParetoFrontier, c

LEMMA BestOnFrontier ==
  ASSUME NEW sums, Board(sums), \A s, o \in sums : s.tried = o.tried
  PROVE  BestSolver(sums) \in ParetoFrontier(sums)
<1> DEFINE b == BestSolver(sums)
<1>1. b \in sums /\ \A o \in sums \ {b} : Before(RankingKey(b), RankingKey(o))
  BY BestIs
<1> HIDE DEF b
<1>2. ASSUME NEW o \in sums \ {b}, Dominates(o, b) PROVE FALSE
  <2>1. PICK i \in DOMAIN RankingKey(b) :
          /\ Less(RankingKey(b)[i], RankingKey(o)[i])
          /\ \A j \in 1 .. i - 1 : Equal(RankingKey(b)[j], RankingKey(o)[j])
    BY <1>1 DEF Before
  <2>2. /\ DOMAIN RankingKey(b) = 1 .. 6
        /\ RankingKey(b)[1] = Rate(b) /\ RankingKey(b)[2] = <<-b.won, 1>>
        /\ RankingKey(b)[3] = CostPerWin(b) /\ RankingKey(b)[4] = LatencyPerWin(b)
        /\ RankingKey(o)[1] = Rate(o) /\ RankingKey(o)[2] = <<-o.won, 1>>
        /\ RankingKey(o)[3] = CostPerWin(o) /\ RankingKey(o)[4] = LatencyPerWin(o)
    BY DEF RankingKey, Rate
  <2>3. /\ ~Less(Rate(b), Rate(o)) /\ ~Less(CostPerWin(b), CostPerWin(o))
        /\ ~Less(LatencyPerWin(b), LatencyPerWin(o))
        /\ \/ Less(Rate(o), Rate(b)) \/ Less(CostPerWin(o), CostPerWin(b))
           \/ Less(LatencyPerWin(o), LatencyPerWin(b))
    BY <1>2, DominatesIs
  <2>4. ~Less(<<-b.won, 1>>, <<-o.won, 1>>)
    <3>1. /\ b.won \in Nat /\ o.won \in Nat /\ b.tried \in Nat /\ b.tried > 0 /\ o.tried = b.tried
      BY <1>1 DEF Board
    <3>2. ~(-b.won * b.tried < -o.won * b.tried)
      BY <2>3, <3>1 DEF Less, Rate
    <3>3. ~(-b.won < -o.won)
      BY <3>1, <3>2, Scale
    <3> QED BY <3>1, <3>3 DEF Less
  <2>5. i \in {5, 6}
    BY <2>1, <2>2, <2>3, <2>4
  <2>6. Equal(CostPerWin(b), CostPerWin(o)) /\ Equal(Rate(b), Rate(o)) /\ Equal(LatencyPerWin(b), LatencyPerWin(o))
    BY <2>1, <2>2, <2>5
  <2>7. \A s \in {b, o} : Rate(s) \in Quotient /\ CostPerWin(s) \in Quotient /\ LatencyPerWin(s) \in Quotient
    BY <1>1, RatesAre
  <2> QED BY <2>3, <2>6, <2>7, LessTotal
<1> QED BY <1>1, <1>2 DEF ParetoFrontier, b

\* None has a better rate than the best.
LEMMA BestRate ==
  ASSUME NEW sums, Board(sums), NEW o \in sums
  PROVE  ~Less(Rate(o), Rate(BestSolver(sums)))
<1> DEFINE b == BestSolver(sums)
<1>1. b \in sums /\ \A x \in sums \ {b} : Before(RankingKey(b), RankingKey(x))
  BY BestIs
<1> HIDE DEF b
<1>2. Rate(o) \in Quotient /\ Rate(b) \in Quotient
  BY <1>1, RatesAre
<1>3. CASE o = b
  BY <1>2, <1>3, LessTotal DEF b
<1>4. CASE o # b
  <2>1. PICK i \in DOMAIN RankingKey(b) :
          /\ Less(RankingKey(b)[i], RankingKey(o)[i])
          /\ \A j \in 1 .. i - 1 : Equal(RankingKey(b)[j], RankingKey(o)[j])
    BY <1>1, <1>4 DEF Before
  <2>2. DOMAIN RankingKey(b) = 1 .. 6 /\ RankingKey(b)[1] = Rate(b) /\ RankingKey(o)[1] = Rate(o)
    BY DEF RankingKey, Rate
  <2>3. Less(Rate(b), Rate(o)) \/ Equal(Rate(b), Rate(o))
    BY <2>1, <2>2
  <2> QED BY <1>2, <2>3, LessTotal DEF b
<1> QED BY <1>3, <1>4

Winners(sums) == {s \in sums : s.won > 0}
Within(sums, s) == {o \in Winners(sums) : ~Less(CostPerWin(s), CostPerWin(o))}

LEMMA WithinIs ==
  ASSUME NEW sums, Board(sums), NEW s \in Winners(sums)
  PROVE  Board(Within(sums, s)) /\ Within(sums, s) \subseteq sums
<1>1. CostPerWin(s) \in Quotient
  BY RatesAre DEF Winners
<1>2. s \in Within(sums, s)
  BY <1>1, LessTotal DEF Within
<1>3. Within(sums, s) \subseteq sums
  BY DEF Within, Winners
<1> QED BY <1>2, <1>3, PartOfBoard

LEMMA BudgetsAre ==
  ASSUME NEW sums, NEW b \in BudgetFrontier(sums)
  PROVE  \E s \in Winners(sums) : b.budget = CostPerWin(s) /\ b.best = BestSolver(Within(sums, s))
<1>1. BudgetFrontier(sums) =
        {[budget |-> CostPerWin(s), best |-> BestSolver(Within(sums, s))] : s \in Winners(sums)}
  BY DEF BudgetFrontier, Within, Winners
<1>2. PICK s \in Winners(sums) : b = [budget |-> CostPerWin(s), best |-> BestSolver(Within(sums, s))]
  BY <1>1
<1> QED BY <1>2

\* Whoever is within a budget is within a larger one.
LEMMA LargerBudget ==
  ASSUME NEW sums, Board(sums), NEW b \in BudgetFrontier(sums), NEW c \in BudgetFrontier(sums),
         Less(b.budget, c.budget)
  PROVE  ~Less(<<c.best.won, c.best.tried>>, <<b.best.won, b.best.tried>>)
<1>1. PICK s \in Winners(sums) : b.budget = CostPerWin(s) /\ b.best = BestSolver(Within(sums, s))
  BY BudgetsAre
<1>2. PICK t \in Winners(sums) : c.budget = CostPerWin(t) /\ c.best = BestSolver(Within(sums, t))
  BY BudgetsAre
<1>3. Within(sums, s) \subseteq Within(sums, t)
  <2> SUFFICES ASSUME NEW o \in Within(sums, s) PROVE ~Less(CostPerWin(t), CostPerWin(o))
    BY DEF Within
  <2>1. CostPerWin(o) \in Quotient /\ CostPerWin(s) \in Quotient /\ CostPerWin(t) \in Quotient
    BY RatesAre DEF Within, Winners
  <2>2. ~Less(CostPerWin(s), CostPerWin(o)) /\ ~Less(CostPerWin(t), CostPerWin(s))
    BY <1>1, <1>2, <2>1, LessTotal DEF Within
  <2> QED BY <2>1, <2>2, LessTransitive
<1>4. b.best \in Within(sums, t) /\ b.best \in sums /\ c.best \in sums
  BY <1>1, <1>2, <1>3, WithinIs, BestIs
<1>5. ~Less(Rate(b.best), Rate(c.best))
  BY <1>2, <1>4, WithinIs, BestRate
<1>6. b.best.won \in Int /\ b.best.tried \in Int /\ c.best.won \in Int /\ c.best.tried \in Int
  BY <1>4 DEF Board
<1>7. ASSUME NEW x \in Int, NEW y \in Int, NEW z \in Int, NEW u \in Int, ~((-x) * u < (-z) * y)
      PROVE  ~(z * y < x * u)
  <2>1. (-x) * u = -(x * u) /\ (-z) * y = -(z * y) /\ x * u \in Int /\ z * y \in Int
    OBVIOUS
  <2> QED BY <1>7, <2>1
<1>8. ~((-b.best.won) * c.best.tried < (-c.best.won) * b.best.tried)
  BY <1>5 DEF Less, Rate
<1>9. ~(c.best.won * b.best.tried < b.best.won * c.best.tried)
  BY <1>6, <1>7, <1>8
<1> QED BY <1>9 DEF Less

\* The best of all competes under the largest budget.
LEMMA LargestBudget ==
  ASSUME NEW sums, Board(sums), BudgetFrontier(sums) # {}
  PROVE  \E b \in BudgetFrontier(sums) : b.best = BestSolver(sums)
<1> DEFINE w == Winners(sums)
           best == BestSolver(sums)
           R == {p \in w \X w : ~Less(CostPerWin(p[1]), CostPerWin(p[2]))}
<1>1. \A x \in w : CostPerWin(x) \in Quotient
  BY RatesAre DEF Winners
<1>2. w # {} /\ IsFiniteSet(w)
  BY FS_Subset, BudgetsAre DEF Board, Winners
<1>3. \A x, y \in w : <<x, y>> \in R <=> ~Less(CostPerWin(x), CostPerWin(y))
  OBVIOUS
<1> HIDE DEF R, w
<1>4. Orders(R, w)
  <2>1. \A x, y \in w : x # y => <<x, y>> \in R \/ <<y, x>> \in R
    BY <1>1, <1>3, LessTotal
  <2>2. ASSUME NEW x \in w, NEW y \in w, NEW z \in w, <<x, y>> \in R, <<y, z>> \in R
        PROVE  <<x, z>> \in R
    <3>1. ~Less(CostPerWin(x), CostPerWin(y)) /\ ~Less(CostPerWin(y), CostPerWin(z))
      BY <1>3, <2>2
    <3>2. ~Less(CostPerWin(x), CostPerWin(z))
      BY <1>1, <3>1, LessTransitive
    <3> QED BY <1>3, <3>2
  <2> QED BY <2>1, <2>2 DEF Orders
<1>5. PICK top \in w : \A y \in w \ {top} : <<top, y>> \in R
  BY <1>2, <1>4, LeastExists
<1>6. Within(sums, top) = w
  <2>1. \A y \in w : ~Less(CostPerWin(top), CostPerWin(y))
    BY <1>1, <1>3, <1>5, LessTotal
  <2> QED BY <2>1 DEF w, Within
<1>7. best \in sums /\ \A o \in sums \ {best} : Before(RankingKey(best), RankingKey(o))
  BY BestIs
<1>8. ~Less(Rate(top), Rate(best))
  BY <1>5, BestRate DEF w, Winners
<1> HIDE DEF best
<1>9. best \in w
  <2> SUFFICES ASSUME best.won = 0 PROVE FALSE
    BY <1>7 DEF Board, w, Winners
  <2>1. top.won \in Nat /\ top.won > 0 /\ best.tried \in Nat /\ best.tried > 0 /\ top.tried \in Nat
    BY <1>5, <1>7 DEF Board, w, Winners
  <2>2. (-top.won) * best.tried < 0 * best.tried
    BY <2>1, Scale
  <2>3. 0 * best.tried = 0 /\ (-best.won) * top.tried = 0
    BY <2>1
  <2> QED BY <1>8, <2>2, <2>3 DEF Less, Rate
<1>10. best = BestSolver(w)
  <2>1. Board(w) /\ w \subseteq sums
    BY <1>5, <1>6, WithinIs DEF w
  <2> QED BY <1>7, <1>9, <2>1, BestIsOnly
<1> DEFINE b == [budget |-> CostPerWin(top), best |-> BestSolver(Within(sums, top))]
<1>11. b \in BudgetFrontier(sums)
  BY <1>5 DEF BudgetFrontier, Within, Winners, w
<1>12. b.best = best
  BY <1>6, <1>10
<1> QED BY <1>11, <1>12 DEF best

-----------------------------------------------------------------------------
(* A report: what the resolutions could have cost                          *)

\* The rows that resolve an instance at a known cost.
Offers(rows) == {r \in rows \ Unresolved(rows) : r.cost > 0}
Costs(S) == {r.cost : r \in S}
OffersAt(rows, i) == {r \in Offers(rows) : r.instance = i}
OffersOf(rows, s, i) == {r \in OffersAt(rows, i) : r.solver = s}
WonBy(rows, s) == {r.instance : r \in {x \in Offers(rows) : x.solver = s}}

LEMMA LeastCost ==
  ASSUME NEW rows, Rows(rows), NEW S \in SUBSET Offers(rows), S # {}
  PROVE  /\ Min(Costs(S)) \in Int /\ Min(Costs(S)) > 0
         /\ \A r \in S : Min(Costs(S)) <= r.cost
         /\ \E r \in S : Min(Costs(S)) = r.cost
<1>1. S \in SUBSET rows /\ \A r \in S : r.cost \in Int /\ r.cost > 0
  BY RowType DEF Rows, Offers
<1>2. IsFiniteSet(Costs(S)) /\ Costs(S) \in SUBSET Int /\ Costs(S) # {}
  <2>1. IsFiniteSet(S)
    BY <1>1, FS_Subset DEF Rows
  <2>2. IsFiniteSet(Costs(S))
    BY <2>1, ValuesFinite DEF Costs
  <2> QED BY <1>1, <2>2 DEF Costs
<1>3. Min(Costs(S)) \in Costs(S) /\ \A x \in Costs(S) : Min(Costs(S)) <= x
  BY <1>2, Extremes
<1> QED BY <1>1, <1>3 DEF Costs

LEMMA SavingsAre ==
  ASSUME NEW rows, Rows(rows), NEW s \in CostOpportunity(rows).savings
  PROVE  LET costs == CostOpportunity(rows)
         IN  /\ s.avoidable = s.spend - s.floor
             /\ s.floor <= costs.floor
             /\ s.solver = costs.leader /\ s.floor = costs.floor => costs.gap = s.avoidable
<1> DEFINE costs == CostOpportunity(rows)
           all == {r.instance : r \in Offers(rows)}
           spent(n) == [i \in WonBy(rows, n) |-> Min(Costs(OffersOf(rows, n, i)))]
           share(n) == [i \in WonBy(rows, n) |-> Min(Costs(OffersAt(rows, i)))]
           least == [i \in all |-> Min(Costs(OffersAt(rows, i)))]
           solvers == {m \in Summaries(rows) : WonBy(rows, m.solver) # {}}
           lead == BestSolver(solvers).solver
<1>1. /\ costs.floor = Total(least)
      /\ costs.savings = {[solver |-> m.solver, won |-> WonBy(rows, m.solver),
                           spend |-> Total(spent(m.solver)), floor |-> Total(share(m.solver)),
                           avoidable |-> Positive(Total(spent(m.solver)) - Total(share(m.solver)))]
                             : m \in solvers}
      /\ costs.leader = IF solvers = {} THEN 0 ELSE lead
      /\ costs.gap = IF solvers = {} THEN 0 ELSE Positive(Total(spent(lead)) - Total(least))
  BY DEF CostOpportunity, WonBy, OffersOf, OffersAt, Offers, Costs
<1>2. PICK m \in solvers :
        /\ s.solver = m.solver /\ s.spend = Total(spent(m.solver)) /\ s.floor = Total(share(m.solver))
        /\ s.avoidable = Positive(Total(spent(m.solver)) - Total(share(m.solver)))
  <2>1. s \in costs.savings
    OBVIOUS
  <2> HIDE DEF costs, spent, share, solvers
  <2>2. PICK m \in solvers :
          s = [solver |-> m.solver, won |-> WonBy(rows, m.solver),
               spend |-> Total(spent(m.solver)), floor |-> Total(share(m.solver)),
               avoidable |-> Positive(Total(spent(m.solver)) - Total(share(m.solver)))]
    BY <1>1, <2>1
  <2> QED BY <2>2
<1> DEFINE n == m.solver
           sp == spent(n)
           sh == share(n)
           won == WonBy(rows, n)
<1>3. IsFiniteSet(all) /\ IsFiniteSet(won) /\ won \in SUBSET all
  <2>1. IsFiniteSet(Offers(rows)) /\ IsFiniteSet({x \in Offers(rows) : x.solver = n})
    BY FS_Subset DEF Rows, Offers
  <2>2. IsFiniteSet(all) /\ IsFiniteSet(won)
    BY <2>1, ValuesFinite DEF WonBy
  <2> QED BY <2>2 DEF WonBy
<1>4. ASSUME NEW i \in all PROVE least[i] \in Int /\ least[i] >= 0
  <2>1. OffersAt(rows, i) # {} /\ OffersAt(rows, i) \in SUBSET Offers(rows)
    BY DEF OffersAt
  <2>2. Min(Costs(OffersAt(rows, i))) \in Int /\ Min(Costs(OffersAt(rows, i))) > 0
    BY <2>1, LeastCost
  <2> QED BY <2>2
<1>5. ASSUME NEW i \in won
      PROVE  sh[i] = least[i] /\ sp[i] \in Int /\ sh[i] <= sp[i]
  <2>1. OffersOf(rows, n, i) # {} /\ OffersOf(rows, n, i) \in SUBSET OffersAt(rows, i)
    BY DEF OffersOf, OffersAt, WonBy
  <2>2. OffersAt(rows, i) # {} /\ OffersAt(rows, i) \in SUBSET Offers(rows)
    BY <2>1 DEF OffersAt
  <2>3. OffersOf(rows, n, i) # {} /\ OffersOf(rows, n, i) \in SUBSET Offers(rows)
    BY <2>1, <2>2
  <2>4. PICK r \in OffersOf(rows, n, i) : Min(Costs(OffersOf(rows, n, i))) = r.cost
    BY <2>3, LeastCost
  <2>5. Min(Costs(OffersOf(rows, n, i))) \in Int
    BY <2>3, LeastCost
  <2>6. Min(Costs(OffersAt(rows, i))) <= r.cost
    BY <2>1, <2>2, LeastCost
  <2> QED BY <1>3, <2>4, <2>5, <2>6
<1>6. DOMAIN sp = won /\ DOMAIN sh = won /\ DOMAIN least = all
  OBVIOUS
<1>7. Total(sp) \in Int /\ Total(sh) \in Int /\ Total(sh) <= Total(sp) /\ Total(sh) <= Total(least)
  <2> HIDE DEF sp, sh, least, all, won
  <2>1. \A i \in won : least[i] \in Int /\ sh[i] \in Int /\ sp[i] \in Int /\ sh[i] <= sp[i] /\ sh[i] <= least[i]
    BY <1>3, <1>4, <1>5
  <2>2. Sum(sh, won) <= Sum(sp, won) /\ Sum(sh, won) <= Sum(least, won)
    BY <1>3, <2>1, SumLeq
  <2>3. Sum(least, won) <= Sum(least, all)
    BY <1>3, <1>4, SumOfPart
  <2>4. Sum(sh, won) \in Int /\ Sum(sp, won) \in Int /\ Sum(least, won) \in Int /\ Sum(least, all) \in Int
    BY <1>3, <1>4, <2>1, SumType
  <2>5. Total(sp) = Sum(sp, won) /\ Total(sh) = Sum(sh, won) /\ Total(least) = Sum(least, all)
    BY <1>6, TotalIsSum
  <2> QED BY <2>2, <2>3, <2>4, <2>5
<1>8. s.avoidable = s.spend - s.floor
  <2> HIDE DEF sp, sh
  <2> QED BY <1>2, <1>7 DEF Positive, sp, sh
<1>9. s.floor <= costs.floor
  BY <1>1, <1>2, <1>7
<1>10. ASSUME s.solver = costs.leader, s.floor = costs.floor PROVE costs.gap = s.avoidable
  <2>1. lead = m.solver
    BY <1>1, <1>2, <1>10
  <2> HIDE DEF lead, spent, share, least
  <2> QED BY <1>1, <1>2, <1>10, <2>1
<1> QED BY <1>8, <1>9, <1>10

\* Where every cost is known, each instance's oracle is some row that resolves
\* it and all that was paid for its pair.
LEMMA OracleOverFloor ==
  ASSUME NEW rows, Rows(rows), \A r \in rows : r.cost > 0, NEW i \in {r.instance : r \in Offers(rows)}
  PROVE  LET t == TableRow(Aggregates(rows), i)
         IN  /\ t \in RouterTable(rows) /\ t.instance = i /\ t.oracle.resolved
             /\ Min(Costs(OffersAt(rows, i))) <= t.oracle.cost
<1> DEFINE aggs == Aggregates(rows)
           own  == {g \in aggs : g.instance = i}
           t    == TableRow(aggs, i)
           o    == Oracle(own)
<1>1. Aggs(aggs) /\ aggs = {Aggregate(rows, p) : p \in {PairOf(r) : r \in rows}}
  BY AggregatesAre DEF Aggregates
<1>2. PICK r \in Offers(rows) : r.instance = i
  OBVIOUS
<1>3. r \in rows /\ r.resolved
  BY DEF Offers, Unresolved
<1>4. /\ Aggregate(rows, PairOf(r)) \in aggs /\ Aggregate(rows, PairOf(r)).instance = i
      /\ Aggregate(rows, PairOf(r)).resolved
  <2>1. Aggregate(rows, PairOf(r)).instance = PairOf(r)[2] /\ Aggregate(rows, PairOf(r)).resolved = r.resolved
    <3> DEFINE p == PairOf(r)
    <3>1. p \in {PairOf(x) : x \in rows} /\ PairOf(r) = p /\ r \in rows
      BY <1>3
    <3> HIDE DEF p, aggs
    <3>2. Aggregate(rows, p).instance = p[2] /\ Aggregate(rows, p).resolved = r.resolved
      BY <3>1, AggregateIs
    <3> QED BY <3>1, <3>2
  <2> QED BY <1>1, <1>2, <1>3, <2>1 DEF PairOf
<1>5. t \in RouterTable(rows) /\ t.instance = i /\ t.oracle = o
  BY <1>4 DEF RouterTable, TableRow
<1> HIDE DEF aggs, t
<1>6. Aggs(own) /\ \A g, h \in own : g.instance = h.instance
  <2>1. IsFiniteSet(own) /\ own # {}
    BY <1>1, <1>4, FS_Subset DEF Aggs
  <2> QED BY <1>1, <2>1 DEF Aggs
<1>7. \E g \in own : g.resolved
  BY <1>4
<1>8. o \in own /\ o.resolved
  <2> HIDE DEF own
  <2> QED BY <1>6, <1>7, OracleIs
<1> HIDE DEF o
<1>9. PICK q \in rows : o = Aggregate(rows, PairOf(q))
  BY <1>1, <1>8
<1>10. /\ o.instance = PairOf(q)[2] /\ o.resolved = q.resolved /\ Paid(q) <= o.cost /\ o.cost \in Nat
  BY <1>9, AggregateIs
<1>11. q \in OffersAt(rows, i)
  <2>1. q.instance = i /\ q.resolved
    BY <1>8, <1>10 DEF PairOf
  <2> QED BY <2>1 DEF OffersAt, Offers, Unresolved
<1>12. Min(Costs(OffersAt(rows, i))) <= q.cost /\ Min(Costs(OffersAt(rows, i))) \in Int
  <2>1. OffersAt(rows, i) \in SUBSET Offers(rows) /\ OffersAt(rows, i) # {}
    BY <1>11 DEF OffersAt
  <2> QED BY <1>11, <2>1, LeastCost
<1>13. Paid(q) = q.cost /\ q.cost \in Int
  BY RowType DEF Paid, Positive, Rows
<1>14. Min(Costs(OffersAt(rows, i))) <= o.cost
  BY <1>10, <1>12, <1>13
<1> QED BY <1>5, <1>8, <1>14 DEF t, aggs

LEMMA OracleCostType ==
  ASSUME NEW rows, Rows(rows), NEW t \in RouterTable(rows), t.oracle.resolved
  PROVE  t.oracle.cost \in Nat
<1> DEFINE aggs == Aggregates(rows)
<1>1. Aggs(aggs)
  BY AggregatesAre
<1>2. PICK i \in {g.instance : g \in aggs} : t.oracle = Oracle({g \in aggs : g.instance = i})
  <2>1. PICK i \in {g.instance : g \in aggs} : t = TableRow(aggs, i)
    BY DEF RouterTable
  <2>2. TableRow(aggs, i).oracle = Oracle({g \in aggs : g.instance = i})
    BY DEF TableRow
  <2> QED BY <2>1, <2>2
<1> HIDE DEF aggs
<1> DEFINE own == {g \in aggs : g.instance = i}
<1>3. Aggs(own) /\ \A g, h \in own : g.instance = h.instance
  <2>1. IsFiniteSet(own) /\ own # {}
    BY <1>1, FS_Subset DEF Aggs
  <2> QED BY <1>1, <2>1 DEF Aggs
<1> HIDE DEF own
<1>4. \E g \in own : g.resolved
  BY <1>2 DEF Oracle, own
<1>5. Oracle(own) \in own
  BY <1>3, <1>4, OracleIs
<1> QED BY <1>2, <1>3, <1>5 DEF Aggs, own

LEMMA FloorIsLow ==
  ASSUME NEW rows, Rows(rows), \A r \in rows : r.cost > 0
  PROVE  LET solved == {t \in RouterTable(rows) : t.oracle.resolved}
         IN  CostOpportunity(rows).floor <= Total([t \in solved |-> t.oracle.cost])
<1> DEFINE T == RouterTable(rows)
           solved == {t \in T : t.oracle.resolved}
           all == {r.instance : r \in Offers(rows)}
           least == [i \in all |-> Min(Costs(OffersAt(rows, i)))]
           cost == [t \in solved |-> t.oracle.cost]
           h == [i \in all |-> TableRow(Aggregates(rows), i)]
<1>1. CostOpportunity(rows).floor = Total(least)
  BY DEF CostOpportunity, OffersAt, Offers, Costs
<1>2. IsFiniteSet(all) /\ IsFiniteSet(solved)
  <2>1. IsFiniteSet(Offers(rows))
    BY FS_Subset DEF Rows, Offers
  <2>2. IsFiniteSet(all)
    BY <2>1, ValuesFinite
  <2>3. IsFiniteSet(T)
    BY TableIs DEF TableInv
  <2>4. IsFiniteSet(solved)
    BY <2>3, FS_Subset
  <2> QED BY <2>2, <2>4
<1>3. ASSUME NEW i \in all
      PROVE  /\ h[i] \in solved /\ h[i].instance = i
             /\ least[i] \in Int /\ least[i] <= cost[h[i]]
  <2> DEFINE t == TableRow(Aggregates(rows), i)
  <2>1. /\ t \in T /\ t.instance = i /\ t.oracle.resolved
        /\ Min(Costs(OffersAt(rows, i))) <= t.oracle.cost
    BY OracleOverFloor
  <2>2. Min(Costs(OffersAt(rows, i))) \in Int
    <3>1. OffersAt(rows, i) \in SUBSET Offers(rows) /\ OffersAt(rows, i) # {}
      BY DEF OffersAt
    <3> QED BY <3>1, LeastCost
  <2>3. h[i] = t /\ least[i] = Min(Costs(OffersAt(rows, i)))
    OBVIOUS
  <2> HIDE DEF T, h, least, t
  <2> QED BY <2>1, <2>2, <2>3
<1>4. \A t \in solved : cost[t] \in Int /\ cost[t] >= 0
  <2> SUFFICES ASSUME NEW t \in solved PROVE t.oracle.cost \in Int /\ t.oracle.cost >= 0
    OBVIOUS
  <2> QED BY OracleCostType
<1>5. /\ DOMAIN h = all /\ h = [i \in all |-> h[i]] /\ DOMAIN least = all /\ DOMAIN cost = solved
  OBVIOUS
<1> HIDE DEF h, all, least, cost, solved
<1>6. Sum(least, all) <= Sum(cost, solved)
  <2>1. \A i, j \in all : h[i] = h[j] => i = j
    BY <1>3
  <2> QED BY <1>2, <1>3, <1>4, <1>5, <2>1, SumUnder
<1> QED BY <1>1, <1>5, <1>6, TotalIsSum DEF solved, cost

LEMMA CoherentReport == AnalysisInv => ReportIsCoherent
<1> SUFFICES ASSUME AnalysisInv, At("tabling") PROVE ReportIsCoherent
  BY DEF ReportIsCoherent
<1> DEFINE rows == page.rows
           sums == Summaries(rows)
<1>1. Rows(rows)
  BY NowIs DEF AnalysisInv, AnalyzeInv
<1>2. Board(sums)
  BY <1>1, SummariesAre
<1>3. Total(FailureBreakdown(rows)) = Cardinality(Unresolved(rows))
  BY <1>1, BreakdownIs
<1>4. \A s \in CostOpportunity(rows).savings :
        /\ s.avoidable = s.spend - s.floor
        /\ s.floor <= CostOpportunity(rows).floor
        /\ s.solver = CostOpportunity(rows).leader /\ s.floor = CostOpportunity(rows).floor =>
             CostOpportunity(rows).gap = s.avoidable
  BY <1>1, SavingsAre
<1>5. (\A r \in rows : r.cost > 0) =>
        CostOpportunity(rows).floor <=
          Total([t \in {u \in RouterTable(rows) : u.oracle.resolved} |-> t.oracle.cost])
  BY <1>1, FloorIsLow
<1> HIDE DEF rows, sums
<1>6. /\ \A b, c \in BudgetFrontier(sums) :
           Less(b.budget, c.budget) =>
             ~Less(<<c.best.won, c.best.tried>>, <<b.best.won, b.best.tried>>)
      /\ BudgetFrontier(sums) # {} => \E b \in BudgetFrontier(sums) : b.best = BestSolver(sums)
  BY <1>2, LargerBudget, LargestBudget
<1>7. /\ \A s \in sums \ ParetoFrontier(sums) : \E o \in ParetoFrontier(sums) : Dominates(o, s)
      /\ CheapestSolver(sums) \in ParetoFrontier(sums)
      /\ (\A s, o \in sums : s.tried = o.tried) => BestSolver(sums) \in ParetoFrontier(sums)
  BY <1>2, FrontierDominates, CheapestOnFrontier, BestOnFrontier
<1> QED BY <1>3, <1>4, <1>5, <1>6, <1>7 DEF ReportIsCoherent, rows, sums

-----------------------------------------------------------------------------
(* Theorems                                                                *)

(***************************************************************************)
(* What Analysis keeps true throughout: the judgements on file and in the  *)
(* session under way are sound and one each, the count of what was paid,   *)
(* what a command carries from one file to the next, and every row of a    *)
(* routing table.                                                          *)
(***************************************************************************)
THEOREM AnalysisInvariant == Spec => []AnalysisInv
<1>1. AnalysisInv /\ [Next]_vars => AnalysisInv'
  BY RunStep, JudgeStep, PaidStep, AnalyzeStep, TrainStep DEF AnalysisInv
<1> QED BY <1>1, InitHolds, PTL DEF Spec

(***************************************************************************)
(* A judgement is paid for again only where an answer was lost: never more *)
(* often than commands failed and the run changed, whatever is judged, in  *)
(* any order and over however many commands.                               *)
(***************************************************************************)
THEOREM AlwaysPaidOnce == Spec => []PaidOnce
<1>1. AnalysisInv => PaidOnce
  <2> SUFFICES ASSUME AnalysisInv, NEW q \in DOMAIN bought PROVE bought[q] <= 1 + faults + changes
    BY DEF PaidOnce
  <2>1. /\ bought[q] \in Nat /\ faults \in Nat /\ changes \in Nat
        /\ bought[q] <= faults + changes + (IF q \in Held \cap Current THEN 1 ELSE 0)
    BY DEF AnalysisInv, PaidInv, RunInv
  <2> QED BY <2>1
<1> QED BY <1>1, AnalysisInvariant, PTL

(***************************************************************************)
(* A report that asked for judgements shows one of each patch, on the      *)
(* patch and verdict of this report, whatever was on file before.          *)
(***************************************************************************)
THEOREM JudgementsAlwaysCurrent == Spec => []JudgementsAreCurrent
BY ReportIsCurrent, AnalysisInvariant, PTL

(***************************************************************************)
(* No routing policy beats the oracle of its row, and the label of the row *)
(* says which solver is needed, for any attempts, costs and verdicts.      *)
(***************************************************************************)
THEOREM OracleAlwaysBest == Spec => []OracleIsBest
<1>1. AnalysisInv => OracleIsBest
  <2> SUFFICES ASSUME AnalysisInv, At("analyzed"), NEW t \in table.rows PROVE Facts(t)
    BY DEF OracleIsBest, Facts
  <2> QED BY DEF AnalysisInv, TrainInv, TableInv
<1> QED BY <1>1, AnalysisInvariant, PTL

(***************************************************************************)
(* A router is scored on rows it was not fitted on as soon as a label has  *)
(* two, whatever the shares; it never resolves more than the oracle; and   *)
(* scores left as a success are those of the model beside them.            *)
(***************************************************************************)
THEOREM ScoresAlwaysHonest == Spec => []ScoresAreHonest
<1>1. AnalysisInv => ScoresAreHonest
  <2> SUFFICES ASSUME AnalysisInv PROVE ScoresAreHonest
    OBVIOUS
  <2>0. TrainInv
    BY DEF AnalysisInv
  <2>1. "train-router" \in succeeded => scores.present /\ model.present /\ scores.tree = model.tree
    BY <2>0 DEF TrainInv
  <2>2. ASSUME At("trained")
        PROVE  LET report == scores.report
                   of(l)  == {t \in model.table : t.label = l}
               IN  /\ (\E l \in Labels : Cardinality(of(l)) > 1) =>
                        report.rows # {} /\ report.rows \cap model.fitted = {}
                   /\ report.learned.resolved <= report.solvable
                   /\ report.correct = Cardinality(report.rows) =>
                        report.learned.resolved = report.baselines.on_failure.resolved
    <3>0. PICK split \in AllSplits(model.table) :
            /\ TableInv(model.table) /\ model.fitted = FittedOn(split)
            /\ scores.report = RouterReport(EvaluatedOn(split), model.tree)
      BY <2>0, <2>2 DEF TrainInv
    <3>1. PICK f \in Fractions : split \in Splits(model.table, f[1], f[2])
      BY DEF AllSplits
    <3>2. /\ EvaluatedOn(split) \subseteq model.table
          /\ (\E l \in Labels : Cardinality({t \in model.table : t.label = l}) > 1) =>
               EvaluatedOn(split) # {} /\ EvaluatedOn(split) \cap FittedOn(split) = {}
      BY <3>0, <3>1, FromTable
    <3> DEFINE report == scores.report
    <3>3. /\ report.rows = EvaluatedOn(split)
          /\ report.learned.resolved <= report.solvable
          /\ report.correct = Cardinality(EvaluatedOn(split)) =>
               report.learned.resolved = report.baselines.on_failure.resolved
      BY <3>0, <3>2, ScoresAre
    <3> HIDE DEF report
    <3>4. /\ (\E l \in Labels : Cardinality({t \in model.table : t.label = l}) > 1) =>
               report.rows # {} /\ report.rows \cap model.fitted = {}
          /\ report.correct = Cardinality(report.rows) =>
               report.learned.resolved = report.baselines.on_failure.resolved
      BY <3>0, <3>2, <3>3 DEF report
    <3> QED BY <3>3, <3>4 DEF report
  <2> QED BY <2>1, <2>2 DEF ScoresAreHonest
<1> QED BY <1>1, AnalysisInvariant, PTL

(***************************************************************************)
(* The parts of a report agree with one another, for any attempts and any  *)
(* verdicts: the breakdown, the budgets, the frontier, the two rankings,   *)
(* the cost floor and the oracle of the routing table.                     *)
(***************************************************************************)
THEOREM ReportAlwaysCoherent == Spec => []ReportIsCoherent
BY CoherentReport, AnalysisInvariant, PTL
=============================================================================
