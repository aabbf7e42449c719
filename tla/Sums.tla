-------------------------------- MODULE Sums --------------------------------
(***************************************************************************)
(* What the proofs need to know of SumFunctionOnSet, by which the sums of  *)
(* weights in the models are written: it is a fold, a function defined by  *)
(* recursion over the subsets of a set.  That such a function exists, and  *)
(* all that is to be shown of every finite set, follows from a least       *)
(* counterexample: a set of which no strict subset is one.                 *)
(***************************************************************************)
EXTENDS Functions, Integers, FiniteSetTheorems, TLAPS

First(s) == CHOOSE x \in s : TRUE

(* g is the fold that SumFunctionOnSet evaluates on S.                     *)
IsFold(g, f, S) ==
  g = [s \in SUBSET S |-> IF s = {} THEN 0 ELSE f[First(s)] + g[s \ {First(s)}]]

Fold(f, S) == CHOOSE g : IsFold(g, f, S)

LEMMA FirstIn == \A s : s # {} => First(s) \in s
BY DEF First

LEMMA SumIsFold ==
  ASSUME NEW f, NEW S
  PROVE  SumFunctionOnSet(f, S) = Fold(f, S)[S]
BY DEF SumFunctionOnSet, FoldFunctionOnSet, MapThenFoldSet, IsFold, Fold, First

(* A set of subsets of a finite set has one that contains no other.        *)
LEMMA LeastSet ==
  ASSUME NEW S, IsFiniteSet(S), NEW Bad \in SUBSET (SUBSET S), Bad # {}
  PROVE  \E T \in Bad : \A U \in SUBSET T : U # T => U \notin Bad
<1>1. Bad \subseteq FiniteSubsetsOf(S)
  BY FS_FiniteSubsetsOfFinite
<1>2. \E T \in Bad : \A U \in Bad : ~ (<<U, T>> \in StrictSubsetOrdering(S))
  BY <1>1, FS_StrictSubsetOrderingWellFounded, WFMin
<1>3. QED
  BY <1>2 DEF StrictSubsetOrdering

(* The folds of a set and of a subset agree on what the subset contains.   *)
LEMMA FoldsAgree ==
  ASSUME NEW f, NEW S, IsFiniteSet(S), NEW T \in SUBSET S,
         NEW g, NEW h, IsFold(g, f, S), IsFold(h, f, T)
  PROVE  \A s \in SUBSET T : g[s] = h[s]
<1> DEFINE Bad == {s \in SUBSET T : g[s] # h[s]}
<1>1. SUFFICES ASSUME Bad # {}
               PROVE  FALSE
  OBVIOUS
<1>2. IsFiniteSet(T)
  BY FS_Subset
<1>3. PICK s \in Bad : \A u \in SUBSET s : u # s => u \notin Bad
  <2>1. Bad \in SUBSET (SUBSET T)
    OBVIOUS
  <2> HIDE DEF Bad
  <2>2. QED
    BY <1>1, <1>2, <2>1, LeastSet
<1>4. s \in SUBSET S /\ s \in SUBSET T
  BY <1>3
<1>5. CASE s = {}
  BY <1>3, <1>4, <1>5 DEF IsFold
<1>6. CASE s # {}
  <2> DEFINE u == s \ {First(s)}
  <2>1. u \in SUBSET s /\ u # s
    BY <1>6, FirstIn
  <2>2. g[u] = h[u]
    BY <1>3, <1>4, <2>1
  <2>3. g[s] = f[First(s)] + g[u] /\ h[s] = f[First(s)] + h[u]
    BY <1>4, <1>6 DEF IsFold
  <2>4. QED
    BY <1>3, <2>2, <2>3
<1>7. QED
  BY <1>5, <1>6

LEMMA FoldExists ==
  ASSUME NEW f, NEW S, IsFiniteSet(S)
  PROVE  IsFold(Fold(f, S), f, S)
<1> DEFINE Bad == {T \in SUBSET S : ~ \E g : IsFold(g, f, T)}
<1>1. SUFFICES Bad = {}
  BY DEF Fold
<1>2. SUFFICES ASSUME Bad # {}
               PROVE  FALSE
  OBVIOUS
<1>3. PICK T \in Bad : \A U \in SUBSET T : U # T => U \notin Bad
  <2>1. Bad \in SUBSET (SUBSET S)
    OBVIOUS
  <2> HIDE DEF Bad
  <2>2. QED
    BY <1>2, <2>1, LeastSet
<1>4. ASSUME NEW U \in SUBSET T, U # T
      PROVE  IsFiniteSet(U) /\ IsFold(Fold(f, U), f, U)
  <2>1. U \in SUBSET S /\ \E g : IsFold(g, f, U)
    BY <1>3, <1>4
  <2>2. QED
    BY <2>1, FS_Subset DEF Fold
<1> DEFINE value(u) == Fold(f, u)[u]
           G == [s \in SUBSET T |->
                   IF s = {} THEN 0 ELSE f[First(s)] + value(s \ {First(s)})]
<1>5. ASSUME NEW u \in SUBSET T, u # T
      PROVE  G[u] = value(u)
  <2>1. IsFold(Fold(f, u), f, u) /\ IsFiniteSet(u)
    BY <1>4, <1>5
  <2>2. value(u) = IF u = {} THEN 0 ELSE f[First(u)] + Fold(f, u)[u \ {First(u)}]
    BY <2>1 DEF IsFold
  <2>3. CASE u = {}
    BY <2>2, <2>3
  <2>4. CASE u # {}
    <3> DEFINE v == u \ {First(u)}
    <3>1. v \in SUBSET u /\ v \in SUBSET T /\ v # T
      BY <1>5, <2>4, FirstIn
    <3>2. IsFold(Fold(f, v), f, v)
      BY <1>4, <3>1
    <3>3. Fold(f, u)[v] = value(v)
      BY <2>1, <3>1, <3>2, FoldsAgree
    <3>4. QED
      BY <2>2, <2>4, <3>3
  <2>5. QED
    BY <2>3, <2>4
<1>6. IsFold(G, f, T)
  <2>1. ASSUME NEW s \in SUBSET T, s # {}
        PROVE  G[s] = f[First(s)] + G[s \ {First(s)}]
    <3>1. s \ {First(s)} \in SUBSET T /\ s \ {First(s)} # T
      BY <2>1, FirstIn
    <3>2. G[s] = f[First(s)] + value(s \ {First(s)})
      BY <2>1
    <3> HIDE DEF G, value
    <3>3. QED
      BY <1>5, <3>1, <3>2
  <2>2. {} \in SUBSET T /\ G[{}] = 0
    OBVIOUS
  <2>3. G = [s \in SUBSET T |-> G[s]]
    OBVIOUS
  <2> HIDE DEF G
  <2>4. QED
    BY <2>1, <2>2, <2>3 DEF IsFold
<1>7. QED
  BY <1>3, <1>6

-----------------------------------------------------------------------------
LEMMA SumOfNone == \A f : SumFunctionOnSet(f, {}) = 0
<1> SUFFICES ASSUME NEW f
             PROVE  SumFunctionOnSet(f, {}) = 0
  OBVIOUS
<1>1. IsFold(Fold(f, {}), f, {})
  BY FS_EmptySet, FoldExists
<1>2. Fold(f, {})[{}] = 0
  BY <1>1 DEF IsFold
<1>3. QED
  BY <1>2, SumIsFold

LEMMA SumUnfolds ==
  ASSUME NEW f, NEW S, IsFiniteSet(S), S # {}
  PROVE  SumFunctionOnSet(f, S) =
           f[First(S)] + SumFunctionOnSet(f, S \ {First(S)})
<1> DEFINE u == S \ {First(S)}
<1>1. u \in SUBSET S /\ IsFiniteSet(u)
  BY FS_Subset
<1>2. IsFold(Fold(f, S), f, S) /\ IsFold(Fold(f, u), f, u)
  BY <1>1, FoldExists
<1>3. Fold(f, S)[S] = f[First(S)] + Fold(f, S)[u]
  BY <1>2 DEF IsFold
<1>4. Fold(f, S)[u] = Fold(f, u)[u]
  <2>1. u \in SUBSET u
    OBVIOUS
  <2> HIDE DEF u
  <2>2. QED
    BY <1>1, <1>2, <2>1, FoldsAgree
<1>5. QED
  BY <1>3, <1>4, SumIsFold

(* Whether a property of sums holds of a set is settled by whether it does *)
(* once the first element is taken away.                                   *)
LEMMA SumInt ==
  ASSUME NEW f, NEW S, IsFiniteSet(S), \A x \in S : f[x] \in Int
  PROVE  SumFunctionOnSet(f, S) \in Int
<1> DEFINE Bad == {T \in SUBSET S : SumFunctionOnSet(f, T) \notin Int}
<1>1. SUFFICES ASSUME Bad # {}
               PROVE  FALSE
  OBVIOUS
<1>2. PICK T \in Bad : \A U \in SUBSET T : U # T => U \notin Bad
  <2>1. Bad \in SUBSET (SUBSET S)
    OBVIOUS
  <2> HIDE DEF Bad
  <2>2. QED
    BY <1>1, <2>1, LeastSet
<1>3. T # {} /\ IsFiniteSet(T)
  <2>1. {} \notin Bad
    BY SumOfNone
  <2>2. QED
    BY <1>2, <2>1, FS_Subset
<1>4. SumFunctionOnSet(f, T) = f[First(T)] + SumFunctionOnSet(f, T \ {First(T)})
  BY <1>3, SumUnfolds
<1>5. First(T) \in S /\ SumFunctionOnSet(f, T \ {First(T)}) \in Int
  BY <1>2, <1>3, FirstIn
<1>6. QED
  BY <1>2, <1>4, <1>5

LEMMA SumEqual ==
  ASSUME NEW f, NEW g, NEW S, IsFiniteSet(S), \A x \in S : f[x] = g[x]
  PROVE  SumFunctionOnSet(f, S) = SumFunctionOnSet(g, S)
<1> DEFINE Bad == {T \in SUBSET S : SumFunctionOnSet(f, T) # SumFunctionOnSet(g, T)}
<1>1. SUFFICES ASSUME Bad # {}
               PROVE  FALSE
  OBVIOUS
<1>2. PICK T \in Bad : \A U \in SUBSET T : U # T => U \notin Bad
  <2>1. Bad \in SUBSET (SUBSET S)
    OBVIOUS
  <2> HIDE DEF Bad
  <2>2. QED
    BY <1>1, <2>1, LeastSet
<1>3. T # {} /\ IsFiniteSet(T)
  <2>1. {} \notin Bad
    BY SumOfNone
  <2>2. QED
    BY <1>2, <2>1, FS_Subset
<1>4. /\ SumFunctionOnSet(f, T) = f[First(T)] + SumFunctionOnSet(f, T \ {First(T)})
      /\ SumFunctionOnSet(g, T) = g[First(T)] + SumFunctionOnSet(g, T \ {First(T)})
  BY <1>3, SumUnfolds
<1>5. /\ First(T) \in S
      /\ SumFunctionOnSet(f, T \ {First(T)}) = SumFunctionOnSet(g, T \ {First(T)})
  BY <1>2, <1>3, FirstIn
<1>6. QED
  BY <1>2, <1>4, <1>5

(* Any element may be counted first.                                       *)
LEMMA SumRemove ==
  ASSUME NEW f, NEW S, IsFiniteSet(S), \A x \in S : f[x] \in Int, NEW y \in S
  PROVE  SumFunctionOnSet(f, S) = f[y] + SumFunctionOnSet(f, S \ {y})
<1> DEFINE Wrong(T) == \E z \in T :
             SumFunctionOnSet(f, T) # f[z] + SumFunctionOnSet(f, T \ {z})
           Bad == {T \in SUBSET S : Wrong(T)}
<1>1. SUFFICES ASSUME Bad # {}
               PROVE  FALSE
  OBVIOUS
<1>2. PICK T \in Bad : \A U \in SUBSET T : U # T => U \notin Bad
  <2>1. Bad \in SUBSET (SUBSET S)
    OBVIOUS
  <2> HIDE DEF Bad
  <2>2. QED
    BY <1>1, <2>1, LeastSet
<1>3. PICK z \in T : SumFunctionOnSet(f, T) # f[z] + SumFunctionOnSet(f, T \ {z})
  BY <1>2
<1>4. IsFiniteSet(T) /\ T \in SUBSET S
  BY <1>2, FS_Subset
<1> DEFINE x == First(T)
<1>5. x \in T /\ SumFunctionOnSet(f, T) = f[x] + SumFunctionOnSet(f, T \ {x})
  BY <1>3, <1>4, FirstIn, SumUnfolds
<1> HIDE DEF x
<1>6. x # z
  BY <1>3, <1>5
<1>7. SumFunctionOnSet(f, T \ {x}) = f[z] + SumFunctionOnSet(f, (T \ {x}) \ {z})
  <2>1. T \ {x} \in SUBSET T /\ T \ {x} # T /\ z \in T \ {x}
    BY <1>5, <1>6
  <2>2. ~ Wrong(T \ {x})
    BY <1>2, <1>4, <2>1
  <2>3. QED
    BY <2>1, <2>2
<1>8. SumFunctionOnSet(f, T \ {z}) = f[x] + SumFunctionOnSet(f, (T \ {x}) \ {z})
  <2>1. T \ {z} \in SUBSET T /\ T \ {z} # T /\ x \in T \ {z}
    BY <1>5, <1>6
  <2>2. ~ Wrong(T \ {z})
    BY <1>2, <1>4, <2>1
  <2>3. (T \ {z}) \ {x} = (T \ {x}) \ {z}
    OBVIOUS
  <2>4. SumFunctionOnSet(f, T \ {z}) = f[x] + SumFunctionOnSet(f, (T \ {z}) \ {x})
    BY <2>1, <2>2
  <2>5. QED
    BY <2>3, <2>4
<1>9. f[x] \in Int /\ f[z] \in Int
  BY <1>4, <1>5
<1>10. SumFunctionOnSet(f, (T \ {x}) \ {z}) \in Int
  <2>1. IsFiniteSet((T \ {x}) \ {z}) /\ (T \ {x}) \ {z} \subseteq S
    BY <1>4, FS_Subset
  <2>2. QED
    BY <2>1, SumInt
<1> DEFINE rest == SumFunctionOnSet(f, (T \ {x}) \ {z})
<1>11. SumFunctionOnSet(f, T) = f[x] + (f[z] + rest)
  BY <1>5, <1>7
<1>12. SumFunctionOnSet(f, T \ {z}) = f[x] + rest
  BY <1>8
<1>13. rest \in Int
  BY <1>10
<1> HIDE DEF rest
<1>14. f[x] + (f[z] + rest) = f[z] + (f[x] + rest)
  BY <1>9, <1>13
<1>15. QED
  BY <1>3, <1>11, <1>12, <1>14

LEMMA SumUnion ==
  ASSUME NEW f, NEW S, NEW T, IsFiniteSet(S), IsFiniteSet(T), S \cap T = {},
         \A x \in S \cup T : f[x] \in Int
  PROVE  SumFunctionOnSet(f, S \cup T) = SumFunctionOnSet(f, S) + SumFunctionOnSet(f, T)
<1> DEFINE Bad == {U \in SUBSET T :
             SumFunctionOnSet(f, S \cup U) # SumFunctionOnSet(f, S) + SumFunctionOnSet(f, U)}
<1>1. SUFFICES ASSUME Bad # {}
               PROVE  FALSE
  OBVIOUS
<1>2. PICK U \in Bad : \A V \in SUBSET U : V # U => V \notin Bad
  <2>1. Bad \in SUBSET (SUBSET T)
    OBVIOUS
  <2> HIDE DEF Bad
  <2>2. QED
    BY <1>1, <2>1, LeastSet
<1>3. SumFunctionOnSet(f, S) \in Int
  BY SumInt
<1>4. U # {}
  <2>1. S \cup {} = S
    OBVIOUS
  <2>2. {} \notin Bad
    BY <1>3, <2>1, SumOfNone
  <2>3. QED
    BY <1>2, <2>2
<1>5. PICK y \in U : TRUE
  BY <1>4
<1>6. U \in SUBSET T /\ IsFiniteSet(U) /\ IsFiniteSet(S \cup U)
  BY <1>2, FS_Subset, FS_Union
<1>7. SumFunctionOnSet(f, U) = f[y] + SumFunctionOnSet(f, U \ {y})
  BY <1>6, SumRemove
<1>8. SumFunctionOnSet(f, S \cup U) = f[y] + SumFunctionOnSet(f, S \cup (U \ {y}))
  <2>1. (S \cup U) \ {y} = S \cup (U \ {y})
    BY <1>6
  <2>2. QED
    BY <1>6, <2>1, SumRemove
<1>9. SumFunctionOnSet(f, S \cup (U \ {y}))
        = SumFunctionOnSet(f, S) + SumFunctionOnSet(f, U \ {y})
  BY <1>2, <1>6
<1>10. f[y] \in Int /\ SumFunctionOnSet(f, U \ {y}) \in Int
  <2>1. IsFiniteSet(U \ {y})
    BY <1>6, FS_Subset
  <2>2. QED
    BY <1>6, <2>1, SumInt
<1>11. QED
  BY <1>2, <1>3, <1>7, <1>8, <1>9, <1>10

(* The sum over a set is that over a subset and over the rest.             *)
LEMMA SumSplit ==
  ASSUME NEW f, NEW S, IsFiniteSet(S), \A x \in S : f[x] \in Int, NEW T \in SUBSET S
  PROVE  SumFunctionOnSet(f, S) = SumFunctionOnSet(f, T) + SumFunctionOnSet(f, S \ T)
<1>1. IsFiniteSet(T) /\ IsFiniteSet(S \ T)
  BY FS_Subset
<1>2. T \cup (S \ T) = S /\ T \cap (S \ T) = {}
  OBVIOUS
<1>3. SumFunctionOnSet(f, T \cup (S \ T)) = SumFunctionOnSet(f, T) + SumFunctionOnSet(f, S \ T)
  BY <1>1, <1>2, SumUnion
<1>4. QED
  BY <1>2, <1>3

LEMMA SumPlus ==
  ASSUME NEW f, NEW g, NEW h, NEW S, IsFiniteSet(S),
         \A x \in S : f[x] \in Int /\ g[x] \in Int /\ h[x] = f[x] + g[x]
  PROVE  SumFunctionOnSet(h, S) = SumFunctionOnSet(f, S) + SumFunctionOnSet(g, S)
<1> DEFINE Bad == {T \in SUBSET S :
             SumFunctionOnSet(h, T) # SumFunctionOnSet(f, T) + SumFunctionOnSet(g, T)}
<1>1. SUFFICES ASSUME Bad # {}
               PROVE  FALSE
  OBVIOUS
<1>2. PICK T \in Bad : \A U \in SUBSET T : U # T => U \notin Bad
  <2>1. Bad \in SUBSET (SUBSET S)
    OBVIOUS
  <2> HIDE DEF Bad
  <2>2. QED
    BY <1>1, <2>1, LeastSet
<1>3. T # {} /\ IsFiniteSet(T)
  <2>1. {} \notin Bad
    BY SumOfNone
  <2>2. QED
    BY <1>2, <2>1, FS_Subset
<1> DEFINE x == First(T)
           R == T \ {x}
<1>4. x \in S /\ R \in SUBSET T /\ R # T
  BY <1>2, <1>3, FirstIn
<1>5. /\ SumFunctionOnSet(f, T) = f[x] + SumFunctionOnSet(f, R)
      /\ SumFunctionOnSet(g, T) = g[x] + SumFunctionOnSet(g, R)
      /\ SumFunctionOnSet(h, T) = h[x] + SumFunctionOnSet(h, R)
  BY <1>3, SumUnfolds
<1>6. SumFunctionOnSet(h, R) = SumFunctionOnSet(f, R) + SumFunctionOnSet(g, R)
  BY <1>2, <1>4
<1>7. SumFunctionOnSet(f, R) \in Int /\ SumFunctionOnSet(g, R) \in Int
  <2>1. IsFiniteSet(R) /\ R \subseteq S
    BY <1>2, <1>3, <1>4, FS_Subset
  <2> HIDE DEF R, x
  <2>2. QED
    BY <2>1, SumInt
<1> HIDE DEF R, x
<1>8. QED
  BY <1>2, <1>4, <1>5, <1>6, <1>7

LEMMA SumLeq ==
  ASSUME NEW f, NEW g, NEW S, IsFiniteSet(S),
         \A x \in S : f[x] \in Int /\ g[x] \in Int /\ f[x] <= g[x]
  PROVE  SumFunctionOnSet(f, S) <= SumFunctionOnSet(g, S)
<1> DEFINE Bad == {T \in SUBSET S : ~ (SumFunctionOnSet(f, T) <= SumFunctionOnSet(g, T))}
<1>1. SUFFICES ASSUME Bad # {}
               PROVE  FALSE
  OBVIOUS
<1>2. PICK T \in Bad : \A U \in SUBSET T : U # T => U \notin Bad
  <2>1. Bad \in SUBSET (SUBSET S)
    OBVIOUS
  <2> HIDE DEF Bad
  <2>2. QED
    BY <1>1, <2>1, LeastSet
<1>3. T # {} /\ IsFiniteSet(T)
  <2>1. {} \notin Bad
    BY SumOfNone
  <2>2. QED
    BY <1>2, <2>1, FS_Subset
<1> DEFINE x == First(T)
           R == T \ {x}
<1>4. x \in S /\ R \in SUBSET T /\ R # T
  BY <1>2, <1>3, FirstIn
<1>5. /\ SumFunctionOnSet(f, T) = f[x] + SumFunctionOnSet(f, R)
      /\ SumFunctionOnSet(g, T) = g[x] + SumFunctionOnSet(g, R)
  BY <1>3, SumUnfolds
<1>6. SumFunctionOnSet(f, R) <= SumFunctionOnSet(g, R)
  BY <1>2, <1>4
<1>7. SumFunctionOnSet(f, R) \in Int /\ SumFunctionOnSet(g, R) \in Int
  <2>1. IsFiniteSet(R) /\ R \subseteq S
    BY <1>2, <1>3, <1>4, FS_Subset
  <2> HIDE DEF R, x
  <2>2. QED
    BY <2>1, SumInt
<1> HIDE DEF R, x
<1>8. QED
  BY <1>2, <1>4, <1>5, <1>6, <1>7

LEMMA SumNat ==
  ASSUME NEW f, NEW S, IsFiniteSet(S), \A x \in S : f[x] \in Nat
  PROVE  SumFunctionOnSet(f, S) \in Nat
<1> DEFINE Bad == {T \in SUBSET S : SumFunctionOnSet(f, T) \notin Nat}
<1>1. SUFFICES ASSUME Bad # {}
               PROVE  FALSE
  OBVIOUS
<1>2. PICK T \in Bad : \A U \in SUBSET T : U # T => U \notin Bad
  <2>1. Bad \in SUBSET (SUBSET S)
    OBVIOUS
  <2> HIDE DEF Bad
  <2>2. QED
    BY <1>1, <2>1, LeastSet
<1>3. T # {} /\ IsFiniteSet(T)
  <2>1. {} \notin Bad
    BY SumOfNone
  <2>2. QED
    BY <1>2, <2>1, FS_Subset
<1>4. SumFunctionOnSet(f, T) = f[First(T)] + SumFunctionOnSet(f, T \ {First(T)})
  BY <1>3, SumUnfolds
<1>5. First(T) \in S /\ SumFunctionOnSet(f, T \ {First(T)}) \in Nat
  BY <1>2, <1>3, FirstIn
<1>6. QED
  BY <1>2, <1>4, <1>5

(* Elements that count nothing may be left out.                            *)
LEMMA SumZero ==
  ASSUME NEW f, NEW S, IsFiniteSet(S), \A x \in S : f[x] = 0
  PROVE  SumFunctionOnSet(f, S) = 0
<1>1. \A x \in S : f[x] \in Nat /\ f[x] \in Int /\ [y \in S |-> 0][x] = f[x]
  OBVIOUS
<1>2. SumFunctionOnSet(f, S) = SumFunctionOnSet(f, S) + SumFunctionOnSet(f, S)
  BY SumPlus
<1>3. SumFunctionOnSet(f, S) \in Int
  BY <1>1, SumInt
<1>4. \A n \in Int : n = n + n => n = 0
  OBVIOUS
<1> HIDE DEF SumFunctionOnSet
<1>5. QED
  BY <1>2, <1>3, <1>4

LEMMA SumSupport ==
  ASSUME NEW f, NEW S, IsFiniteSet(S), \A x \in S : f[x] \in Int,
         NEW T \in SUBSET S, \A x \in S \ T : f[x] = 0
  PROVE  SumFunctionOnSet(f, S) = SumFunctionOnSet(f, T)
<1>1. SumFunctionOnSet(f, S) = SumFunctionOnSet(f, T) + SumFunctionOnSet(f, S \ T)
  BY SumSplit
<1>2. IsFiniteSet(S \ T) /\ IsFiniteSet(T)
  BY FS_Subset
<1>3. SumFunctionOnSet(f, S \ T) = 0 /\ SumFunctionOnSet(f, T) \in Int
  BY <1>2, SumZero, SumInt
<1>4. QED
  BY <1>1, <1>3

(* The sum of f over T is that over a larger set of what f is on T.         *)
LEMMA SumRestricted ==
  ASSUME NEW f, NEW g, NEW S, IsFiniteSet(S), NEW T \in SUBSET S,
         \A x \in T : f[x] \in Int,
         \A x \in S : g[x] = IF x \in T THEN f[x] ELSE 0
  PROVE  SumFunctionOnSet(f, T) = SumFunctionOnSet(g, S)
<1>1. SumFunctionOnSet(g, S) = SumFunctionOnSet(g, T)
  BY SumSupport
<1>2. IsFiniteSet(T)
  BY FS_Subset
<1>3. SumFunctionOnSet(f, T) = SumFunctionOnSet(g, T)
  BY <1>2, SumEqual
<1>4. QED
  BY <1>1, <1>3

-----------------------------------------------------------------------------
(* A set of natural numbers has a least one.                               *)
LEMMA LeastNat ==
  ASSUME NEW S \in SUBSET Nat, S # {}
  PROVE  \E m \in S : \A k \in S : m <= k
<1>1. PICK n \in S : TRUE
  OBVIOUS
<1> DEFINE Below == {0 .. k : k \in {j \in S : j <= n}}
<1>2. IsFiniteSet(0 .. n)
  BY <1>1, FS_Interval
<1>3. Below \in SUBSET (SUBSET (0 .. n)) /\ Below # {}
  BY <1>1
<1>4. PICK T \in Below : \A U \in SUBSET T : U # T => U \notin Below
  <2> HIDE DEF Below
  <2>1. QED
    BY <1>2, <1>3, LeastSet
<1>5. PICK m \in S : m <= n /\ T = 0 .. m
  BY <1>4
<1>6. ASSUME NEW k \in S, ~ m <= k
      PROVE  FALSE
  <2>1. k \in Nat /\ m \in Nat /\ n \in Nat /\ k < m /\ k <= n
    BY <1>1, <1>5, <1>6
  <2>2. 0 .. k \in Below
    BY <2>1
  <2>3. 0 .. k \in SUBSET T /\ m \in T /\ m \notin 0 .. k
    BY <1>5, <2>1
  <2>4. QED
    BY <1>4, <2>2, <2>3
<1>7. QED
  BY <1>5, <1>6

(* What holds of 0, and of each number up to n if it does of the one before, *)
(* holds up to n.                                                          *)
LEMMA UpTo ==
  ASSUME NEW n \in Nat, NEW S, 0 \in S, \A i \in 1 .. n : i - 1 \in S => i \in S
  PROVE  \A i \in 0 .. n : i \in S
<1> DEFINE Bad == {i \in 0 .. n : i \notin S}
<1>1. SUFFICES ASSUME Bad # {}
               PROVE  FALSE
  OBVIOUS
<1>2. PICK m \in Bad : \A l \in Bad : m <= l
  <2>1. Bad \in SUBSET Nat
    OBVIOUS
  <2> HIDE DEF Bad
  <2>2. QED
    BY <1>1, <2>1, LeastNat
<1>3. m \in 1 .. n /\ m - 1 \in 0 .. n /\ ~ m <= m - 1
  BY <1>2
<1>4. m - 1 \in S
  BY <1>2, <1>3
<1>5. QED
  BY <1>2, <1>3, <1>4

(* A recursion over the numbers up to n is met by a function.              *)
Recurs(f, D, d, n, g) ==
  /\ f \in [0 .. n -> D]
  /\ f[0] = d /\ \A i \in 1 .. n : f[i] = g[<<i, f[i - 1]>>]

LEMMA Recursion ==
  ASSUME NEW D, NEW d \in D, NEW n \in Nat, NEW g \in [(1 .. n) \X D -> D]
  PROVE  \E f : Recurs(f, D, d, n, g)
<1> USE DEF Recurs
<1> DEFINE Good(m) == \E f : Recurs(f, D, d, m, g)
           Bad == {m \in 0 .. n : ~ Good(m)}
<1>1. SUFFICES ASSUME Bad # {}
               PROVE  FALSE
  <2>1. n \in 0 .. n
    OBVIOUS
  <2>2. Bad = {} => Good(n)
    <3> HIDE DEF Good
    <3>1. QED
      BY <2>1
  <2>3. QED
    BY <2>2
<1>2. PICK m \in Bad : \A l \in Bad : m <= l
  <2>1. Bad \in SUBSET Nat
    OBVIOUS
  <2> HIDE DEF Bad
  <2>2. QED
    BY <1>1, <2>1, LeastNat
<1>3. CASE m = 0
  <2>1. [x \in 0 .. 0 |-> d] \in [0 .. 0 -> D] /\ [x \in 0 .. 0 |-> d][0] = d
    OBVIOUS
  <2>2. \A i \in 1 .. 0 : FALSE
    OBVIOUS
  <2>3. Good(0)
    BY <2>1, <2>2
  <2>4. QED
    BY <1>2, <1>3, <2>3
<1>4. CASE m # 0
  <2>1. m \in 1 .. n /\ m - 1 \in 0 .. n /\ ~ m <= m - 1
    BY <1>2, <1>4
  <2>2. Good(m - 1)
    BY <1>2, <2>1
  <2>3. PICK f \in [0 .. (m - 1) -> D] :
          f[0] = d /\ \A i \in 1 .. (m - 1) : f[i] = g[<<i, f[i - 1]>>]
    BY <2>2
  <2> DEFINE h == [x \in 0 .. m |-> IF x < m THEN f[x] ELSE g[<<m, f[m - 1]>>]]
  <2>4. f[m - 1] \in D /\ g[<<m, f[m - 1]>>] \in D
    <3>1. m - 1 \in 0 .. (m - 1)
      BY <2>1
    <3>2. f[m - 1] \in D
      BY <2>3, <3>1
    <3>3. QED
      BY <2>1, <3>2
  <2>5. h \in [0 .. m -> D]
    <3>1. ASSUME NEW x \in 0 .. m
          PROVE  (IF x < m THEN f[x] ELSE g[<<m, f[m - 1]>>]) \in D
      <4>1. x < m => x \in 0 .. (m - 1)
        BY <2>1
      <4>2. QED
        BY <2>3, <2>4, <4>1
    <3>2. QED
      BY <3>1
  <2>6. h[0] = d
    BY <2>1, <2>3
  <2>7. ASSUME NEW i \in 1 .. m
        PROVE  h[i] = g[<<i, h[i - 1]>>]
    <3>1. i - 1 \in 0 .. m /\ i - 1 < m
      BY <2>1
    <3>2. h[i - 1] = f[i - 1]
      BY <3>1
    <3>3. CASE i = m
      <4>1. h[i] = g[<<m, f[m - 1]>>]
        BY <2>1, <3>3
      <4>2. QED
        BY <3>2, <3>3, <4>1
    <3>4. CASE i # m
      <4>1. i \in 1 .. (m - 1) /\ i < m /\ i \in 0 .. m
        BY <2>1, <3>4
      <4>2. h[i] = f[i]
        BY <4>1
      <4>3. QED
        BY <2>3, <3>2, <4>1, <4>2
    <3>5. QED
      BY <3>3, <3>4
  <2>8. Good(m)
    <3> HIDE DEF h
    <3>1. QED
      BY <2>5, <2>6, <2>7
  <2>9. QED
    BY <1>2, <2>8
<1>5. QED
  BY <1>3, <1>4

LEMMA DisjointCount ==
  ASSUME NEW S, NEW T, IsFiniteSet(S), IsFiniteSet(T), S \cap T = {}
  PROVE  /\ IsFiniteSet(S \cup T)
         /\ Cardinality(S \cup T) = Cardinality(S) + Cardinality(T)
         /\ Cardinality(S) \in Nat /\ Cardinality(T) \in Nat
<1>1. Cardinality(S) \in Nat /\ Cardinality(T) \in Nat
  BY FS_CardinalityType
<1>2. /\ IsFiniteSet(S \cup T)
      /\ Cardinality(S \cup T) = Cardinality(S) + Cardinality(T) - Cardinality(S \cap T)
  BY FS_Union
<1>3. Cardinality(S \cap T) = 0
  BY FS_EmptySet
<1>4. QED
  BY <1>1, <1>2, <1>3
=============================================================================
