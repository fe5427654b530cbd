------------------------------ MODULE SumProofs ------------------------------
(***************************************************************************)
(* What the sums of the models do, for any finite set of indices: they do   *)
(* not depend on the order of the terms, they add up over parts and over    *)
(* fibres, and they are monotone.  SumFunctionOnSet is a fold; it equals a  *)
(* function on the subsets of the set, and a claim about every subset       *)
(* follows by taking a smallest one that fails it.                          *)
(***************************************************************************)
EXTENDS Functions, FiniteSetTheorems, WellFoundedInduction, TLAPS

Pick(s) == CHOOSE x \in s : TRUE

LEMMA PickIn ==
    ASSUME NEW s, s # {}
    PROVE  Pick(s) \in s
BY DEF Pick

\* A set of subsets that holds a set with all smaller ones holds every subset.
LEMMA SubsetInduction ==
    ASSUME NEW S, IsFiniteSet(S), NEW Good,
           \A t \in SUBSET S : (\A u \in SUBSET t : u # t => u \in Good) => t \in Good
    PROVE  SUBSET S \subseteq Good
PROOF
<1> DEFINE Bad == {t \in SUBSET S : t \notin Good}
<1> SUFFICES ASSUME Bad # {} PROVE FALSE  OBVIOUS
<1>1. IsWellFoundedOn(StrictSubsetOrdering(S), SUBSET S)
  <2>1. FiniteSubsetsOf(S) = SUBSET S  BY FS_FiniteSubsetsOfFinite
  <2>2. IsWellFoundedOn(StrictSubsetOrdering(S), FiniteSubsetsOf(S))
    BY FS_StrictSubsetOrderingWellFounded
  <2> QED  BY <2>1, <2>2, Zenon
<1>2. Bad \subseteq SUBSET S  OBVIOUS
<1> HIDE DEF Bad
<1>3. PICK t \in Bad : \A u \in Bad : <<u, t>> \notin StrictSubsetOrdering(S)
  BY <1>1, <1>2, WFMin
<1>4. t \in SUBSET S /\ t \notin Good  BY <1>3 DEF Bad
<1>5. ASSUME NEW u \in SUBSET t, u # t PROVE u \in Good
  <2>1. u \in SUBSET S  BY <1>4, <1>5
  <2>2. <<u, t>> \in StrictSubsetOrdering(S)
    BY <1>4, <1>5, <2>1 DEF StrictSubsetOrdering
  <2> QED  BY <1>3, <2>1, <2>2 DEF Bad
<1> QED  BY <1>4, <1>5

\* The function whose value on the whole set is the sum.
Sums(F, S, g) ==
  g = [s \in SUBSET S |-> IF s = {} THEN 0 ELSE F[Pick(s)] + g[s \ {Pick(s)}]]

\* There is one: by the number of elements.
LEMMA SumsExist ==
    ASSUME NEW F, NEW S, IsFiniteSet(S)
    PROVE  \E g : Sums(F, S, g)
PROOF
<1> DEFINE Small(n) == {s \in SUBSET S : Cardinality(s) < n}
           On(n, g) == g = [s \in Small(n) |-> IF s = {} THEN 0 ELSE F[Pick(s)] + g[s \ {Pick(s)}]]
           Fails == {n \in Nat : ~\E g : On(n, g)}
<1>1. \A s \in SUBSET S : IsFiniteSet(s) /\ Cardinality(s) \in Nat
                          /\ Cardinality(s) <= Cardinality(S)
  BY FS_Subset, FS_CardinalityType
<1>2. ASSUME NEW n \in Nat, NEW g, On(n, g) PROVE \E h : On(n + 1, h)
  <2> DEFINE h == [s \in Small(n + 1) |-> IF s = {} THEN 0 ELSE F[Pick(s)] + g[s \ {Pick(s)}]]
  <2>1. ASSUME NEW s \in Small(n + 1), s # {} PROVE s \ {Pick(s)} \in Small(n)
    <3>1. Cardinality(s \ {Pick(s)}) = Cardinality(s) - 1
      BY <1>1, <2>1, PickIn, FS_RemoveElement
    <3> QED  BY <1>1, <2>1, <3>1
  <2>2. ASSUME NEW s \in Small(n) PROVE h[s] = g[s]
    <3>1. s \in Small(n + 1)  BY <1>1
    <3> QED  BY <1>2, <3>1
  <2>3. On(n + 1, h)  BY <2>1, <2>2
  <2> QED  BY <2>3
<1>3. On(0, [s \in Small(0) |-> 0])  BY <1>1
<1>4. Fails = {}
  <2> SUFFICES ASSUME Fails # {} PROVE FALSE  OBVIOUS
  <2>1. Fails \subseteq Nat  OBVIOUS
  <2> HIDE DEF Fails
  <2>2. IsWellFoundedOn(OpToRel(<, Nat), Nat)  BY NatLessThanWellFounded
  <2>3. PICK n \in Fails : \A m \in Fails : <<m, n>> \notin OpToRel(<, Nat)
    BY <2>1, <2>2, WFMin
  <2>4. n \in Nat /\ ~\E g : On(n, g)  BY <2>3 DEF Fails
  <2>5. CASE n = 0  BY <1>3, <2>4, <2>5, Zenon
  <2>6. CASE n # 0
    <3>1. n - 1 \in Nat /\ n - 1 < n /\ n = (n - 1) + 1  BY <2>4, <2>6
    <3>2. <<n - 1, n>> \in OpToRel(<, Nat)  BY <2>4, <3>1 DEF OpToRel
    <3>3. n - 1 \notin Fails  BY <2>3, <3>2, Zenon
    <3>4. PICK g : On(n - 1, g)  BY <3>1, <3>3 DEF Fails
    <3> HIDE DEF On
    <3>5. \E h : On((n - 1) + 1, h)  BY <1>2, <3>1, <3>4
    <3> QED  BY <2>4, <3>1, <3>5
  <2> QED  BY <2>5, <2>6
<1>5. \E g : On(Cardinality(S) + 1, g)
  <2>1. Cardinality(S) + 1 \in Nat  BY <1>1
  <2> HIDE DEF On
  <2> QED  BY <1>4, <2>1
<1>6. Small(Cardinality(S) + 1) = SUBSET S  BY <1>1
<1> QED  BY <1>5, <1>6 DEF Sums

\* A sum is the value of that function on the whole set.
LEMMA SumIsValue ==
    ASSUME NEW F, NEW S, IsFiniteSet(S)
    PROVE  \E g : Sums(F, S, g) /\ SumFunctionOnSet(F, S) = g[S]
PROOF
<1> DEFINE g == CHOOSE g : Sums(F, S, g)
<1>1. Sums(F, S, g)  BY SumsExist
<1>2. SumFunctionOnSet(F, S) = g[S]
  BY DEF SumFunctionOnSet, FoldFunctionOnSet, MapThenFoldSet, Sums, Pick
<1> QED  BY <1>1, <1>2

\* What two such functions say of the same terms is the same.
LEMMA SumsAgree ==
    ASSUME NEW F, NEW S, IsFiniteSet(S), NEW g, Sums(F, S, g),
           NEW G, NEW T, IsFiniteSet(T), NEW h, Sums(G, T, h),
           T \subseteq S, \A x \in T : F[x] = G[x]
    PROVE  \A t \in SUBSET T : g[t] = h[t]
PROOF
<1> DEFINE Good == {t \in SUBSET T : g[t] = h[t]}
<1>1. ASSUME NEW t \in SUBSET T, \A u \in SUBSET t : u # t => u \in Good
      PROVE  t \in Good
  <2> DEFINE p == Pick(t)
  <2>1. t \in SUBSET S  OBVIOUS
  <2>2. CASE t = {}
    <3>1. g[t] = 0 /\ h[t] = 0  BY <2>1, <2>2 DEF Sums
    <3> QED  BY <3>1
  <2>3. CASE t # {}
    <3>1. p \in t  BY <2>3, PickIn
    <3>2. t \ {p} \in SUBSET t /\ t \ {p} # t  BY <3>1
    <3>3. t \ {p} \in Good  BY <1>1, <3>2
    <3>4. g[t] = F[p] + g[t \ {p}]  BY <2>1, <2>3 DEF Sums
    <3>5. h[t] = G[p] + h[t \ {p}]  BY <2>3 DEF Sums
    <3> QED  BY <3>1, <3>3, <3>4, <3>5
  <2> QED  BY <2>2, <2>3
<1> HIDE DEF Good
<1>2. SUBSET T \subseteq Good  BY <1>1, SubsetInduction
<1> QED  BY <1>2 DEF Good

\* On every subset it is the sum over that subset.
LEMMA SumsValues ==
    ASSUME NEW F, NEW S, IsFiniteSet(S), NEW g, Sums(F, S, g), NEW t \in SUBSET S
    PROVE  g[t] = SumFunctionOnSet(F, t)
PROOF
<1>1. IsFiniteSet(t)  BY FS_Subset
<1>2. PICK h : Sums(F, t, h) /\ SumFunctionOnSet(F, t) = h[t]  BY <1>1, SumIsValue
<1>3. \A u \in SUBSET t : g[u] = h[u]  BY <1>1, <1>2, SumsAgree
<1> QED  BY <1>2, <1>3

\* Only the values at the indices count.
LEMMA SumSame ==
    ASSUME NEW F, NEW G, NEW S, IsFiniteSet(S), \A x \in S : F[x] = G[x]
    PROVE  SumFunctionOnSet(F, S) = SumFunctionOnSet(G, S)
PROOF
<1>1. PICK g : Sums(F, S, g) /\ SumFunctionOnSet(F, S) = g[S]  BY SumIsValue
<1>2. PICK h : Sums(G, S, h) /\ SumFunctionOnSet(G, S) = h[S]  BY SumIsValue
<1>3. \A t \in SUBSET S : g[t] = h[t]  BY <1>1, <1>2, SumsAgree
<1> QED  BY <1>1, <1>2, <1>3

\* One term after the other.
LEMMA SumPick ==
    ASSUME NEW F, NEW S, IsFiniteSet(S)
    PROVE  /\ S = {} => SumFunctionOnSet(F, S) = 0
           /\ S # {} => /\ Pick(S) \in S
                        /\ SumFunctionOnSet(F, S)
                             = F[Pick(S)] + SumFunctionOnSet(F, S \ {Pick(S)})
PROOF
<1>1. PICK g : Sums(F, S, g) /\ SumFunctionOnSet(F, S) = g[S]  BY SumIsValue
<1>2. g[S] = IF S = {} THEN 0 ELSE F[Pick(S)] + g[S \ {Pick(S)}]  BY <1>1 DEF Sums
<1>3. g[S \ {Pick(S)}] = SumFunctionOnSet(F, S \ {Pick(S)})
  <2> DEFINE r == S \ {Pick(S)}
  <2>1. r \in SUBSET S  OBVIOUS
  <2> HIDE DEF r
  <2>2. g[r] = SumFunctionOnSet(F, r)  BY <1>1, <2>1, SumsValues
  <2> QED  BY <2>2 DEF r
<1> QED  BY <1>1, <1>2, <1>3, PickIn

\* A sum of whole numbers is one.
LEMMA SumInt ==
    ASSUME NEW F, NEW S, IsFiniteSet(S), \A x \in S : F[x] \in Int
    PROVE  SumFunctionOnSet(F, S) \in Int
PROOF
<1> DEFINE Good == {t \in SUBSET S : SumFunctionOnSet(F, t) \in Int}
<1>1. ASSUME NEW t \in SUBSET S, \A u \in SUBSET t : u # t => u \in Good
      PROVE  t \in Good
  <2> DEFINE p == Pick(t)
  <2>1. IsFiniteSet(t)  BY FS_Subset
  <2>2. CASE t = {}
    <3>1. SumFunctionOnSet(F, t) = 0  BY <2>1, <2>2, SumPick, Zenon
    <3> QED  BY <3>1
  <2>3. CASE t # {}
    <3>1. p \in t /\ SumFunctionOnSet(F, t) = F[p] + SumFunctionOnSet(F, t \ {p})
      BY <2>1, <2>3, SumPick
    <3>2. t \ {p} \in Good  BY <1>1, <3>1
    <3> QED  BY <3>1, <3>2
  <2> QED  BY <2>2, <2>3
<1> HIDE DEF Good
<1>2. SUBSET S \subseteq Good  BY <1>1, SubsetInduction
<1> QED  BY <1>2 DEF Good

\* The order of the terms does not count.
LEMMA SumTerm ==
    ASSUME NEW F, NEW S, IsFiniteSet(S), \A x \in S : F[x] \in Int, NEW x \in S
    PROVE  SumFunctionOnSet(F, S) = F[x] + SumFunctionOnSet(F, S \ {x})
PROOF
<1> DEFINE Good == {t \in SUBSET S : \A y \in t :
                      SumFunctionOnSet(F, t) = F[y] + SumFunctionOnSet(F, t \ {y})}
<1>1. ASSUME NEW t \in SUBSET S, \A u \in SUBSET t : u # t => u \in Good
      PROVE  t \in Good
  <2> SUFFICES ASSUME NEW y \in t
               PROVE  SumFunctionOnSet(F, t) = F[y] + SumFunctionOnSet(F, t \ {y})
    OBVIOUS
  <2> DEFINE p == Pick(t)
             r == (t \ {y}) \ {p}
  <2>1. IsFiniteSet(t)  BY FS_Subset
  <2>2. p \in t /\ SumFunctionOnSet(F, t) = F[p] + SumFunctionOnSet(F, t \ {p})
    BY <2>1, SumPick
  <2>3. CASE y = p  BY <2>2, <2>3
  <2>4. CASE y # p
    <3>1. t \ {p} \in Good /\ t \ {y} \in Good /\ y \in t \ {p} /\ p \in t \ {y}
      BY <1>1, <2>2, <2>4
    <3>2. (t \ {p}) \ {y} = r  OBVIOUS
    <3>3. SumFunctionOnSet(F, t \ {p}) = F[y] + SumFunctionOnSet(F, r)  BY <3>1, <3>2
    <3>4. SumFunctionOnSet(F, t \ {y}) = F[p] + SumFunctionOnSet(F, r)  BY <3>1
    <3>5. IsFiniteSet(r)  BY <2>1, FS_Subset
    <3>6. SumFunctionOnSet(F, r) \in Int /\ F[y] \in Int /\ F[p] \in Int
      BY <2>2, <3>5, SumInt
    <3> HIDE DEF r
    <3> QED  BY <2>2, <3>3, <3>4, <3>6
  <2> QED  BY <2>3, <2>4
<1> HIDE DEF Good
<1>2. SUBSET S \subseteq Good  BY <1>1, SubsetInduction
<1> QED  BY <1>2 DEF Good

LEMMA SumEmpty ==
    ASSUME NEW F
    PROVE  SumFunctionOnSet(F, {}) = 0
BY FS_EmptySet, SumPick

\* With one index more.
LEMMA SumMore ==
    ASSUME NEW F, NEW S, IsFiniteSet(S), NEW x, x \notin S, \A y \in S \cup {x} : F[y] \in Int
    PROVE  SumFunctionOnSet(F, S \cup {x}) = F[x] + SumFunctionOnSet(F, S)
PROOF
<1>1. IsFiniteSet(S \cup {x}) /\ (S \cup {x}) \ {x} = S  BY FS_AddElement
<1> QED  BY <1>1, SumTerm

\* What is true of no index and stays true with one index more is true of the set: the
\* form in which the lemmas below use the induction.
LEMMA OneByOne ==
    ASSUME NEW S, IsFiniteSet(S), NEW Good, {} \in Good,
           \A t \in SUBSET S, x \in S : t \in Good /\ x \notin t => t \cup {x} \in Good
    PROVE  S \in Good
PROOF
<1>1. ASSUME NEW t \in SUBSET S, \A u \in SUBSET t : u # t => u \in Good
      PROVE  t \in Good
  <2>1. CASE t = {}  BY <2>1
  <2>2. CASE t # {}
    <3>1. PICK x \in t : TRUE  BY <2>2
    <3>2. t \ {x} \in Good /\ t \ {x} \in SUBSET S  BY <1>1, <3>1
    <3>3. (t \ {x}) \cup {x} = t /\ x \in S /\ x \notin t \ {x}  BY <3>1
    <3>4. (t \ {x}) \cup {x} \in Good  BY <3>2, <3>3
    <3> QED  BY <3>3, <3>4
  <2> QED  BY <2>1, <2>2
<1>2. SUBSET S \subseteq Good  BY <1>1, SubsetInduction
<1> QED  BY <1>2

\* Term by term.
LEMMA SumPlus ==
    ASSUME NEW F, NEW G, NEW H, NEW S, IsFiniteSet(S),
           \A x \in S : F[x] \in Int /\ G[x] \in Int /\ H[x] = F[x] + G[x]
    PROVE  SumFunctionOnSet(H, S) = SumFunctionOnSet(F, S) + SumFunctionOnSet(G, S)
PROOF
<1> DEFINE Good == {t \in SUBSET S : SumFunctionOnSet(H, t)
                                       = SumFunctionOnSet(F, t) + SumFunctionOnSet(G, t)}
<1>1. {} \in Good  BY SumEmpty
<1>2. ASSUME NEW t \in SUBSET S, NEW x \in S, t \in Good, x \notin t PROVE t \cup {x} \in Good
  <2>1. IsFiniteSet(t)  BY FS_Subset
  <2>2. \A y \in t \cup {x} : F[y] \in Int /\ G[y] \in Int /\ H[y] \in Int  OBVIOUS
  <2>3. /\ SumFunctionOnSet(F, t \cup {x}) = F[x] + SumFunctionOnSet(F, t)
        /\ SumFunctionOnSet(G, t \cup {x}) = G[x] + SumFunctionOnSet(G, t)
        /\ SumFunctionOnSet(H, t \cup {x}) = H[x] + SumFunctionOnSet(H, t)
    BY <1>2, <2>1, <2>2, SumMore
  <2>4. SumFunctionOnSet(F, t) \in Int /\ SumFunctionOnSet(G, t) \in Int
    BY <2>1, <2>2, SumInt
  <2> QED  BY <1>2, <2>3, <2>4
<1> HIDE DEF Good
<1>3. S \in Good  BY <1>1, <1>2, OneByOne
<1> QED  BY <1>3 DEF Good

\* Larger terms, larger sum.
LEMMA SumOrder ==
    ASSUME NEW F, NEW G, NEW S, IsFiniteSet(S),
           \A x \in S : F[x] \in Int /\ G[x] \in Int /\ F[x] <= G[x]
    PROVE  SumFunctionOnSet(F, S) <= SumFunctionOnSet(G, S)
PROOF
<1> DEFINE Good == {t \in SUBSET S : SumFunctionOnSet(F, t) <= SumFunctionOnSet(G, t)}
<1>1. {} \in Good  BY SumEmpty
<1>2. ASSUME NEW t \in SUBSET S, NEW x \in S, t \in Good, x \notin t PROVE t \cup {x} \in Good
  <2>1. IsFiniteSet(t)  BY FS_Subset
  <2>2. \A y \in t \cup {x} : F[y] \in Int /\ G[y] \in Int  OBVIOUS
  <2>3. /\ SumFunctionOnSet(F, t \cup {x}) = F[x] + SumFunctionOnSet(F, t)
        /\ SumFunctionOnSet(G, t \cup {x}) = G[x] + SumFunctionOnSet(G, t)
    BY <1>2, <2>1, <2>2, SumMore
  <2>4. SumFunctionOnSet(F, t) \in Int /\ SumFunctionOnSet(G, t) \in Int
    BY <2>1, <2>2, SumInt
  <2> QED  BY <1>2, <2>3, <2>4
<1> HIDE DEF Good
<1>3. S \in Good  BY <1>1, <1>2, OneByOne
<1> QED  BY <1>3 DEF Good

\* Only one term counts.
LEMMA SumOne ==
    ASSUME NEW F, NEW S, IsFiniteSet(S), NEW x, F[x] \in Int, \A y \in S \ {x} : F[y] = 0
    PROVE  SumFunctionOnSet(F, S) = IF x \in S THEN F[x] ELSE 0
PROOF
<1> DEFINE Good == {t \in SUBSET S : SumFunctionOnSet(F, t) = IF x \in t THEN F[x] ELSE 0}
<1>1. {} \in Good  BY SumEmpty
<1>2. ASSUME NEW t \in SUBSET S, NEW y \in S, t \in Good, y \notin t PROVE t \cup {y} \in Good
  <2>1. IsFiniteSet(t)  BY FS_Subset
  <2>2. \A z \in t \cup {y} : F[z] \in Int  OBVIOUS
  <2>3. SumFunctionOnSet(F, t \cup {y}) = F[y] + SumFunctionOnSet(F, t)
    BY <1>2, <2>1, <2>2, SumMore
  <2> QED  BY <1>2, <2>2, <2>3
<1> HIDE DEF Good
<1>3. S \in Good  BY <1>1, <1>2, OneByOne
<1> QED  BY <1>3 DEF Good

LEMMA SumNothing ==
    ASSUME NEW F, NEW S, IsFiniteSet(S), \A x \in S : F[x] = 0
    PROVE  SumFunctionOnSet(F, S) = 0
PROOF
<1>1. CASE S = {}  BY <1>1, SumEmpty
<1>2. CASE S # {}
  <2>1. PICK x \in S : TRUE  BY <1>2
  <2> QED  BY <2>1, SumOne
<1> QED  BY <1>1, <1>2

\* Part by part.
LEMMA SumUnion ==
    ASSUME NEW F, NEW S, IsFiniteSet(S), NEW T, IsFiniteSet(T), S \cap T = {},
           \A x \in S \cup T : F[x] \in Int
    PROVE  SumFunctionOnSet(F, S \cup T) = SumFunctionOnSet(F, S) + SumFunctionOnSet(F, T)
PROOF
<1> DEFINE Good == {t \in SUBSET T : SumFunctionOnSet(F, S \cup t)
                                       = SumFunctionOnSet(F, S) + SumFunctionOnSet(F, t)}
<1>0. SumFunctionOnSet(F, S) \in Int  BY SumInt
<1>1. {} \in Good
  <2>1. S \cup {} = S  OBVIOUS
  <2> QED  BY <1>0, <2>1, SumEmpty
<1>2. ASSUME NEW t \in SUBSET T, NEW x \in T, t \in Good, x \notin t PROVE t \cup {x} \in Good
  <2>1. IsFiniteSet(t) /\ IsFiniteSet(S \cup t)  BY FS_Subset, FS_Union
  <2>2. \A y \in (S \cup t) \cup {x} : F[y] \in Int  OBVIOUS
  <2>3. x \notin S \cup t  BY <1>2
  <2>4. SumFunctionOnSet(F, (S \cup t) \cup {x}) = F[x] + SumFunctionOnSet(F, S \cup t)
    BY <2>1, <2>2, <2>3, SumMore
  <2>5. SumFunctionOnSet(F, t \cup {x}) = F[x] + SumFunctionOnSet(F, t)
    BY <1>2, <2>1, <2>2, SumMore
  <2>6. SumFunctionOnSet(F, t) \in Int  BY <2>1, <2>2, SumInt
  <2>7. S \cup (t \cup {x}) = (S \cup t) \cup {x}  OBVIOUS
  <2>8. SumFunctionOnSet(F, S \cup t) = SumFunctionOnSet(F, S) + SumFunctionOnSet(F, t)
    BY <1>2
  <2>9. F[x] \in Int  OBVIOUS
  <2>10. SumFunctionOnSet(F, S \cup (t \cup {x}))
           = SumFunctionOnSet(F, S) + SumFunctionOnSet(F, t \cup {x})
    <3>1. SumFunctionOnSet(F, S \cup (t \cup {x})) = F[x] + SumFunctionOnSet(F, S \cup t)
      BY <2>4, <2>7, Zenon
    <3> QED  BY <1>0, <2>5, <2>6, <2>8, <2>9, <3>1
  <2> QED  BY <2>10
<1> HIDE DEF Good
<1>3. T \in Good  BY <1>1, <1>2, OneByOne
<1> QED  BY <1>3 DEF Good

\* The indices that stand under one key.
Under(S, key, k) == {x \in S : key[x] = k}

\* The terms of S, by the key they stand under, in the order of the keys.
LEMMA SumByKey ==
    ASSUME NEW F, NEW S, IsFiniteSet(S), \A x \in S : F[x] \in Int,
           NEW K, IsFiniteSet(K), NEW key, \A x \in S : key[x] \in K,
           NEW P, \A k \in K : P[k] = SumFunctionOnSet(F, Under(S, key, k))
    PROVE  SumFunctionOnSet(F, S) = SumFunctionOnSet(P, K)
PROOF
<1> DEFINE At(t) == {x \in S : key[x] \in t}
           Good == {t \in SUBSET K : SumFunctionOnSet(F, At(t)) = SumFunctionOnSet(P, t)}
<1>1. {} \in Good
  <2>1. At({}) = {}  OBVIOUS
  <2> QED  BY <2>1, SumEmpty
<1>2. ASSUME NEW t \in SUBSET K, NEW k \in K, t \in Good, k \notin t PROVE t \cup {k} \in Good
  <2> DEFINE U == Under(S, key, k)
  <2>1. IsFiniteSet(t) /\ IsFiniteSet(At(t)) /\ IsFiniteSet(U)  BY FS_Subset DEF Under
  <2>2. At(t \cup {k}) = At(t) \cup U /\ At(t) \cap U = {}  BY <1>2 DEF Under
  <2>3. SumFunctionOnSet(F, At(t) \cup U) = SumFunctionOnSet(F, At(t)) + SumFunctionOnSet(F, U)
    <3>1. \A x \in At(t) \cup U : F[x] \in Int  BY DEF Under
    <3> HIDE DEF At, U
    <3> QED  BY <2>1, <2>2, <3>1, SumUnion
  <2>4. SumFunctionOnSet(F, At(t)) \in Int /\ SumFunctionOnSet(F, U) \in Int
    BY <2>1, SumInt DEF Under
  <2>5. \A j \in K : P[j] \in Int
    <3> SUFFICES ASSUME NEW j \in K PROVE P[j] \in Int  OBVIOUS
    <3> DEFINE V == Under(S, key, j)
    <3>1. IsFiniteSet(V) /\ (\A x \in V : F[x] \in Int) /\ P[j] = SumFunctionOnSet(F, V)
      BY FS_Subset DEF Under
    <3> HIDE DEF V
    <3> QED  BY <3>1, SumInt
  <2>6. SumFunctionOnSet(P, t \cup {k}) = P[k] + SumFunctionOnSet(P, t)
    BY <1>2, <2>1, <2>5, SumMore
  <2>7. SumFunctionOnSet(F, At(t)) = SumFunctionOnSet(P, t) /\ P[k] = SumFunctionOnSet(F, U)
    BY <1>2
  <2>8. SumFunctionOnSet(F, At(t \cup {k})) = SumFunctionOnSet(P, t \cup {k})
    <3> HIDE DEF At, U
    <3>1. SumFunctionOnSet(F, At(t \cup {k})) = SumFunctionOnSet(F, At(t) \cup U)
      BY <2>2, Zenon
    <3> QED  BY <2>3, <2>4, <2>6, <2>7, <3>1
  <2> QED  BY <2>8
<1> HIDE DEF Good
<1>3. K \in Good  BY <1>1, <1>2, OneByOne
<1>4. At(K) = S  OBVIOUS
<1> QED  BY <1>3, <1>4 DEF Good

\* Sums of sums, in either order.
LEMMA SumSwap ==
    ASSUME NEW S, IsFiniteSet(S), NEW T, IsFiniteSet(T), NEW F,
           \A x \in S, y \in T : F[x][y] \in Int,
           NEW A, \A x \in S : A[x] = SumFunctionOnSet(F[x], T),
           NEW B, NEW G, \A y \in T : B[y] = SumFunctionOnSet(G[y], S),
           \A x \in S, y \in T : G[y][x] = F[x][y]
    PROVE  SumFunctionOnSet(A, S) = SumFunctionOnSet(B, T)
PROOF
<1> DEFINE R(u) == [y \in T |-> SumFunctionOnSet(G[y], u)]
           Good == {u \in SUBSET S : SumFunctionOnSet(A, u) = SumFunctionOnSet(R(u), T)}
<1>1. {} \in Good
  <2>1. \A y \in T : R({})[y] = 0  BY SumEmpty
  <2> HIDE DEF R
  <2>2. SumFunctionOnSet(R({}), T) = 0  BY <2>1, SumNothing
  <2> QED  BY <2>2, SumEmpty
<1>2. ASSUME NEW u \in SUBSET S, NEW x \in S, u \in Good, x \notin u PROVE u \cup {x} \in Good
  <2>1. IsFiniteSet(u)  BY FS_Subset
  <2>2. ASSUME NEW y \in T
        PROVE  /\ F[x][y] \in Int /\ R(u)[y] \in Int
               /\ R(u \cup {x})[y] = F[x][y] + R(u)[y]
    <3>1. \A z \in u \cup {x} : G[y][z] \in Int  OBVIOUS
    <3>2. SumFunctionOnSet(G[y], u \cup {x}) = G[y][x] + SumFunctionOnSet(G[y], u)
      BY <1>2, <2>1, <3>1, SumMore
    <3>3. SumFunctionOnSet(G[y], u) \in Int  BY <2>1, <3>1, SumInt
    <3> QED  BY <3>2, <3>3
  <2>3. \A z \in u \cup {x} : A[z] \in Int
    <3> SUFFICES ASSUME NEW z \in S PROVE A[z] \in Int  OBVIOUS
    <3>1. \A y \in T : F[z][y] \in Int  OBVIOUS
    <3> QED  BY <3>1, SumInt
  <2>4. SumFunctionOnSet(A, u \cup {x}) = A[x] + SumFunctionOnSet(A, u)
    BY <1>2, <2>1, <2>3, SumMore
  <2>5. A[x] = SumFunctionOnSet(F[x], T)  OBVIOUS
  <2>6. SumFunctionOnSet(A, u) = SumFunctionOnSet(R(u), T)  BY <1>2
  <2> HIDE DEF R
  <2>7. SumFunctionOnSet(R(u \cup {x}), T)
          = SumFunctionOnSet(F[x], T) + SumFunctionOnSet(R(u), T)
    <3> DEFINE a == F[x]
               b == R(u)
               c == R(u \cup {x})
    <3>1. \A y \in T : a[y] \in Int /\ b[y] \in Int /\ c[y] = a[y] + b[y]  BY <2>2
    <3> HIDE DEF a, b, c
    <3>2. SumFunctionOnSet(c, T) = SumFunctionOnSet(a, T) + SumFunctionOnSet(b, T)
      BY <3>1, SumPlus
    <3> QED  BY <3>2 DEF a, b, c
  <2> QED  BY <2>4, <2>5, <2>6, <2>7 DEF Good
<1> HIDE DEF Good
<1>3. S \in Good  BY <1>1, <1>2, OneByOne
<1>4. SumFunctionOnSet(A, S) = SumFunctionOnSet(R(S), T)  BY <1>3 DEF Good
<1>5. \A y \in T : R(S)[y] = B[y]  OBVIOUS
<1> HIDE DEF R
<1>6. SumFunctionOnSet(R(S), T) = SumFunctionOnSet(B, T)  BY <1>5, SumSame
<1> QED  BY <1>4, <1>6

-----------------------------------------------------------------------------
(* Averages *)

LEMMA TimesOrdered ==
    ASSUME NEW n \in Nat, NEW a \in Int, NEW b \in Int, a <= b
    PROVE  n * a <= n * b
PROOF
<1> DEFINE c == b - a
<1>1. c \in Nat /\ b = a + c  OBVIOUS
<1> HIDE DEF c
<1>2. n * c >= 0  BY <1>1
<1>3. n * b = n * a + n * c  BY <1>1
<1> QED  BY <1>1, <1>2, <1>3

LEMMA TimesSmaller ==
    ASSUME NEW n \in Nat, NEW a \in Int, NEW b \in Int, n * a < n * b
    PROVE  a < b
PROOF
<1>1. ASSUME b <= a PROVE FALSE
  <2>1. n * b <= n * a  BY <1>1, TimesOrdered
  <2>2. n * a \in Int /\ n * b \in Int  OBVIOUS
  <2> QED  BY <2>1, <2>2
<1> QED  BY <1>1

LEMMA Quotient ==
    ASSUME NEW n \in Nat, n > 0, NEW x \in Int
    PROVE  /\ x \div n \in Int
           /\ n * (x \div n) <= x /\ x < n * (x \div n) + n
OBVIOUS

LEMMA QuotientOrder ==
    ASSUME NEW n \in Nat, n > 0, NEW x \in Int, NEW y \in Int, x <= y
    PROVE  x \div n <= y \div n
PROOF
<1> DEFINE p == x \div n
           q == y \div n
<1>1. p \in Int /\ n * p <= x  BY Quotient
<1>2. q \in Int /\ y < n * q + n  BY Quotient
<1> HIDE DEF p, q
<1>3. n * (q + 1) = n * q + n  BY <1>2
<1>4. n * p \in Int /\ n * q \in Int  BY <1>1, <1>2
<1>5. n * p < n * (q + 1)  BY <1>1, <1>2, <1>3, <1>4
<1>6. p < q + 1  BY <1>1, <1>2, <1>5, TimesSmaller
<1> QED  BY <1>1, <1>2, <1>6 DEF p, q

\* The quotients of some numbers, and the quotient of their sum: less than one apart for
\* each number but one; the same when the divisor is one.
LEMMA SumOfQuotients ==
    ASSUME NEW n \in Nat, n > 0, NEW T, IsFiniteSet(T), T # {},
           NEW X, NEW Q, \A y \in T : X[y] \in Int /\ Q[y] = X[y] \div n
    PROVE  (SumFunctionOnSet(X, T) \div n) - SumFunctionOnSet(Q, T)
             \in 0 .. (IF n = 1 THEN 0 ELSE Cardinality(T) - 1)
PROOF
<1>0. \A y \in T : Q[y] \in Int /\ n * Q[y] <= X[y] /\ X[y] <= n * Q[y] + (n - 1)
  <2> SUFFICES ASSUME NEW y \in T
               PROVE  Q[y] \in Int /\ n * Q[y] <= X[y] /\ X[y] <= n * Q[y] + (n - 1)
    OBVIOUS
  <2> DEFINE q == X[y] \div n
             x == X[y]
  <2>1. q \in Int /\ n * q <= x /\ x < n * q + n /\ x \in Int  BY Quotient
  <2> HIDE DEF q, x
  <2>2. n * q \in Int  BY <2>1
  <2>3. x <= n * q + (n - 1)  BY <2>1, <2>2
  <2> QED  BY <2>1, <2>3 DEF q, x
<1> DEFINE SX(t) == SumFunctionOnSet(X, t)
           SQ(t) == SumFunctionOnSet(Q, t)
           Good == {t \in SUBSET T : /\ n * SQ(t) <= SX(t)
                                     /\ SX(t) <= n * SQ(t) + (n - 1) * Cardinality(t)}
<1>1. {} \in Good
  <2>1. SX({}) = 0 /\ SQ({}) = 0 /\ Cardinality({}) = 0  BY SumEmpty, FS_EmptySet
  <2>2. n * 0 = 0 /\ (n - 1) * 0 = 0  OBVIOUS
  <2> QED  BY <2>1, <2>2
<1>2. ASSUME NEW t \in SUBSET T, NEW y \in T, t \in Good, y \notin t PROVE t \cup {y} \in Good
  <2>1. IsFiniteSet(t)  BY FS_Subset
  <2>2. /\ SX(t \cup {y}) = X[y] + SX(t) /\ SQ(t \cup {y}) = Q[y] + SQ(t)
        /\ SX(t) \in Int /\ SQ(t) \in Int
    <3>1. \A z \in t \cup {y} : X[z] \in Int /\ Q[z] \in Int  BY <1>0
    <3> QED  BY <1>2, <2>1, <3>1, SumMore, SumInt
  <2>3. Cardinality(t \cup {y}) = Cardinality(t) + 1 /\ Cardinality(t) \in Nat
    BY <1>2, <2>1, FS_AddElement, FS_CardinalityType
  <2> DEFINE a == SX(t)
             b == SQ(t)
             c == Cardinality(t)
             x == X[y]
             q == Q[y]
  <2>4. /\ a \in Int /\ b \in Int /\ c \in Nat /\ x \in Int /\ q \in Int
        /\ n * b <= a /\ a <= n * b + (n - 1) * c
        /\ n * q <= x /\ x <= n * q + (n - 1)
    BY <1>0, <1>2, <2>2, <2>3
  <2> HIDE DEF a, b, c, x, q
  <2>5. n * (q + b) = n * q + n * b /\ (n - 1) * (c + 1) = (n - 1) * c + (n - 1)  BY <2>4
  <2>6. n * q \in Int /\ n * b \in Int /\ (n - 1) * c \in Int  BY <2>4
  <2>7. n * (q + b) <= x + a /\ x + a <= n * (q + b) + (n - 1) * (c + 1)
    BY <2>4, <2>5, <2>6
  <2> QED  BY <2>2, <2>3, <2>7 DEF a, b, c, x, q
<1> DEFINE s == SX(T)
           q == SQ(T)
           k == Cardinality(T)
           d == s \div n
<1>3. n * q <= s /\ s <= n * q + (n - 1) * k
  <2> HIDE DEF Good
  <2>1. T \in Good  BY <1>1, <1>2, OneByOne
  <2> QED  BY <2>1 DEF Good
<1>4. s \in Int /\ q \in Int  BY <1>0, SumInt
<1>5. k \in Nat /\ k > 0  BY FS_CardinalityType, FS_EmptySet
<1>6. d \in Int /\ n * d <= s /\ s < n * d + n
  <2> HIDE DEF s
  <2> QED  BY <1>4, Quotient
<1>7. d - q \in 0 .. (IF n = 1 THEN 0 ELSE k - 1)
  <2> HIDE DEF s, q, k, d
  <2>1. CASE n = 1  BY <1>3, <1>4, <1>5, <1>6, <2>1
  <2>2. CASE n # 1
    <3>0. n * q \in Int /\ n * d \in Int /\ n * k \in Int  BY <1>4, <1>5, <1>6
    <3>1. n * (d + 1) = n * d + n  BY <1>6
    <3>2. n * q < n * (d + 1)  BY <1>3, <1>4, <1>6, <3>0, <3>1
    <3>3. q < d + 1  BY <1>4, <1>6, <3>2, TimesSmaller
    <3>4. (n - 1) * k = n * k - k  BY <1>5
    <3>5. n * (q + k) = n * q + n * k  BY <1>4, <1>5
    <3>6. n * d < n * (q + k)  BY <1>3, <1>4, <1>5, <1>6, <3>0, <3>4, <3>5
    <3>7. d < q + k  BY <1>4, <1>5, <1>6, <3>6, TimesSmaller
    <3> QED  BY <1>4, <1>5, <1>6, <2>2, <3>3, <3>7
  <2> QED  BY <2>1, <2>2
<1> QED  BY <1>7

\* Terms that are at most c.
LEMMA SumBelow ==
    ASSUME NEW F, NEW S, IsFiniteSet(S), NEW c \in Int, \A x \in S : F[x] \in Int /\ F[x] <= c
    PROVE  SumFunctionOnSet(F, S) <= c * Cardinality(S)
PROOF
<1> DEFINE Good == {t \in SUBSET S : SumFunctionOnSet(F, t) <= c * Cardinality(t)}
<1>1. {} \in Good
  <2>1. SumFunctionOnSet(F, {}) = 0 /\ Cardinality({}) = 0  BY SumEmpty, FS_EmptySet
  <2>2. c * 0 = 0  OBVIOUS
  <2> QED  BY <2>1, <2>2
<1>2. ASSUME NEW t \in SUBSET S, NEW x \in S, t \in Good, x \notin t PROVE t \cup {x} \in Good
  <2>1. IsFiniteSet(t)  BY FS_Subset
  <2>2. \A y \in t \cup {x} : F[y] \in Int  OBVIOUS
  <2>3. SumFunctionOnSet(F, t \cup {x}) = F[x] + SumFunctionOnSet(F, t)
    BY <1>2, <2>1, <2>2, SumMore
  <2>4. Cardinality(t \cup {x}) = Cardinality(t) + 1 /\ Cardinality(t) \in Nat
    BY <1>2, <2>1, FS_AddElement, FS_CardinalityType
  <2>5. SumFunctionOnSet(F, t) \in Int  BY <2>1, <2>2, SumInt
  <2> DEFINE a == SumFunctionOnSet(F, t)
             k == Cardinality(t)
             v == F[x]
  <2>6. a \in Int /\ k \in Nat /\ v \in Int /\ v <= c /\ a <= c * k  BY <1>2, <2>4, <2>5
  <2> HIDE DEF a, k, v
  <2>7. c * (k + 1) = c * k + c /\ c * k \in Int  BY <2>6
  <2>8. v + a <= c * (k + 1)  BY <2>6, <2>7
  <2> QED  BY <2>3, <2>4, <2>8 DEF a, k, v
<1> HIDE DEF Good
<1>3. S \in Good  BY <1>1, <1>2, OneByOne
<1> QED  BY <1>3 DEF Good

LEMMA QuotientBelow ==
    ASSUME NEW n \in Nat, n > 0, NEW x \in Int, NEW c \in Int, x <= c * n
    PROVE  x \div n <= c
PROOF
<1> DEFINE q == x \div n
<1>1. q \in Int /\ n * q <= x  BY Quotient
<1> HIDE DEF q
<1>2. n * (c + 1) = c * n + n  OBVIOUS
<1>3. n * q \in Int /\ c * n \in Int  BY <1>1
<1>4. n * q < n * (c + 1)  BY <1>1, <1>2, <1>3
<1>5. q < c + 1  BY <1>1, <1>4, TimesSmaller
<1> QED  BY <1>1, <1>5 DEF q

\* What is capped term by term and what is capped as a whole: averages that stay below the cap.
LEMMA AveragesBelow ==
    ASSUME NEW n \in Nat, n > 0, NEW T, IsFiniteSet(T), T # {}, NEW c \in Nat,
           NEW X, \A y \in T : X[y] \in Int /\ X[y] <= c * n
    PROVE  /\ SumFunctionOnSet(X, T) \in Int
           /\ SumFunctionOnSet(X, T) \div n \in Int
           /\ SumFunctionOnSet(X, T) \div n <= c * Cardinality(T)
PROOF
<1> DEFINE x == SumFunctionOnSet(X, T)
           k == Cardinality(T)
           b == c * n
           d == c * k
<1>1. k \in Nat /\ b \in Int  BY FS_CardinalityType
<1>2. d \in Int /\ b * k = d * n
  <2> HIDE DEF k
  <2> QED  BY <1>1
<1>3. x \in Int  BY SumInt
<1>4. x <= b * k
  <2>1. \A y \in T : X[y] \in Int /\ X[y] <= b  OBVIOUS
  <2> HIDE DEF b
  <2> QED  BY <1>1, <2>1, SumBelow
<1> HIDE DEF x, b, d
<1>5. x \div n <= d /\ x \div n \in Int  BY <1>2, <1>3, <1>4, QuotientBelow, Quotient
<1> QED  BY <1>3, <1>5 DEF x, d
==============================================================================
