----------------------------- MODULE FiniteSums -----------------------------
(***************************************************************************)
(* Sums over finite sets, which the balances, totals and weights of the    *)
(* models are: SumFunctionOnSet(f, S) adds one value at a time in the      *)
(* order CHOOSE gives.  The lemmas say that the order does not matter.     *)
(* Each is proved from a smallest counterexample, which exists because     *)
(* the subsets of a finite set are well founded.                           *)
(***************************************************************************)
EXTENDS Integers, FiniteSets, Functions, FiniteSetTheorems, WellFoundedInduction, TLAPS

\* Leaves that name no prover go to SMT, with half a minute each, then to Zenon.
USE SMTT(30), Zenon

\* Among subsets of a finite set, one contains no other.
LEMMA SmallestSubset ==
    ASSUME NEW S, IsFiniteSet(S), NEW T \in SUBSET SUBSET S, T # {}
    PROVE  \E x \in T : \A y \in T : y \subseteq x => y = x
<1>1. IsWellFoundedOn(StrictSubsetOrdering(S), FiniteSubsetsOf(S))
    BY FS_StrictSubsetOrderingWellFounded
<1>2. T \subseteq FiniteSubsetsOf(S)
    BY FS_Subset DEF FiniteSubsetsOf
<1>3. PICK x \in T : \A y \in T : ~(<<y, x>> \in StrictSubsetOrdering(S))
    BY <1>1, <1>2, WFMin
<1>4. \A y \in T : y \subseteq x => y = x
    BY <1>3, Zenon DEF StrictSubsetOrdering
<1> QED BY <1>4

\* The element that is added next.
Pick(s) == CHOOSE x \in s : TRUE

\* g maps every subset of S to the sum of f over it, as the fold computes it.
Adds(g, f, S) ==
    g = [s \in SUBSET S |-> IF s = {} THEN 0 ELSE f[Pick(s)] + g[s \ {Pick(s)}]]

\* Two such functions agree where both are defined.
LEMMA AddsUnique ==
    ASSUME NEW f, NEW S, IsFiniteSet(S), NEW T, NEW g, NEW h, Adds(g, f, S), Adds(h, f, T),
           NEW U, U \subseteq S, U \subseteq T
    PROVE  g[U] = h[U]
<1> DEFINE Bad == {s \in SUBSET S : s \subseteq T /\ g[s] # h[s]}
<1> SUFFICES ASSUME Bad # {} PROVE FALSE
    OBVIOUS
<1>1. PICK s \in Bad : \A y \in Bad : y \subseteq s => y = s
    <2>1. Bad \in SUBSET SUBSET S
        OBVIOUS
    <2> HIDE DEF Bad
    <2> QED BY <2>1, SmallestSubset
<1>2. /\ g[s] = IF s = {} THEN 0 ELSE f[Pick(s)] + g[s \ {Pick(s)}]
      /\ h[s] = IF s = {} THEN 0 ELSE f[Pick(s)] + h[s \ {Pick(s)}]
    BY Zenon DEF Adds
<1>3. s # {} => Pick(s) \in s
    BY DEF Pick
<1>4. s # {} => g[s \ {Pick(s)}] = h[s \ {Pick(s)}]
    BY <1>1, <1>3
<1> QED BY <1>2, <1>4

\* There is one.
LEMMA AddsExists ==
    ASSUME NEW S, IsFiniteSet(S), NEW f
    PROVE  \E g : Adds(g, f, S)
<1> DEFINE Bad == {U \in SUBSET S : ~\E g : Adds(g, f, U)}
<1> SUFFICES ASSUME Bad # {} PROVE FALSE
    OBVIOUS
<1>1. PICK U \in Bad : \A y \in Bad : y \subseteq U => y = U
    <2>1. Bad \in SUBSET SUBSET S
        OBVIOUS
    <2> HIDE DEF Bad
    <2> QED BY <2>1, SmallestSubset
<1> DEFINE h(V) == CHOOSE g : Adds(g, f, V)
           G == [s \in SUBSET U |->
                   IF s = {} THEN 0 ELSE f[Pick(s)] + h(s \ {Pick(s)})[s \ {Pick(s)}]]
<1>2. \A V \in SUBSET U : V # U => Adds(h(V), f, V)
    BY <1>1
<1>3. \A s \in SUBSET U : s # {} => Pick(s) \in s
    BY DEF Pick
<1>4. ASSUME NEW s \in SUBSET U, s # U
      PROVE  G[s] = h(s)[s]
    <2>1. Adds(h(s), f, s)
        BY <1>2, <1>4
    <2>2. h(s)[s] = IF s = {} THEN 0 ELSE f[Pick(s)] + h(s)[s \ {Pick(s)}]
        BY <2>1, Zenon DEF Adds
    <2>3. CASE s # {}
        <3> DEFINE t == s \ {Pick(s)}
        <3>1. t \subseteq s /\ t \subseteq U /\ t # U
            BY <1>3, <1>4, <2>3
        <3>2. Adds(h(t), f, t)
            BY <1>2, <3>1, Zenon
        <3>3. IsFiniteSet(s)
            BY FS_Subset
        <3>4. h(s)[t] = h(t)[t]
            <4> HIDE DEF h, t
            <4> QED BY <2>1, <3>1, <3>2, <3>3, AddsUnique
        <3> QED BY <2>2, <2>3, <3>4
    <2> QED BY <2>2, <2>3
<1>5. ASSUME NEW s \in SUBSET U
      PROVE  G[s] = IF s = {} THEN 0 ELSE f[Pick(s)] + G[s \ {Pick(s)}]
    <2>1. CASE s # {}
        <3>1. s \ {Pick(s)} \in SUBSET U /\ s \ {Pick(s)} # U
            BY <1>3, <2>1
        <3>2. G[s] = f[Pick(s)] + h(s \ {Pick(s)})[s \ {Pick(s)}]
            BY <2>1
        <3>3. G[s \ {Pick(s)}] = h(s \ {Pick(s)})[s \ {Pick(s)}]
            BY <1>4, <3>1, Zenon
        <3> HIDE DEF G, h
        <3> QED BY <2>1, <3>2, <3>3
    <2> QED BY <2>1
<1>6. Adds(G, f, U)
    <2>1. G = [s \in SUBSET U |-> G[s]]
        OBVIOUS
    <2> HIDE DEF G
    <2> QED BY <1>5, <2>1, Zenon DEF Adds
<1> QED BY <1>6

-----------------------------------------------------------------------------
(* SumFunctionOnSet                                                        *)

\* The fold is such a function, evaluated at the whole set.
LEMMA SumIsAdds ==
    ASSUME NEW f, NEW S, IsFiniteSet(S)
    PROVE  \E g : Adds(g, f, S) /\ SumFunctionOnSet(f, S) = g[S]
<1> DEFINE g == CHOOSE iter : Adds(iter, f, S)
<1>1. Adds(g, f, S)
    BY AddsExists
<1>2. SumFunctionOnSet(f, S) = g[S]
    BY DEF SumFunctionOnSet, FoldFunctionOnSet, MapThenFoldSet, Adds, Pick
<1> QED BY <1>1, <1>2, Zenon

\* The sum over nothing, and one step of the fold.
LEMMA SumStep ==
    ASSUME NEW f, NEW S, IsFiniteSet(S)
    PROVE  SumFunctionOnSet(f, S) =
             IF S = {} THEN 0 ELSE f[Pick(S)] + SumFunctionOnSet(f, S \ {Pick(S)})
<1>1. PICK g : Adds(g, f, S) /\ SumFunctionOnSet(f, S) = g[S]
    BY SumIsAdds
<1>2. IsFiniteSet(S \ {Pick(S)})
    BY FS_RemoveElement
<1>3. PICK h : Adds(h, f, S \ {Pick(S)}) /\ SumFunctionOnSet(f, S \ {Pick(S)}) = h[S \ {Pick(S)}]
    BY <1>2, SumIsAdds
<1>4. g[S \ {Pick(S)}] = h[S \ {Pick(S)}]
    BY <1>1, <1>2, <1>3, AddsUnique
<1>5. g[S] = IF S = {} THEN 0 ELSE f[Pick(S)] + g[S \ {Pick(S)}]
    BY <1>1, Zenon DEF Adds
<1> QED BY <1>1, <1>3, <1>4, <1>5

\* The sum over nothing.
LEMMA SumEmpty == ASSUME NEW f PROVE SumFunctionOnSet(f, {}) = 0
BY SumStep, FS_EmptySet, Zenon

\* Sums of integers are integers.
LEMMA SumType ==
    ASSUME NEW S, IsFiniteSet(S), NEW f, \A x \in S : f[x] \in Int
    PROVE  SumFunctionOnSet(f, S) \in Int
<1> DEFINE Bad == {s \in SUBSET S : SumFunctionOnSet(f, s) \notin Int}
<1> SUFFICES ASSUME Bad # {} PROVE FALSE
    OBVIOUS
<1>1. PICK s \in Bad : \A y \in Bad : y \subseteq s => y = s
    <2>1. Bad \in SUBSET SUBSET S
        OBVIOUS
    <2> HIDE DEF Bad
    <2> QED BY <2>1, SmallestSubset
<1>2. IsFiniteSet(s) /\ (s # {} => Pick(s) \in s)
    BY FS_Subset DEF Pick
<1>3. s # {} => SumFunctionOnSet(f, s \ {Pick(s)}) \in Int
    BY <1>1, <1>2
<1>4. s # {} => f[Pick(s)] \in Int
    BY <1>2
<1>5. SumFunctionOnSet(f, s) =
        IF s = {} THEN 0 ELSE f[Pick(s)] + SumFunctionOnSet(f, s \ {Pick(s)})
    BY <1>2, SumStep
<1> QED BY <1>3, <1>4, <1>5

\* The order of addition does not matter: any element may be the last.
LEMMA SumAdd ==
    ASSUME NEW S, IsFiniteSet(S), NEW f, \A x \in S : f[x] \in Int, NEW a, a \notin S, f[a] \in Int
    PROVE  SumFunctionOnSet(f, S \cup {a}) = SumFunctionOnSet(f, S) + f[a]
<1> DEFINE sum(s) == SumFunctionOnSet(f, s)
           All == S \cup {a}
           Bad == {s \in SUBSET All : \E x \in All \ s : sum(s \cup {x}) # sum(s) + f[x]}
<1> SUFFICES ASSUME Bad # {} PROVE FALSE
    BY Zenon
<1>0. IsFiniteSet(All)
    BY FS_AddElement
<1>1. PICK s \in Bad : \A y \in Bad : y \subseteq s => y = s
    <2>1. Bad \in SUBSET SUBSET All
        OBVIOUS
    <2> HIDE DEF Bad, All
    <2> QED BY <1>0, <2>1, SmallestSubset
<1>2. PICK x \in All \ s : sum(s \cup {x}) # sum(s) + f[x]
    OBVIOUS
<1> DEFINE T == s \cup {x}
           y == Pick(T)
           r == s \ {y}
<1>3. s \subseteq All /\ T \subseteq All /\ y \in T /\ x \in All /\ x \notin s
    BY DEF Pick
<1>4. \A z \in All : f[z] \in Int
    OBVIOUS
<1>5. \A u \in SUBSET All : IsFiniteSet(u) /\ sum(u) \in Int
    <2> TAKE u \in SUBSET All
    <2>1. IsFiniteSet(u) /\ \A z \in u : f[z] \in Int
        BY <1>0, <1>4, FS_Subset
    <2> QED BY <2>1, SumType
<1>6. sum(T) = f[y] + sum(T \ {y})
    BY <1>3, <1>5, SumStep, Zenon
<1>7. \A u \in SUBSET s : u # s => \A z \in All \ u : sum(u \cup {z}) = sum(u) + f[z]
    BY <1>1, Zenon
<1> HIDE DEF sum, All, Bad
<1>8. CASE y = x
    <2>1. T \ {y} = s
        BY <1>3, <1>8
    <2>2. sum(T) = f[x] + sum(s)
        BY <1>6, <1>8, <2>1
    <2>3. sum(s) \in Int /\ f[x] \in Int
        BY <1>3, <1>4, <1>5
    <2> QED BY <1>2, <2>2, <2>3
<1>9. CASE y # x
    <2>1. y \in s /\ r # s /\ r \subseteq s /\ y \in All /\ y \notin r /\ x \notin r
        BY <1>3, <1>9
    <2>2. T \ {y} = r \cup {x} /\ r \cup {y} = s
        BY <1>9, <2>1
    <2>3. sum(r \cup {x}) = sum(r) + f[x]
        BY <1>3, <1>7, <2>1, Zenon
    <2>4. sum(r \cup {y}) = sum(r) + f[y]
        BY <1>7, <2>1, Zenon
    <2>5. sum(r) \in Int /\ f[x] \in Int /\ f[y] \in Int
        BY <1>3, <1>4, <1>5, <2>1
    <2>6. sum(T) = f[y] + (sum(r) + f[x]) /\ sum(s) = sum(r) + f[y]
        BY <1>6, <2>2, <2>3, <2>4
    <2>7. sum(T) # sum(s) + f[x]
        BY <1>2
    <2> HIDE DEF T, y, r
    <2> QED BY <2>5, <2>6, <2>7
<1> QED BY <1>8, <1>9

\* Taking one element away.
LEMMA SumRemove ==
    ASSUME NEW S, IsFiniteSet(S), NEW f, \A x \in S : f[x] \in Int, NEW a \in S
    PROVE  SumFunctionOnSet(f, S \ {a}) = SumFunctionOnSet(f, S) - f[a]
<1>1. IsFiniteSet(S \ {a}) /\ (S \ {a}) \cup {a} = S
    BY FS_RemoveElement
<1>2. SumFunctionOnSet(f, S) = SumFunctionOnSet(f, S \ {a}) + f[a]
    BY <1>1, SumAdd
<1>3. SumFunctionOnSet(f, S \ {a}) \in Int
    BY <1>1, SumType
<1> QED BY <1>2, <1>3

\* Only the values on the set matter.
LEMMA SumSame ==
    ASSUME NEW S, IsFiniteSet(S), NEW f, NEW g, \A x \in S : f[x] = g[x]
    PROVE  SumFunctionOnSet(f, S) = SumFunctionOnSet(g, S)
<1> DEFINE Bad == {s \in SUBSET S : SumFunctionOnSet(f, s) # SumFunctionOnSet(g, s)}
<1> SUFFICES ASSUME Bad # {} PROVE FALSE
    OBVIOUS
<1>1. PICK s \in Bad : \A y \in Bad : y \subseteq s => y = s
    <2>1. Bad \in SUBSET SUBSET S
        OBVIOUS
    <2> HIDE DEF Bad
    <2> QED BY <2>1, SmallestSubset
<1>2. IsFiniteSet(s) /\ (s # {} => Pick(s) \in s)
    BY FS_Subset DEF Pick
<1>3. s # {} => SumFunctionOnSet(f, s \ {Pick(s)}) = SumFunctionOnSet(g, s \ {Pick(s)})
    BY <1>1, <1>2
<1>4. s # {} => f[Pick(s)] = g[Pick(s)]
    BY <1>2
<1> QED BY <1>2, <1>3, <1>4, SumStep

\* One value changes.
LEMMA SumChange ==
    ASSUME NEW S, IsFiniteSet(S), NEW f, NEW g, NEW a \in S,
           \A x \in S : f[x] \in Int, g[a] \in Int, \A x \in S \ {a} : g[x] = f[x]
    PROVE  SumFunctionOnSet(g, S) = SumFunctionOnSet(f, S) + g[a] - f[a]
<1>1. IsFiniteSet(S \ {a})
    BY FS_RemoveElement
<1>2. SumFunctionOnSet(g, S \ {a}) = SumFunctionOnSet(f, S \ {a})
    BY <1>1, SumSame
<1>3. \A x \in S : g[x] \in Int
    OBVIOUS
<1>4. /\ SumFunctionOnSet(g, S \ {a}) = SumFunctionOnSet(g, S) - g[a]
      /\ SumFunctionOnSet(f, S \ {a}) = SumFunctionOnSet(f, S) - f[a]
      /\ SumFunctionOnSet(g, S) \in Int /\ SumFunctionOnSet(f, S) \in Int
    BY <1>3, SumRemove, SumType, Zenon
<1> QED BY <1>2, <1>4

\* A sum of natural numbers is one, and at least each of its parts.
LEMMA SumNat ==
    ASSUME NEW S, IsFiniteSet(S), NEW f, \A x \in S : f[x] \in Nat
    PROVE  /\ SumFunctionOnSet(f, S) \in Nat
           /\ \A a \in S : f[a] <= SumFunctionOnSet(f, S)
<1>1. ASSUME NEW T \in SUBSET S PROVE SumFunctionOnSet(f, T) \in Nat
    <2> DEFINE Bad == {s \in SUBSET S : SumFunctionOnSet(f, s) \notin Nat}
    <2> SUFFICES ASSUME Bad # {} PROVE FALSE
        OBVIOUS
    <2>1. PICK s \in Bad : \A y \in Bad : y \subseteq s => y = s
        <3>1. Bad \in SUBSET SUBSET S
            OBVIOUS
        <3> HIDE DEF Bad
        <3> QED BY <3>1, SmallestSubset
    <2>2. IsFiniteSet(s) /\ (s # {} => Pick(s) \in s)
        BY FS_Subset DEF Pick
    <2>3. s # {} => SumFunctionOnSet(f, s \ {Pick(s)}) \in Nat
        BY <2>1, <2>2
    <2>4. s # {} => f[Pick(s)] \in Nat
        BY <2>2
    <2> QED BY <2>2, <2>3, <2>4, SumStep
<1>2. ASSUME NEW a \in S PROVE f[a] <= SumFunctionOnSet(f, S)
    <2>1. SumFunctionOnSet(f, S \ {a}) = SumFunctionOnSet(f, S) - f[a]
        BY SumRemove
    <2>2. SumFunctionOnSet(f, S \ {a}) \in Nat /\ SumFunctionOnSet(f, S) \in Nat /\ f[a] \in Nat
        BY <1>1
    <2> QED BY <2>1, <2>2
<1> QED BY <1>1, <1>2

\* Sums of two functions.
LEMMA SumPlus ==
    ASSUME NEW S, IsFiniteSet(S), NEW f, NEW g, NEW h,
           \A x \in S : f[x] \in Int /\ g[x] \in Int /\ h[x] = f[x] + g[x]
    PROVE  SumFunctionOnSet(h, S) = SumFunctionOnSet(f, S) + SumFunctionOnSet(g, S)
<1> DEFINE F(s) == SumFunctionOnSet(f, s)
           G(s) == SumFunctionOnSet(g, s)
           H(s) == SumFunctionOnSet(h, s)
           Bad == {s \in SUBSET S : H(s) # F(s) + G(s)}
<1> SUFFICES ASSUME Bad # {} PROVE FALSE
    OBVIOUS
<1>1. PICK s \in Bad : \A y \in Bad : y \subseteq s => y = s
    <2>1. Bad \in SUBSET SUBSET S
        OBVIOUS
    <2> HIDE DEF Bad
    <2> QED BY <2>1, SmallestSubset
<1> DEFINE p == Pick(s)
           r == s \ {p}
<1>2. IsFiniteSet(s) /\ IsFiniteSet(r) /\ (s # {} => p \in s)
    BY FS_Subset DEF Pick
<1>3. s # {} => H(r) = F(r) + G(r)
    BY <1>1, <1>2
<1>4. F(r) \in Int /\ G(r) \in Int
    BY <1>2, SumType
<1>5. /\ F(s) = IF s = {} THEN 0 ELSE f[p] + F(r)
      /\ G(s) = IF s = {} THEN 0 ELSE g[p] + G(r)
      /\ H(s) = IF s = {} THEN 0 ELSE h[p] + H(r)
    BY <1>2, SumStep
<1>6. s # {} => f[p] \in Int /\ g[p] \in Int /\ h[p] = f[p] + g[p]
    BY <1>2
<1>7. H(s) # F(s) + G(s)
    OBVIOUS
<1> HIDE DEF F, G, H, p, r
<1> QED BY <1>3, <1>4, <1>5, <1>6, <1>7

\* Sums of two sets without a common element.
LEMMA SumUnion ==
    ASSUME NEW S, IsFiniteSet(S), NEW T, IsFiniteSet(T), S \cap T = {},
           NEW f, \A x \in S \cup T : f[x] \in Int
    PROVE  SumFunctionOnSet(f, S \cup T) = SumFunctionOnSet(f, S) + SumFunctionOnSet(f, T)
<1> DEFINE F(s) == SumFunctionOnSet(f, s)
           Bad == {s \in SUBSET S : F(s \cup T) # F(s) + F(T)}
<1> SUFFICES ASSUME Bad # {} PROVE FALSE
    BY Zenon
<1>1. PICK s \in Bad : \A y \in Bad : y \subseteq s => y = s
    <2>1. Bad \in SUBSET SUBSET S
        OBVIOUS
    <2> HIDE DEF Bad
    <2> QED BY <2>1, SmallestSubset
<1>2. F(T) \in Int
    BY SumType
<1>3. CASE s = {}
    <2>1. F(s) = 0 /\ s \cup T = T
        BY <1>3, SumEmpty
    <2>2. F(s \cup T) # F(s) + F(T)
        OBVIOUS
    <2>3. F(T) # F(s) + F(T)
        BY <2>1, <2>2, Zenon
    <2> HIDE DEF F
    <2> QED BY <1>2, <2>1, <2>3
<1>4. CASE s # {}
    <2>1. PICK a \in s : TRUE
        BY <1>4
    <2> DEFINE r == s \ {a}
    <2>2. /\ r \in SUBSET S /\ r # s /\ a \notin r /\ a \notin r \cup T
          /\ s = r \cup {a} /\ s \cup T = (r \cup T) \cup {a}
        OBVIOUS
    <2>3. F(r \cup T) = F(r) + F(T)
        BY <1>1, <2>2
    <2>4. IsFiniteSet(r) /\ IsFiniteSet(r \cup T) /\ f[a] \in Int
          /\ \A x \in r \cup T : f[x] \in Int
        BY <2>2, FS_Subset, FS_Union, Zenon
    <2>5. F(s) = F(r) + f[a] /\ F(s \cup T) = F(r \cup T) + f[a] /\ F(r) \in Int
        <3> HIDE DEF r
        <3>1. F(r \cup {a}) = F(r) + f[a]
            BY <2>2, <2>4, SumAdd
        <3>2. F((r \cup T) \cup {a}) = F(r \cup T) + f[a]
            <4> DEFINE u == r \cup T
            <4>1. IsFiniteSet(u) /\ a \notin u /\ f[a] \in Int /\ \A x \in u : f[x] \in Int
                BY <2>2, <2>4
            <4> HIDE DEF u
            <4>2. F(u \cup {a}) = F(u) + f[a]
                BY <4>1, SumAdd
            <4> QED BY <4>2 DEF u
        <3>3. F(r) \in Int
            BY <2>4, SumType
        <3> HIDE DEF F
        <3> QED BY <2>2, <3>1, <3>2, <3>3, Zenon
    <2>6. F(s \cup T) # F(s) + F(T)
        OBVIOUS
    <2> HIDE DEF F, r
    <2> QED BY <1>2, <2>3, <2>4, <2>5, <2>6
<1> QED BY <1>3, <1>4

\* A set and a part of it.
LEMMA SumDifference ==
    ASSUME NEW S, IsFiniteSet(S), NEW T \in SUBSET S, NEW f, \A x \in S : f[x] \in Int
    PROVE  SumFunctionOnSet(f, S \ T) = SumFunctionOnSet(f, S) - SumFunctionOnSet(f, T)
<1>1. IsFiniteSet(T) /\ IsFiniteSet(S \ T) /\ (S \ T) \cap T = {} /\ (S \ T) \cup T = S
    BY FS_Subset
<1>2. SumFunctionOnSet(f, S) = SumFunctionOnSet(f, S \ T) + SumFunctionOnSet(f, T)
    BY <1>1, SumUnion
<1>3. SumFunctionOnSet(f, S \ T) \in Int /\ SumFunctionOnSet(f, T) \in Int
    BY <1>1, SumType
<1> QED BY <1>2, <1>3

\* A sum of natural numbers is at least the sum of a part.
LEMMA SumPart ==
    ASSUME NEW S, IsFiniteSet(S), NEW T \in SUBSET S, NEW f, \A x \in S : f[x] \in Nat
    PROVE  SumFunctionOnSet(f, T) <= SumFunctionOnSet(f, S)
<1>1. IsFiniteSet(T) /\ IsFiniteSet(S \ T)
    BY FS_Subset
<1>2. SumFunctionOnSet(f, S \ T) = SumFunctionOnSet(f, S) - SumFunctionOnSet(f, T)
    BY SumDifference
<1>3. /\ SumFunctionOnSet(f, S \ T) \in Nat /\ SumFunctionOnSet(f, T) \in Nat
      /\ SumFunctionOnSet(f, S) \in Nat
    BY <1>1, SumNat
<1> QED BY <1>2, <1>3

\* A sum of zeros.
LEMMA SumZero ==
    ASSUME NEW S, IsFiniteSet(S), NEW f, \A x \in S : f[x] = 0
    PROVE  SumFunctionOnSet(f, S) = 0
<1> DEFINE F(s) == SumFunctionOnSet(f, s)
           Bad == {s \in SUBSET S : F(s) # 0}
<1> SUFFICES ASSUME Bad # {} PROVE FALSE
    OBVIOUS
<1>1. PICK s \in Bad : \A y \in Bad : y \subseteq s => y = s
    <2>1. Bad \in SUBSET SUBSET S
        OBVIOUS
    <2> HIDE DEF Bad
    <2> QED BY <2>1, SmallestSubset
<1>2. IsFiniteSet(s) /\ (s # {} => Pick(s) \in s)
    BY FS_Subset DEF Pick
<1>3. s # {} => F(s \ {Pick(s)}) = 0 /\ f[Pick(s)] = 0
    BY <1>1, <1>2
<1>4. F(s) = IF s = {} THEN 0 ELSE f[Pick(s)] + F(s \ {Pick(s)})
    BY <1>2, SumStep
<1>5. F(s) # 0
    OBVIOUS
<1> HIDE DEF F
<1> QED BY <1>3, <1>4, <1>5

\* Sums compare as their parts do.
LEMMA SumMonotone ==
    ASSUME NEW S, IsFiniteSet(S), NEW f, NEW g,
           \A x \in S : f[x] \in Int /\ g[x] \in Int /\ f[x] <= g[x]
    PROVE  SumFunctionOnSet(f, S) <= SumFunctionOnSet(g, S)
<1> DEFINE d == [x \in S |-> g[x] - f[x]]
<1>1. \A x \in S : d[x] \in Nat /\ d[x] \in Int /\ f[x] \in Int /\ g[x] = f[x] + d[x]
    OBVIOUS
<1> HIDE DEF d
<1>2. SumFunctionOnSet(g, S) = SumFunctionOnSet(f, S) + SumFunctionOnSet(d, S)
    BY <1>1, SumPlus
<1>3. SumFunctionOnSet(d, S) \in Nat /\ SumFunctionOnSet(f, S) \in Int
    BY <1>1, SumNat, SumType
<1> QED BY <1>2, <1>3

\* Adding up by owner: the parts of the owners make up the whole.
LEMMA SumByOwner ==
    ASSUME NEW A, IsFiniteSet(A), NEW S, IsFiniteSet(S), NEW f, \A x \in S : f[x] \in Int,
           NEW own, \A x \in S : own[x] \in A
    PROVE  SumFunctionOnSet([a \in A |-> SumFunctionOnSet(f, {x \in S : own[x] = a})], A) =
           SumFunctionOnSet(f, S)
<1> DEFINE F(s) == SumFunctionOnSet(f, s)
           part(s) == [a \in A |-> F({x \in s : own[x] = a})]
           P(s) == SumFunctionOnSet(part(s), A)
           Bad == {s \in SUBSET S : P(s) # F(s)}
<1> SUFFICES ASSUME Bad # {} PROVE FALSE
    <2>1. P(S) = F(S)
        BY Zenon
    <2> QED BY <2>1
<1>1. PICK s \in Bad : \A y \in Bad : y \subseteq s => y = s
    <2>1. Bad \in SUBSET SUBSET S
        OBVIOUS
    <2> HIDE DEF Bad
    <2> QED BY <2>1, SmallestSubset
<1>2. P(s) # F(s) /\ s \in SUBSET S
    OBVIOUS
<1>3. CASE s = {}
    <2>1. F(s) = 0
        BY <1>3, SumEmpty
    <2>2. \A a \in A : {x \in s : own[x] = a} = {}
        BY <1>3
    <2>3. \A a \in A : part(s)[a] = 0
        BY <2>2, SumEmpty
    <2>4. P(s) = 0
        <3> HIDE DEF part
        <3> QED BY <2>3, SumZero
    <2> QED BY <1>2, <2>1, <2>4
<1>4. CASE s # {}
    <2>1. PICK z \in s : TRUE
        BY <1>4
    <2> DEFINE r == s \ {z}
               o == own[z]
    <2>2. r \in SUBSET S /\ r # s /\ r \subseteq s /\ z \notin r /\ s = r \cup {z} /\ o \in A
          /\ f[z] \in Int
        OBVIOUS
    <2>3. P(r) = F(r)
        BY <1>1, <2>2
    <2>4. \A t \in SUBSET S : IsFiniteSet(t) /\ (\A x \in t : f[x] \in Int)
        BY FS_Subset
    <2>5. F(s) = F(r) + f[z] /\ F(r) \in Int
        <3> HIDE DEF r
        <3>1. IsFiniteSet(r) /\ (\A x \in r : f[x] \in Int) /\ z \notin r /\ f[z] \in Int
            BY <2>2, <2>4
        <3>2. F(r \cup {z}) = F(r) + f[z]
            BY <3>1, SumAdd
        <3>3. F(r) \in Int
            BY <3>1, SumType
        <3> QED BY <2>2, <3>2, <3>3
    <2>6. \A a \in A : part(r)[a] \in Int
        <3> TAKE a \in A
        <3>1. {x \in r : own[x] = a} \in SUBSET S
            BY <2>2
        <3> QED BY <2>4, <3>1, SumType
    <2>7. part(s)[o] = part(r)[o] + f[z]
        <3> DEFINE t == {x \in r : own[x] = o}
        <3>1. {x \in s : own[x] = o} = t \cup {z} /\ t \in SUBSET S /\ z \notin t
            BY <2>2
        <3>2. IsFiniteSet(t) /\ (\A x \in t : f[x] \in Int) /\ f[z] \in Int
            BY <2>2, <2>4, <3>1
        <3>3. F(t \cup {z}) = F(t) + f[z]
            <4> HIDE DEF t
            <4> QED BY <3>1, <3>2, SumAdd
        <3> QED BY <2>2, <3>1, <3>3, Zenon
    <2>8. \A a \in A \ {o} : part(s)[a] = part(r)[a]
        <3> TAKE a \in A \ {o}
        <3>1. {x \in s : own[x] = a} = {x \in r : own[x] = a}
            OBVIOUS
        <3> QED BY <3>1
    <2>9. part(r)[o] \in Int /\ part(s)[o] \in Int
        <3>1. part(r)[o] \in Int
            BY <2>2, <2>6
        <3> HIDE DEF part
        <3> QED BY <2>2, <2>7, <3>1
    <2>10. P(s) = P(r) + part(s)[o] - part(r)[o] /\ P(r) \in Int
        <3> DEFINE before == part(r)
                   after == part(s)
        <3>1. /\ \A x \in A : before[x] \in Int
              /\ \A x \in A \ {o} : after[x] = before[x]
              /\ o \in A /\ after[o] \in Int
            BY <2>2, <2>6, <2>8, <2>9
        <3>2. P(s) = SumFunctionOnSet(after, A) /\ P(r) = SumFunctionOnSet(before, A)
            OBVIOUS
        <3> HIDE DEF before, after, o, P
        <3>3. SumFunctionOnSet(after, A) = SumFunctionOnSet(before, A) + after[o] - before[o]
            BY <3>1, SumChange
        <3>4. SumFunctionOnSet(before, A) \in Int
            BY <3>1, SumType
        <3> QED BY <3>2, <3>3, <3>4 DEF before, after
    <2> HIDE DEF P, F, part, r, o
    <2> QED BY <1>2, <2>2, <2>3, <2>5, <2>7, <2>9, <2>10
<1> QED BY <1>3, <1>4

-----------------------------------------------------------------------------
(* The least and the greatest of some natural numbers, as Min and Max of   *)
(* FiniteSetsExt take them.                                                *)

\* There is one.
LEMMA LeastExists ==
    ASSUME NEW S \in SUBSET Nat, S # {}
    PROVE  \E x \in S : \A y \in S : x <= y
<1>1. PICK x \in S : \A y \in S : ~(<<y, x>> \in OpToRel(<, Nat))
    BY NatLessThanWellFounded, WFMin, Zenon
<1>2. \A y \in S : ~(y < x)
    BY <1>1, Zenon DEF OpToRel
<1> QED BY <1>2

\* There is a greatest of finitely many.
LEMMA GreatestExists ==
    ASSUME NEW S, IsFiniteSet(S), S # {}, \A x \in S : x \in Nat
    PROVE  \E x \in S : \A y \in S : y <= x
<1> DEFINE Bad == {s \in SUBSET S : s # {} /\ ~\E x \in s : \A y \in s : y <= x}
<1> SUFFICES ASSUME Bad # {} PROVE FALSE
    OBVIOUS
<1>1. PICK s \in Bad : \A y \in Bad : y \subseteq s => y = s
    <2>1. Bad \in SUBSET SUBSET S
        OBVIOUS
    <2> HIDE DEF Bad
    <2> QED BY <2>1, SmallestSubset
<1>2. PICK a \in s : TRUE
    BY <1>1
<1>3. s \ {a} # {}
    BY <1>1, <1>2
<1>4. PICK m \in s \ {a} : \A y \in s \ {a} : y <= m
    <2>1. s \ {a} \in SUBSET S /\ s \ {a} \subseteq s /\ s \ {a} # s
        BY <1>1, <1>2
    <2>2. s \ {a} \notin Bad
        BY <1>1, <2>1, Zenon
    <2> QED BY <1>3, <2>1, <2>2
<1>5. a \in Nat /\ m \in Nat
    BY <1>1, <1>2, <1>4
<1>6. \A y \in s : y \in Nat
    BY <1>1
<1> QED BY <1>1, <1>2, <1>4, <1>5, <1>6
=============================================================================
