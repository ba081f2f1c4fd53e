----------------------------- MODULE Induction -----------------------------
(***************************************************************************)
(* Facts about natural numbers, finite sets and sequences that the proofs  *)
(* about the components share.  The first ones rest on the well-foundedness*)
(* of < in the form of WFMin, which has no operator parameter.             *)
(***************************************************************************)
EXTENDS Naturals, Sequences, FiniteSets, FiniteSetTheorems, WellFoundedInduction, TLAPS

\* A set of natural numbers that is not empty has a least element: the number
\* of the first counterexample in a proof by induction.
LEMMA LeastNat ==
    ASSUME NEW S, S \subseteq Nat, S # {}
    PROVE  \E n \in S : \A m \in S : n <= m
<1> DEFINE R == {p \in Nat \X Nat : p[1] < p[2]}
<1>1. IsWellFoundedOn(R, Nat)
  BY NatLessThanWellFounded DEF OpToRel
<1>2. PICK n \in S : \A m \in S : ~(<<m, n>> \in R)
  <2> HIDE DEF R
  <2> QED BY <1>1, WFMin
<1>3. ASSUME NEW m \in S PROVE n <= m
  <2>1. n \in Nat /\ m \in Nat /\ ~(<<m, n>> \in R)
    BY <1>2
  <2>2. ~(m < n)
    BY <2>1
  <2> QED BY <2>1, <2>2
<1> QED BY <1>3

\* A finite set of natural numbers that is not empty has a greatest element,
\* such as the last account in a registry.  Otherwise take a smallest subset
\* without one: it has one when any of its elements is taken out.
LEMMA FiniteHasMax ==
    ASSUME NEW S, S \subseteq Nat, IsFiniteSet(S), S # {}
    PROVE  \E n \in S : \A m \in S : m <= n
<1> DEFINE Bad(T) == T # {} /\ ~ \E n \in T : \A m \in T : m <= n
           K == {Cardinality(T) : T \in {U \in SUBSET S : Bad(U)}}
<1>1. \A T \in SUBSET S : IsFiniteSet(T) /\ Cardinality(T) \in Nat
  BY FS_Subset, FS_CardinalityType
<1>2. ASSUME Bad(S) PROVE FALSE
  <2>1. K \subseteq Nat /\ K # {}
    BY <1>1, <1>2
  <2>2. PICK k \in K : \A m \in K : k <= m
    <3> HIDE DEF K
    <3> QED BY <2>1, LeastNat
  <2>3. PICK T \in SUBSET S : Bad(T) /\ Cardinality(T) = k
    BY <2>2
  <2>4. PICK x \in T : TRUE
    BY <2>3
  <2>5. T \ {x} \in SUBSET S /\ Cardinality(T \ {x}) = Cardinality(T) - 1
    BY <2>4, <1>1, FS_RemoveElement
  <2>6. ~Bad(T \ {x})
    <3> SUFFICES ASSUME Bad(T \ {x}) PROVE FALSE
      OBVIOUS
    <3>1. Cardinality(T \ {x}) \in K
      BY <2>5
    <3> HIDE DEF K, Bad
    <3> QED BY <3>1, <2>1, <2>2, <2>3, <2>5, <1>1
  <2>7. CASE T \ {x} = {}
    <3>1. T = {x} /\ x \in Nat
      BY <2>7, <2>4
    <3> QED BY <3>1, <2>3
  <2>8. CASE T \ {x} # {}
    <3>1. PICK n \in T \ {x} : \A m \in T \ {x} : m <= n
      BY <2>6, <2>8
    <3>2. n \in Nat /\ x \in Nat
      OBVIOUS
    <3>3. CASE x <= n
      BY <3>1, <3>3, <2>3
    <3>4. CASE ~(x <= n)
      <4>1. \A m \in T : m <= x
        BY <3>1, <3>2, <3>4
      <4> QED BY <4>1, <2>3, <2>4
    <3> QED BY <3>3, <3>4
  <2> QED BY <2>7, <2>8
<1> QED BY <1>2

\* What Append does to the elements of a sequence.
LEMMA AppendRange ==
    ASSUME NEW T, NEW s \in Seq(T), NEW t \in T
    PROVE  /\ Range(Append(s, t)) = Range(s) \cup {t}
           /\ IsInjective(s) /\ t \notin Range(s) => IsInjective(Append(s, t))
<1>1. /\ DOMAIN s = 1 .. Len(s) /\ Len(s) \in Nat
      /\ DOMAIN Append(s, t) = 1 .. Len(s) + 1
      /\ \A i \in 1 .. Len(s) : Append(s, t)[i] = s[i]
      /\ Append(s, t)[Len(s) + 1] = t
  OBVIOUS
<1>2. Range(Append(s, t)) = Range(s) \cup {t}
  <2>1. ASSUME NEW u \in Range(Append(s, t)) PROVE u \in Range(s) \cup {t}
    <3>1. PICK i \in 1 .. Len(s) + 1 : u = Append(s, t)[i]
      BY <1>1, <2>1 DEF Range
    <3>2. CASE i = Len(s) + 1
      BY <1>1, <3>1, <3>2
    <3>3. CASE i \in 1 .. Len(s)
      BY <1>1, <3>1, <3>3 DEF Range
    <3> QED BY <1>1, <3>2, <3>3
  <2>2. ASSUME NEW u \in Range(s) PROVE u \in Range(Append(s, t))
    <3>1. PICK i \in 1 .. Len(s) : u = s[i]
      BY <1>1, <2>2 DEF Range
    <3>2. i \in DOMAIN Append(s, t) /\ u = Append(s, t)[i]
      BY <1>1, <3>1
    <3> QED BY <3>2 DEF Range
  <2>3. t \in Range(Append(s, t))
    <3>1. Len(s) + 1 \in DOMAIN Append(s, t)
      BY <1>1
    <3> QED BY <1>1, <3>1 DEF Range
  <2> QED BY <2>1, <2>2, <2>3
<1>3. ASSUME IsInjective(s), t \notin Range(s) PROVE IsInjective(Append(s, t))
  <2>1. ASSUME NEW i \in 1 .. Len(s) + 1, NEW j \in 1 .. Len(s) + 1,
               Append(s, t)[i] = Append(s, t)[j]
        PROVE  i = j
    <3>1. \A k \in 1 .. Len(s) : s[k] # t
      BY <1>1, <1>3 DEF Range
    <3>2. CASE i \in 1 .. Len(s) /\ j \in 1 .. Len(s)
      BY <1>1, <1>3, <2>1, <3>2 DEF IsInjective
    <3>3. CASE i = Len(s) + 1 /\ j \in 1 .. Len(s)
      BY <1>1, <2>1, <3>1, <3>3
    <3>4. CASE j = Len(s) + 1 /\ i \in 1 .. Len(s)
      BY <1>1, <2>1, <3>1, <3>4
    <3>5. CASE i = Len(s) + 1 /\ j = Len(s) + 1
      BY <3>5
    <3> QED BY <1>1, <3>2, <3>3, <3>4, <3>5
  <2> QED BY <1>1, <2>1 DEF IsInjective
<1> QED BY <1>2, <1>3

\* What Tail does to the elements of a sequence.
LEMMA TailRange ==
    ASSUME NEW T, NEW s \in Seq(T), s # <<>>
    PROVE  /\ Range(s) = Range(Tail(s)) \cup {Head(s)}
           /\ IsInjective(s) => IsInjective(Tail(s)) /\ Head(s) \notin Range(Tail(s))
<1>1. /\ DOMAIN s = 1 .. Len(s) /\ Len(s) \in Nat \ {0}
      /\ Tail(s) \in Seq(T)
      /\ DOMAIN Tail(s) = 1 .. Len(s) - 1
      /\ \A i \in 1 .. Len(s) - 1 : Tail(s)[i] = s[i + 1]
      /\ Head(s) = s[1]
  OBVIOUS
<1>2. ASSUME NEW u \in Range(s) PROVE u \in Range(Tail(s)) \cup {Head(s)}
  <2>1. PICK i \in 1 .. Len(s) : u = s[i]
    BY <1>1, <1>2 DEF Range
  <2>2. CASE i = 1
    BY <1>1, <2>1, <2>2
  <2>3. CASE i # 1
    <3>1. i - 1 \in DOMAIN Tail(s) /\ Tail(s)[i - 1] = u
      BY <1>1, <2>1, <2>3
    <3> QED BY <3>1 DEF Range
  <2> QED BY <2>2, <2>3
<1>3. ASSUME NEW u \in Range(Tail(s))
      PROVE  \E i \in 1 .. Len(s) - 1 : u = s[i + 1] /\ i + 1 \in 1 .. Len(s)
  <2>1. PICK i \in 1 .. Len(s) - 1 : u = Tail(s)[i]
    BY <1>1, <1>3 DEF Range
  <2> QED BY <1>1, <2>1
<1>4. Range(Tail(s)) \subseteq Range(s)
  BY <1>1, <1>3 DEF Range
<1>5. Head(s) \in Range(s)
  <2>1. 1 \in DOMAIN s /\ Head(s) = s[1]
    BY <1>1
  <2> QED BY <2>1 DEF Range
<1>6. ASSUME IsInjective(s) PROVE Head(s) \notin Range(Tail(s))
  <2>1. ASSUME Head(s) \in Range(Tail(s)) PROVE FALSE
    <3>1. PICK i \in 1 .. Len(s) - 1 : s[1] = s[i + 1] /\ i + 1 \in 1 .. Len(s)
      BY <1>1, <1>3, <2>1
    <3>2. 1 = i + 1
      BY <1>1, <1>6, <3>1 DEF IsInjective
    <3> QED BY <1>1, <3>2
  <2> QED BY <2>1
<1>7. ASSUME IsInjective(s) PROVE IsInjective(Tail(s))
  <2>1. ASSUME NEW i \in 1 .. Len(s) - 1, NEW j \in 1 .. Len(s) - 1, Tail(s)[i] = Tail(s)[j]
        PROVE  i = j
    <3>1. s[i + 1] = s[j + 1] /\ i + 1 \in DOMAIN s /\ j + 1 \in DOMAIN s
      BY <1>1, <2>1
    <3>2. i + 1 = j + 1
      BY <1>7, <3>1 DEF IsInjective
    <3> QED BY <1>1, <3>2
  <2> QED BY <1>1, <2>1 DEF IsInjective
<1> QED BY <1>2, <1>4, <1>5, <1>6, <1>7

-----------------------------------------------------------------------------
\* Induction, for a property that is given as the set of what has it.

LEMMA NumberInduction ==
    ASSUME NEW Good, 0 \in Good, \A n \in Nat : n \in Good => n + 1 \in Good
    PROVE  \A n \in Nat : n \in Good
<1> DEFINE Bad == {n \in Nat : n \notin Good}
<1>1. ASSUME Bad # {} PROVE FALSE
  <2>1. PICK n \in Bad : \A m \in Bad : n <= m
    <3>1. Bad \subseteq Nat
      OBVIOUS
    <3> HIDE DEF Bad
    <3> QED BY <1>1, <3>1, LeastNat
  <2>2. n \in Nat /\ n \notin Good /\ n # 0
    BY <2>1
  <2>3. n - 1 \in Nat /\ ~(n <= n - 1) /\ (n - 1) + 1 = n
    BY <2>2
  <2>4. n - 1 \in Good
    BY <2>1, <2>3
  <2> QED BY <2>2, <2>3, <2>4
<1> QED BY <1>1

\* pick takes an element out of each subset of S.
Picks(pick, S) == \A t \in SUBSET S : t # {} => pick[t] \in t

\* The elements of a finite set are taken out one by one, as pick tells.
LEMMA SubsetInduction ==
    ASSUME NEW S, IsFiniteSet(S), NEW pick, Picks(pick, S),
           NEW Good, {} \in Good,
           \A t \in SUBSET S : t # {} /\ t \ {pick[t]} \in Good => t \in Good
    PROVE  \A t \in SUBSET S : t \in Good
<1> DEFINE Sizes == {n \in Nat : \A t \in SUBSET S : Cardinality(t) = n => t \in Good}
<1>1. \A t \in SUBSET S : IsFiniteSet(t) /\ Cardinality(t) \in Nat
  BY FS_Subset, FS_CardinalityType
<1>2. 0 \in Sizes
  <2>1. \A t \in SUBSET S : Cardinality(t) = 0 => t = {}
    BY <1>1, FS_EmptySet
  <2> QED BY <2>1
<1>3. ASSUME NEW n \in Nat, n \in Sizes PROVE n + 1 \in Sizes
  <2>1. ASSUME NEW t \in SUBSET S, Cardinality(t) = n + 1 PROVE t \in Good
    <3>1. t # {}
      <4>1. Cardinality({}) = 0 /\ n + 1 # 0
        BY FS_EmptySet
      <4> QED BY <2>1, <4>1
    <3>2. pick[t] \in t /\ t \ {pick[t]} \in SUBSET S
      BY <3>1 DEF Picks
    <3>3. Cardinality(t \ {pick[t]}) = Cardinality(t) - 1
      BY <1>1, <3>2, FS_RemoveElement
    <3>4. Cardinality(t \ {pick[t]}) = n
      BY <2>1, <3>3
    <3>5. t \ {pick[t]} \in Good
      BY <1>3, <3>2, <3>4
    <3> QED BY <3>1, <3>5
  <2> QED BY <2>1
<1>4. \A n \in Nat : n \in Sizes
  <2> HIDE DEF Sizes
  <2> QED BY <1>2, <1>3, NumberInduction
<1> QED BY <1>1, <1>4

\* f is computed so, from base, with values in D.
Computes(f, S, pick, D, base, step) ==
    /\ f \in [SUBSET S -> D]
    /\ \A t \in SUBSET S :
        f[t] = IF t = {} THEN base ELSE step[<<f[t \ {pick[t]}], pick[t]>>]

\* What is computed by taking out the elements of a finite set one by one is
\* well defined: this is how the folds of the community modules compute.
LEMMA FoldExists ==
    ASSUME NEW S, IsFiniteSet(S), NEW pick, Picks(pick, S),
           NEW D, NEW base \in D, NEW step \in [D \X S -> D]
    PROVE  \E f : Computes(f, S, pick, D, base, step)
<1> DEFINE Step(f, t) == IF t = {} THEN base ELSE step[<<f[t \ {pick[t]}], pick[t]>>]
           Upto(n) == \E f \in [SUBSET S -> D] :
                        \A t \in SUBSET S : Cardinality(t) <= n => f[t] = Step(f, t)
           Good == {n \in Nat : Upto(n)}
<1>1. \A t \in SUBSET S : IsFiniteSet(t) /\ Cardinality(t) \in Nat
  BY FS_Subset, FS_CardinalityType
<1>2. 0 \in Good
  <2> DEFINE f == [t \in SUBSET S |-> base]
  <2>1. \A t \in SUBSET S : Cardinality(t) <= 0 => t = {}
    BY <1>1, FS_EmptySet
  <2>2. f \in [SUBSET S -> D] /\ \A t \in SUBSET S : Cardinality(t) <= 0 => f[t] = Step(f, t)
    BY <2>1
  <2>3. Upto(0)
    <3> HIDE DEF f, Step
    <3> QED BY <2>2
  <2> HIDE DEF Upto
  <2> QED BY <2>3
<1>3. ASSUME NEW n \in Nat, n \in Good PROVE n + 1 \in Good
  <2>1. PICK f \in [SUBSET S -> D] :
            \A t \in SUBSET S : Cardinality(t) <= n => f[t] = Step(f, t)
    BY <1>3
  <2> DEFINE g == [t \in SUBSET S |-> Step(f, t)]
  <2>2. \A t \in SUBSET S : Step(f, t) \in D
    BY DEF Picks
  <2>3. g \in [SUBSET S -> D] /\ \A t \in SUBSET S : g[t] = Step(f, t)
    <3> HIDE DEF Step
    <3> QED BY <2>2
  <2>4. ASSUME NEW t \in SUBSET S, Cardinality(t) <= n + 1 PROVE g[t] = Step(g, t)
    <3>1. CASE t = {}
      BY <2>3, <3>1
    <3>2. CASE t # {}
      <4>1. pick[t] \in t /\ t \ {pick[t]} \in SUBSET S
        BY <3>2 DEF Picks
      <4>2. Cardinality(t \ {pick[t]}) = Cardinality(t) - 1
        BY <1>1, <4>1, FS_RemoveElement
      <4>3. Cardinality(t \ {pick[t]}) <= n
        BY <1>1, <2>4, <4>1, <4>2
      <4>4. g[t \ {pick[t]}] = f[t \ {pick[t]}]
        <5> HIDE DEF Step, g
        <5> QED BY <2>1, <2>3, <4>1, <4>3
      <4>5. g[t] = Step(f, t)
        BY <2>3
      <4>6. Step(f, t) = Step(g, t)
        <5> HIDE DEF g
        <5> QED BY <3>2, <4>4
      <4> QED BY <4>5, <4>6
    <3> QED BY <3>1, <3>2
  <2>5. Upto(n + 1)
    <3> HIDE DEF g, Step
    <3> QED BY <2>3, <2>4
  <2> HIDE DEF Upto
  <2> QED BY <2>5
<1>4. \A n \in Nat : n \in Good
  <2> HIDE DEF Good
  <2> QED BY <1>2, <1>3, NumberInduction
<1>5. PICK k \in Nat : k = Cardinality(S)
  BY <1>1
<1>6. \A t \in SUBSET S : Cardinality(t) <= k
  BY <1>5, FS_Subset
<1>7. PICK f \in [SUBSET S -> D] : \A t \in SUBSET S : Cardinality(t) <= k => f[t] = Step(f, t)
  BY <1>4
<1> QED BY <1>6, <1>7 DEF Computes

\* What is computed by n steps from a base is well defined: the recursive
\* functions on numbers.
Steps(f, N, D, base, step) ==
    /\ f \in [0 .. N -> D]
    /\ \A n \in 0 .. N : f[n] = IF n = 0 THEN base ELSE step[f[n - 1]]

LEMMA StepsExist ==
    ASSUME NEW N \in Nat, NEW D, NEW base \in D, NEW step \in [D -> D]
    PROVE  \E f : Steps(f, N, D, base, step)
<1> DEFINE Upto(k) == \E f \in [0 .. N -> D] :
                        \A n \in 0 .. N :
                            n <= k => f[n] = IF n = 0 THEN base ELSE step[f[n - 1]]
           Good == {k \in Nat : Upto(k)}
<1>1. 0 \in Good
  <2>1. PICK f : f = [n \in 0 .. N |-> base]
    OBVIOUS
  <2>2. f \in [0 .. N -> D] /\ \A n \in 0 .. N : n <= 0 => n = 0 /\ f[n] = base
    BY <2>1
  <2> QED BY <2>2
<1>2. ASSUME NEW k \in Nat, k \in Good PROVE k + 1 \in Good
  <2>1. PICK f \in [0 .. N -> D] :
            \A n \in 0 .. N : n <= k => f[n] = IF n = 0 THEN base ELSE step[f[n - 1]]
    BY <1>2
  <2>2. PICK g : g = [n \in 0 .. N |-> IF n = 0 THEN base ELSE step[f[n - 1]]]
    OBVIOUS
  <2>3. \A n \in 0 .. N : n = 0 \/ (n - 1 \in 0 .. N /\ f[n - 1] \in D)
    OBVIOUS
  <2>4. g \in [0 .. N -> D]
    BY <2>2, <2>3
  <2>5. ASSUME NEW n \in 0 .. N, n <= k + 1
        PROVE  g[n] = IF n = 0 THEN base ELSE step[g[n - 1]]
    <3>1. CASE n = 0
      BY <2>2, <3>1
    <3>2. CASE n # 0
      <4>1. n - 1 \in 0 .. N /\ n - 1 <= k
        BY <2>5, <3>2
      <4>2. g[n - 1] = f[n - 1]
        BY <2>1, <2>2, <4>1
      <4> QED BY <2>2, <3>2, <4>2
    <3> QED BY <3>1, <3>2
  <2> QED BY <2>4, <2>5
<1>3. \A k \in Nat : k \in Good
  <2> HIDE DEF Good
  <2> QED BY <1>1, <1>2, NumberInduction
<1>4. Upto(N)
  BY <1>3
<1>5. \A n \in 0 .. N : n <= N
  OBVIOUS
<1> QED BY <1>4, <1>5 DEF Steps

=============================================================================
