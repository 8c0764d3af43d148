----------------------------- MODULE SumTheorems -----------------------------
(***************************************************************************)
(* What SumOver computes, for every finite set: the facts that the proofs   *)
(* about running balances, refunds, bills of material and ratings rest on.  *)
(* The recursion behind it is followed by taking a least counterexample,    *)
(* which the provers find where an induction rule with a predicate as its   *)
(* parameter is beyond them.                                                *)
(***************************************************************************)
EXTENDS FiniteSums, FiniteSetTheorems, WellFoundedInduction, TLAPS

\* A family of subsets of a finite set has a least member: the form in which
\* these proofs use induction.
LEMMA LeastSet ==
  ASSUME NEW S, IsFiniteSet(S), NEW F \in SUBSET SUBSET S, F # {}
  PROVE  \E s \in F : \A t \in F : t \subseteq s => t = s
  <1>1. PICK s \in F : \A t \in F : ~ (<<t, s>> \in StrictSubsetOrdering(S))
    <2>1. IsWellFoundedOn(StrictSubsetOrdering(S), SUBSET S)
      BY FS_StrictSubsetOrderingWellFounded, FS_FiniteSubsetsOfFinite
    <2> QED
      BY <2>1, WFMin
  <1> QED
    BY <1>1 DEF StrictSubsetOrdering

Chosen(s) == CHOOSE x \in s : TRUE

\* The member that a fold takes next is one of the set.
LEMMA ChosenIn == ASSUME NEW s, s # {} PROVE Chosen(s) \in s
  BY DEF Chosen

\* The recursion by which SumOver runs through the subsets of a set.
Sums(it, f, S) ==
  it = [s \in SUBSET S |-> IF s = {} THEN 0 ELSE f[Chosen(s)] + it[s \ {Chosen(s)}]]

\* SumOver is the value at S of that recursion.
LEMMA SumDef ==
  ASSUME NEW f, NEW S
  PROVE  SumOver(f, S) = (CHOOSE it : Sums(it, f, S))[S]
  BY DEF SumOver, MapThenSumSet, MapThenFoldSet, Sums, Chosen

\* The equation of the recursion.
LEMMA SumsAt ==
  ASSUME NEW it, NEW f, NEW S, Sums(it, f, S), NEW s \in SUBSET S
  PROVE  it[s] = IF s = {} THEN 0 ELSE f[Chosen(s)] + it[s \ {Chosen(s)}]
  BY DEF Sums

\* The recursions on two sets agree on what is part of both.
LEMMA SumsAgree ==
  ASSUME NEW f, NEW T, NEW U, IsFiniteSet(T), NEW g, NEW h, Sums(g, f, T), Sums(h, f, U),
         NEW s \in SUBSET T, s \in SUBSET U
  PROVE  g[s] = h[s]
  <1> DEFINE F == {v \in SUBSET T : v \in SUBSET U /\ g[v] # h[v]}
  <1> SUFFICES ASSUME F # {} PROVE FALSE
    OBVIOUS
  <1>1. PICK v \in F : \A w \in F : w \subseteq v => w = v
    <2>1. F \in SUBSET SUBSET T
      OBVIOUS
    <2> HIDE DEF F
    <2> QED
      BY <2>1, LeastSet
  <1>2. v # {}
    BY <1>1, SumsAt
  <1> DEFINE w == v \ {Chosen(v)}
  <1>3. w # v /\ w \subseteq v
    BY <1>2, ChosenIn
  <1>4. w \notin F
    BY <1>1, <1>3
  <1>5. g[w] = h[w]
    BY <1>3, <1>4
  <1>6. g[v] = f[Chosen(v)] + g[w] /\ h[v] = f[Chosen(v)] + h[w]
    BY <1>2, SumsAt
  <1> QED
    BY <1>5, <1>6

\* The recursion is a definition: such a function exists.
LEMMA SumsExist ==
  ASSUME NEW f, NEW S, IsFiniteSet(S)
  PROVE  \E it : Sums(it, f, S)
  <1> DEFINE F == {v \in SUBSET S : ~ \E it : Sums(it, f, v)}
  <1> SUFFICES ASSUME F # {} PROVE FALSE
    OBVIOUS
  <1>1. PICK v \in F : \A w \in F : w \subseteq v => w = v
    <2>1. F \in SUBSET SUBSET S
      OBVIOUS
    <2> HIDE DEF F
    <2> QED
      BY <2>1, LeastSet
  <1>2. \A w \in SUBSET v : w # v => Sums(CHOOSE it : Sums(it, f, w), f, w)
    <2> SUFFICES ASSUME NEW w \in SUBSET v, w # v
                 PROVE  \E it : Sums(it, f, w)
      OBVIOUS
    <2> QED
      BY <1>1
  <1> DEFINE all == [w \in SUBSET v |-> CHOOSE it : Sums(it, f, w)]
             it == [s \in SUBSET v |-> IF s = {} THEN 0
                                       ELSE f[Chosen(s)] + all[s \ {Chosen(s)}][s \ {Chosen(s)}]]
  <1>3. \A w \in SUBSET v : w # v => Sums(all[w], f, w)
    BY <1>2
  <1> HIDE DEF all
  <1>4. ASSUME NEW s \in SUBSET v, s # v
        PROVE  it[s] = all[s][s]
    <2>1. CASE s = {}
      BY <1>3, <1>4, <2>1, SumsAt
    <2>2. CASE s # {}
      <3> DEFINE t == s \ {Chosen(s)}
      <3>1. t \in SUBSET s /\ t \in SUBSET v /\ t # v
        BY <1>4
      <3>2. all[s][s] = f[Chosen(s)] + all[s][t]
        BY <1>3, <1>4, <2>2, SumsAt
      <3>3. all[s][t] = all[t][t]
        <4>1. IsFiniteSet(s)
          BY <1>1, FS_Subset
        <4>2. Sums(all[s], f, s) /\ Sums(all[t], f, t)
          BY <1>3, <1>4, <3>1
        <4> QED
          BY <3>1, <4>1, <4>2, SumsAgree
      <3> QED
        BY <2>2, <3>2, <3>3
    <2> QED
      BY <2>1, <2>2
  <1>5. Sums(it, f, v)
    <2>1. ASSUME NEW s \in SUBSET v, s # {}
          PROVE  it[s] = f[Chosen(s)] + it[s \ {Chosen(s)}]
      <3>1. s \ {Chosen(s)} \in SUBSET v /\ s \ {Chosen(s)} # v
        BY <2>1, ChosenIn
      <3>2. it[s \ {Chosen(s)}] = all[s \ {Chosen(s)}][s \ {Chosen(s)}]
        BY <1>4, <3>1
      <3> QED
        BY <2>1, <3>2
    <2>2. \A s \in SUBSET v : it[s] = IF s = {} THEN 0 ELSE f[Chosen(s)] + it[s \ {Chosen(s)}]
      BY <2>1
    <2> QED
      BY <2>2 DEF Sums
  <1> QED
    BY <1>1, <1>5

-----------------------------------------------------------------------------
\* The sum over no members.
LEMMA SumEmpty ==
  ASSUME NEW f
  PROVE  SumOver(f, {}) = 0
  <1>1. Sums(CHOOSE it : Sums(it, f, {}), f, {})
    BY SumsExist, FS_EmptySet
  <1> QED
    BY <1>1, SumDef, SumsAt

\* The equation of the recursion, for SumOver itself.
LEMMA SumChosen ==
  ASSUME NEW f, NEW S, IsFiniteSet(S), S # {}
  PROVE  SumOver(f, S) = f[Chosen(S)] + SumOver(f, S \ {Chosen(S)})
  <1> DEFINE T == S \ {Chosen(S)}
             g == CHOOSE it : Sums(it, f, S)
             h == CHOOSE it : Sums(it, f, T)
  <1>1. IsFiniteSet(T) /\ T \in SUBSET S
    BY FS_Subset
  <1>2. Sums(g, f, S) /\ Sums(h, f, T)
    BY <1>1, SumsExist
  <1>3. SumOver(f, S) = g[S] /\ SumOver(f, T) = h[T]
    BY SumDef
  <1> HIDE DEF g, h
  <1>4. g[S] = f[Chosen(S)] + g[T]
    BY <1>2, SumsAt
  <1>5. g[T] = h[T]
    BY <1>1, <1>2, SumsAgree
  <1> QED
    BY <1>3, <1>4, <1>5

\* A sum of integers is an integer.
LEMMA SumInt ==
  ASSUME NEW f, NEW S, IsFiniteSet(S), \A x \in S : f[x] \in Int
  PROVE  SumOver(f, S) \in Int
  <1> DEFINE F == {v \in SUBSET S : SumOver(f, v) \notin Int}
  <1> SUFFICES ASSUME F # {} PROVE FALSE
    BY DEF F
  <1>1. PICK v \in F : \A w \in F : w \subseteq v => w = v
    <2>1. F \in SUBSET SUBSET S
      OBVIOUS
    <2> HIDE DEF F
    <2> QED
      BY <2>1, LeastSet
  <1>2. v # {}
    <2>1. {} \notin F
      BY SumEmpty
    <2> HIDE DEF F
    <2> QED
      BY <1>1, <2>1
  <1>3. Chosen(v) \in v /\ IsFiniteSet(v)
    BY <1>1, <1>2, ChosenIn, FS_Subset
  <1>4. SumOver(f, v \ {Chosen(v)}) \in Int
    BY <1>1, <1>3
  <1>5. SumOver(f, v) = f[Chosen(v)] + SumOver(f, v \ {Chosen(v)})
    BY <1>2, <1>3, SumChosen
  <1> QED
    BY <1>1, <1>3, <1>4, <1>5

\* A sum may be taken apart at any member.
THEOREM SumRemove ==
  ASSUME NEW f, NEW S, IsFiniteSet(S), \A x \in S : f[x] \in Int, NEW a \in S
  PROVE  SumOver(f, S) = f[a] + SumOver(f, S \ {a})
  <1> DEFINE F == {v \in SUBSET S : \E x \in v : SumOver(f, v) # f[x] + SumOver(f, v \ {x})}
  <1> SUFFICES ASSUME F # {} PROVE FALSE
    BY DEF F
  <1>1. PICK v \in F : \A w \in F : w \subseteq v => w = v
    <2>1. F \in SUBSET SUBSET S
      OBVIOUS
    <2> HIDE DEF F
    <2> QED
      BY <2>1, LeastSet
  <1>2. PICK x \in v : SumOver(f, v) # f[x] + SumOver(f, v \ {x})
    BY <1>1
  <1> DEFINE c == Chosen(v)
  <1>3. c \in v /\ IsFiniteSet(v) /\ v \subseteq S
    BY <1>1, <1>2, ChosenIn, FS_Subset
  <1>4. SumOver(f, v) = f[c] + SumOver(f, v \ {c})
    BY <1>2, <1>3, SumChosen
  <1> HIDE DEF c
  <1>5. x # c
    BY <1>2, <1>4
  <1>6. SumOver(f, v \ {c}) = f[x] + SumOver(f, (v \ {c}) \ {x})
    <2>1. v \ {c} \notin F
      BY <1>1, <1>3
    <2> QED
      BY <1>1, <1>2, <1>5, <2>1
  <1>7. SumOver(f, v \ {x}) = f[c] + SumOver(f, (v \ {x}) \ {c})
    <2>1. v \ {x} \notin F
      BY <1>1, <1>2
    <2> QED
      BY <1>1, <1>3, <1>5, <2>1
  <1>8. SumOver(f, (v \ {c}) \ {x}) = SumOver(f, (v \ {x}) \ {c})
    <2>1. (v \ {c}) \ {x} = (v \ {x}) \ {c}
      OBVIOUS
    <2> QED
      BY <2>1
  <1>9. SumOver(f, (v \ {x}) \ {c}) \in Int
    <2>1. IsFiniteSet((v \ {x}) \ {c}) /\ (v \ {x}) \ {c} \subseteq S
      BY <1>3, FS_Subset
    <2> QED
      BY <2>1, SumInt
  <1>10. f[x] \in Int /\ f[c] \in Int
    BY <1>2, <1>3
  <1> HIDE DEF F
  <1> QED
    BY <1>2, <1>4, <1>6, <1>7, <1>8, <1>9, <1>10

\* A member that joins adds its value.
THEOREM SumAdd ==
  ASSUME NEW f, NEW S, IsFiniteSet(S), \A x \in S : f[x] \in Int, NEW a, f[a] \in Int, a \notin S
  PROVE  SumOver(f, S \cup {a}) = SumOver(f, S) + f[a]
  <1>1. IsFiniteSet(S \cup {a}) /\ SumOver(f, (S \cup {a}) \ {a}) = SumOver(f, S)
    <2>1. (S \cup {a}) \ {a} = S
      OBVIOUS
    <2> QED
      BY <2>1, FS_AddElement
  <1>2. SumOver(f, S) \in Int
    BY SumInt
  <1>3. SumOver(f, S \cup {a}) = f[a] + SumOver(f, (S \cup {a}) \ {a})
    BY <1>1, SumRemove
  <1> QED
    BY <1>1, <1>2, <1>3

\* Only the values of the members count.
THEOREM SumSame ==
  ASSUME NEW f, NEW g, NEW S, IsFiniteSet(S), \A x \in S : f[x] = g[x]
  PROVE  SumOver(f, S) = SumOver(g, S)
  <1> DEFINE F == {v \in SUBSET S : SumOver(f, v) # SumOver(g, v)}
  <1> SUFFICES ASSUME F # {} PROVE FALSE
    BY DEF F
  <1>1. PICK v \in F : \A w \in F : w \subseteq v => w = v
    <2>1. F \in SUBSET SUBSET S
      OBVIOUS
    <2> HIDE DEF F
    <2> QED
      BY <2>1, LeastSet
  <1>2. v # {}
    BY <1>1, SumEmpty
  <1>3. Chosen(v) \in v /\ IsFiniteSet(v)
    BY <1>1, <1>2, ChosenIn, FS_Subset
  <1>4. SumOver(f, v \ {Chosen(v)}) = SumOver(g, v \ {Chosen(v)})
    BY <1>1, <1>3
  <1>5. /\ SumOver(f, v) = f[Chosen(v)] + SumOver(f, v \ {Chosen(v)})
        /\ SumOver(g, v) = g[Chosen(v)] + SumOver(g, v \ {Chosen(v)})
    BY <1>2, <1>3, SumChosen
  <1> QED
    BY <1>1, <1>3, <1>4, <1>5

\* What a member whose value changes adds to the sum.
THEOREM SumUpdate ==
  ASSUME NEW f, NEW g, NEW S, IsFiniteSet(S), NEW a \in S,
         \A x \in S : f[x] \in Int, g[a] \in Int, \A x \in S : x # a => g[x] = f[x]
  PROVE  SumOver(g, S) = SumOver(f, S) - f[a] + g[a]
  <1>1. IsFiniteSet(S \ {a})
    BY FS_Subset
  <1>2. SumOver(f, S \ {a}) = SumOver(g, S \ {a})
    BY <1>1, SumSame
  <1>3. SumOver(f, S) = f[a] + SumOver(f, S \ {a})
    BY SumRemove
  <1>4. SumOver(g, S) = g[a] + SumOver(g, S \ {a})
    BY SumRemove
  <1>5. SumOver(f, S \ {a}) \in Int /\ f[a] \in Int
    BY <1>1, SumInt
  <1> QED
    BY <1>2, <1>3, <1>4, <1>5

\* A sum of naturals is a natural ...
THEOREM SumNat ==
  ASSUME NEW f, NEW S, IsFiniteSet(S), \A x \in S : f[x] \in Nat
  PROVE  SumOver(f, S) \in Nat
  <1> DEFINE F == {v \in SUBSET S : SumOver(f, v) \notin Nat}
  <1> SUFFICES ASSUME F # {} PROVE FALSE
    BY DEF F
  <1>1. PICK v \in F : \A w \in F : w \subseteq v => w = v
    <2>1. F \in SUBSET SUBSET S
      OBVIOUS
    <2> HIDE DEF F
    <2> QED
      BY <2>1, LeastSet
  <1>2. v # {}
    <2>1. {} \notin F
      BY SumEmpty
    <2> HIDE DEF F
    <2> QED
      BY <1>1, <2>1
  <1>3. Chosen(v) \in v /\ IsFiniteSet(v)
    BY <1>1, <1>2, ChosenIn, FS_Subset
  <1>4. SumOver(f, v \ {Chosen(v)}) \in Nat
    BY <1>1, <1>3
  <1>5. SumOver(f, v) = f[Chosen(v)] + SumOver(f, v \ {Chosen(v)})
    BY <1>2, <1>3, SumChosen
  <1> QED
    BY <1>1, <1>3, <1>4, <1>5

\* A sum of zeros is zero.
THEOREM SumZero ==
  ASSUME NEW f, NEW S, IsFiniteSet(S), \A x \in S : f[x] = 0
  PROVE  SumOver(f, S) = 0
  <1> DEFINE F == {v \in SUBSET S : SumOver(f, v) # 0}
  <1> SUFFICES ASSUME F # {} PROVE FALSE
    BY DEF F
  <1>1. PICK v \in F : \A w \in F : w \subseteq v => w = v
    <2>1. F \in SUBSET SUBSET S
      OBVIOUS
    <2> HIDE DEF F
    <2> QED
      BY <2>1, LeastSet
  <1>2. v # {}
    <2>1. {} \notin F
      BY SumEmpty
    <2> HIDE DEF F
    <2> QED
      BY <1>1, <2>1
  <1>3. Chosen(v) \in v /\ IsFiniteSet(v)
    BY <1>1, <1>2, ChosenIn, FS_Subset
  <1>4. SumOver(f, v \ {Chosen(v)}) = 0
    BY <1>1, <1>3
  <1>5. SumOver(f, v) = f[Chosen(v)] + SumOver(f, v \ {Chosen(v)})
    BY <1>2, <1>3, SumChosen
  <1> QED
    BY <1>1, <1>3, <1>4, <1>5

\* ... and bounds the sum of every part of it.
THEOREM SumPart ==
  ASSUME NEW f, NEW S, IsFiniteSet(S), \A x \in S : f[x] \in Nat, NEW P \in SUBSET S
  PROVE  SumOver(f, P) <= SumOver(f, S)
  <1> DEFINE F == {v \in SUBSET S : P \subseteq v /\ ~(SumOver(f, P) <= SumOver(f, v))}
  <1> SUFFICES ASSUME F # {} PROVE FALSE
    BY DEF F
  <1>1. PICK v \in F : \A w \in F : w \subseteq v => w = v
    <2>1. F \in SUBSET SUBSET S
      OBVIOUS
    <2> HIDE DEF F
    <2> QED
      BY <2>1, LeastSet
  <1>2. IsFiniteSet(P) /\ IsFiniteSet(v) /\ v \subseteq S
    BY <1>1, FS_Subset
  <1>3. SumOver(f, P) \in Nat
    BY <1>2, SumNat
  <1>4. PICK a \in v : a \notin P
    <2>1. P # v
      <3>1. ~(SumOver(f, P) <= SumOver(f, v)) /\ SumOver(f, P) <= SumOver(f, P)
        BY <1>1, <1>3
      <3> QED
        BY <3>1
    <2> QED
      BY <1>1, <2>1
  <1>5. SumOver(f, v) = f[a] + SumOver(f, v \ {a})
    BY <1>2, SumRemove
  <1>6. SumOver(f, P) <= SumOver(f, v \ {a})
    BY <1>1, <1>4
  <1>7. IsFiniteSet(v \ {a}) /\ SumOver(f, v \ {a}) \in Nat
    <2>1. IsFiniteSet(v \ {a})
      BY <1>2, FS_Subset
    <2> QED
      BY <1>2, <2>1, SumNat
  <1>8. f[a] \in Nat
    BY <1>2
  <1> QED
    BY <1>1, <1>3, <1>5, <1>6, <1>7, <1>8

\* One value of naturals is bounded by the sum.
THEOREM SumMember ==
  ASSUME NEW f, NEW S, IsFiniteSet(S), \A x \in S : f[x] \in Nat, NEW a \in S
  PROVE  f[a] <= SumOver(f, S)
  <1>1. IsFiniteSet(S \ {a}) /\ \A x \in S \ {a} : f[x] \in Nat
    BY FS_Subset
  <1>2. SumOver(f, S \ {a}) \in Nat
    BY <1>1, SumNat
  <1>3. SumOver(f, S) = f[a] + SumOver(f, S \ {a})
    BY SumRemove
  <1> QED
    BY <1>2, <1>3

\* A sum of values none of which exceeds a bound.
THEOREM SumBound ==
  ASSUME NEW f, NEW S, IsFiniteSet(S), NEW b \in Nat, \A x \in S : f[x] \in Int /\ f[x] <= b
  PROVE  SumOver(f, S) <= b * Cardinality(S)
  <1> DEFINE F == {v \in SUBSET S : ~(SumOver(f, v) <= b * Cardinality(v))}
  <1> SUFFICES ASSUME F # {} PROVE FALSE
    BY DEF F
  <1>1. PICK v \in F : \A w \in F : w \subseteq v => w = v
    <2>1. F \in SUBSET SUBSET S
      OBVIOUS
    <2> HIDE DEF F
    <2> QED
      BY <2>1, LeastSet
  <1>2. v # {}
    <2>1. SumOver(f, {}) = 0 /\ Cardinality({}) = 0
      BY SumEmpty, FS_EmptySet
    <2>2. 0 <= b * 0
      OBVIOUS
    <2> QED
      BY <1>1, <2>1, <2>2
  <1> DEFINE c == Chosen(v)
             rest == v \ {c}
  <1>3. c \in v /\ IsFiniteSet(v) /\ rest \in SUBSET S /\ IsFiniteSet(rest)
    BY <1>1, <1>2, ChosenIn, FS_Subset
  <1>4. SumOver(f, rest) <= b * Cardinality(rest)
    BY <1>1, <1>3
  <1>5. SumOver(f, v) = f[c] + SumOver(f, rest)
    BY <1>2, <1>3, SumChosen
  <1>6. Cardinality(rest) = Cardinality(v) - 1 /\ Cardinality(v) \in Nat
    BY <1>3, FS_RemoveElement, FS_CardinalityType
  <1>7. SumOver(f, rest) \in Int /\ f[c] \in Int /\ f[c] <= b
    BY <1>1, <1>3, SumInt
  <1>8. ~(SumOver(f, v) <= b * Cardinality(v))
    BY <1>1
  <1> DEFINE n == Cardinality(v)
             r == SumOver(f, rest)
             p == f[c]
  <1>9. r <= b * (n - 1) /\ ~(p + r <= b * n) /\ n \in Nat /\ r \in Int /\ p \in Int /\ p <= b
    BY <1>4, <1>5, <1>6, <1>7, <1>8
  <1> HIDE DEF n, r, p
  <1>10. b * (n - 1) = b * n - b /\ b * n \in Int
    BY <1>9
  <1> QED
    BY <1>9, <1>10

\* A finite set of integers that is not empty has a greatest member.
LEMMA MaxIsGreatest ==
  ASSUME NEW S, IsFiniteSet(S), S # {}, \A x \in S : x \in Int
  PROVE  Max(S) \in S /\ \A y \in S : Max(S) >= y
  <1> DEFINE from(x) == {y \in S : y >= x}
             family == {from(x) : x \in S}
  <1>1. IsFiniteSet(S) /\ family \in SUBSET SUBSET S /\ family # {}
    OBVIOUS
  <1>2. PICK t \in family : \A u \in family : u \subseteq t => u = t
    <2> HIDE DEF family
    <2> QED
      BY <1>1, LeastSet
  <1>3. PICK x \in S : t = from(x)
    BY <1>2
  <1>4. ASSUME NEW y \in S, ~(x >= y) PROVE FALSE
    <2>1. x \in Int /\ y \in Int /\ y > x
      BY <1>4
    <2>2. from(y) \subseteq from(x)
      <3>1. ASSUME NEW z \in S, z >= y PROVE z >= x
        BY <2>1, <3>1
      <3> QED
        BY <3>1
    <2>4. from(y) \in family
      OBVIOUS
    <2>3. x \in from(x) /\ x \notin from(y)
      BY <2>1
    <2> QED
      BY <1>2, <1>3, <2>2, <2>3, <2>4
  <1>5. \E z \in S : \A y \in S : z >= y
    BY <1>4
  <1> QED
    BY <1>5 DEF Max
=============================================================================
