----------------------------- MODULE FiniteLemmas -----------------------------
(***************************************************************************)
(* Facts about finite sets, natural numbers and sums that the proofs of    *)
(* several components cite.  Each rests on the well-foundedness of the     *)
(* subsets of a finite set: a smallest counterexample is shown to have a   *)
(* smaller one.                                                            *)
(***************************************************************************)
EXTENDS Integers, Sequences, FiniteSets, FiniteSetsExt, FiniteSetTheorems, WellFoundedInduction, TLAPS

\* A family of subsets of a finite set has a smallest member.
LEMMA SmallestSubset ==
    ASSUME NEW S, IsFiniteSet(S), NEW F \in SUBSET SUBSET S, F # {}
    PROVE  \E A \in F : \A B \in F : B \subseteq A => B = A
<1> DEFINE Smaller == StrictSubsetOrdering(S)
<1>1. F \subseteq FiniteSubsetsOf(S)
    BY FS_FiniteSubsetsOfFinite
<1>2. PICK A \in F : \A B \in F : <<B, A>> \notin Smaller
  <2>1. IsWellFoundedOn(Smaller, FiniteSubsetsOf(S))
      BY FS_StrictSubsetOrderingWellFounded
  <2> HIDE DEF Smaller
  <2> QED
      BY <1>1, <2>1, WFMin
<1>3. ASSUME NEW B \in F, B \subseteq A, B # A
      PROVE  FALSE
  <2>1. <<B, A>> \in Smaller
      BY <1>3 DEF StrictSubsetOrdering
  <2> QED
      BY <1>2, <2>1
<1> QED
    BY <1>3

\* Some element of a finite set has the greatest value.
LEMMA GreatestValue ==
    ASSUME NEW S, IsFiniteSet(S), S # {}, NEW f \in [S -> Int]
    PROVE  \E k \in S : \A j \in S : f[k] >= f[j]
<1> DEFINE Above(k) == {j \in S : f[j] > f[k]}
<1> DEFINE F == {Above(k) : k \in S}
<1>1. F \in SUBSET SUBSET S /\ F # {}
  <2>1. \A k \in S : Above(k) \in SUBSET S
      OBVIOUS
  <2> HIDE DEF Above
  <2> QED
      BY <2>1
<1>2. PICK A \in F : \A B \in F : B \subseteq A => B = A
  <2> HIDE DEF F
  <2> QED
      BY <1>1, SmallestSubset
<1>3. PICK k \in S : A = Above(k)
    BY <1>2
<1>4. ASSUME NEW j \in S, ~(f[k] >= f[j])
      PROVE  FALSE
  <2>1. f[j] > f[k] /\ f[j] \in Int /\ f[k] \in Int
      BY <1>4
  <2>2. \A i \in S : f[i] \in Int
      OBVIOUS
  <2>3. Above(j) \subseteq Above(k)
      BY <2>1, <2>2
  <2>4. j \in Above(k) /\ j \notin Above(j)
      BY <2>1
  <2> QED
      BY <1>2, <1>3, <2>3, <2>4
<1> QED
    BY <1>4

\* A set of natural numbers has a least member.
LEMMA LeastNatural ==
    ASSUME NEW T \in SUBSET Nat, T # {}
    PROVE  \E x \in T : \A y \in T : x <= y
<1>1. PICK n \in T : TRUE
    OBVIOUS
<1> DEFINE Low == T \cap (0..n)
<1> DEFINE minus == [i \in Low |-> 0 - i]
<1>2. IsFiniteSet(Low)
  <2>1. IsFiniteSet(0..n)
      BY FS_Interval
  <2> QED
      BY <2>1, FS_Subset
<1>3. n \in Low /\ minus \in [Low -> Int]
    BY <1>1
<1>4. PICK x \in Low : \A y \in Low : minus[x] >= minus[y]
  <2> HIDE DEF Low, minus
  <2> QED
      BY <1>2, <1>3, GreatestValue
<1>5. \A y \in Low : x <= y
    BY <1>4
<1> QED
    BY <1>5

-----------------------------------------------------------------------------
(* Sums *)

\* What a sum over a set of natural numbers counts: f[x] marks for each x.
Marks(f, S) == UNION {{x} \X (1..f[x]) : x \in S}

\* The marks of finitely many members are finitely many.
LEMMA MarksAreFinite ==
    ASSUME NEW S, IsFiniteSet(S), NEW f \in [S -> Nat]
    PROVE  IsFiniteSet(Marks(f, S))
<1> DEFINE Own(x) == {x} \X (1..f[x])
<1> DEFINE All == {Own(x) : x \in S}
<1>1. \A x \in S : IsFiniteSet(Own(x))
  <2> TAKE x \in S
  <2>1. IsFiniteSet({x})
      BY FS_Singleton
  <2>2. IsFiniteSet(1..f[x])
    <3>1. f[x] \in Int
        OBVIOUS
    <3> QED
        BY <3>1, FS_Interval
  <2> QED
      BY <2>1, <2>2, FS_Product
<1>2. IsFiniteSet(All)
  <2> DEFINE g == [x \in S |-> Own(x)]
  <2>1. g \in Surjection(S, All)
      BY DEF Surjection
  <2> HIDE DEF g, All
  <2> QED
      BY <2>1, FS_Surjection
<1>3. \A T \in All : IsFiniteSet(T)
    BY <1>1
<1>4. IsFiniteSet(UNION All)
  <2> HIDE DEF All
  <2> QED
      BY <1>2, <1>3, FS_UNION
<1> QED
    BY <1>4 DEF Marks

\* Taking one member away takes its marks away.
LEMMA MarksOfRest ==
    ASSUME NEW S, IsFiniteSet(S), NEW f \in [S -> Nat], NEW T \in SUBSET S, NEW x \in T
    PROVE  Cardinality(Marks(f, T)) = f[x] + Cardinality(Marks(f, T \ {x}))
<1> DEFINE Own == {x} \X (1..f[x])
<1> DEFINE Rest == Marks(f, T \ {x})
<1>1. Marks(f, T) = Own \cup Rest /\ Own \cap Rest = {}
    BY DEF Marks
<1>2. IsFiniteSet(Rest)
  <2>1. IsFiniteSet(T \ {x})
      BY FS_Subset
  <2>2. [y \in T \ {x} |-> f[y]] \in [T \ {x} -> Nat]
      OBVIOUS
  <2>3. Marks([y \in T \ {x} |-> f[y]], T \ {x}) = Rest
      BY DEF Marks
  <2> QED
      BY <2>1, <2>2, <2>3, MarksAreFinite
<1>3. IsFiniteSet(Own) /\ Cardinality(Own) = f[x]
  <2>1. IsFiniteSet({x}) /\ Cardinality({x}) = 1
      BY FS_Singleton
  <2>2. IsFiniteSet(1..f[x]) /\ Cardinality(1..f[x]) = f[x]
    <3>1. f[x] \in Nat
        OBVIOUS
    <3> QED
        BY <3>1, FS_Interval
  <2>3. IsFiniteSet(Own) /\ Cardinality(Own) = Cardinality({x}) * Cardinality(1..f[x])
      BY <2>1, <2>2, FS_Product
  <2>4. f[x] \in Int
      OBVIOUS
  <2> HIDE DEF Own
  <2> QED
      BY <2>1, <2>2, <2>3, <2>4
<1>4. Cardinality(Rest) \in Nat /\ Cardinality({}) = 0
    BY <1>2, FS_CardinalityType, FS_EmptySet
<1>5. Cardinality(Own \cup Rest) = Cardinality(Own) + Cardinality(Rest) - Cardinality(Own \cap Rest)
  <2> HIDE DEF Own, Rest
  <2> QED
      BY <1>2, <1>3, FS_Union
<1>6. f[x] \in Nat
    OBVIOUS
<1> HIDE DEF Own, Rest
<1>7. Cardinality(Marks(f, T)) = f[x] + Cardinality(Rest)
    BY <1>1, <1>3, <1>4, <1>5, <1>6
<1> QED
    BY <1>7 DEF Rest

\* The recursion by which the folds compute a sum over a finite set.
SumStep(f, S, base, sum) ==
    [s \in SUBSET S |->
        IF s = {} THEN base
        ELSE f[CHOOSE x \in s : TRUE] + sum[s \ {CHOOSE x \in s : TRUE}]]

\* Counting marks is such a recursion.
LEMMA MarksAreSummed ==
    ASSUME NEW S, IsFiniteSet(S), NEW f \in [S -> Nat], NEW base \in Int
    PROVE  LET counted == [s \in SUBSET S |-> base + Cardinality(Marks(f, s))]
           IN  counted = SumStep(f, S, base, counted)
<1> DEFINE counted == [s \in SUBSET S |-> base + Cardinality(Marks(f, s))]
<1>1. ASSUME NEW s \in SUBSET S
      PROVE  counted[s] = IF s = {} THEN base
                          ELSE f[CHOOSE x \in s : TRUE] + counted[s \ {CHOOSE x \in s : TRUE}]
  <2>1. CASE s = {}
    <3>1. Marks(f, s) = {}
        BY <2>1 DEF Marks
    <3> QED
        BY <2>1, <3>1, FS_EmptySet
  <2>2. CASE s # {}
    <3> DEFINE x == CHOOSE x \in s : TRUE
    <3>1. x \in s /\ s \ {x} \in SUBSET S
        BY <2>2
    <3> HIDE DEF x
    <3>2. Cardinality(Marks(f, s)) = f[x] + Cardinality(Marks(f, s \ {x}))
        BY <3>1, MarksOfRest
    <3>3. f[x] \in Nat /\ Cardinality(Marks(f, s \ {x})) \in Nat
      <4>1. IsFiniteSet(s \ {x}) /\ [y \in s \ {x} |-> f[y]] \in [s \ {x} -> Nat]
          BY <3>1, FS_Subset
      <4>2. Marks([y \in s \ {x} |-> f[y]], s \ {x}) = Marks(f, s \ {x})
          BY DEF Marks
      <4> QED
          BY <3>1, <4>1, <4>2, MarksAreFinite, FS_CardinalityType
    <3>4. counted[s] = f[x] + counted[s \ {x}]
        BY <3>1, <3>2, <3>3
    <3> QED
        BY <2>2, <3>4 DEF x
  <2> QED
      BY <2>1, <2>2
<1>2. counted = [s \in SUBSET S |-> counted[s]]
    OBVIOUS
<1> HIDE DEF counted
<1>3. counted = SumStep(f, S, base, counted)
    BY <1>1, <1>2 DEF SumStep
<1> QED
    BY <1>3 DEF counted

\* The recursion has one solution.
LEMMA SumIsUnique ==
    ASSUME NEW S, IsFiniteSet(S), NEW f \in [S -> Nat], NEW base \in Int, NEW g, NEW h,
           g = SumStep(f, S, base, g), h = SumStep(f, S, base, h)
    PROVE  g = h
<1> DEFINE Differ == {s \in SUBSET S : g[s] # h[s]}
<1> DEFINE Step(sum, s) == IF s = {} THEN base
                           ELSE f[CHOOSE x \in s : TRUE] + sum[s \ {CHOOSE x \in s : TRUE}]
<1>1. \A s \in SUBSET S : g[s] = Step(g, s) /\ h[s] = Step(h, s)
  <2>1. g = [s \in SUBSET S |-> Step(g, s)] /\ h = [s \in SUBSET S |-> Step(h, s)]
      BY DEF SumStep
  <2> HIDE DEF Step
  <2> QED
      BY <2>1
<1>2. ASSUME Differ # {} PROVE FALSE
  <2>1. PICK s \in Differ : \A t \in Differ : t \subseteq s => t = s
    <3>1. Differ \in SUBSET SUBSET S
        OBVIOUS
    <3> HIDE DEF Differ
    <3> QED
        BY <1>2, <3>1, SmallestSubset
  <2> DEFINE x == CHOOSE x \in s : TRUE
  <2>2. /\ g[s] = IF s = {} THEN base ELSE f[x] + g[s \ {x}]
        /\ h[s] = IF s = {} THEN base ELSE f[x] + h[s \ {x}]
      BY <1>1, <2>1
  <2>3. s # {}
      BY <2>1, <2>2
  <2>4. x \in s /\ s \ {x} \in SUBSET S /\ s \ {x} # s
      BY <2>1, <2>3
  <2>5. g[s \ {x}] = h[s \ {x}]
      BY <2>1, <2>4
  <2> QED
      BY <2>1, <2>2, <2>3, <2>5
<1>3. g = [s \in SUBSET S |-> g[s]] /\ h = [s \in SUBSET S |-> h[s]]
    BY DEF SumStep
<1>4. \A s \in SUBSET S : g[s] = h[s]
    BY <1>2
<1> QED
    BY <1>3, <1>4

\* Whatever solves the recursion counts the marks, and something does.
LEMMA SumIsMarks ==
    ASSUME NEW S, IsFiniteSet(S), NEW f \in [S -> Nat], NEW base \in Int
    PROVE  (CHOOSE g : g = SumStep(f, S, base, g))[S] = base + Cardinality(Marks(f, S))
<1> DEFINE counted == [s \in SUBSET S |-> base + Cardinality(Marks(f, s))]
<1> DEFINE iter == CHOOSE g : g = SumStep(f, S, base, g)
<1>1. counted = SumStep(f, S, base, counted)
    BY MarksAreSummed
<1>2. iter = SumStep(f, S, base, iter)
    BY <1>1
<1>3. iter = counted
  <2> HIDE DEF iter, counted
  <2> QED
      BY <1>1, <1>2, SumIsUnique
<1>4. S \in SUBSET S
    OBVIOUS
<1> QED
    BY <1>3, <1>4

\* A sum of natural numbers over a finite set counts their marks.
LEMMA SumCountsMarks ==
    ASSUME NEW S, IsFiniteSet(S), NEW f \in [S -> Nat]
    PROVE  MapThenSumSet(LAMBDA x : f[x], S) = Cardinality(Marks(f, S))
<1>1. MapThenSumSet(LAMBDA x : f[x], S) = (CHOOSE g : g = SumStep(f, S, 0, g))[S]
    BY DEF MapThenSumSet, MapThenFoldSet, SumStep
<1>2. Cardinality(Marks(f, S)) \in Nat
    BY MarksAreFinite, FS_CardinalityType
<1>3. (CHOOSE g : g = SumStep(f, S, 0, g))[S] = 0 + Cardinality(Marks(f, S))
  <2>1. 0 \in Int
      OBVIOUS
  <2> QED
      BY <2>1, SumIsMarks
<1> QED
    BY <1>1, <1>2, <1>3

\* The same of a sum of the values of a function.
LEMMA SumFunctionCountsMarks ==
    ASSUME NEW S, IsFiniteSet(S), NEW f \in [S -> Nat]
    PROVE  SumFunction(f) = Cardinality(Marks(f, S))
<1>1. DOMAIN f = S
    OBVIOUS
<1>2. SumFunction(f) = (CHOOSE g : g = SumStep(f, S, 0, g))[S]
    BY <1>1 DEF SumFunction, SumFunctionOnSet, FoldFunctionOnSet, MapThenFoldSet, SumStep
<1>3. Cardinality(Marks(f, S)) \in Nat
    BY MarksAreFinite, FS_CardinalityType
<1> QED
    BY <1>2, <1>3, SumIsMarks

\* Marks that are one for one the marks of another function are as many.
LEMMA RenamedMarks ==
    ASSUME NEW S, IsFiniteSet(S), NEW T, NEW b \in Bijection(T, S),
           NEW f \in [S -> Nat], NEW g \in [T -> Nat], \A x \in T : g[x] = f[b[x]]
    PROVE  /\ IsFiniteSet(T) /\ Cardinality(T) = Cardinality(S)
           /\ Cardinality(Marks(g, T)) = Cardinality(Marks(f, S))
<1>0. /\ b \in [T -> S] /\ \A y \in S : \E x \in T : b[x] = y
      /\ \A x, y \in T : b[x] = b[y] => x = y
    BY DEF Bijection, Injection, Surjection, IsInjective
<1> DEFINE r == [m \in Marks(g, T) |-> <<b[m[1]], m[2]>>]
<1>1. IsFiniteSet(T) /\ Cardinality(T) = Cardinality(S)
  <2>1. b \in Injection(T, S) /\ b \in Surjection(T, S)
      BY DEF Bijection
  <2> QED
      BY <2>1, FS_Injection
<1>2. ASSUME NEW m \in Marks(g, T)
      PROVE  /\ m[1] \in T /\ m[2] \in 1..f[b[m[1]]] /\ m = <<m[1], m[2]>>
             /\ <<b[m[1]], m[2]>> \in Marks(f, S)
    BY <1>0, <1>2 DEF Marks
<1>3. r \in Injection(Marks(g, T), Marks(f, S))
  <2>1. ASSUME NEW m \in Marks(g, T), NEW n \in Marks(g, T), r[m] = r[n]
        PROVE  m = n
      BY <1>0, <1>2, <2>1
  <2>2. r \in [Marks(g, T) -> Marks(f, S)]
      BY <1>2
  <2> HIDE DEF r
  <2> QED
      BY <2>1, <2>2 DEF Injection, IsInjective
<1>4. r \in Surjection(Marks(g, T), Marks(f, S))
  <2>1. ASSUME NEW n \in Marks(f, S)
        PROVE  \E m \in Marks(g, T) : r[m] = n
    <3>1. PICK y \in S : \E k \in 1..f[y] : n = <<y, k>>
        BY DEF Marks
    <3>2. PICK k \in 1..f[y] : n = <<y, k>>
        BY <3>1
    <3>3. PICK x \in T : b[x] = y
        BY <1>0
    <3>4. <<x, k>> \in Marks(g, T)
        BY <1>0, <3>2, <3>3 DEF Marks
    <3> QED
        BY <3>2, <3>3, <3>4
  <2>2. r \in [Marks(g, T) -> Marks(f, S)]
      BY <1>2
  <2> HIDE DEF r
  <2> QED
      BY <2>1, <2>2 DEF Surjection
<1>5. IsFiniteSet(Marks(f, S))
    BY MarksAreFinite
<1> HIDE DEF r
<1>6. Cardinality(Marks(g, T)) = Cardinality(Marks(f, S))
    BY <1>3, <1>4, <1>5, FS_Injection
<1> QED
    BY <1>1, <1>6

\* The sizes of disjoint finite sets add up to that of their union.
LEMMA SumOfParts ==
    ASSUME NEW S, IsFiniteSet(S), NEW parts, \A x \in S : IsFiniteSet(parts[x]),
           \A x, y \in S : x # y => parts[x] \cap parts[y] = {}
    PROVE  SumFunction([x \in S |-> Cardinality(parts[x])]) = Cardinality(UNION {parts[x] : x \in S})
<1> DEFINE f == [x \in S |-> Cardinality(parts[x])]
           All(T) == UNION {parts[x] : x \in T}
           Wrong == {T \in SUBSET S : ~(IsFiniteSet(All(T)) /\ Cardinality(All(T)) = Cardinality(Marks(f, T)))}
<1>1. f \in [S -> Nat]
    BY FS_CardinalityType
<1>2. ASSUME Wrong # {} PROVE FALSE
  <2>1. PICK T \in Wrong : \A U \in Wrong : U \subseteq T => U = T
    <3>1. Wrong \in SUBSET SUBSET S
        OBVIOUS
    <3> HIDE DEF Wrong
    <3> QED
        BY <1>2, <3>1, SmallestSubset
  <2>2. T \in SUBSET S
      BY <2>1
  <2>3. CASE T = {}
    <3>1. All(T) = {} /\ Marks(f, T) = {}
        BY <2>3 DEF Marks
    <3> QED
        BY <2>1, <3>1, FS_EmptySet
  <2>4. CASE T # {}
    <3>1. PICK x \in T : TRUE
        BY <2>4
    <3> DEFINE rest == All(T \ {x})
    <3>2. IsFiniteSet(rest) /\ Cardinality(rest) = Cardinality(Marks(f, T \ {x}))
        BY <2>1, <2>2, <3>1
    <3>3. All(T) = parts[x] \cup rest /\ parts[x] \cap rest = {}
      <4>1. \A y \in T \ {x} : parts[x] \cap parts[y] = {}
          BY <2>2
      <4> QED
          BY <3>1, <4>1
    <3>4. IsFiniteSet(parts[x]) /\ f[x] = Cardinality(parts[x])
        BY <2>2
    <3>5. Cardinality(Marks(f, T)) = f[x] + Cardinality(Marks(f, T \ {x}))
        BY <1>1, <2>2, MarksOfRest
    <3> HIDE DEF rest, All, f
    <3>6. /\ IsFiniteSet(parts[x] \cup rest)
          /\ Cardinality(parts[x] \cup rest)
               = Cardinality(parts[x]) + Cardinality(rest) - Cardinality(parts[x] \cap rest)
        BY <3>2, <3>4, FS_Union
    <3>7. Cardinality(parts[x] \cap rest) = 0
        BY <3>3, FS_EmptySet, Zenon
    <3>8. Cardinality(rest) \in Nat /\ Cardinality(parts[x]) \in Nat
        BY <3>2, <3>4, FS_CardinalityType
    <3>9. Cardinality(parts[x] \cup rest) = Cardinality(parts[x]) + Cardinality(rest)
        BY <3>6, <3>7, <3>8
    <3>10. Cardinality(Marks(f, T)) = Cardinality(parts[x]) + Cardinality(rest)
        BY <3>2, <3>4, <3>5
    <3>11. IsFiniteSet(All(T)) /\ Cardinality(All(T)) = Cardinality(Marks(f, T))
        BY <3>3, <3>6, <3>9, <3>10
    <3> QED
        BY <2>1, <3>11
  <2> QED
      BY <2>3, <2>4
<1>3. Cardinality(All(S)) = Cardinality(Marks(f, S))
    BY <1>2
<1> HIDE DEF f
<1>4. SumFunction(f) = Cardinality(Marks(f, S))
    BY <1>1, SumFunctionCountsMarks
<1> QED
    BY <1>3, <1>4 DEF f

\* Raising one value by one leaves one more mark.
LEMMA OneMoreMark ==
    ASSUME NEW S, IsFiniteSet(S), NEW f \in [S -> Nat], NEW c \in S
    PROVE  Cardinality(Marks([f EXCEPT ![c] = @ + 1], S)) = Cardinality(Marks(f, S)) + 1
<1> DEFINE g == [f EXCEPT ![c] = @ + 1]
<1>1. f[c] \in Nat /\ g \in [S -> Nat]
    OBVIOUS
<1>2. Marks(g, S) = Marks(f, S) \cup {<<c, f[c] + 1>>}
  <2>1. g[c] = f[c] + 1 /\ \A x \in S : x # c => g[x] = f[x]
      OBVIOUS
  <2>2. 1..(f[c] + 1) = (1..f[c]) \cup {f[c] + 1}
      BY <1>1
  <2> HIDE DEF g
  <2>3. ASSUME NEW m \in Marks(g, S)
        PROVE  m \in Marks(f, S) \cup {<<c, f[c] + 1>>}
      BY <2>1, <2>2, <2>3 DEF Marks
  <2>4. ASSUME NEW m \in Marks(f, S)
        PROVE  m \in Marks(g, S)
      BY <2>1, <2>2, <2>4 DEF Marks
  <2>5. <<c, f[c] + 1>> \in Marks(g, S)
      BY <2>1, <2>2 DEF Marks
  <2> QED
      BY <2>3, <2>4, <2>5
<1>3. <<c, f[c] + 1>> \notin Marks(f, S)
    BY <1>1 DEF Marks
<1>4. IsFiniteSet(Marks(f, S))
    BY MarksAreFinite
<1> HIDE DEF g
<1>5. Cardinality(Marks(g, S)) = Cardinality(Marks(f, S)) + 1
    BY <1>2, <1>3, <1>4, FS_AddElement
<1> QED
    BY <1>5 DEF g

-----------------------------------------------------------------------------
(* Counting in a sequence *)

\* The places of a sequence that hold a member of T.
PlacesOf(seq, T) == {i \in DOMAIN seq : seq[i] \in T}

\* They are finitely many.
LEMMA PlacesAreFinite ==
    ASSUME NEW S, NEW seq \in Seq(S), NEW T
    PROVE  IsFiniteSet(PlacesOf(seq, T)) /\ Cardinality(PlacesOf(seq, T)) \in Nat
<1>1. Len(seq) \in Int /\ PlacesOf(seq, T) \in SUBSET (1..Len(seq))
    BY DEF PlacesOf
<1>2. IsFiniteSet(1..Len(seq))
    BY <1>1, FS_Interval
<1> QED
    BY <1>1, <1>2, FS_Subset, FS_CardinalityType

\* What is appended is counted once more, if at all.
LEMMA OneMorePlace ==
    ASSUME NEW S, NEW seq \in Seq(S), NEW x \in S, NEW T
    PROVE  Cardinality(PlacesOf(Append(seq, x), T)) =
             Cardinality(PlacesOf(seq, T)) + (IF x \in T THEN 1 ELSE 0)
<1>1. /\ DOMAIN Append(seq, x) = 1..Len(seq) + 1 /\ DOMAIN seq = 1..Len(seq)
      /\ Append(seq, x)[Len(seq) + 1] = x
      /\ \A i \in 1..Len(seq) : Append(seq, x)[i] = seq[i]
    OBVIOUS
<1>2. PlacesOf(Append(seq, x), T) =
        PlacesOf(seq, T) \cup (IF x \in T THEN {Len(seq) + 1} ELSE {})
    BY <1>1 DEF PlacesOf
<1>3. Len(seq) + 1 \notin PlacesOf(seq, T)
    BY DEF PlacesOf
<1>4. IsFiniteSet(PlacesOf(seq, T)) /\ Cardinality(PlacesOf(seq, T)) \in Nat
    BY PlacesAreFinite
<1>5. CASE x \in T
    BY <1>2, <1>3, <1>4, <1>5, FS_AddElement
<1>6. CASE x \notin T
    BY <1>2, <1>4, <1>6
<1> QED
    BY <1>5, <1>6

-----------------------------------------------------------------------------
(* Loops over a sequence *)

\* What holds at first, and after each turn if it did before it, holds throughout.
LEMMA HoldsThroughout ==
    ASSUME NEW N \in Nat, NEW G \in SUBSET (0..N), 0 \in G, \A n \in 1..N : n - 1 \in G => n \in G
    PROVE  G = 0..N
<1> SUFFICES ASSUME 0..N \ G # {} PROVE FALSE
    OBVIOUS
<1>1. PICK n \in 0..N \ G : \A m \in 0..N \ G : n <= m
  <2>1. (0..N \ G) \in SUBSET Nat
      OBVIOUS
  <2> QED
      BY <2>1, LeastNatural
<1>2. n \in 1..N /\ n - 1 \in 0..N
    BY <1>1
<1>3. n - 1 \in G
    BY <1>1, <1>2
<1> QED
    BY <1>1, <1>2, <1>3

\* The greatest of finitely many natural numbers is one of them.
LEMMA MaxIsIn ==
    ASSUME NEW N \in Nat, NEW s \in SUBSET (1..N), s # {}
    PROVE  Max(s) \in s /\ \A x \in s : Max(s) >= x
<1>1. IsFiniteSet(s)
  <2>1. IsFiniteSet(1..N)
      BY FS_Interval
  <2> QED
      BY <2>1, FS_Subset
<1>2. [x \in s |-> x] \in [s -> Int]
    OBVIOUS
<1>3. \E x \in s : \A y \in s : [z \in s |-> z][x] >= [z \in s |-> z][y]
    BY <1>1, <1>2, GreatestValue
<1>4. \E x \in s : \A y \in s : x >= y
    BY <1>3
<1> QED
    BY <1>4 DEF Max

\* What FoldLeft computes for every set of indexes.
IsFold(g, F, base, seq) ==
    \A s \in SUBSET (DOMAIN seq) :
        g[s] = IF s = {} THEN base ELSE F[<<g[s \ {Max(s)}], seq[Max(s)]>>]

\* The function that FoldLeft is defined by exists, whatever is folded.
LEMMA FoldIsDefined ==
    ASSUME NEW A, NEW B, NEW F \in [A \X B -> A], NEW base \in A, NEW seq \in Seq(B)
    PROVE  \E g \in [SUBSET (DOMAIN seq) -> A] : IsFold(g, F, base, seq)
<1> DEFINE D == DOMAIN seq
<1> DEFINE Solves(S, g) == \A s \in SUBSET S :
             g[s] = IF s = {} THEN base ELSE F[<<g[s \ {Max(s)}], seq[Max(s)]>>]
<1> DEFINE Unsolved == {S \in SUBSET D : ~ \E g \in [SUBSET S -> A] : Solves(S, g)}
<1>1. D = 1..Len(seq) /\ Len(seq) \in Nat
    OBVIOUS
<1>2. IsFiniteSet(D)
    BY <1>1, FS_Interval
<1>3. SUFFICES ASSUME Unsolved # {} PROVE FALSE
    BY DEF IsFold
<1>4. PICK S \in Unsolved : \A T \in Unsolved : T \subseteq S => T = S
  <2>1. Unsolved \in SUBSET SUBSET D
      OBVIOUS
  <2> HIDE DEF Unsolved, D
  <2> QED
      BY <1>2, <1>3, <2>1, SmallestSubset
<1>5. S # {}
  <2> SUFFICES ASSUME S = {} PROVE FALSE
      OBVIOUS
  <2>1. SUBSET S = {{}}
      OBVIOUS
  <2>2. [s \in {{}} |-> base] \in [SUBSET S -> A]
      BY <2>1
  <2>3. Solves(S, [s \in {{}} |-> base])
      BY <2>1
  <2> QED
      BY <2>2, <2>3
<1> DEFINE m == Max(S)
<1>6. m \in S /\ S \subseteq D /\ \A x \in S : m >= x
    BY <1>1, <1>5, MaxIsIn
<1>7. PICK g \in [SUBSET (S \ {m}) -> A] : Solves(S \ {m}, g)
  <2>1. S \ {m} \in SUBSET D /\ S \ {m} # S
      BY <1>6
  <2> HIDE DEF m, Solves
  <2> QED
      BY <1>4, <2>1
<1> DEFINE h == [s \in SUBSET S |-> IF m \in s THEN F[<<g[s \ {m}], seq[m]>>] ELSE g[s]]
<1>8. \A s \in SUBSET S : s \ {m} \in SUBSET (S \ {m}) /\ (m \notin s => s \in SUBSET (S \ {m}))
    OBVIOUS
<1>9. h \in [SUBSET S -> A]
  <2>1. seq[m] \in B
      BY <1>1, <1>6
  <2> SUFFICES ASSUME NEW s \in SUBSET S
               PROVE  (IF m \in s THEN F[<<g[s \ {m}], seq[m]>>] ELSE g[s]) \in A
      OBVIOUS
  <2> HIDE DEF m
  <2> QED
      BY <1>8, <2>1
<1>10. Solves(S, h)
  <2> SUFFICES ASSUME NEW s \in SUBSET S
               PROVE  h[s] = IF s = {} THEN base ELSE F[<<h[s \ {Max(s)}], seq[Max(s)]>>]
      OBVIOUS
  <2>1. CASE m \in s
    <3>1. s \in SUBSET (1..Len(seq)) /\ s # {}
        BY <1>1, <1>6, <2>1
    <3>2. Max(s) \in s /\ Max(s) >= m
        BY <1>1, <2>1, <3>1, MaxIsIn
    <3>3. Max(s) = m
        BY <1>1, <1>6, <3>1, <3>2
    <3>4. h[s \ {m}] = g[s \ {m}]
        OBVIOUS
    <3>5. h[s] = F[<<g[s \ {m}], seq[m]>>]
        BY <2>1
    <3> HIDE DEF h, m
    <3> QED
        BY <3>1, <3>3, <3>4, <3>5
  <2>2. CASE m \notin s
    <3>1. s \in SUBSET (S \ {m}) /\ s \ {Max(s)} \in SUBSET S /\ m \notin s \ {Max(s)}
        BY <1>8, <2>2
    <3>2. h[s] = g[s] /\ h[s \ {Max(s)}] = g[s \ {Max(s)}]
        BY <2>2, <3>1
    <3>3. g[s] = IF s = {} THEN base ELSE F[<<g[s \ {Max(s)}], seq[Max(s)]>>]
        BY <1>7, <3>1
    <3> HIDE DEF h, m
    <3> QED
        BY <3>2, <3>3
  <2> QED
      BY <2>1, <2>2
<1>11. S \notin Unsolved
  <2> HIDE DEF h, Solves
  <2> QED
      BY <1>9, <1>10
<1> QED
    BY <1>11

\* What `it` is of a set of indexes follows from what it is of the set without
\* its last one, where that is in A.
FoldsWithin(it, A, F, base, seq) ==
    /\ it[{}] = base
    /\ \A s \in SUBSET (DOMAIN seq) : s # {} /\ it[s \ {Max(s)}] \in A =>
         it[s] = F[<<it[s \ {Max(s)}], seq[Max(s)]>>]

\* A loop over a sequence, turn by turn, that ends in `last`.
RunsTo(A, F, base, seq, last) ==
    \E run \in [0..Len(seq) -> A] :
        /\ run[0] = base
        /\ \A n \in 1..Len(seq) : run[n] = F[<<run[n - 1], seq[n]>>]
        /\ run[Len(seq)] = last

\* Then the sets of the first n indexes are the turns of the loop.
LEMMA FoldIsRun ==
    ASSUME NEW A, NEW B, NEW F \in [A \X B -> A], NEW base \in A, NEW seq \in Seq(B), NEW it,
           FoldsWithin(it, A, F, base, seq)
    PROVE  RunsTo(A, F, base, seq, it[DOMAIN seq])
<1> DEFINE run == [n \in 0..Len(seq) |-> it[1..n]]
<1>1. Len(seq) \in Nat /\ DOMAIN seq = 1..Len(seq)
    OBVIOUS
<1>0. /\ it[{}] = base
      /\ \A s \in SUBSET (DOMAIN seq) : s # {} /\ it[s \ {Max(s)}] \in A =>
           it[s] = F[<<it[s \ {Max(s)}], seq[Max(s)]>>]
    BY DEF FoldsWithin
<1>2. run[0] = base
  <2>1. 1..0 = {}
      OBVIOUS
  <2> QED
      BY <1>0, <1>1, <2>1
<1>3. ASSUME NEW n \in 1..Len(seq), run[n - 1] \in A
      PROVE  run[n] = F[<<run[n - 1], seq[n]>>]
  <2>1. (1..n) \in SUBSET (1..Len(seq)) /\ 1..n # {} /\ n \in Nat /\ n \in 1..n
    <3>1. n \in Nat /\ n \in 1..n /\ n <= Len(seq)
        BY <1>1
    <3>2. \A i \in 1..n : i \in 1..Len(seq)
        BY <1>1, <3>1
    <3> QED
        BY <3>1, <3>2
  <2>2. Max(1..n) \in 1..n /\ Max(1..n) >= n
      BY <1>1, <2>1, MaxIsIn
  <2>3. Max(1..n) = n /\ (1..n) \ {n} = 1..n - 1
      BY <2>1, <2>2
  <2>4. run[n - 1] = it[1..n - 1] /\ run[n] = it[1..n]
      BY <1>1, <2>1
  <2> HIDE DEF run
  <2> QED
      BY <1>0, <1>1, <1>3, <2>1, <2>3, <2>4
<1>4. \A n \in 0..Len(seq) : run[n] \in A
  <2> DEFINE G == {n \in 0..Len(seq) : run[n] \in A}
  <2>1. 0 \in G
      BY <1>1, <1>2
  <2>2. ASSUME NEW n \in 1..Len(seq), n - 1 \in G PROVE n \in G
    <3>1. run[n - 1] \in A
        BY <2>2
    <3>2. run[n] = F[<<run[n - 1], seq[n]>>] /\ seq[n] \in B
      <4> HIDE DEF run
      <4> QED
          BY <1>1, <1>3, <3>1
    <3> HIDE DEF run
    <3> QED
        BY <1>1, <3>1, <3>2
  <2>3. G = 0..Len(seq)
    <3>1. G \in SUBSET (0..Len(seq))
        OBVIOUS
    <3> HIDE DEF G
    <3> QED
        BY <1>1, <2>1, <2>2, <3>1, HoldsThroughout
  <2> HIDE DEF run
  <2> QED
      BY <2>3
<1>5. run \in [0..Len(seq) -> A]
    BY <1>4
<1>6. \A n \in 1..Len(seq) : run[n] = F[<<run[n - 1], seq[n]>>]
  <2>1. \A n \in 1..Len(seq) : n - 1 \in 0..Len(seq)
      BY <1>1
  <2> HIDE DEF run
  <2> QED
      BY <1>3, <1>4, <2>1
<1>7. run[Len(seq)] = it[DOMAIN seq]
    BY <1>1
<1> QED
    BY <1>2, <1>5, <1>6, <1>7 DEF RunsTo

=============================================================================
