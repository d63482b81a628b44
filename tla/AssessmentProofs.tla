--------------------------- MODULE AssessmentProofs ---------------------------
(***************************************************************************)
(* Proofs about one assessment: the polarity check of a quote, for every   *)
(* clause, every set of words of force and every slack; the decision, for  *)
(* every threshold, every set of clauses, scores and confidences, and      *)
(* drafts with any number of citations; and the request itself, for every  *)
(* collection, every budget and every answer the providers can give.       *)
(***************************************************************************)
EXTENDS Pipeline, GuardrailsDegrade, QuoteCheck, FiniteLemmas, SequenceTheorems, TLAPS

-----------------------------------------------------------------------------
(* The polarity check: difflib *)

\* The stretches of a quote and a clause.
StretchSet(q, c) ==
    {s \in [i1 : Nat, i2 : Nat, j1 : Nat, j2 : Nat] :
        s.i1 <= s.i2 /\ s.i2 <= Len(q) /\ s.j1 <= s.j2 /\ s.j2 <= Len(c)}

\* A match of a stretch: some words of the quote are words of the clause.
IsMatch(q, c, s, m) ==
    /\ m.a \in Nat /\ m.b \in Nat /\ m.size \in Nat
    /\ s.i1 <= m.a /\ m.a + m.size <= s.i2
    /\ s.j1 <= m.b /\ m.b + m.size <= s.j2
    /\ \A n \in 1..m.size : q[m.a + n] = c[m.b + n]

LEMMA MatchesAre ==
  ASSUME NEW q, NEW c, NEW s, s \in StretchSet(q, c)
  PROVE  /\ \A m \in Matches(q, c, s) : IsMatch(q, c, s, m)
         /\ \A a, b, size \in Nat : IsMatch(q, c, s, [a |-> a, b |-> b, size |-> size]) =>
              [a |-> a, b |-> b, size |-> size] \in Matches(q, c, s)
<1>1. s.i1 \in Nat /\ s.i2 \in Nat /\ s.j1 \in Nat /\ s.j2 \in Nat
    BY DEF StretchSet
<1>2. ASSUME NEW m \in Matches(q, c, s) PROVE IsMatch(q, c, s, m)
    BY <1>1 DEF Matches, IsMatch
<1>3. ASSUME NEW a \in Nat, NEW b \in Nat, NEW size \in Nat,
             IsMatch(q, c, s, [a |-> a, b |-> b, size |-> size])
      PROVE  [a |-> a, b |-> b, size |-> size] \in Matches(q, c, s)
  <2>1. a \in s.i1 .. s.i2 /\ b \in s.j1 .. s.j2 /\ size \in 0 .. s.i2 - s.i1
      BY <1>1, <1>3 DEF IsMatch
  <2> QED
      BY <1>3, <2>1 DEF Matches, IsMatch
<1> QED
    BY <1>2, <1>3

\* Of the matches of a stretch there is one that find_longest_match prefers.
LEMMA LongestIsMatch ==
  ASSUME NEW q, NEW c, NEW s, s \in StretchSet(q, c)
  PROVE  /\ LongestMatch(q, c, s) \in Matches(q, c, s)
         /\ \A o \in Matches(q, c, s) : LongestMatch(q, c, s).size >= o.size
<1> DEFINE M == Matches(q, c, s)
<1> DEFINE Best(m) == \A o \in M : \/ m.size > o.size
                                   \/ m.size = o.size /\ (m.a < o.a \/ (m.a = o.a /\ m.b <= o.b))
<1>1. s.i1 \in Nat /\ s.i2 \in Nat /\ s.j1 \in Nat /\ s.j2 \in Nat /\ s.i1 <= s.i2 /\ s.j1 <= s.j2
    BY DEF StretchSet
<1>2. \A m \in M : m.a \in Nat /\ m.b \in Nat /\ m.size \in Nat /\ m.size <= s.i2 - s.i1
  <2> SUFFICES ASSUME NEW m \in M
               PROVE  m.a \in Nat /\ m.b \in Nat /\ m.size \in Nat /\ m.size <= s.i2 - s.i1
      OBVIOUS
  <2>1. IsMatch(q, c, s, m)
      BY MatchesAre
  <2> QED
      BY <1>1, <2>1 DEF IsMatch
<1>3. [a |-> s.i1, b |-> s.j1, size |-> 0] \in M
  <2>1. IsMatch(q, c, s, [a |-> s.i1, b |-> s.j1, size |-> 0])
      BY <1>1 DEF IsMatch
  <2> QED
      BY <1>1, <2>1, MatchesAre
<1> HIDE DEF M
<1>4. PICK x \in M : \A o \in M : x.size >= o.size
  <2> DEFINE T == {(s.i2 - s.i1) - m.size : m \in M}
  <2>1. T \in SUBSET Nat /\ T # {}
      BY <1>1, <1>2, <1>3
  <2>2. PICK t \in T : \A u \in T : t <= u
    <3> HIDE DEF T
    <3> QED
        BY <2>1, LeastNatural
  <2>3. PICK x \in M : t = (s.i2 - s.i1) - x.size
      BY <2>2
  <2>4. ASSUME NEW o \in M PROVE x.size >= o.size
    <3>1. (s.i2 - s.i1) - o.size \in T
        OBVIOUS
    <3>2. t <= (s.i2 - s.i1) - o.size
        BY <2>2, <3>1
    <3> QED
        BY <1>1, <1>2, <2>3, <3>2
  <2> QED
      BY <2>4
<1> DEFINE L == {m \in M : m.size = x.size}
<1>5. PICK y \in L : \A o \in L : y.a <= o.a
  <2> DEFINE T == {m.a : m \in L}
  <2>1. T \in SUBSET Nat /\ T # {}
      BY <1>2
  <2>2. PICK t \in T : \A u \in T : t <= u
    <3> HIDE DEF T
    <3> QED
        BY <2>1, LeastNatural
  <2> QED
      BY <2>2
<1> DEFINE F == {m \in L : m.a = y.a}
<1>6. PICK z \in F : \A o \in F : z.b <= o.b
  <2> DEFINE T == {m.b : m \in F}
  <2>1. T \in SUBSET Nat /\ T # {}
      BY <1>2
  <2>2. PICK t \in T : \A u \in T : t <= u
    <3> HIDE DEF T
    <3> QED
        BY <2>1, LeastNatural
  <2> QED
      BY <2>2
<1>7. z \in M /\ Best(z)
  <2> SUFFICES ASSUME NEW o \in M
               PROVE  \/ z.size > o.size
                      \/ z.size = o.size /\ (z.a < o.a \/ (z.a = o.a /\ z.b <= o.b))
      OBVIOUS
  <2>1. x.size >= o.size /\ z.size = x.size /\ z.a = y.a
      BY <1>4
  <2>2. CASE o.size # x.size
      BY <1>2, <2>1, <2>2
  <2>3. CASE o.size = x.size
    <3>1. o \in L /\ y.a <= o.a
        BY <1>5, <2>3
    <3>2. CASE o.a = y.a
        BY <1>6, <2>1, <2>3, <3>1, <3>2
    <3>3. CASE o.a # y.a
        BY <1>2, <2>1, <2>3, <3>1, <3>3
    <3> QED
        BY <3>2, <3>3
  <2> QED
      BY <2>2, <2>3
<1>8. LongestMatch(q, c, s) = CHOOSE m \in M : Best(m)
    BY DEF LongestMatch, M
<1>9. LongestMatch(q, c, s) \in M /\ Best(LongestMatch(q, c, s))
  <2> HIDE DEF Best
  <2> QED
      BY <1>7, <1>8
<1>10. \A o \in M : LongestMatch(q, c, s).size >= o.size
    BY <1>2, <1>9
<1> QED
    BY <1>9, <1>10 DEF M

\* Where a match of so many words begins.
LEMMA StartsWithin ==
  ASSUME NEW a \in Nat, NEW size \in Nat, NEW up \in Nat, NEW len \in Nat,
         a + size <= up, up <= len
  PROVE  a <= up /\ a <= len /\ a + size \in Nat
OBVIOUS

\* What is left of a stretch is stretches.
LEMMA HalvesAre ==
  ASSUME NEW q \in Seq(Words), NEW c \in Seq(Words), NEW s, s \in StretchSet(q, c)
  PROVE  /\ Halves(q, c, s) \subseteq StretchSet(q, c)
         /\ LongestMatch(q, c, s).size = 0 => Halves(q, c, s) = {s}
         /\ IsMatch(q, c, s, LongestMatch(q, c, s))
<1>1. PICK m : m = LongestMatch(q, c, s)
    OBVIOUS
<1>2. IsMatch(q, c, s, m)
    BY <1>1, LongestIsMatch, MatchesAre
<1>3. /\ s.i1 \in Nat /\ s.i2 \in Nat /\ s.j1 \in Nat /\ s.j2 \in Nat
      /\ s.i1 <= s.i2 /\ s.i2 <= Len(q) /\ s.j1 <= s.j2 /\ s.j2 <= Len(c)
      /\ s \in [i1 : Nat, i2 : Nat, j1 : Nat, j2 : Nat]
      /\ Len(q) \in Nat /\ Len(c) \in Nat
    BY DEF StretchSet
<1>4. CASE m.size = 0
    BY <1>1, <1>2, <1>4 DEF Halves
<1>5. CASE m.size # 0
  <2>1. Halves(q, c, s) = {[s EXCEPT !.i2 = m.a, !.j2 = m.b],
                           [s EXCEPT !.i1 = m.a + m.size, !.j1 = m.b + m.size]}
      BY <1>1, <1>5 DEF Halves
  <2>2. /\ m.a \in Nat /\ s.i1 <= m.a /\ m.a <= s.i2 /\ m.a <= Len(q)
        /\ m.b \in Nat /\ s.j1 <= m.b /\ m.b <= s.j2 /\ m.b <= Len(c)
        /\ m.a + m.size \in Nat /\ m.a + m.size <= s.i2
        /\ m.b + m.size \in Nat /\ m.b + m.size <= s.j2
    <3>1. /\ m.a \in Nat /\ m.b \in Nat /\ m.size \in Nat
          /\ s.i1 <= m.a /\ m.a + m.size <= s.i2 /\ s.j1 <= m.b /\ m.b + m.size <= s.j2
        BY <1>2 DEF IsMatch
    <3>2. m.a <= s.i2 /\ m.a <= Len(q) /\ m.a + m.size \in Nat
        BY <1>3, <3>1, StartsWithin
    <3>3. m.b <= s.j2 /\ m.b <= Len(c) /\ m.b + m.size \in Nat
        BY <1>3, <3>1, StartsWithin
    <3> QED
        BY <3>1, <3>2, <3>3
  <2>3. [s EXCEPT !.i2 = m.a, !.j2 = m.b] \in StretchSet(q, c)
    <3>1. PICK t : t = [s EXCEPT !.i2 = m.a, !.j2 = m.b]
        OBVIOUS
    <3>2. /\ t \in [i1 : Nat, i2 : Nat, j1 : Nat, j2 : Nat]
          /\ t.i1 = s.i1 /\ t.i2 = m.a /\ t.j1 = s.j1 /\ t.j2 = m.b
        BY <1>3, <2>2, <3>1
    <3> QED
        BY <2>2, <3>1, <3>2 DEF StretchSet
  <2>4. [s EXCEPT !.i1 = m.a + m.size, !.j1 = m.b + m.size] \in StretchSet(q, c)
    <3>1. PICK x, y \in Nat : x = m.a + m.size /\ y = m.b + m.size
        BY <2>2
    <3>2. PICK t : t = [s EXCEPT !.i1 = x, !.j1 = y]
        OBVIOUS
    <3>3. /\ t \in [i1 : Nat, i2 : Nat, j1 : Nat, j2 : Nat]
          /\ t.i1 = x /\ t.i2 = s.i2 /\ t.j1 = y /\ t.j2 = s.j2
        BY <1>3, <3>2
    <3>4. x <= s.i2 /\ y <= s.j2
        BY <2>2, <3>1
    <3> QED
        BY <1>3, <3>1, <3>2, <3>3, <3>4 DEF StretchSet
  <2> QED
      BY <1>1, <1>2, <1>5, <2>1, <2>3, <2>4
<1> QED
    BY <1>4, <1>5

\* One round.
Round(q, c, all) == UNION {Halves(q, c, s) : s \in all}

\* get_opcodes goes round by round, as many times as the quote has words.
LEMMA RoundsRun ==
  ASSUME NEW q \in Seq(Words), NEW c \in Seq(Words)
  PROVE  \E R \in [0..Len(q) -> SUBSET StretchSet(q, c)] :
           /\ R[0] = {Whole(q, c)}
           /\ \A n \in 1..Len(q) : R[n] = Round(q, c, R[n - 1])
           /\ R[Len(q)] = Stretches(q, c)
<1> DEFINE A == SUBSET StretchSet(q, c)
<1> DEFINE F == [p \in A \X Words |-> Round(q, c, p[1])]
<1> DEFINE Built(g) == g = [t \in SUBSET DOMAIN q |->
             IF t = {} THEN {Whole(q, c)} ELSE Round(q, c, g[t \ {Max(t)}])]
<1> DEFINE it == CHOOSE g : Built(g)
<1>1. Len(q) \in Nat /\ DOMAIN q = 1..Len(q) /\ Len(c) \in Nat
    OBVIOUS
<1>2. {Whole(q, c)} \in A
    BY <1>1 DEF Whole, StretchSet
<1>3. F \in [A \X Words -> A]
  <2>1. \A all \in A : Round(q, c, all) \in A
      BY HalvesAre DEF Round
  <2> HIDE DEF A
  <2> QED
      BY <2>1
<1> HIDE DEF A
<1>4. \A t \in SUBSET DOMAIN q : t # {} => q[Max(t)] \in Words
  <2> SUFFICES ASSUME NEW t \in SUBSET (1..Len(q)), t # {} PROVE q[Max(t)] \in Words
      BY <1>1
  <2>1. Max(t) \in 1..Len(q)
      BY <1>1, MaxIsIn
  <2>2. \A x \in 1..Len(q) : q[x] \in Words
      OBVIOUS
  <2> QED
      BY <2>1, <2>2
<1>5. \E g : Built(g)
  <2>1. PICK g \in [SUBSET (DOMAIN q) -> A] : IsFold(g, F, {Whole(q, c)}, q)
    <3> HIDE DEF F
    <3> QED
        BY <1>1, <1>2, <1>3, FoldIsDefined
  <2>2. ASSUME NEW t \in SUBSET DOMAIN q, t # {}
        PROVE  F[<<g[t \ {Max(t)}], q[Max(t)]>>] = Round(q, c, g[t \ {Max(t)}])
      BY <1>4, <2>2
  <2>3. Built(g)
    <3> HIDE DEF F
    <3> QED
        BY <2>1, <2>2 DEF IsFold
  <2> QED
      BY <2>3
<1>6. Built(it)
    BY <1>5
<1>7. Stretches(q, c) = it[DOMAIN q]
    BY DEF Stretches, Round, FoldLeft, MapThenFoldSet
<1> HIDE DEF it
<1>8. it[{}] = {Whole(q, c)}
    BY <1>6
<1>9. FoldsWithin(it, A, F, {Whole(q, c)}, q)
    BY <1>4, <1>6, <1>8 DEF FoldsWithin
<1>10. PICK R \in [0..Len(q) -> A] :
         /\ R[0] = {Whole(q, c)}
         /\ \A n \in 1..Len(q) : R[n] = F[<<R[n - 1], q[n]>>]
         /\ R[Len(q)] = it[DOMAIN q]
  <2> HIDE DEF F
  <2>1. RunsTo(A, F, {Whole(q, c)}, q, it[DOMAIN q])
      BY <1>1, <1>2, <1>3, <1>9, FoldIsRun
  <2> QED
      BY <2>1 DEF RunsTo
<1>11. ASSUME NEW n \in 1..Len(q) PROVE R[n] = Round(q, c, R[n - 1])
  <2>1. R[n - 1] \in A /\ q[n] \in Words
      BY <1>1, <1>10
  <2> QED
      BY <1>10, <2>1
<1> QED
    BY <1>7, <1>10, <1>11 DEF A

\* What holds after the first round, and after one if before it, holds at the end.
LEMMA RoundsKeep ==
  ASSUME NEW q \in Seq(Words), q # <<>>, NEW c \in Seq(Words),
         NEW G, Round(q, c, {Whole(q, c)}) \in G,
         \A all \in G \cap SUBSET StretchSet(q, c) : Round(q, c, all) \in G
  PROVE  Stretches(q, c) \in G /\ Stretches(q, c) \subseteq StretchSet(q, c)
<1>1. Len(q) \in Nat \ {0}
    OBVIOUS
<1>2. PICK R \in [0..Len(q) -> SUBSET StretchSet(q, c)] :
        /\ R[0] = {Whole(q, c)}
        /\ \A n \in 1..Len(q) : R[n] = Round(q, c, R[n - 1])
        /\ R[Len(q)] = Stretches(q, c)
    BY RoundsRun
<1> DEFINE H == {n \in 0..Len(q) : n = 0 \/ R[n] \in G}
<1>3. 0 \in H /\ H \in SUBSET (0..Len(q))
    BY <1>1
<1>4. ASSUME NEW n \in 1..Len(q), n - 1 \in H PROVE n \in H
  <2>1. n \in 0..Len(q) /\ n - 1 \in 0..Len(q)
      BY <1>1
  <2>2. CASE n = 1
    <3>1. R[n] = Round(q, c, {Whole(q, c)})
      <4>1. n - 1 = 0
          BY <2>2
      <4> QED
          BY <1>2, <4>1
    <3> QED
        BY <2>1, <3>1
  <2>3. CASE n # 1
    <3>1. n - 1 # 0
        BY <1>1, <2>3
    <3>2. R[n - 1] \in G /\ R[n - 1] \in SUBSET StretchSet(q, c)
        BY <1>2, <1>4, <2>1, <3>1
    <3> QED
        BY <1>2, <2>1, <3>2
  <2> QED
      BY <2>2, <2>3
<1>5. H = 0..Len(q)
  <2> HIDE DEF H
  <2> QED
      BY <1>1, <1>3, <1>4, HoldsThroughout
<1>6. Len(q) \in H /\ Len(q) # 0 /\ Len(q) \in 0..Len(q)
    BY <1>1, <1>5
<1>7. R[Len(q)] \in G /\ R[Len(q)] \in SUBSET StretchSet(q, c)
    BY <1>2, <1>6
<1> QED
    BY <1>2, <1>7

-----------------------------------------------------------------------------
(* The window the quote is compared with *)

LEMMA MaxOfTwo ==
  ASSUME NEW x \in Int, NEW y \in Int
  PROVE  Max({x, y}) = IF x >= y THEN x ELSE y
<1> DEFINE z == IF x >= y THEN x ELSE y
<1>1. z \in {x, y} /\ \A u \in {x, y} : z >= u
    OBVIOUS
<1>2. \A v \in {x, y} : (\A u \in {x, y} : v >= u) => v = z
    OBVIOUS
<1> HIDE DEF z
<1>3. Max({x, y}) = z
    BY <1>1, <1>2 DEF Max
<1> QED
    BY <1>3 DEF z

LEMMA MinOfTwo ==
  ASSUME NEW x \in Int, NEW y \in Int
  PROVE  Min({x, y}) = IF x <= y THEN x ELSE y
<1> DEFINE z == IF x <= y THEN x ELSE y
<1>1. z \in {x, y} /\ \A u \in {x, y} : z <= u
    OBVIOUS
<1>2. \A v \in {x, y} : (\A u \in {x, y} : v <= u) => v = z
    OBVIOUS
<1> HIDE DEF z
<1>3. Min({x, y}) = z
    BY <1>1, <1>2 DEF Min
<1> QED
    BY <1>3 DEF z

\* The words of r are those of c after its first `at` ones.
StandsIn(r, c, at) ==
    /\ at \in Nat /\ at + Len(r) <= Len(c)
    /\ \A n \in 1..Len(r) : r[n] = c[at + n]

\* A part of a sequence.
LEMMA PartStands ==
  ASSUME NEW c \in Seq(Words), NEW i \in Nat, NEW j \in Nat, i <= j, j <= Len(c)
  PROVE  /\ SubSeq(c, i + 1, j) \in Seq(Words) /\ Len(SubSeq(c, i + 1, j)) = j - i
         /\ StandsIn(SubSeq(c, i + 1, j), c, i)
<1>1. \A n \in i + 1 .. j : c[n] \in Words
  <2>1. \A n \in i + 1 .. j : n \in 1..Len(c)
      OBVIOUS
  <2>2. \A n \in 1..Len(c) : c[n] \in Words
      OBVIOUS
  <2> QED
      BY <2>1, <2>2
<1>2. i + 1 \in Int /\ j \in Int
    OBVIOUS
<1>3. /\ SubSeq(c, i + 1, j) \in Seq(Words)
      /\ Len(SubSeq(c, i + 1, j)) = IF i + 1 <= j THEN j - (i + 1) + 1 ELSE 0
      /\ \A n \in 1 .. j - (i + 1) + 1 : SubSeq(c, i + 1, j)[n] = c[i + 1 + n - 1]
    BY <1>1, <1>2, SubSeqProperties
<1> DEFINE r == SubSeq(c, i + 1, j)
<1> HIDE DEF r
<1>4. r \in Seq(Words) /\ Len(r) = j - i
    BY <1>3 DEF r
<1>5. \A n \in 1 .. j - i : r[n] = c[i + n]
  <2>1. \A n \in 1 .. j - i : n \in 1 .. j - (i + 1) + 1 /\ i + 1 + n - 1 = i + n
      OBVIOUS
  <2> QED
      BY <1>3, <2>1 DEF r
<1>6. i + Len(r) <= Len(c)
    BY <1>4
<1>7. StandsIn(r, c, i)
    BY <1>4, <1>5, <1>6 DEF StandsIn
<1> QED
    BY <1>4, <1>7 DEF r

\* The whole of a quote and a clause is a stretch.
LEMMA WholeIs ==
  ASSUME NEW q \in Seq(Words), NEW c \in Seq(Words)
  PROVE  /\ Whole(q, c) \in StretchSet(q, c)
         /\ Whole(q, c).i1 = 0 /\ Whole(q, c).i2 = Len(q)
         /\ Whole(q, c).j1 = 0 /\ Whole(q, c).j2 = Len(c)
<1>1. Len(q) \in Nat /\ Len(c) \in Nat
    OBVIOUS
<1> QED
    BY <1>1 DEF Whole, StretchSet

\* The window of _aligned_window: where it starts and how far it goes.
IsWindow(q, c, m, w, at) ==
    /\ w \in Seq(Words) /\ StandsIn(w, c, at)
    /\ \/ w = c /\ at = 0
       \/ /\ m.size # 0
          /\ at = 0 \/ at = m.b - m.a - Slack
          /\ at >= m.b - m.a - Slack
          /\ at + Len(w) = Len(c) \/ at + Len(w) = at + Len(q) + 2 * Slack

LEMMA WindowIs ==
  ASSUME NEW q \in Seq(Words), NEW c \in Seq(Words)
  PROVE  \E at \in Nat :
           IsWindow(q, c, LongestMatch(q, c, Whole(q, c)), AlignedWindow(q, c), at)
<1>1. PICK m : m = LongestMatch(q, c, Whole(q, c))
    OBVIOUS
<1>2. m.a \in Nat /\ m.b \in Nat /\ m.b <= Len(c) /\ Len(q) \in Nat /\ Len(c) \in Nat /\ Slack \in Nat
  <2>1. IsMatch(q, c, Whole(q, c), m)
      BY <1>1, WholeIs, HalvesAre
  <2>2. m.a \in Nat /\ m.b \in Nat /\ m.size \in Nat /\ m.b + m.size <= Whole(q, c).j2
      BY <2>1 DEF IsMatch
  <2>3. Whole(q, c).j2 = Len(c)
      BY WholeIs
  <2>4. Len(c) \in Nat /\ Len(q) \in Nat /\ Slack \in Nat
      BY QuoteAssumption
  <2> QED
      BY <2>2, <2>3, <2>4
<1>3. CASE Len(q) >= Len(c) \/ m.size = 0
  <2>1. AlignedWindow(q, c) = c
      BY <1>1, <1>3 DEF AlignedWindow
  <2>2. StandsIn(c, c, 0)
      BY <1>2 DEF StandsIn
  <2> QED
      BY <1>1, <2>1, <2>2 DEF IsWindow
<1>4. CASE ~(Len(q) >= Len(c) \/ m.size = 0)
  <2>1. PICK x, lq, lc \in Int : x = m.b - m.a - Slack /\ lq = Len(q) /\ lc = Len(c)
    <3>1. m.b - m.a - Slack \in Int /\ Len(q) \in Int /\ Len(c) \in Int
        BY <1>2
    <3> QED
        BY <3>1
  <2>2. PICK at : at = Max({0, x})
      OBVIOUS
  <2>3. at = IF 0 >= x THEN 0 ELSE x
      BY <2>2, MaxOfTwo
  <2>4. at \in Nat /\ (at = 0 \/ at = x) /\ at >= x
      BY <2>1, <2>3
  <2>5. x <= lc /\ lc \in Nat /\ lq \in Nat
      BY <1>2, <2>1
  <2>6. PICK end : end = Min({lc, at + lq + 2 * Slack})
      OBVIOUS
  <2>7. end = IF lc <= at + lq + 2 * Slack THEN lc ELSE at + lq + 2 * Slack
    <3>1. at + lq + 2 * Slack \in Int
        BY <1>2, <2>4, <2>5
    <3> QED
        BY <2>1, <2>6, <3>1, MinOfTwo
  <2>8. /\ end \in Nat /\ at <= end /\ end <= lc
        /\ end = lc \/ end = at + lq + 2 * Slack
    <3>1. at <= lc
        BY <2>4, <2>5
    <3> QED
        BY <1>2, <2>4, <2>5, <2>7, <3>1
  <2>9. AlignedWindow(q, c) = SubSeq(c, at + 1, end)
      BY <1>1, <1>4, <2>1, <2>2, <2>6 DEF AlignedWindow
  <2>10. PICK w : w = SubSeq(c, at + 1, end)
      OBVIOUS
  <2>11. w \in Seq(Words) /\ Len(w) = end - at /\ StandsIn(w, c, at)
      BY <2>1, <2>4, <2>8, <2>10, PartStands
  <2>12. at + Len(w) = end
      BY <2>4, <2>8, <2>11
  <2>13. IsWindow(q, c, m, w, at)
      BY <1>4, <2>1, <2>4, <2>8, <2>11, <2>12 DEF IsWindow
  <2> QED
      BY <1>1, <2>4, <2>9, <2>10, <2>13
<1> QED
    BY <1>3, <1>4

-----------------------------------------------------------------------------
(* What the check says of a quote, word by word *)

\* Of a quote that stands in a clause, the longest match is all of it.
LEMMA VerbatimMatch ==
  ASSUME NEW q \in Seq(Words), NEW c \in Seq(Words), NEW b, StandsIn(q, c, b)
  PROVE  /\ LongestMatch(q, c, Whole(q, c)).a = 0
         /\ LongestMatch(q, c, Whole(q, c)).size = Len(q)
         /\ StandsIn(q, c, LongestMatch(q, c, Whole(q, c)).b)
<1> DEFINE s == Whole(q, c)
<1>1. PICK m : m = LongestMatch(q, c, s)
    OBVIOUS
<1>2. s \in StretchSet(q, c) /\ s.i1 = 0 /\ s.i2 = Len(q) /\ s.j1 = 0 /\ s.j2 = Len(c)
    BY WholeIs
<1> HIDE DEF s
<1>3. IsMatch(q, c, s, [a |-> 0, b |-> b, size |-> Len(q)])
    BY <1>2 DEF StandsIn, IsMatch
<1>4. [a |-> 0, b |-> b, size |-> Len(q)] \in Matches(q, c, s)
  <2>1. 0 \in Nat /\ b \in Nat /\ Len(q) \in Nat
      BY DEF StandsIn
  <2> QED
      BY <1>2, <1>3, <2>1, MatchesAre
<1>5. m.size >= Len(q)
    BY <1>1, <1>2, <1>4, LongestIsMatch
<1>6. IsMatch(q, c, s, m)
    BY <1>1, <1>2, HalvesAre
<1>7. m.a = 0 /\ m.size = Len(q)
  <2>1. m.a \in Nat /\ m.size \in Nat /\ m.a + m.size <= Len(q) /\ Len(q) \in Nat
      BY <1>2, <1>6 DEF IsMatch
  <2> QED
      BY <1>5, <2>1
<1>8. StandsIn(q, c, m.b)
  <2>1. /\ m.b \in Nat /\ m.b + m.size <= Len(c)
        /\ \A n \in 1..m.size : q[m.a + n] = c[m.b + n]
      BY <1>2, <1>6 DEF IsMatch
  <2>2. \A n \in 1..Len(q) : 0 + n = n
      OBVIOUS
  <2> QED
      BY <1>7, <2>1, <2>2 DEF StandsIn
<1> QED
    BY <1>1, <1>7, <1>8 DEF s

\* Then it stands in the window, too.
LEMMA VerbatimInWindow ==
  ASSUME NEW q \in Seq(Words), NEW c \in Seq(Words), NEW b, StandsIn(q, c, b)
  PROVE  /\ AlignedWindow(q, c) \in Seq(Words)
         /\ \E o \in Nat : StandsIn(q, AlignedWindow(q, c), o)
<1>1. PICK m : m = LongestMatch(q, c, Whole(q, c))
    OBVIOUS
<1>2. PICK w : w = AlignedWindow(q, c)
    OBVIOUS
<1>3. PICK at \in Nat : IsWindow(q, c, m, w, at)
    BY <1>1, <1>2, WindowIs
<1>4. m.a = 0 /\ StandsIn(q, c, m.b)
    BY <1>1, VerbatimMatch
<1>5. w \in Seq(Words) /\ StandsIn(w, c, at)
    BY <1>3 DEF IsWindow
<1>6. CASE w = c /\ at = 0
    BY <1>2, <1>4, <1>5, <1>6 DEF StandsIn
<1>7. CASE ~(w = c /\ at = 0)
  <2>1. PICK f, lq, lc, lw \in Nat : f = m.b /\ lq = Len(q) /\ lc = Len(c) /\ lw = Len(w)
    <3>1. m.b \in Nat /\ Len(q) \in Nat /\ Len(c) \in Nat /\ Len(w) \in Nat
        BY <1>4, <1>5 DEF StandsIn
    <3> QED
        BY <3>1
  <2>2. /\ at = 0 \/ at = f - Slack
        /\ at >= f - Slack
        /\ at + lw = lc \/ at + lw = at + lq + 2 * Slack
    <3>1. /\ at = 0 \/ at = m.b - m.a - Slack
          /\ at >= m.b - m.a - Slack
          /\ at + Len(w) = Len(c) \/ at + Len(w) = at + Len(q) + 2 * Slack
        BY <1>3, <1>7 DEF IsWindow
    <3>2. m.b - m.a - Slack = f - Slack
        BY <1>4, <2>1, QuoteAssumption
    <3> QED
        BY <2>1, <3>1, <3>2
  <2>3. f + lq <= lc /\ Slack \in Nat
      BY <1>4, <2>1, QuoteAssumption DEF StandsIn
  <2>4. at <= f /\ f + lq <= at + lw
      BY <2>2, <2>3
  <2>5. PICK o \in Nat : o = f - at /\ o + lq <= lw /\ f = at + o
    <3>1. f - at \in Nat /\ (f - at) + lq <= lw /\ f = at + (f - at)
        BY <2>4
    <3> QED
        BY <3>1
  <2>6. \A n \in 1..lq : q[n] = c[f + n]
      BY <1>4, <2>1 DEF StandsIn
  <2>7. \A n \in 1..lw : w[n] = c[at + n]
      BY <1>5, <2>1 DEF StandsIn
  <2>8. \A n \in 1..lq : q[n] = w[o + n]
    <3> TAKE n \in 1..lq
    <3>1. o + n \in 1..lw /\ at + (o + n) = f + n
        BY <2>5
    <3> QED
        BY <2>6, <2>7, <3>1
  <2>9. StandsIn(q, w, o)
      BY <2>1, <2>5, <2>8 DEF StandsIn
  <2> QED
      BY <1>2, <1>5, <2>9
<1> QED
    BY <1>6, <1>7

\* What is left is before the quote or after it.
Outside(q, all) == \A s \in all : s.i1 = s.i2 /\ s.i1 \in {0, Len(q)}

LEMMA VerbatimIsAccepted ==
  ASSUME NEW q \in Seq(Words), q # <<>>, NEW c \in Seq(Words), NEW b \in Nat, StandsIn(q, c, b)
  PROVE  ~PolarityMismatch(q, c)
<1>1. PICK w : w = AlignedWindow(q, c)
    OBVIOUS
<1>2. w \in Seq(Words) /\ \E o \in Nat : StandsIn(q, w, o)
    BY <1>1, VerbatimInWindow
<1>3. PICK m : m = LongestMatch(q, w, Whole(q, w))
    OBVIOUS
<1>4. m.a = 0 /\ m.size = Len(q)
    BY <1>2, <1>3, VerbatimMatch
<1> DEFINE G == {all \in SUBSET StretchSet(q, w) : Outside(q, all)}
<1>5. Round(q, w, {Whole(q, w)}) \in G
  <2>1. Round(q, w, {Whole(q, w)}) = Halves(q, w, Whole(q, w))
      BY DEF Round
  <2>2. Halves(q, w, Whole(q, w)) \subseteq StretchSet(q, w)
      BY <1>2, WholeIs, HalvesAre
  <2>3. Len(q) \in Nat \ {0}
      OBVIOUS
  <2>4. Halves(q, w, Whole(q, w)) =
          {[Whole(q, w) EXCEPT !.i2 = 0, !.j2 = m.b],
           [Whole(q, w) EXCEPT !.i1 = 0 + Len(q), !.j1 = m.b + Len(q)]}
      BY <1>3, <1>4, <2>3 DEF Halves
  <2>5. Outside(q, Halves(q, w, Whole(q, w)))
    <3>1. PICK len, b1 \in Nat : len = Len(q) /\ b1 = m.b
      <4>1. IsMatch(q, w, Whole(q, w), m)
          BY <1>2, <1>3, WholeIs, HalvesAre
      <4>2. m.b \in Nat
          BY <4>1 DEF IsMatch
      <4> QED
          BY <2>3, <4>2
    <3>2. PICK s \in [i1 : Nat, i2 : Nat, j1 : Nat, j2 : Nat] :
            s = Whole(q, w) /\ s.i1 = 0 /\ s.i2 = len
        BY <1>2, <3>1, WholeIs DEF StretchSet
    <3>3. PICK x, y \in Nat : x = 0 + len /\ y = b1 + len
        OBVIOUS
    <3>4. x = len
        BY <3>3
    <3>5. PICK l, r : l = [s EXCEPT !.i2 = 0, !.j2 = b1] /\ r = [s EXCEPT !.i1 = x, !.j1 = y]
        OBVIOUS
    <3>6. l.i1 = 0 /\ l.i2 = 0 /\ r.i1 = x /\ r.i2 = len
        BY <3>2, <3>5
    <3>7. Halves(q, w, Whole(q, w)) = {l, r}
        BY <2>4, <3>1, <3>2, <3>3, <3>5
    <3> QED
        BY <3>1, <3>4, <3>6, <3>7 DEF Outside
  <2> QED
      BY <2>1, <2>2, <2>5
<1>6. ASSUME NEW all \in G \cap SUBSET StretchSet(q, w) PROVE Round(q, w, all) \in G
  <2>1. \A s \in all : Halves(q, w, s) = {s}
    <3> SUFFICES ASSUME NEW s \in all PROVE Halves(q, w, s) = {s}
        OBVIOUS
    <3>1. s \in StretchSet(q, w) /\ s.i1 = s.i2
        BY <1>6 DEF Outside
    <3>2. PICK n : n = LongestMatch(q, w, s)
        OBVIOUS
    <3>3. IsMatch(q, w, s, n)
        BY <1>2, <3>1, <3>2, HalvesAre
    <3>4. n.size = 0
      <4>1. n.a \in Nat /\ n.size \in Nat /\ s.i1 <= n.a /\ n.a + n.size <= s.i2 /\ s.i1 \in Nat
          BY <3>1, <3>3 DEF IsMatch, StretchSet
      <4> QED
          BY <3>1, <4>1
    <3> QED
        BY <1>2, <3>1, <3>2, <3>4, HalvesAre
  <2>2. Round(q, w, all) = all
      BY <2>1 DEF Round
  <2> QED
      BY <1>6, <2>2
<1> HIDE DEF G
<1>7. Stretches(q, w) \in G
    BY <1>2, <1>5, <1>6, RoundsKeep
<1>8. \A s \in Stretches(q, w) : AroundTheSpan(s, q)
    BY <1>7 DEF G, Outside, AroundTheSpan
<1> QED
    BY <1>1, <1>8 DEF PolarityMismatch, Edits

\* A stretch some stretch of which is always left, whatever is matched.
LEMMA SomeIsLeft ==
  ASSUME NEW q \in Seq(Words), q # <<>>, NEW w \in Seq(Words), NEW P \in SUBSET StretchSet(q, w),
         Whole(q, w) \in P, \A s \in P : \E t \in Halves(q, w, s) : t \in P
  PROVE  \E s \in Stretches(q, w) : s \in P
<1> DEFINE G == {all \in SUBSET StretchSet(q, w) : \E s \in all : s \in P}
<1>1. ASSUME NEW all \in SUBSET StretchSet(q, w), \E s \in all : s \in P
      PROVE  Round(q, w, all) \in G
  <2>1. Round(q, w, all) \in SUBSET StretchSet(q, w)
      BY HalvesAre DEF Round
  <2>2. \E s \in Round(q, w, all) : s \in P
      BY <1>1 DEF Round
  <2> QED
      BY <2>1, <2>2
<1>2. Round(q, w, {Whole(q, w)}) \in G
    BY <1>1, WholeIs
<1>3. \A all \in G \cap SUBSET StretchSet(q, w) : Round(q, w, all) \in G
    BY <1>1
<1> HIDE DEF G
<1>4. Stretches(q, w) \in G
    BY <1>2, <1>3, RoundsKeep
<1> QED
    BY <1>4 DEF G

\* What is on either side of the longest match of a stretch.
LEMMA SidesOf ==
  ASSUME NEW q \in Seq(Words), NEW w \in Seq(Words), NEW s \in StretchSet(q, w)
  PROVE  \E m : /\ IsMatch(q, w, s, m)
                /\ m.size = 0 => s \in Halves(q, w, s)
                /\ m.size # 0 =>
                     \E l, r \in Halves(q, w, s) \cap StretchSet(q, w) :
                       /\ l.i1 = s.i1 /\ l.i2 = m.a /\ l.j1 = s.j1 /\ l.j2 = m.b
                       /\ r.i1 = m.a + m.size /\ r.i2 = s.i2
                       /\ r.j1 = m.b + m.size /\ r.j2 = s.j2
<1>1. PICK m : m = LongestMatch(q, w, s)
    OBVIOUS
<1>2. IsMatch(q, w, s, m) /\ Halves(q, w, s) \subseteq StretchSet(q, w)
    BY <1>1, HalvesAre
<1>3. m.size = 0 => s \in Halves(q, w, s)
    BY <1>1, HalvesAre
<1>4. ASSUME m.size # 0
      PROVE  \E l, r \in Halves(q, w, s) \cap StretchSet(q, w) :
               /\ l.i1 = s.i1 /\ l.i2 = m.a /\ l.j1 = s.j1 /\ l.j2 = m.b
               /\ r.i1 = m.a + m.size /\ r.i2 = s.i2
               /\ r.j1 = m.b + m.size /\ r.j2 = s.j2
  <2>1. Halves(q, w, s) = {[s EXCEPT !.i2 = m.a, !.j2 = m.b],
                           [s EXCEPT !.i1 = m.a + m.size, !.j1 = m.b + m.size]}
      BY <1>1, <1>4 DEF Halves
  <2>2. s \in [i1 : Nat, i2 : Nat, j1 : Nat, j2 : Nat]
      BY DEF StretchSet
  <2>3. PICK l, r : /\ l = [s EXCEPT !.i2 = m.a, !.j2 = m.b]
                    /\ r = [s EXCEPT !.i1 = m.a + m.size, !.j1 = m.b + m.size]
      OBVIOUS
  <2>4. l \in Halves(q, w, s) \cap StretchSet(q, w) /\ r \in Halves(q, w, s) \cap StretchSet(q, w)
      BY <1>2, <2>1, <2>3
  <2>5. /\ l.i1 = s.i1 /\ l.i2 = m.a /\ l.j1 = s.j1 /\ l.j2 = m.b
        /\ r.i1 = m.a + m.size /\ r.i2 = s.i2
        /\ r.j1 = m.b + m.size /\ r.j2 = s.j2
      BY <2>2, <2>3
  <2> QED
      BY <2>4, <2>5
<1> QED
    BY <1>2, <1>3, <1>4

\* Where a word of a match stands.
LEMMA InTheMatch ==
  ASSUME NEW a \in Nat, NEW size \in Nat, NEW up \in Nat, NEW len \in Nat,
         a + size <= up, up <= len, NEW n \in 1..size
  PROVE  a + n \in 1..len
OBVIOUS

\* A word put in that is not a word of the clause is never matched.
LEMMA PutInIsReported ==
  ASSUME NEW q \in Seq(Words), NEW c \in Seq(Words), NEW p \in 1..Len(q), q[p] \in Polarity,
         \A n \in 1..Len(c) : c[n] # q[p]
  PROVE  PolarityMismatch(q, c)
<1>1. PICK w, at : w = AlignedWindow(q, c) /\ w \in Seq(Words) /\ StandsIn(w, c, at)
    BY WindowIs DEF IsWindow
<1>2. \A n \in 1..Len(w) : w[n] # q[p]
  <2> SUFFICES ASSUME NEW n \in 1..Len(w) PROVE w[n] # q[p]
      OBVIOUS
  <2>1. /\ at \in Nat /\ at + Len(w) <= Len(c) /\ w[n] = c[at + n]
        /\ Len(w) \in Nat /\ Len(c) \in Nat
      BY <1>1 DEF StandsIn
  <2>2. at + n \in 1..Len(c)
      BY <2>1
  <2> QED
      BY <2>1, <2>2
<1>3. p \in Nat \ {0} /\ p <= Len(q) /\ Len(q) \in Nat /\ q # <<>>
    OBVIOUS
<1> DEFINE P == {s \in StretchSet(q, w) : s.i1 < p /\ p <= s.i2}
<1>4. ASSUME NEW s \in P PROVE \E t \in Halves(q, w, s) : t \in P
  <2>1. s \in StretchSet(q, w) /\ s.i1 < p /\ p <= s.i2
      OBVIOUS
  <2>2. PICK m : /\ IsMatch(q, w, s, m)
                 /\ m.size = 0 => s \in Halves(q, w, s)
                 /\ m.size # 0 =>
                      \E l, r \in Halves(q, w, s) \cap StretchSet(q, w) :
                        /\ l.i1 = s.i1 /\ l.i2 = m.a
                        /\ r.i1 = m.a + m.size /\ r.i2 = s.i2
      BY <1>1, <2>1, SidesOf
  <2>3. /\ m.a \in Nat /\ m.b \in Nat /\ m.size \in Nat /\ m.b + m.size <= s.j2
        /\ s.j2 <= Len(w) /\ s.j2 \in Nat /\ Len(w) \in Nat
        /\ \A n \in 1..m.size : q[m.a + n] = w[m.b + n]
      BY <1>1, <2>1, <2>2 DEF IsMatch, StretchSet
  <2>4. ~(m.a < p /\ p <= m.a + m.size)
    <3> SUFFICES ASSUME m.a < p, p <= m.a + m.size PROVE FALSE
        OBVIOUS
    <3>1. PICK n \in Nat : n = p - m.a /\ n \in 1..m.size /\ p = m.a + n
      <4>1. p - m.a \in 1..m.size /\ p = m.a + (p - m.a)
          BY <1>3, <2>3
      <4> QED
          BY <1>3, <2>3, <4>1
    <3>2. m.b + n \in 1..Len(w)
        BY <2>3, <3>1, InTheMatch
    <3>3. q[p] = w[m.b + n]
        BY <2>3, <3>1
    <3> QED
        BY <1>2, <3>2, <3>3
  <2>5. CASE m.size = 0
      BY <2>2, <2>5
  <2>6. CASE m.size # 0
    <3>1. PICK l, r \in Halves(q, w, s) \cap StretchSet(q, w) :
            l.i1 = s.i1 /\ l.i2 = m.a /\ r.i1 = m.a + m.size /\ r.i2 = s.i2
        BY <2>2, <2>6
    <3>2. p <= m.a \/ m.a + m.size < p
        BY <1>3, <2>3, <2>4
    <3>3. l \in P \/ r \in P
        BY <2>1, <3>1, <3>2
    <3> QED
        BY <3>1, <3>3
  <2> QED
      BY <2>5, <2>6
<1>5. Whole(q, w) \in P
    BY <1>1, <1>3, WholeIs
<1> HIDE DEF P
<1>6. PICK s \in Stretches(q, w) : s \in P
  <2>1. P \in SUBSET StretchSet(q, w)
      BY DEF P
  <2> QED
      BY <1>1, <1>3, <1>4, <1>5, <2>1, SomeIsLeft
<1>7. /\ s.i1 < p /\ p <= s.i2 /\ s.i1 \in Nat /\ s.i2 \in Nat /\ s.j1 \in Nat /\ s.j2 \in Nat
    BY <1>6 DEF P, StretchSet
<1>8. s.i1 < s.i2 /\ p \in s.i1 + 1 .. s.i2
    BY <1>3, <1>7
<1>9. s \in Edits(q, w) /\ ~AroundTheSpan(s, q)
  <2>1. s.i1 # s.i2
      BY <1>7, <1>8
  <2> QED
      BY <1>6, <1>8, <2>1 DEF Edits, AroundTheSpan
<1> QED
    BY <1>1, <1>8, <1>9 DEF PolarityMismatch

\* Words of the quote up to the k-th match words of the clause before the d-th,
\* the others words after it.
Parted(q, w, k, d) ==
    \A n \in 1..Len(q), l \in 1..Len(w) : q[n] = w[l] => IF n <= k THEN l < d ELSE l > d

\* A word of the clause that was left out is in a stretch inside the quote.
LEMMA LeftOutIsEdit ==
  ASSUME NEW q \in Seq(Words), NEW w \in Seq(Words),
         NEW k \in 1..Len(q) - 1, NEW d \in 1..Len(w), Parted(q, w, k, d)
  PROVE  \E s \in Edits(q, w) : ~AroundTheSpan(s, q) /\ d \in s.j1 + 1 .. s.j2
<1>1. /\ k \in Nat \ {0} /\ k < Len(q) /\ Len(q) \in Nat /\ q # <<>>
      /\ d \in Nat \ {0} /\ d <= Len(w) /\ Len(w) \in Nat
    OBVIOUS
<1> DEFINE P == {s \in StretchSet(q, w) : s.i1 <= k /\ k <= s.i2 /\ s.j1 < d /\ d <= s.j2}
<1>2. ASSUME NEW s \in P PROVE \E t \in Halves(q, w, s) : t \in P
  <2>1. s \in StretchSet(q, w) /\ s.i1 <= k /\ k <= s.i2 /\ s.j1 < d /\ d <= s.j2
      OBVIOUS
  <2>2. PICK m : /\ IsMatch(q, w, s, m)
                 /\ m.size = 0 => s \in Halves(q, w, s)
                 /\ m.size # 0 =>
                      \E l, r \in Halves(q, w, s) \cap StretchSet(q, w) :
                        /\ l.i1 = s.i1 /\ l.i2 = m.a /\ l.j1 = s.j1 /\ l.j2 = m.b
                        /\ r.i1 = m.a + m.size /\ r.i2 = s.i2
                        /\ r.j1 = m.b + m.size /\ r.j2 = s.j2
      BY <2>1, SidesOf
  <2>3. /\ m.a \in Nat /\ m.b \in Nat /\ m.size \in Nat
        /\ m.a + m.size <= s.i2 /\ s.i2 <= Len(q) /\ s.i2 \in Nat
        /\ m.b + m.size <= s.j2 /\ s.j2 <= Len(w) /\ s.j2 \in Nat
      BY <2>1, <2>2 DEF IsMatch, StretchSet
  <2>4. \A n \in 1..m.size : q[m.a + n] = w[m.b + n]
      BY <2>2 DEF IsMatch
  <2>5. ASSUME NEW n \in 1..m.size
        PROVE  IF m.a + n <= k THEN m.b + n < d ELSE m.b + n > d
    <3>1. m.a + n \in 1..Len(q) /\ m.b + n \in 1..Len(w)
        BY <1>1, <2>3, InTheMatch
    <3>2. q[m.a + n] = w[m.b + n]
        BY <2>4
    <3> QED
        BY <3>1, <3>2 DEF Parted
  <2>6. CASE m.size = 0
      BY <2>2, <2>6
  <2>7. CASE m.size # 0
    <3>1. PICK l, r \in Halves(q, w, s) \cap StretchSet(q, w) :
            /\ l.i1 = s.i1 /\ l.i2 = m.a /\ l.j1 = s.j1 /\ l.j2 = m.b
            /\ r.i1 = m.a + m.size /\ r.i2 = s.i2
            /\ r.j1 = m.b + m.size /\ r.j2 = s.j2
        BY <2>2, <2>7
    <3>2. 1 \in 1..m.size /\ m.size \in 1..m.size
        BY <2>3, <2>7
    <3>3. \/ m.a + m.size <= k /\ m.b + m.size < d
          \/ k <= m.a /\ d <= m.b
      <4>1. CASE m.a + m.size <= k
          BY <2>5, <3>2, <4>1
      <4>2. CASE k <= m.a
        <5>1. IF m.a + 1 <= k THEN m.b + 1 < d ELSE m.b + 1 > d
            BY <2>5, <3>2
        <5> QED
            BY <1>1, <2>3, <4>2, <5>1
      <4>3. CASE m.a < k /\ k < m.a + m.size
        <5>1. PICK a, size \in Nat : a = m.a /\ size = m.size
            BY <2>3
        <5>2. PICK n \in Nat : n \in 1..m.size /\ n + 1 \in 1..m.size /\ m.a + n = k
          <6>1. a < k /\ k < a + size
              BY <4>3, <5>1
          <6>2. k \in Nat
              BY <1>1
          <6>3. k - a \in 1..size /\ (k - a) + 1 \in 1..size /\ a + (k - a) = k
              BY <6>1, <6>2
          <6>4. k - a \in Nat
              BY <6>3
          <6> QED
              BY <5>1, <6>3, <6>4
        <5>3. m.b + n < d
            BY <2>5, <5>2
        <5>4. m.b + (n + 1) > d
          <6>1. ~(m.a + (n + 1) <= k)
              BY <1>1, <2>3, <5>2
          <6> QED
              BY <2>5, <5>2, <6>1
        <5> QED
            BY <1>1, <2>3, <5>3, <5>4
      <4> QED
          BY <1>1, <2>3, <4>1, <4>2, <4>3
    <3>4. l \in P \/ r \in P
        BY <2>1, <3>1, <3>3
    <3> QED
        BY <3>1, <3>4
  <2> QED
      BY <2>6, <2>7
<1>3. Whole(q, w) \in P
    BY <1>1, WholeIs
<1> HIDE DEF P
<1>4. PICK s \in Stretches(q, w) : s \in P
  <2>1. P \in SUBSET StretchSet(q, w)
      BY DEF P
  <2> QED
      BY <1>1, <1>2, <1>3, <2>1, SomeIsLeft
<1>5. /\ s.i1 <= k /\ k <= s.i2 /\ s.j1 < d /\ d <= s.j2
      /\ s.i1 \in Nat /\ s.i2 \in Nat /\ s.j1 \in Nat /\ s.j2 \in Nat
    BY <1>4 DEF P, StretchSet
<1>6. s.j1 < s.j2 /\ d \in s.j1 + 1 .. s.j2
    BY <1>1, <1>5
<1>7. ~(s.i1 = s.i2 /\ s.i1 \in {0, Len(q)})
    BY <1>1, <1>5
<1> QED
    BY <1>4, <1>6, <1>7 DEF Edits, AroundTheSpan

\* A quote that stands in a clause but for one word of force left out of it.
Dropped(q, c, b, k) ==
    /\ b \in Nat /\ k \in 1..Len(q) - 1 /\ b + Len(q) + 1 <= Len(c)
    /\ c[b + k + 1] \in Polarity
    /\ \A n \in 1..Len(q) : q[n] = IF n <= k THEN c[b + n] ELSE c[b + n + 1]

\* Where no word recurs, a word of such a quote is a word of the clause at one
\* place only.
LEMMA DroppedStands ==
  ASSUME NEW q \in Seq(Words), NEW c \in Seq(Words), NEW b, NEW k, Dropped(q, c, b, k), Distinct(c),
         NEW n \in 1..Len(q), NEW l \in 1..Len(c), q[n] = c[l]
  PROVE  l = IF n <= k THEN b + n ELSE b + n + 1
<1>1. b \in Nat /\ Len(q) \in Nat /\ Len(c) \in Nat /\ b + Len(q) + 1 <= Len(c)
    BY DEF Dropped
<1>2. q[n] = IF n <= k THEN c[b + n] ELSE c[b + n + 1]
    BY DEF Dropped
<1>3. b + n \in 1..Len(c) /\ b + n + 1 \in 1..Len(c)
    BY <1>1
<1>4. \A x \in 1..Len(c) : c[x] = c[l] => x = l
    BY DEF Distinct
<1> QED
    BY <1>2, <1>3, <1>4

LEMMA DroppedIsReported ==
  ASSUME NEW q \in Seq(Words), NEW c \in Seq(Words), NEW b, NEW k, Dropped(q, c, b, k), Distinct(c)
  PROVE  PolarityMismatch(q, c)
<1>1. PICK m : m = LongestMatch(q, c, Whole(q, c))
    OBVIOUS
<1>2. PICK w : w = AlignedWindow(q, c)
    OBVIOUS
<1>3. PICK at \in Nat : IsWindow(q, c, m, w, at)
    BY <1>1, <1>2, WindowIs
<1>4. w \in Seq(Words) /\ StandsIn(w, c, at)
    BY <1>3 DEF IsWindow
<1>5. PICK lq, lc, lw \in Nat : lq = Len(q) /\ lc = Len(c) /\ lw = Len(w)
    BY <1>4
<1>6. /\ b \in Nat /\ k \in Nat /\ 1 <= k /\ k + 1 <= lq /\ b + lq + 1 <= lc
      /\ at + lw <= lc /\ Slack \in Nat
  <2>1. /\ b \in Nat /\ k \in 1..lq - 1 /\ b + lq + 1 <= lc
      BY <1>5 DEF Dropped
  <2>2. at + lw <= lc
      BY <1>4, <1>5 DEF StandsIn
  <2> QED
      BY <2>1, <2>2, QuoteAssumption
<1>7. \A l \in 1..lw : w[l] = c[at + l]
    BY <1>4, <1>5 DEF StandsIn
<1>8. at <= b + k /\ b + k + 1 <= at + lw
  <2>1. CASE w = c /\ at = 0
    <3>1. lw = lc
        BY <1>5, <2>1
    <3> QED
        BY <1>6, <2>1, <3>1
  <2>2. CASE ~(w = c /\ at = 0)
    <3>1. /\ m.size # 0
          /\ at = 0 \/ at = m.b - m.a - Slack
          /\ at >= m.b - m.a - Slack
          /\ at + lw = lc \/ at + lw = at + lq + 2 * Slack
        BY <1>3, <1>5, <2>2 DEF IsWindow
    <3>2. /\ m.a \in Nat /\ m.b \in Nat /\ m.size \in Nat
          /\ m.a + m.size <= lq /\ m.b + m.size <= lc
          /\ \A n \in 1..m.size : q[m.a + n] = c[m.b + n]
      <4>1. IsMatch(q, c, Whole(q, c), m)
          BY <1>1, WholeIs, HalvesAre
      <4>2. Whole(q, c).i2 = lq /\ Whole(q, c).j2 = lc
          BY <1>5, WholeIs
      <4> QED
          BY <4>1, <4>2 DEF IsMatch
    <3>3. PICK x, y \in Nat : x = m.a + 1 /\ y = m.b + 1
        BY <3>2
    <3>4. x \in 1..lq /\ y \in 1..lc
      <4>1. 1 \in 1..m.size
          BY <3>1, <3>2
      <4>2. m.a + 1 \in 1..lq
          BY <3>2, <4>1, InTheMatch
      <4>3. m.b + 1 \in 1..lc
          BY <3>2, <4>1, InTheMatch
      <4> QED
          BY <3>3, <4>2, <4>3
    <3>5. q[x] = c[y]
      <4>1. 1 \in 1..m.size
          BY <3>1, <3>2
      <4> QED
          BY <3>2, <3>3, <4>1
    <3>6. y = IF x <= k THEN b + x ELSE b + x + 1
        BY <1>5, <3>4, <3>5, DroppedStands
    <3>7. b <= y - x /\ y - x <= b + 1
        BY <1>6, <3>6
    <3>8. m.b - m.a = y - x
      <4>1. PICK e, f \in Nat : e = m.a /\ f = m.b
          BY <3>2
      <4>2. f - e = (f + 1) - (e + 1)
          OBVIOUS
      <4> QED
          BY <3>3, <4>1, <4>2
    <3>9. PICK diag \in Int : diag = y - x
        OBVIOUS
    <3>10. /\ b <= diag /\ diag <= b + 1
           /\ at = 0 \/ at = diag - Slack
           /\ at >= diag - Slack
           /\ at + lw = lc \/ at + lw = at + lq + 2 * Slack
        BY <3>1, <3>7, <3>8, <3>9
    <3> QED
        BY <1>6, <3>10
  <2> QED
      BY <2>1, <2>2
<1>9. PICK d \in Nat : d \in 1..lw /\ at + d = b + k + 1
  <2>1. (b + k + 1) - at \in Nat /\ (b + k + 1) - at \in 1..lw /\ at + ((b + k + 1) - at) = b + k + 1
      BY <1>6, <1>8
  <2> QED
      BY <2>1
<1>10. Parted(q, w, k, d)
  <2> SUFFICES ASSUME NEW n \in 1..lq, NEW l \in 1..lw, q[n] = w[l]
               PROVE  IF n <= k THEN l < d ELSE l > d
      BY <1>5 DEF Parted
  <2>1. at + l \in 1..lc
      BY <1>6
  <2>2. q[n] = c[at + l]
      BY <1>7
  <2>3. at + l = IF n <= k THEN b + n ELSE b + n + 1
      BY <1>5, <2>1, <2>2, DroppedStands
  <2> QED
      BY <1>6, <1>9, <2>3
<1>11. PICK s \in Edits(q, w) : ~AroundTheSpan(s, q) /\ d \in s.j1 + 1 .. s.j2
  <2>1. k \in 1..Len(q) - 1 /\ d \in 1..Len(w)
      BY <1>5, <1>6, <1>9
  <2> QED
      BY <1>4, <1>10, <2>1, LeftOutIsEdit
<1>12. w[d] \in Polarity
  <2>1. w[d] = c[b + k + 1]
      BY <1>7, <1>9
  <2> QED
      BY <2>1 DEF Dropped
<1> QED
    BY <1>2, <1>11, <1>12 DEF PolarityMismatch

-----------------------------------------------------------------------------
(* The quotes of the model *)

\* A fragment that no edit touched, and the one an edit touched.
CopyOf(q, c) == q \in Seq(Words) /\ q # <<>> /\ \E b \in Nat : StandsIn(q, c, b)

EditOf(q, c, put) ==
    /\ q \in Seq(Words) /\ q # <<>>
    /\ \/ put \in Polarity /\ \E p \in 1..Len(q) : q[p] = put
       \/ \E b, k \in Nat : Dropped(q, c, b, k)

QuoteInv ==
    /\ clause \in Seq(Words) /\ quote \in Seq(Seq(Words))
    /\ edited = 0 => \A n \in DOMAIN quote : CopyOf(quote[n], clause)
    /\ edited # 0 => edited \in DOMAIN quote /\ EditOf(quote[edited], clause, new)

LEMMA PartIsCopy ==
  ASSUME NEW q \in Seq(Words), NEW c \in Seq(Words), NEW b \in Nat, StandsIn(q, c, b),
         NEW i \in Nat, NEW j \in Nat, i < j, j <= Len(q)
  PROVE  CopyOf(SubSeq(q, i + 1, j), c)
<1>1. PICK r : r = SubSeq(q, i + 1, j)
    OBVIOUS
<1>2. r \in Seq(Words) /\ Len(r) = j - i /\ StandsIn(r, q, i)
    BY <1>1, PartStands
<1>3. r # <<>>
  <2>1. j - i # 0
      OBVIOUS
  <2> QED
      BY <1>2, <2>1
<1>4. PICK lr, lq, lc \in Nat : lr = Len(r) /\ lq = Len(q) /\ lc = Len(c)
  <2>1. Len(r) \in Nat /\ Len(q) \in Nat /\ Len(c) \in Nat
      BY <1>2, LenProperties
  <2> QED
      BY <2>1
<1>5. i + lr <= lq /\ b + lq <= lc
    BY <1>2, <1>4 DEF StandsIn
<1>6. \A n \in 1..lr : r[n] = c[(b + i) + n]
  <2> TAKE n \in 1..lr
  <2>1. i + n \in 1..lq /\ b + (i + n) = (b + i) + n
      BY <1>5
  <2>2. r[n] = q[i + n]
      BY <1>2, <1>4 DEF StandsIn
  <2>3. q[i + n] = c[b + (i + n)]
      BY <1>4, <2>1 DEF StandsIn
  <2> QED
      BY <2>1, <2>2, <2>3
<1>7. b + i \in Nat /\ (b + i) + lr <= lc
    BY <1>5
<1>8. StandsIn(r, c, b + i)
    BY <1>4, <1>6, <1>7 DEF StandsIn
<1> QED
    BY <1>1, <1>2, <1>3, <1>7, <1>8 DEF CopyOf

LEMMA FirstQuote == QuoteInit => QuoteInv
<1> SUFFICES ASSUME QuoteInit PROVE QuoteInv
    OBVIOUS
<1>1. clause \in Seq(Words)
    BY DEF QuoteInit, BoundedSeq, SeqOf
<1>2. PICK i \in 1..Len(clause) : \E j \in i .. Len(clause) : quote = <<Span(clause, i, j)>>
    BY <1>1 DEF QuoteInit
<1>3. PICK j \in i .. Len(clause) : quote = <<Span(clause, i, j)>>
    BY <1>2
<1>4. PICK o \in Nat : o + 1 = i /\ o < j /\ j \in Nat /\ j <= Len(clause)
  <2>1. i - 1 \in Nat /\ (i - 1) + 1 = i /\ i - 1 < j /\ j \in Nat /\ j <= Len(clause)
      BY <1>1
  <2> QED
      BY <2>1
<1>5. StandsIn(clause, clause, 0)
    BY <1>1 DEF StandsIn
<1>6. CopyOf(Span(clause, i, j), clause)
  <2>1. CopyOf(SubSeq(clause, o + 1, j), clause)
      BY <1>1, <1>4, <1>5, PartIsCopy
  <2> QED
      BY <1>4, <2>1 DEF Span
<1>7. quote \in Seq(Seq(Words)) /\ \A n \in DOMAIN quote : quote[n] = Span(clause, i, j)
  <2>1. Span(clause, i, j) \in Seq(Words)
      BY <1>6 DEF CopyOf
  <2> QED
      BY <1>3, <2>1
<1> QED
    BY <1>1, <1>6, <1>7 DEF QuoteInit, QuoteInv

LEMMA ElideKeepsCopies == QuoteInv /\ Elide => QuoteInv'
<1> SUFFICES ASSUME QuoteInv, Elide PROVE QuoteInv'
    OBVIOUS
<1>1. PICK q, c : q = quote[1] /\ c = clause
    OBVIOUS
<1>2. CopyOf(q, c) /\ c \in Seq(Words)
    BY <1>1 DEF QuoteInv, Elide
<1>3. q \in Seq(Words)
    BY <1>2 DEF CopyOf
<1>4. PICK b \in Nat : StandsIn(q, c, b)
    BY <1>2 DEF CopyOf
<1>5. PICK i \in 1 .. Len(q) - 2 : \E j \in i + 2 .. Len(q) :
        quote' = <<Span(q, 1, i), Span(q, j, Len(q))>>
    BY <1>1 DEF Elide
<1>6. PICK j \in i + 2 .. Len(q) : quote' = <<Span(q, 1, i), Span(q, j, Len(q))>>
    BY <1>5
<1>7. CopyOf(Span(q, 1, i), c)
  <2>1. 0 \in Nat /\ i \in Nat /\ 0 < i /\ i <= Len(q) /\ 0 + 1 = 1
      BY <1>3
  <2>2. CopyOf(SubSeq(q, 0 + 1, i), c)
      BY <1>2, <1>3, <1>4, <2>1, PartIsCopy
  <2> QED
      BY <2>1, <2>2 DEF Span
<1>8. CopyOf(Span(q, j, Len(q)), c)
  <2>1. PICK o \in Nat : o + 1 = j /\ o < Len(q) /\ Len(q) \in Nat /\ Len(q) <= Len(q)
    <3>1. j - 1 \in Nat /\ (j - 1) + 1 = j /\ j - 1 < Len(q) /\ Len(q) \in Nat
        BY <1>3
    <3> QED
        BY <3>1
  <2>2. CopyOf(SubSeq(q, o + 1, Len(q)), c)
      BY <1>2, <1>3, <1>4, <2>1, PartIsCopy
  <2> QED
      BY <2>1, <2>2 DEF Span
<1>9. PICK f, g : f = Span(q, 1, i) /\ g = Span(q, j, Len(q))
    OBVIOUS
<1>10. CopyOf(f, c) /\ CopyOf(g, c) /\ f \in Seq(Words) /\ g \in Seq(Words)
    BY <1>7, <1>8, <1>9 DEF CopyOf
<1>11. quote' = <<f, g>>
    BY <1>6, <1>9
<1>12. quote' \in Seq(Seq(Words)) /\ \A n \in DOMAIN quote' : quote'[n] = f \/ quote'[n] = g
    BY <1>10, <1>11
<1>13. \A n \in DOMAIN quote' : CopyOf(quote'[n], c)
    BY <1>10, <1>12
<1>14. clause' = c /\ edited' = edited /\ edited = 0
    BY <1>1 DEF Elide
<1> QED
    BY <1>2, <1>12, <1>13, <1>14 DEF QuoteInv

\* A sequence in two parts.
LEMMA TwoParts ==
  ASSUME NEW f \in Seq(Words), NEW g \in Seq(Words)
  PROVE  /\ f \o g \in Seq(Words) /\ Len(f \o g) = Len(f) + Len(g)
         /\ \A n \in 1..Len(f) : (f \o g)[n] = f[n]
         /\ \A n \in 1..Len(g) : (f \o g)[Len(f) + n] = g[n]
<1>1. Len(f) \in Nat /\ Len(g) \in Nat
    OBVIOUS
<1>2. /\ f \o g \in Seq(Words) /\ Len(f \o g) = Len(f) + Len(g)
      /\ \A n \in 1 .. Len(f) + Len(g) :
           (f \o g)[n] = IF n <= Len(f) THEN f[n] ELSE g[n - Len(f)]
    BY ConcatProperties
<1>3. ASSUME NEW n \in 1..Len(f) PROVE (f \o g)[n] = f[n]
  <2>1. n \in 1 .. Len(f) + Len(g) /\ n <= Len(f)
      BY <1>1
  <2> QED
      BY <1>2, <2>1
<1>4. ASSUME NEW n \in 1..Len(g) PROVE (f \o g)[Len(f) + n] = g[n]
  <2>1. Len(f) + n \in 1 .. Len(f) + Len(g) /\ ~(Len(f) + n <= Len(f)) /\ (Len(f) + n) - Len(f) = n
      BY <1>1
  <2> QED
      BY <1>2, <2>1
<1> QED
    BY <1>2, <1>3, <1>4

\* What an edit makes of a fragment.
LEMMA RewordedIs ==
  ASSUME NEW q \in Seq(Words), NEW c \in Seq(Words), NEW b \in Nat, StandsIn(q, c, b),
         NEW word \in Polarity \cup {NoWord},
         NEW i \in 1 .. Len(q) - 1, NEW j \in i + 1 .. Min({i + 2, Len(q)}),
         j = i + 1 => word # NoWord,
         j = i + 2 => q[i + 1] \in Polarity \ {word}
  PROVE  EditOf(Reworded(q, i, word, j), c, word)
<1>1. PICK lq \in Nat : lq = Len(q)
    OBVIOUS
<1>2. i \in Nat /\ 1 <= i /\ j \in Nat /\ (j = i + 1 \/ j = i + 2) /\ j <= lq
  <2>1. Min({i + 2, lq}) = IF i + 2 <= lq THEN i + 2 ELSE lq
      BY MinOfTwo
  <2>2. j \in i + 1 .. Min({i + 2, lq}) /\ i \in 1 .. lq - 1
      BY <1>1
  <2> QED
      BY <2>1, <2>2
<1>3. PICK f, g : f = SubSeq(q, 1, i) /\ g = SubSeq(q, j, Len(q))
    OBVIOUS
<1>4. f \in Seq(Words) /\ Len(f) = i /\ \A n \in 1..i : f[n] = q[n]
  <2>1. 0 \in Nat /\ 0 <= i /\ i <= Len(q) /\ 0 + 1 = 1 /\ i - 0 = i
      BY <1>1, <1>2
  <2>2. f \in Seq(Words) /\ Len(f) = i - 0 /\ StandsIn(f, q, 0)
      BY <1>2, <1>3, <2>1, PartStands
  <2>3. \A n \in 1..i : 0 + n = n
      BY <1>2
  <2> QED
      BY <2>1, <2>2, <2>3 DEF StandsIn
<1>5. PICK o \in Nat : o + 1 = j /\ o < lq
  <2>1. j - 1 \in Nat /\ (j - 1) + 1 = j /\ j - 1 < lq
      BY <1>2
  <2> QED
      BY <2>1
<1>6. g \in Seq(Words) /\ Len(g) = lq - o /\ \A n \in 1..lq - o : g[n] = q[o + n]
  <2>1. lq \in Nat /\ o <= lq /\ lq <= Len(q)
      BY <1>1, <1>5
  <2>3. g = SubSeq(q, o + 1, lq)
      BY <1>1, <1>3, <1>5
  <2>2. g \in Seq(Words) /\ Len(g) = lq - o /\ StandsIn(g, q, o)
      BY <2>1, <2>3, PartStands
  <2> QED
      BY <2>2 DEF StandsIn
<1>7. PICK r : r = Reworded(q, i, word, j)
    OBVIOUS
<1>8. CASE word # NoWord
  <2>1. r = f \o <<word>> \o g
      BY <1>3, <1>7, <1>8 DEF Reworded, Span
  <2>2. word \in Words /\ word \in Polarity
      BY <1>8, QuoteAssumption
  <2>3. PICK h : h = f \o <<word>>
      OBVIOUS
  <2>4. h \in Seq(Words) /\ Len(h) = i + 1 /\ h[i + 1] = word
      BY <1>2, <1>4, <2>2, <2>3
  <2>5. r \in Seq(Words) /\ Len(r) = Len(h) + Len(g) /\ \A n \in 1..Len(h) : r[n] = h[n]
      BY <1>6, <2>1, <2>3, <2>4, TwoParts
  <2>6. i + 1 \in 1..Len(h) /\ i + 1 \in 1..Len(r)
      BY <1>2, <1>5, <1>6, <2>4, <2>5
  <2>7. r[i + 1] = word /\ r # <<>>
      BY <2>4, <2>5, <2>6
  <2> QED
      BY <1>7, <2>2, <2>5, <2>6, <2>7 DEF EditOf
<1>9. CASE word = NoWord
  <2>1. j = i + 2 /\ q[i + 1] \in Polarity /\ o = i + 1
      BY <1>2, <1>5, <1>9
  <2>2. r = f \o g
    <3>1. r = f \o <<>> \o g
        BY <1>3, <1>7, <1>9 DEF Reworded, Span
    <3>2. f \o <<>> = f
        BY <1>4
    <3> QED
        BY <3>1, <3>2
  <2>3. PICK lr \in Nat : lr = i + (lq - o) /\ lr + 1 = lq
    <3>1. i + (lq - o) \in Nat /\ (i + (lq - o)) + 1 = lq
        BY <1>2, <1>5, <2>1
    <3> QED
        BY <3>1
  <2>4. r \in Seq(Words) /\ Len(r) = lr
    <3>1. r \in Seq(Words) /\ Len(r) = Len(f) + Len(g)
        BY <1>4, <1>6, <2>2, TwoParts
    <3> QED
        BY <1>4, <1>6, <2>3, <3>1
  <2>5. \A n \in 1..lr : r[n] = IF n <= i THEN q[n] ELSE q[n + 1]
    <3> TAKE n \in 1..lr
    <3>1. CASE n <= i
      <4>1. n \in 1..i
          BY <1>2, <3>1
      <4>2. r[n] = f[n]
          BY <1>4, <1>6, <2>2, <4>1, TwoParts
      <4> QED
          BY <1>4, <3>1, <4>1, <4>2
    <3>2. CASE ~(n <= i)
      <4>1. PICK x \in Nat : x \in 1..lq - o /\ n = i + x /\ o + x = n + 1
        <5>1. n - i \in Nat /\ n - i \in 1..lq - o /\ n = i + (n - i) /\ o + (n - i) = n + 1
            BY <1>2, <1>5, <2>1, <2>3, <3>2
        <5> QED
            BY <5>1
      <4>2. r[i + x] = g[x]
        <5>1. \A y \in 1..Len(g) : r[Len(f) + y] = g[y]
            BY <1>4, <1>6, <2>2, TwoParts
        <5> QED
            BY <1>4, <1>6, <4>1, <5>1
      <4> QED
          BY <1>6, <3>2, <4>1, <4>2
    <3> QED
        BY <3>1, <3>2
  <2>6. b + lq <= Len(c) /\ \A n \in 1..lq : q[n] = c[b + n]
      BY <1>1 DEF StandsIn
  <2>7. \A n \in 1..lr : r[n] = IF n <= i THEN c[b + n] ELSE c[b + n + 1]
    <3> TAKE n \in 1..lr
    <3>1. n \in 1..lq /\ n + 1 \in 1..lq /\ b + (n + 1) = b + n + 1
        BY <2>3
    <3> QED
        BY <2>5, <2>6, <3>1
  <2>8. c[b + i + 1] \in Polarity
    <3>1. i + 1 \in 1..lq /\ b + (i + 1) = b + i + 1
        BY <1>2, <2>1
    <3> QED
        BY <2>1, <2>6, <3>1
  <2>9. i \in 1..lr - 1 /\ b + lr + 1 <= Len(c) /\ lr # 0
    <3>1. PICK lc \in Nat : lc = Len(c)
        OBVIOUS
    <3>2. b + lq <= lc
        BY <2>6, <3>1
    <3>3. i + 2 <= lq
        BY <1>2, <2>1
    <3>4. i \in 1..lr - 1 /\ b + lr + 1 <= lc /\ lr # 0
        BY <1>2, <2>3, <3>2, <3>3
    <3> QED
        BY <3>1, <3>4
  <2>10. Dropped(r, c, b, i)
      BY <2>4, <2>7, <2>8, <2>9 DEF Dropped
  <2>11. r # <<>>
      BY <2>4, <2>9
  <2> QED
      BY <1>2, <1>7, <2>4, <2>10, <2>11 DEF EditOf
<1> QED
    BY <1>8, <1>9

LEMMA EditIsSeen == QuoteInv /\ Edit => QuoteInv'
<1> SUFFICES ASSUME QuoteInv, Edit PROVE QuoteInv'
    OBVIOUS
<1>1. /\ clause \in Seq(Words) /\ quote \in Seq(Seq(Words)) /\ edited = 0
      /\ \A n \in DOMAIN quote : CopyOf(quote[n], clause)
    BY DEF QuoteInv, Edit
<1>2. PICK n \in DOMAIN quote, word \in Polarity \cup {NoWord} :
        \E i \in 1 .. Len(quote[n]) - 1 : \E j \in i + 1 .. Min({i + 2, Len(quote[n])}) :
          /\ j = i + 1 => word # NoWord
          /\ j = i + 2 => quote[n][i + 1] \in Polarity \ {word}
          /\ quote' = [quote EXCEPT ![n] = Reworded(quote[n], i, word, j)]
          /\ edited' = n /\ new' = word
    BY DEF Edit
<1>3. PICK i \in 1 .. Len(quote[n]) - 1 : \E j \in i + 1 .. Min({i + 2, Len(quote[n])}) :
          /\ j = i + 1 => word # NoWord
          /\ j = i + 2 => quote[n][i + 1] \in Polarity \ {word}
          /\ quote' = [quote EXCEPT ![n] = Reworded(quote[n], i, word, j)]
          /\ edited' = n /\ new' = word
    BY <1>2
<1>4. PICK j \in i + 1 .. Min({i + 2, Len(quote[n])}) :
          /\ j = i + 1 => word # NoWord
          /\ j = i + 2 => quote[n][i + 1] \in Polarity \ {word}
          /\ quote' = [quote EXCEPT ![n] = Reworded(quote[n], i, word, j)]
          /\ edited' = n /\ new' = word
    BY <1>3
<1>5. PICK r : r = Reworded(quote[n], i, word, j)
    OBVIOUS
<1>6. EditOf(r, clause, word)
  <2>1. PICK b \in Nat : StandsIn(quote[n], clause, b)
      BY <1>1 DEF CopyOf
  <2>2. quote[n] \in Seq(Words)
      BY <1>1 DEF CopyOf
  <2> QED
      BY <1>1, <1>4, <1>5, <2>1, <2>2, RewordedIs
<1>7. r \in Seq(Words) /\ quote' = [quote EXCEPT ![n] = r]
    BY <1>4, <1>5, <1>6 DEF EditOf
<1>8. quote' \in Seq(Seq(Words)) /\ n \in DOMAIN quote' /\ quote'[n] = r
    BY <1>1, <1>7
<1>9. n # 0
    BY <1>1
<1>10. clause' = clause /\ edited' = n /\ new' = word
    BY <1>4 DEF Edit
<1> QED
    BY <1>1, <1>6, <1>8, <1>9, <1>10 DEF QuoteInv

LEMMA QuotesAreKnown == QuoteSpec => []QuoteInv
<1>1. QuoteInv /\ [QuoteNext]_quoteVars => QuoteInv'
  <2>1. QuoteInv /\ UNCHANGED quoteVars => QuoteInv'
      BY DEF QuoteInv, quoteVars
  <2> QED
      BY <2>1, ElideKeepsCopies, EditIsSeen DEF QuoteNext
<1> QED
    BY <1>1, FirstQuote, PTL DEF QuoteSpec

\* A quote that copies the clause, elided or not, is never reported as changing
\* a word of force (polarity_mismatch, _aligned_window): whatever the words of
\* the clause, those that recur included, and whatever the slack.
THEOREM CopiesAreAccepted == QuoteSpec => []VerbatimAccepted
<1>1. QuoteInv => VerbatimAccepted
    BY VerbatimIsAccepted DEF QuoteInv, CopyOf, VerbatimAccepted, Reported
<1> QED
    BY <1>1, QuotesAreKnown, PTL

\* A word of force put in, dropped or swapped inside what the quote copied is
\* reported (polarity_mismatch, verify_citations), where no word of the clause
\* recurs and the word put in is none of them.
THEOREM ChangesAreReported == QuoteSpec => []ForceChangeReported
<1>1. ASSUME QuoteInv, edited # 0, Distinct(clause), new \notin ToSet(clause) PROVE Reported
  <2>1. PICK q, c : q = quote[edited] /\ c = clause
      OBVIOUS
  <2>2. edited \in DOMAIN quote /\ EditOf(q, c, new) /\ c \in Seq(Words)
      BY <1>1, <2>1 DEF QuoteInv
  <2>3. q \in Seq(Words) /\ q # <<>>
      BY <2>2 DEF EditOf
  <2>4. CASE new \in Polarity /\ \E p \in 1..Len(q) : q[p] = new
    <3>1. PICK p \in 1..Len(q) : q[p] = new
        BY <2>4
    <3>2. \A n \in 1..Len(c) : c[n] # q[p]
        BY <1>1, <2>1, <2>2, <3>1 DEF ToSet
    <3> QED
        BY <2>1, <2>2, <2>3, <2>4, <3>1, <3>2, PutInIsReported DEF Reported
  <2>5. CASE \E b, k \in Nat : Dropped(q, c, b, k)
      BY <1>1, <2>1, <2>2, <2>3, <2>5, DroppedIsReported DEF Reported
  <2> QED
      BY <2>2, <2>4, <2>5 DEF EditOf
<1>2. QuoteInv => ForceChangeReported
    BY <1>1 DEF ForceChangeReported
<1> QED
    BY <1>2, QuotesAreKnown, PTL

-----------------------------------------------------------------------------
(* What decide() and its checks compute *)

\* What decide() may assume of its arguments.
WellFormed(d, evidence) ==
    /\ d # NoDraft => IsDraft(d)
    /\ \A r \in evidence : /\ r.rerank \in Int \cup {None}
                           /\ r.superseded \in BOOLEAN

\* check_retrieval escalates nothing exactly when some clause scored at or
\* above the floor and none is superseded.
LEMMA RetrievalClean ==
    ASSUME NEW evidence,
           \A r \in evidence : r.rerank \in Int \cup {None}
    PROVE  CheckRetrieval(evidence) = {} <=>
             /\ \E r \in evidence : r.rerank # None /\ r.rerank >= MinRerankScore
             /\ \A r \in evidence : ~r.superseded
<1> DEFINE Scored == \E r \in evidence : r.rerank # None /\ r.rerank >= MinRerankScore
<1>1. \A s \in ScoresOf(evidence) : s \in Int
    BY DEF ScoresOf
<1>2. Scored <=> \E s \in ScoresOf(evidence) : ~(s < MinRerankScore)
    BY SettingsAssumption DEF ScoresOf
<1>3. CheckRetrieval(evidence) = {} <=>
        /\ \E s \in ScoresOf(evidence) : ~(s < MinRerankScore)
        /\ ~\E r \in evidence : r.superseded
    BY DEF CheckRetrieval, CodeIf
<1> QED
    BY <1>2, <1>3

\* verify_citations escalates nothing exactly when it lets every citation pass.
LEMMA CitationsClean ==
    ASSUME NEW d, NEW evidence,
           \A i \in DOMAIN d.citations : d.citations[i].quote \in QuoteKinds
    PROVE  VerifyCitations(d, evidence) = {} <=>
             \A i \in DOMAIN d.citations : Passes(d.citations[i], evidence)
<1>1. ASSUME NEW i \in DOMAIN d.citations
      PROVE  CitationProblems(d.citations[i], evidence) = {}
                <=> Passes(d.citations[i], evidence)
    BY <1>1 DEF CitationProblems, QuoteProblems, CodeIf, Passes, QuoteKinds
<1>2. VerifyCitations(d, evidence) = {} <=>
        \A i \in DOMAIN d.citations : CitationProblems(d.citations[i], evidence) = {}
    BY DEF VerifyCitations
<1> QED
    BY <1>1, <1>2

\* decide() escalates nothing exactly on a vetted request with nothing
\* escalated before it.
LEMMA CleanIffVetted ==
    ASSUME NEW res \in BOOLEAN, NEW d, NEW evidence, NEW codes, WellFormed(d, evidence)
    PROVE  Escalations(res, d, evidence, codes) = {} <=>
             codes = {} /\ Vetted(res, d, evidence)
<1>1. CASE d = NoDraft
    BY <1>1 DEF Escalations, Vetted
<1>2. CASE d # NoDraft
  <2>1. VerifyCitations(d, evidence) = {} <=>
          \A i \in DOMAIN d.citations : Passes(d.citations[i], evidence)
    <3>1. \A i \in DOMAIN d.citations : d.citations[i].quote \in QuoteKinds
        BY <1>2 DEF WellFormed, IsDraft
    <3> QED
        BY <3>1, CitationsClean
  <2>2. CheckRetrieval(evidence) = {} <=>
          /\ \E r \in evidence : r.rerank # None /\ r.rerank >= MinRerankScore
          /\ \A r \in evidence : ~r.superseded
      BY RetrievalClean DEF WellFormed
  <2>3. CheckQueryCategory(res, d.concerns) = {} <=>
          ~res /\ "profit_guarantee" \notin d.concerns
      BY DEF CheckQueryCategory, CodeIf
  <2>4. CheckDraft(d) = {} <=>
          /\ Len(d.citations) >= MinCitations
          /\ d.confidence >= MinModelConfidence
          /\ d.finding \in {"SUPPORTED_COMPLIANT", "SUPPORTED_NON_COMPLIANT"}
    <3>1. d.finding \in Findings /\ d.confidence \in Int /\ Len(d.citations) \in Nat
        BY <1>2 DEF WellFormed, IsDraft
    <3> QED
        BY <3>1, SettingsAssumption DEF CheckDraft, CodeIf, Findings
  <2>5. Escalations(res, d, evidence, codes) = {} <=>
          /\ codes = {}
          /\ CheckQueryCategory(res, d.concerns) = {}
          /\ CheckRetrieval(evidence) = {}
          /\ VerifyCitations(d, evidence) = {}
          /\ CheckDraft(d) = {}
      BY <1>2 DEF Escalations
  <2> QED
      BY <1>2, <2>1, <2>2, <2>3, <2>4, <2>5 DEF Vetted
<1> QED
    BY <1>1, <1>2

\* The verdict of decide(): NEEDS_REVIEW exactly when something escalates, and
\* otherwise the verdict the finding of the draft names.
LEMMA VerdictMeaning ==
    ASSUME NEW res \in BOOLEAN, NEW d, NEW evidence, NEW codes, WellFormed(d, evidence)
    PROVE  LET v == VerdictOf(res, d, evidence, codes)
           IN  /\ v \in Verdicts
               /\ v # "NEEDS_REVIEW" <=> codes = {} /\ Vetted(res, d, evidence)
               /\ v = "NEEDS_REVIEW" <=> Escalations(res, d, evidence, codes) # {}
               /\ v = "COMPLIANT" => d.finding = "SUPPORTED_COMPLIANT"
               /\ v = "NON_COMPLIANT" => d.finding = "SUPPORTED_NON_COMPLIANT"
<1> DEFINE v == VerdictOf(res, d, evidence, codes)
<1>1. Escalations(res, d, evidence, codes) = {} <=>
        codes = {} /\ Vetted(res, d, evidence)
    BY CleanIffVetted
<1>2. Vetted(res, d, evidence) =>
        d.finding \in {"SUPPORTED_COMPLIANT", "SUPPORTED_NON_COMPLIANT"}
    BY DEF Vetted
<1> QED
    BY <1>1, <1>2 DEF VerdictOf, Verdicts

\* Everything decide() escalates is one of the ten codes.
LEMMA EscalationsAreCodes ==
    ASSUME NEW res, NEW d, NEW evidence, NEW codes \in SUBSET EscalationCodes
    PROVE  Escalations(res, d, evidence, codes) \subseteq EscalationCodes
<1>1. CheckQueryCategory(res, IF d = NoDraft THEN {} ELSE d.concerns) \subseteq EscalationCodes
    BY DEF CheckQueryCategory, CodeIf, EscalationCodes
<1>2. CheckRetrieval(evidence) \subseteq EscalationCodes
    BY DEF CheckRetrieval, CodeIf, EscalationCodes
<1>3. VerifyCitations(d, evidence) \subseteq EscalationCodes
    BY DEF VerifyCitations, CitationProblems, QuoteProblems, CodeIf, EscalationCodes
<1>4. CheckDraft(d) \subseteq EscalationCodes
    BY DEF CheckDraft, CodeIf, EscalationCodes
<1>5. {"schema_validation_failed"} \subseteq EscalationCodes
    BY DEF EscalationCodes
<1> QED
    BY <1>1, <1>2, <1>3, <1>4, <1>5 DEF Escalations

\* Of the checks decide() makes itself, check_retrieval alone calls retrieval
\* weak.
LEMMA WeakComesFromRetrieval ==
    ASSUME NEW res, NEW d, NEW evidence, NEW codes,
           "weak_retrieval" \in Escalations(res, d, evidence, codes)
    PROVE  "weak_retrieval" \in codes \cup CheckRetrieval(evidence)
<1>1. "weak_retrieval" \notin VerifyCitations(d, evidence)
    BY DEF VerifyCitations, CitationProblems, QuoteProblems, CodeIf
<1>2. "weak_retrieval" \notin CheckDraft(d)
    BY DEF CheckDraft, CodeIf
<1>3. "weak_retrieval" \notin CheckQueryCategory(res, IF d = NoDraft THEN {} ELSE d.concerns)
    BY DEF CheckQueryCategory, CodeIf
<1> QED
    BY <1>1, <1>2, <1>3 DEF Escalations

-----------------------------------------------------------------------------
(* Inputs that get worse *)

\* The inputs of this machine are inputs decide() can be given.
LEMMA TypesAreWellFormed == InputOK => WellFormed(draft, retrieved) /\ reserved \in BOOLEAN
<1> SUFFICES ASSUME InputOK PROVE WellFormed(draft, retrieved)
    BY DEF InputOK
<1>1. \A r \in retrieved : r.rerank \in Int \cup {None} /\ r.superseded \in BOOLEAN
    BY InputAssumption DEF InputOK, Evidence
<1>2. ASSUME draft # NoDraft PROVE IsDraft(draft)
  <2>1. draft \in DraftInputs
      BY <1>2 DEF InputOK
  <2>2. draft.finding \in Findings /\ draft.confidence \in Int
      BY <2>1, InputAssumption DEF DraftInputs
  <2>3. PICK n \in 0..MaxCited : draft.citations \in [1..n -> Citations]
      BY <2>1 DEF DraftInputs
  <2>4. draft.citations \in Seq(Citations)
      BY <2>3, InputAssumption, SeqDef
  <2>5. Len(draft.citations) \in Nat
      BY <2>4, LenProperties
  <2>6. \A i \in DOMAIN draft.citations : draft.citations[i].quote \in QuoteKinds
      BY <2>3 DEF Citations
  <2> QED
      BY <2>2, <2>5, <2>6 DEF IsDraft
<1> QED
    BY <1>1, <1>2 DEF WellFormed

\* Each way an input can get worse keeps it an input of decide().
THEOREM DegradeTypes == DegradeSpec => []InputOK
<1>1. DegradeInit => InputOK
  <2> SUFFICES ASSUME DegradeInit PROVE InputOK
      OBVIOUS
  <2>1. PICK score \in UNION {[S -> RerankScores] : S \in SUBSET Chunks} :
          retrieved = {[clause |-> c, rerank |-> score[c], superseded |-> FALSE] :
                          c \in DOMAIN score}
      BY DEF DegradeInit
  <2>2. \A c \in DOMAIN score : c \in Chunks /\ score[c] \in RerankScores
      OBVIOUS
  <2>3. retrieved \subseteq Evidence
    <3>1. \A c \in DOMAIN score :
            [clause |-> c, rerank |-> score[c], superseded |-> FALSE] \in Evidence
        BY <2>2 DEF Evidence
    <3> QED
        BY <2>1, <3>1
  <2> QED
      BY <2>3 DEF DegradeInit, InputOK
<1>2. InputOK /\ [DegradeNext]_basis => InputOK'
  <2> SUFFICES ASSUME InputOK, [DegradeNext]_basis PROVE InputOK'
      OBVIOUS
  <2> USE DEF InputOK
  <2>1. CASE Doubt
      BY <2>1 DEF Doubt, DraftInputs
  <2>2. CASE NameConcern
      BY <2>2 DEF NameConcern, DraftInputs
  <2>3. CASE Misquote
    <3>1. PICK i \in DOMAIN draft.citations, q \in QuoteKinds :
            draft' = [draft EXCEPT !.citations[i].quote = q]
        BY <2>3 DEF Misquote
    <3>2. draft \in DraftInputs
        BY <2>3 DEF Misquote
    <3>3. PICK n \in 0..MaxCited : draft.citations \in [1..n -> Citations]
        BY <3>2 DEF DraftInputs
    <3>4. [draft.citations EXCEPT ![i].quote = q] \in [1..n -> Citations]
        BY <3>1, <3>3 DEF Citations
    <3>5. draft' \in DraftInputs
        BY <3>1, <3>2, <3>4 DEF DraftInputs
    <3> QED
        BY <2>3, <3>5 DEF Misquote
  <2>4. CASE LoseDraft
      BY <2>4 DEF LoseDraft
  <2>5. CASE LowerScore
      BY <2>5 DEF LowerScore, Replace, Evidence
  <2>6. CASE LoseScore
      BY <2>6 DEF LoseScore, Replace, Evidence
  <2>7. CASE Supersede
      BY <2>7 DEF Supersede, Replace, Evidence
  <2>8. CASE UpstreamFails
      BY <2>8 DEF UpstreamFails
  <2>9. CASE UNCHANGED basis
      BY <2>9 DEF basis
  <2> QED
      BY <2>1, <2>2, <2>3, <2>4, <2>5, <2>6, <2>7, <2>8, <2>9 DEF DegradeNext
<1> QED
    BY <1>1, <1>2, PTL DEF DegradeSpec

\* decide(): of drafts that quote what they cite, exactly the answerable ones are
\* given a verdict other than NEEDS_REVIEW; it is the one the finding names.
THEOREM DecidesIffAnswerable == DegradeSpec => []DecidedIffAnswerable
<1>1. InputOK => DecidedIffAnswerable
  <2> SUFFICES ASSUME InputOK PROVE DecidedIffAnswerable
      OBVIOUS
  <2>1. WellFormed(draft, retrieved) /\ reserved \in BOOLEAN
      BY TypesAreWellFormed
  <2> QED
      BY <2>1, VerdictMeaning DEF DecidedIffAnswerable, Answerable, verdict
<1> QED
    BY <1>1, DegradeTypes, PTL

\* A citation that passes among some clauses passes among any others that hold
\* the same chunk ids.
LEMMA PassesStays ==
    ASSUME NEW before, NEW after, NEW citation, Passes(citation, after),
           \A e \in after : \E f \in before : f.clause = e.clause
    PROVE  Passes(citation, before)
  BY DEF Passes

\* What a step can do to the input: what is vetted afterwards was
\* vetted before, and the finding of the draft has not changed.
LEMMA WorseStays ==
    InputOK /\ DegradeNext /\ Vetted(reserved, draft, retrieved)' /\ prior' = {} =>
        /\ Vetted(reserved, draft, retrieved)
        /\ prior = {}
        /\ draft'.finding = draft.finding
<1> SUFFICES ASSUME InputOK, DegradeNext, Vetted(reserved, draft, retrieved)', prior' = {}
             PROVE  /\ Vetted(reserved, draft, retrieved)
                    /\ prior = {}
                    /\ draft'.finding = draft.finding
    OBVIOUS
<1> USE DEF Vetted
<1>1. CASE Doubt
  <2>1. draft \in DraftInputs
      BY <1>1 DEF Doubt, InputOK
  <2> QED
      BY <1>1, <2>1, InputAssumption, SettingsAssumption DEF Doubt, DraftInputs
<1>2. CASE NameConcern
  <2>1. draft \in DraftInputs
      BY <1>2 DEF NameConcern, InputOK
  <2> QED
      BY <1>2, <2>1 DEF NameConcern, DraftInputs
<1>3. CASE Misquote
  <2>1. PICK i \in DOMAIN draft.citations, q \in QuoteKinds \ {"verbatim", "empty"} :
          draft' = [draft EXCEPT !.citations[i].quote = q]
      BY <1>3 DEF Misquote
  <2>2. draft \in DraftInputs
      BY <1>3 DEF Misquote, InputOK
  <2>3. PICK n \in 0..MaxCited : draft.citations \in [1..n -> Citations]
      BY <2>2 DEF DraftInputs
  <2>4. draft'.citations = [draft.citations EXCEPT ![i].quote = q]
      BY <2>1, <2>2 DEF DraftInputs
  <2>5. i \in DOMAIN draft'.citations /\ draft'.citations[i].quote = q
      BY <2>3, <2>4 DEF Citations
  <2>6. ~Passes(draft'.citations[i], retrieved')
      BY <2>5 DEF Passes
  <2> QED
      BY <2>5, <2>6
<1>4. CASE LoseDraft
    BY <1>4 DEF LoseDraft
<1>5. CASE LowerScore
  <2>1. PICK r \in retrieved, s \in RerankScores :
          /\ r.rerank # None /\ s < r.rerank
          /\ Replace(r, [r EXCEPT !.rerank = s])
      BY <1>5 DEF LowerScore
  <2>2. \A e \in retrieved : e \in Evidence
      BY DEF InputOK
  <2>3. s \in Int /\ r.rerank \in Int
      BY <2>1, <2>2, InputAssumption DEF Evidence
  <2> DEFINE low == [r EXCEPT !.rerank = s]
  <2>4. low.clause = r.clause /\ low.rerank = s /\ low.superseded = r.superseded
      BY <2>2 DEF Evidence
  <2>5. retrieved' = (retrieved \ {r}) \cup {low}
      BY <2>1 DEF Replace
  <2>6. UNCHANGED <<reserved, draft, prior>>
      BY <1>5 DEF LowerScore
  <2>7. \E e \in retrieved : e.rerank # None /\ e.rerank >= MinRerankScore
    <3>1. PICK e \in retrieved' : e.rerank # None /\ e.rerank >= MinRerankScore
        OBVIOUS
    <3>2. CASE e = low
        BY <2>1, <2>3, <2>4, <3>1, <3>2, SettingsAssumption
    <3>3. CASE e # low
        BY <2>5, <3>1, <3>3
    <3> QED
        BY <3>2, <3>3
  <2>8. \A e \in retrieved : ~e.superseded
      BY <2>4, <2>5
  <2>9. \A i \in DOMAIN draft.citations : Passes(draft.citations[i], retrieved)
    <3>1. \A e \in retrieved' : \E f \in retrieved : f.clause = e.clause
        BY <2>4, <2>5
    <3> QED
        BY <2>6, <3>1, PassesStays
  <2> QED
      BY <2>6, <2>7, <2>8, <2>9
<1>6. CASE LoseScore
  <2>1. PICK r \in retrieved : Replace(r, [r EXCEPT !.rerank = None])
      BY <1>6 DEF LoseScore
  <2>2. \A e \in retrieved : e \in Evidence
      BY DEF InputOK
  <2> DEFINE lost == [r EXCEPT !.rerank = None]
  <2>3. lost.clause = r.clause /\ lost.rerank = None /\ lost.superseded = r.superseded
      BY <2>2 DEF Evidence
  <2>4. retrieved' = (retrieved \ {r}) \cup {lost}
      BY <2>1 DEF Replace
  <2>5. UNCHANGED <<reserved, draft, prior>>
      BY <1>6 DEF LoseScore
  <2>6. \E e \in retrieved : e.rerank # None /\ e.rerank >= MinRerankScore
      BY <2>3, <2>4
  <2>7. \A e \in retrieved : ~e.superseded
      BY <2>3, <2>4
  <2>8. \A i \in DOMAIN draft.citations : Passes(draft.citations[i], retrieved)
    <3>1. \A e \in retrieved' : \E f \in retrieved : f.clause = e.clause
        BY <2>3, <2>4
    <3> QED
        BY <2>5, <3>1, PassesStays
  <2> QED
      BY <2>5, <2>6, <2>7, <2>8
<1>7. CASE Supersede
  <2>1. PICK r \in retrieved : Replace(r, [r EXCEPT !.superseded = TRUE])
      BY <1>7 DEF Supersede
  <2>2. [r EXCEPT !.superseded = TRUE] \in retrieved'
      BY <2>1 DEF Replace
  <2>3. [r EXCEPT !.superseded = TRUE].superseded
      BY DEF InputOK, Evidence
  <2> QED
      BY <2>2, <2>3
<1>8. CASE UpstreamFails
    BY <1>8 DEF UpstreamFails
<1> QED
    BY <1>1, <1>2, <1>3, <1>4, <1>5, <1>6, <1>7, <1>8 DEF DegradeNext

\* The invariant of guardrails.py: at each loss of GuardrailsDegrade the verdict
\* of decide() stays or becomes NEEDS_REVIEW.
THEOREM GuardrailsOnlyTowardReview == DegradeSpec => OnlyTowardReview
<1>0. InputOK' => (WellFormed(draft, retrieved) /\ reserved \in BOOLEAN)'
    BY TypesAreWellFormed, PTL
<1>1. InputOK /\ InputOK' /\ [DegradeNext]_basis => [verdict' \in {verdict, "NEEDS_REVIEW"}]_basis
  <2> SUFFICES ASSUME InputOK, InputOK', DegradeNext, verdict' # "NEEDS_REVIEW"
               PROVE  verdict' = verdict
      BY DEF basis
  <2>1. WellFormed(draft, retrieved) /\ reserved \in BOOLEAN
      BY TypesAreWellFormed
  <2>2. WellFormed(draft', retrieved') /\ reserved' \in BOOLEAN
      BY <1>0 DEF WellFormed
  <2>3. /\ verdict' \in Verdicts
        /\ prior' = {} /\ Vetted(reserved', draft', retrieved')
        /\ verdict' = "COMPLIANT" => draft'.finding = "SUPPORTED_COMPLIANT"
        /\ verdict' = "NON_COMPLIANT" => draft'.finding = "SUPPORTED_NON_COMPLIANT"
      BY <2>2, VerdictMeaning DEF verdict
  <2>4. /\ prior = {} /\ Vetted(reserved, draft, retrieved)
        /\ draft'.finding = draft.finding
      BY <2>3, WorseStays
  <2>5. /\ verdict \in Verdicts \ {"NEEDS_REVIEW"}
        /\ verdict = "COMPLIANT" => draft.finding = "SUPPORTED_COMPLIANT"
        /\ verdict = "NON_COMPLIANT" => draft.finding = "SUPPORTED_NON_COMPLIANT"
      BY <2>1, <2>4, VerdictMeaning DEF verdict
  <2> QED
      BY <2>3, <2>4, <2>5 DEF Verdicts
<1> QED
    BY <1>1, DegradeTypes, PTL DEF DegradeSpec, OnlyTowardReview

-----------------------------------------------------------------------------
(* The request *)

\* What is known of the request at each stage.  From gate A on, a draft is only
\* ever made on evidence gate A found strong, with nothing failed, and after
\* the clauses in question were shown to the model.
StageFacts ==
    /\ pc \in {"seed", "refine", "tools", "gate"} => draft = NoDraft /\ prior = {}
    /\ pc = "reason" =>
         /\ draft = NoDraft /\ prior = {}
         /\ "weak_retrieval" \notin CheckRetrieval(retrieved)
    /\ draft # NoDraft =>
         /\ prior = {}
         /\ "weak_retrieval" \notin CheckRetrieval(retrieved)
         /\ Considered \subseteq shown
    /\ pc = "done" => result = Decide(reserved, draft, retrieved, prior)
    /\ pc # "done" => result = None

Inv == TypeOK /\ StageFacts

\* A search returns clauses of the collection with scores of the right kind.
LEMMA HitsAreItems ==
    ASSUME NEW hits \in Hits
    PROVE  DOMAIN hits \subseteq Clauses /\ \A k \in DOMAIN hits : hits[k] \in Item
<1>1. PICK S \in SUBSET Clauses :
        \/ hits \in [S -> [rerank : Scores, fused : FusedScores]]
        \/ hits \in [S -> [rerank : {None}, fused : FusedScores]]
    BY DEF Hits
<1> QED
    BY <1>1 DEF Item

\* `score or 0` is a number.
LEMMA ScoreOrZero ==
    ASSUME NEW item \in Item
    PROVE  OrElse(item.rerank, 0) \in Int
<1>1. item.rerank \in Scores \/ item.rerank = None
    BY DEF Item
<1>2. CASE item.rerank = None
    BY <1>2 DEF OrElse
<1>3. CASE item.rerank \in Scores
  <2>1. item.rerank \in Int
      BY <1>3, PipelineAssumption
  <2> QED
      BY <2>1 DEF OrElse
<1> QED
    BY <1>1, <1>2, <1>3

\* What the history variable records of one search: a score that is the highest
\* of its positive ones, or 0 when there is none.
LEMMA PeakOfHits ==
    ASSUME NEW hits,
           DOMAIN hits \subseteq Clauses, \A k \in DOMAIN hits : hits[k] \in Item
    PROVE  /\ PeakOf(hits) \in Nat
           /\ \A k \in DOMAIN hits : OrElse(hits[k].rerank, 0) <= PeakOf(hits)
           /\ PeakOf(hits) > 0 =>
                \E k \in DOMAIN hits : OrElse(hits[k].rerank, 0) = PeakOf(hits)
<1> DEFINE score(k) == OrElse(hits[k].rerank, 0)
           T == {0} \cup {score(k) : k \in DOMAIN hits}
<1>1. \A k \in DOMAIN hits : score(k) \in Int
    BY ScoreOrZero
<1> HIDE DEF score
<1>2. \A x \in T : x \in Int
    BY <1>1
<1>4. \E m \in T : \A x \in T : m >= x
  <2>1. CASE DOMAIN hits = {}
    <3>1. T = {0}
        BY <2>1
    <3> QED
        BY <3>1
  <2>2. CASE DOMAIN hits # {}
    <3> DEFINE f == [k \in DOMAIN hits |-> score(k)]
    <3>1. f \in [DOMAIN hits -> Int] /\ \A k \in DOMAIN hits : f[k] = score(k)
        BY <1>1
    <3>2. IsFiniteSet(DOMAIN hits)
        BY PipelineAssumption, FS_Subset
    <3> HIDE DEF f
    <3>3. PICK top \in DOMAIN hits : \A k \in DOMAIN hits : f[top] >= f[k]
        BY <2>2, <3>1, <3>2, GreatestValue
    <3>4. \A k \in DOMAIN hits : score(top) >= score(k)
        BY <3>1, <3>3
    <3>5. score(top) \in T /\ 0 \in T /\ score(top) \in Int
        BY <1>1
    <3>6. CASE score(top) >= 0
        BY <3>4, <3>5, <3>6
    <3>7. CASE ~(score(top) >= 0)
      <4>1. \A k \in DOMAIN hits : 0 >= score(k)
          BY <1>1, <3>4, <3>5, <3>7
      <4> QED
          BY <3>5, <4>1
    <3> QED
        BY <3>6, <3>7
  <2> QED
      BY <2>1, <2>2
<1>5. PeakOf(hits) = Max(T)
    BY DEF PeakOf, score
<1>6. Max(T) \in T /\ \A x \in T : Max(T) >= x
  <2> HIDE DEF T
  <2> QED
      BY <1>4 DEF Max
<1>7. Max(T) \in Nat
  <2>1. 0 \in T
      OBVIOUS
  <2> HIDE DEF T
  <2>2. Max(T) \in Int /\ Max(T) >= 0
      BY <1>2, <1>6, <2>1
  <2> QED
      BY <2>2
<1>8. \A k \in DOMAIN hits : score(k) <= Max(T)
  <2>1. \A k \in DOMAIN hits : score(k) \in T
      OBVIOUS
  <2> HIDE DEF T
  <2> QED
      BY <1>1, <1>6, <1>7, <2>1
<1>9. Max(T) > 0 => \E k \in DOMAIN hits : score(k) = Max(T)
  <2>1. Max(T) = 0 \/ \E k \in DOMAIN hits : score(k) = Max(T)
      BY <1>6
  <2> QED
      BY <2>1
<1> QED
    BY <1>5, <1>7, <1>8, <1>9 DEF score

\* Merging two rounds invents no clause and no score.
LEMMA MergeIsItems ==
    ASSUME NEW one, NEW other,
           DOMAIN one \subseteq Clauses, \A k \in DOMAIN one : one[k] \in Item,
           DOMAIN other \subseteq Clauses, \A k \in DOMAIN other : other[k] \in Item
    PROVE  /\ DOMAIN Merge(one, other) \subseteq Clauses
           /\ \A k \in DOMAIN Merge(one, other) : Merge(one, other)[k] \in Item
  BY DEF Merge

\* Initially nothing is collected, decided or known.
LEMMA InitInv == Init => Inv
<1> SUFFICES ASSUME Init PROVE Inv
    OBVIOUS
<1>1. DOMAIN collected = {}
    BY DEF Init
<1> QED
    BY <1>1 DEF Init, Inv, TypeOK, StageFacts, Stages

\* Variables keep their types: one step per action of the code.
LEMMA TypeStep == TypeOK /\ [Next]_vars => TypeOK'
<1> SUFFICES ASSUME TypeOK, [Next]_vars PROVE TypeOK'
    OBVIOUS
<1> USE PipelineAssumption DEF TypeOK, Stages
<1>1. CASE Seed
  <2>1. /\ DOMAIN collected' \subseteq Clauses
        /\ \A k \in DOMAIN collected' : collected'[k] \in Item
      BY <1>1, HitsAreItems DEF Seed
  <2>2. peak' \in Nat
      BY <1>1, <2>1, PeakOfHits DEF Seed
  <2> QED
      BY <1>1, <2>1, <2>2 DEF Seed, EnterRound
<1>2. CASE Done
    BY <1>2 DEF Done, Count
<1>3. CASE Turn
  <2>1. calls' \in Seq(Searches \cup {None})
      BY <1>3 DEF Turn
  <2> QED
      BY <1>3, <2>1 DEF Turn, Count
<1>4. CASE Suppress
    BY <1>4 DEF Suppress
<1>5. CASE Search
  <2>0. PICK hits \in Hits :
          collected' = Merge(collected, hits) /\ peak' = Max({peak, PeakOf(hits)})
      BY <1>5 DEF Search
  <2>1. /\ DOMAIN collected' \subseteq Clauses
        /\ \A k \in DOMAIN collected' : collected'[k] \in Item
      BY <2>0, HitsAreItems, MergeIsItems
  <2>3. peak' \in Nat
    <3>1. PeakOf(hits) \in Nat
        BY HitsAreItems, PeakOfHits
    <3> QED
        BY <2>0, <3>1, MaxOfTwo
  <2>2. Head(calls) \in Searches /\ Tail(calls) \in Seq(Searches \cup {None})
      BY <1>5 DEF Search
  <2> QED
      BY <1>5, <2>1, <2>2, <2>3 DEF Search
<1>6. CASE EndTurn
    BY <1>6 DEF EndTurn, EnterRound
<1>7. CASE GateA
  <2>1. PICK S \in TopSets(collected) : retrieved' = RetrievedClauses(collected, S)
      BY <1>7 DEF GateA
  <2>2. \A k \in S : k \in Clauses /\ collected[k].rerank \in Scores \cup {None}
      BY <2>1 DEF TopSets, Item
  <2>3. retrieved' \subseteq [clause : Clauses, rerank : Scores \cup {None}, superseded : BOOLEAN]
    <3>1. \A k \in S : [clause |-> k, rerank |-> collected[k].rerank,
                        superseded |-> k \in SupersededClauses]
                      \in [clause : Clauses, rerank : Scores \cup {None}, superseded : BOOLEAN]
        BY <2>2
    <3> QED
        BY <2>1, <3>1 DEF RetrievedClauses
  <2> QED
      BY <1>7, <2>3 DEF GateA
<1>8. CASE Reason
    BY <1>8 DEF Reason, Considered
<1>9. CASE Upstream
    BY <1>9 DEF Upstream, Considered
<1>10. CASE Malformed
    BY <1>10 DEF Malformed
<1>11. CASE Emit
    BY <1>11 DEF Emit
<1>12. CASE UNCHANGED vars
    BY <1>12 DEF vars
<1> QED
    BY <1>1, <1>2, <1>3, <1>4, <1>5, <1>6, <1>7, <1>8, <1>9, <1>10, <1>11, <1>12 DEF Next

\* What is known at each stage carries over to the next one.
LEMMA StageStep == Inv /\ [Next]_vars => StageFacts'
<1> SUFFICES ASSUME Inv, [Next]_vars PROVE StageFacts'
    OBVIOUS
<1> USE DEF Inv, StageFacts
<1>1. CASE Seed
    BY <1>1 DEF Seed, EnterRound
<1>2. CASE Done
    BY <1>2 DEF Done
<1>3. CASE Turn
    BY <1>3 DEF Turn
<1>4. CASE Suppress
    BY <1>4 DEF Suppress, Considered
<1>5. CASE Search
    BY <1>5 DEF Search
<1>6. CASE EndTurn
    BY <1>6 DEF EndTurn, EnterRound
<1>7. CASE GateA
    BY <1>7 DEF GateA
<1>8. CASE Reason
    BY <1>8 DEF Reason, Considered
<1>9. CASE Upstream
    BY <1>9 DEF Upstream, Waiting
<1>10. CASE Malformed
    BY <1>10 DEF Malformed, Waiting
<1>11. CASE Emit
    BY <1>11 DEF Emit, Considered
<1>12. CASE UNCHANGED vars
    BY <1>12 DEF vars, Considered
<1> QED
    BY <1>1, <1>2, <1>3, <1>4, <1>5, <1>6, <1>7, <1>8, <1>9, <1>10, <1>11, <1>12 DEF Next

\* The inductive invariant holds of every reachable state.
THEOREM Invariance == Spec => []Inv
<1>1. Inv /\ [Next]_vars => Inv'
    BY TypeStep, StageStep DEF Inv
<1> QED
    BY InitInv, <1>1, PTL DEF Spec

\* Type correctness of one assessment.
THEOREM TypeCorrect == Spec => []TypeOK
<1>1. Inv => TypeOK
    BY DEF Inv
<1> QED
    BY Invariance, <1>1, PTL

\* The arguments of decide() are always ones it can be given.
LEMMA InvWellFormed == Inv => WellFormed(draft, retrieved) /\ reserved \in BOOLEAN
  BY PipelineAssumption DEF Inv, TypeOK, WellFormed

\* A verdict other than NEEDS_REVIEW rests on a vetted request, with no
\* failed provider, and on clauses that were in the prompt of the draft.
THEOREM DecidedOnShown == Spec => []DecidedOnShownEvidence
<1>1. Inv => DecidedOnShownEvidence
  <2> SUFFICES ASSUME Inv, pc = "done", result.verdict # "NEEDS_REVIEW"
               PROVE  /\ Vetted(reserved, draft, retrieved)
                      /\ prior = {}
                      /\ \A i \in DOMAIN draft.citations : draft.citations[i].chunk \in shown
      BY DEF DecidedOnShownEvidence
  <2>1. result.verdict = VerdictOf(reserved, draft, retrieved, prior)
      BY DEF Inv, StageFacts, Decide
  <2>2. prior = {} /\ Vetted(reserved, draft, retrieved)
      BY <2>1, InvWellFormed, VerdictMeaning
  <2>3. draft # NoDraft
      BY <2>2 DEF Vetted
  <2>4. Considered \subseteq shown
      BY <2>3 DEF Inv, StageFacts
  <2>5. \A i \in DOMAIN draft.citations : draft.citations[i].chunk \in Considered
      BY <2>2 DEF Vetted, Passes, Considered
  <2> QED
      BY <2>2, <2>4, <2>5
<1> QED
    BY Invariance, <1>1, PTL

\* Gate A and the decision agree: no draft is ever made on evidence the
\* decision calls weak.
THEOREM WeakIsNeverReasoned == Spec => []WeakNeverReasoned
<1>1. Inv => WeakNeverReasoned
  <2> SUFFICES ASSUME Inv, pc = "done", "weak_retrieval" \in result.escalations,
                      draft # NoDraft
               PROVE  FALSE
      BY DEF WeakNeverReasoned
  <2>1. result.escalations = Escalations(reserved, draft, retrieved, prior)
      BY DEF Inv, StageFacts, Decide
  <2>2. "weak_retrieval" \in prior \cup CheckRetrieval(retrieved)
      BY <2>1, WeakComesFromRetrieval
  <2> QED
      BY <2>2 DEF Inv, StageFacts
<1> QED
    BY Invariance, <1>1, PTL

-----------------------------------------------------------------------------
(* The refinement loop: its budget and what it searches *)

Most == IF MaxRounds > 1 THEN MaxRounds - 1 ELSE 0

\* Where the loop is, counted in turns.
LoopFacts ==
    /\ pc = "seed" => turns = 0
    /\ pc = "refine" => round \in 2..MaxRounds /\ turns = round - 2
    /\ pc = "tools" => round \in 2..MaxRounds /\ turns = round - 1
    /\ RefinementBudget

\* seen_queries holds what was searched after the seed, each once.
SeenFacts ==
    /\ pc = "seed" => searched = <<>>
    /\ pc \in {"refine", "tools"} => searched # <<>>
    /\ seen = {searched[i] : i \in 2..Len(searched)}
    /\ NoRepeatedSearch

\* The loop starts with its budget unspent.
LEMMA InitLoop == Init => LoopFacts /\ SeenFacts
<1> SUFFICES ASSUME Init PROVE LoopFacts /\ SeenFacts
    OBVIOUS
<1>1. turns = 0 /\ searched = <<>> /\ pc = "seed" /\ seen = {}
    BY DEF Init
<1>2. RefinementBudget
    BY <1>1, PipelineAssumption DEF RefinementBudget
<1>3. 2..Len(searched) = {}
    BY <1>1
<1> QED
    BY <1>1, <1>2, <1>3 DEF LoopFacts, SeenFacts, NoRepeatedSearch

\* Each turn spends its own share of the budget: one step per action.
LEMMA LoopStep == TypeOK /\ LoopFacts /\ [Next]_vars => LoopFacts'
<1> SUFFICES ASSUME TypeOK, LoopFacts, [Next]_vars PROVE LoopFacts'
    OBVIOUS
<1> USE PipelineAssumption DEF LoopFacts, TypeOK
<1>a. turns <= Most /\ Most \in Nat
    BY DEF RefinementBudget, Most
<1>b. ASSUME turns' <= Most PROVE RefinementBudget'
    BY <1>b DEF RefinementBudget, Most
<1>1. CASE Seed
  <2>1. turns' = 0 /\ round' = 2 /\ pc' = IF 2 <= MaxRounds THEN "refine" ELSE "gate"
      BY <1>1 DEF Seed, EnterRound
  <2>2. RefinementBudget'
      BY <1>a, <1>b, <2>1
  <2> QED
      BY <2>1, <2>2
<1>2. CASE Done
  <2>1. pc' = "gate" /\ turns' <= Most
      BY <1>2 DEF Done, Count, Most
  <2> QED
      BY <1>b, <2>1
<1>3. CASE Turn
  <2>1. pc = "refine" /\ pc' = "tools" /\ round' = round /\ turns' = turns + 1 /\ turns' <= Most
      BY <1>3 DEF Turn, Count, Most
  <2> QED
      BY <1>b, <2>1
<1>4. CASE Suppress
    BY <1>4, <1>a, <1>b DEF Suppress
<1>5. CASE Search
    BY <1>5, <1>a, <1>b DEF Search
<1>6. CASE EndTurn
  <2>1. /\ pc = "tools" /\ UNCHANGED turns /\ round' = round + 1
        /\ pc' = IF round + 1 <= MaxRounds THEN "refine" ELSE "gate"
      BY <1>6 DEF EndTurn, EnterRound
  <2> QED
      BY <1>a, <1>b, <2>1
<1>7. CASE GateA
    BY <1>7, <1>a, <1>b DEF GateA
<1>8. CASE Reason
    BY <1>8, <1>a, <1>b DEF Reason
<1>9. CASE Upstream
    BY <1>9, <1>a, <1>b DEF Upstream
<1>10. CASE Malformed
    BY <1>10, <1>a, <1>b DEF Malformed
<1>11. CASE Emit
    BY <1>11, <1>a, <1>b DEF Emit
<1>12. CASE UNCHANGED vars
    BY <1>12, <1>a, <1>b DEF vars
<1> QED
    BY <1>1, <1>2, <1>3, <1>4, <1>5, <1>6, <1>7, <1>8, <1>9, <1>10, <1>11, <1>12 DEF Next

\* What is searched is new, and remembered: one step per action that searches.
LEMMA SeenStep == TypeOK /\ SeenFacts /\ [Next]_vars => SeenFacts'
<1> SUFFICES ASSUME TypeOK, SeenFacts, [Next]_vars PROVE SeenFacts'
    OBVIOUS
<1> USE PipelineAssumption DEF SeenFacts, TypeOK
<1>a. ASSUME UNCHANGED <<searched, seen>>,
             pc # "seed", pc' \in {"refine", "tools"} => pc \in {"refine", "tools"}, pc' # "seed"
      PROVE  SeenFacts'
    BY <1>a DEF NoRepeatedSearch
<1>1. CASE Seed
  <2>1. searched' = <<SeedSearch>> /\ pc' # "seed" /\ seen' = seen
      BY <1>1 DEF Seed, EnterRound
  <2>2. 2..Len(searched) = {} /\ 2..Len(searched') = {}
      BY <1>1, <2>1 DEF Seed
  <2> QED
      BY <2>1, <2>2 DEF NoRepeatedSearch
<1>2. CASE Done
    BY <1>2, <1>a DEF Done
<1>3. CASE Turn
    BY <1>3, <1>a DEF Turn
<1>4. CASE Suppress
    BY <1>4, <1>a DEF Suppress
<1>5. CASE Search
  <2> DEFINE n == Len(searched)
  <2>1. /\ pc = "tools" /\ pc' = "tools" /\ Head(calls) \notin seen
        /\ Head(calls) \in Searches
        /\ searched' = Append(searched, Head(calls)) /\ seen' = seen \cup {Head(calls)}
      BY <1>5 DEF Search
  <2>2. n \in Nat /\ n >= 1
      BY <2>1
  <2>3. /\ Len(searched') = n + 1 /\ searched'[n + 1] = Head(calls)
        /\ \A i \in 2..n : searched'[i] = searched[i]
      BY <2>1, <2>2
  <2>4. \A i \in 2..n : searched[i] \in seen
      OBVIOUS
  <2>5. 2..Len(searched') = (2..n) \cup {n + 1}
      BY <2>2, <2>3
  <2>6. seen' = {searched'[i] : i \in 2..Len(searched')}
    <3>1. {searched'[i] : i \in 2..n} = seen
        BY <2>3
    <3>2. {searched'[i] : i \in (2..n) \cup {n + 1}} = {searched'[i] : i \in 2..n} \cup {searched'[n + 1]}
        OBVIOUS
    <3> HIDE DEF SeenFacts, TypeOK, n
    <3> QED
        BY <3>1, <3>2, <2>1, <2>3, <2>5
  <2>7. NoRepeatedSearch'
      BY <2>1, <2>3, <2>4, <2>5 DEF NoRepeatedSearch
  <2> QED
      BY <2>1, <2>3, <2>6, <2>7
<1>6. CASE EndTurn
    BY <1>6, <1>a DEF EndTurn, EnterRound
<1>7. CASE GateA
    BY <1>7, <1>a DEF GateA
<1>8. CASE Reason
    BY <1>8, <1>a DEF Reason
<1>9. CASE Upstream
    BY <1>9 DEF Upstream, NoRepeatedSearch
<1>10. CASE Malformed
    BY <1>10 DEF Malformed, NoRepeatedSearch
<1>11. CASE Emit
    BY <1>11, <1>a DEF Emit
<1>12. CASE UNCHANGED vars
    BY <1>12 DEF vars, NoRepeatedSearch
<1> QED
    BY <1>1, <1>2, <1>3, <1>4, <1>5, <1>6, <1>7, <1>8, <1>9, <1>10, <1>11, <1>12 DEF Next

\* test_retrieval_loop_is_bounded, llm.complete_calls: whatever the model and the
\* providers answer, it is asked at most max_rounds - 1 times what to search for.
THEOREM RefinementIsBounded == Spec => []RefinementBudget
<1>1. Init => LoopFacts
    BY InitLoop
<1>2. LoopFacts => RefinementBudget
    BY DEF LoopFacts
<1> QED
    BY <1>1, <1>2, LoopStep, TypeCorrect, PTL DEF Spec

\* Loop detection: no search the model asked for is performed a second time in
\* the same assessment, whatever the turns it was asked in.
THEOREM SearchesAreNew == Spec => []NoRepeatedSearch
<1>1. Init => SeenFacts
    BY InitLoop
<1>2. SeenFacts => NoRepeatedSearch
    BY DEF SeenFacts
<1> QED
    BY <1>1, <1>2, SeenStep, TypeCorrect, PTL DEF Spec

-----------------------------------------------------------------------------
(* Evidence ranking *)

\* What is considered is a best choice among what was collected, from gate A on.
TopFacts ==
    /\ pc \in {"seed", "refine", "tools", "gate"} => retrieved = {}
    /\ retrieved # {} =>
         \E S \in TopSets(collected) : retrieved = RetrievedClauses(collected, S)

\* What was collected of each clause is its best: nothing collected scores above
\* the peak, and once there is a peak, the clause it was given to still has it.
PeakFacts ==
    /\ \A k \in DOMAIN collected : OrElse(collected[k].rerank, 0) <= peak
    /\ peak > 0 => \E k \in DOMAIN collected : OrElse(collected[k].rerank, 0) = peak

\* Gate A chooses, and nothing is collected afterwards.
LEMMA TopStep == TopFacts /\ [Next]_vars => TopFacts'
<1> SUFFICES ASSUME TopFacts, [Next]_vars PROVE TopFacts'
    OBVIOUS
<1> USE DEF TopFacts
<1>1. CASE Seed
    BY <1>1 DEF Seed, EnterRound
<1>2. CASE Done
    BY <1>2 DEF Done
<1>3. CASE Turn
    BY <1>3 DEF Turn
<1>4. CASE Suppress
    BY <1>4 DEF Suppress
<1>5. CASE Search
    BY <1>5 DEF Search
<1>6. CASE EndTurn
    BY <1>6 DEF EndTurn, EnterRound
<1>7. CASE GateA
    BY <1>7 DEF GateA
<1>8. CASE Reason
    BY <1>8 DEF Reason
<1>9. CASE Upstream
    BY <1>9 DEF Upstream
<1>10. CASE Malformed
    BY <1>10 DEF Malformed
<1>11. CASE Emit
    BY <1>11 DEF Emit
<1>12. CASE UNCHANGED vars
    BY <1>12 DEF vars
<1> QED
    BY <1>1, <1>2, <1>3, <1>4, <1>5, <1>6, <1>7, <1>8, <1>9, <1>10, <1>11, <1>12 DEF Next

\* Of two rounds that found a clause, Merge keeps the higher score: the merged
\* collection has the higher of the two peaks, and nothing above it.
LEMMA MergeKeepsPeak ==
    ASSUME NEW items, NEW hits, NEW p \in Nat, NEW q \in Nat, NEW m \in Nat,
           DOMAIN items \subseteq Clauses, \A k \in DOMAIN items : items[k] \in Item,
           DOMAIN hits \subseteq Clauses, \A k \in DOMAIN hits : hits[k] \in Item,
           \A k \in DOMAIN items : OrElse(items[k].rerank, 0) <= p,
           p > 0 => \E k \in DOMAIN items : OrElse(items[k].rerank, 0) = p,
           \A k \in DOMAIN hits : OrElse(hits[k].rerank, 0) <= q,
           q > 0 => \E k \in DOMAIN hits : OrElse(hits[k].rerank, 0) = q,
           m = IF p >= q THEN p ELSE q
    PROVE  /\ \A k \in DOMAIN Merge(items, hits) : OrElse(Merge(items, hits)[k].rerank, 0) <= m
           /\ m > 0 => \E k \in DOMAIN Merge(items, hits) : OrElse(Merge(items, hits)[k].rerank, 0) = m
<1> DEFINE score(item) == OrElse(item.rerank, 0)
<1>1. /\ \A k \in DOMAIN items : score(items[k]) \in Int
      /\ \A k \in DOMAIN hits : score(hits[k]) \in Int
    BY ScoreOrZero
<1>2. /\ DOMAIN Merge(items, hits) = DOMAIN items \cup DOMAIN hits
      /\ \A k \in DOMAIN items \cup DOMAIN hits :
           Merge(items, hits)[k] = IF k \notin DOMAIN items THEN hits[k]
                                ELSE IF k \in DOMAIN hits /\ score(hits[k]) > score(items[k]) THEN hits[k]
                                ELSE items[k]
    BY DEF Merge, Better
<1>3. /\ \A k \in DOMAIN items : score(items[k]) <= p
      /\ \A k \in DOMAIN hits : score(hits[k]) <= q
      /\ p > 0 => \E k \in DOMAIN items : score(items[k]) = p
      /\ q > 0 => \E k \in DOMAIN hits : score(hits[k]) = q
    OBVIOUS
<1> HIDE DEF score
<1>4. ASSUME NEW k \in DOMAIN Merge(items, hits) PROVE score(Merge(items, hits)[k]) <= m
  <2>1. CASE Merge(items, hits)[k] = hits[k] /\ k \in DOMAIN hits
    <3>1. score(hits[k]) <= q /\ score(hits[k]) \in Int
        BY <1>1, <1>3, <2>1
    <3> QED
        BY <2>1, <3>1
  <2>2. CASE Merge(items, hits)[k] = items[k] /\ k \in DOMAIN items
    <3>1. score(items[k]) <= p /\ score(items[k]) \in Int
        BY <1>1, <1>3, <2>2
    <3> QED
        BY <2>2, <3>1
  <2> QED
      BY <1>2, <2>1, <2>2
<1>5. ASSUME m > 0 PROVE \E k \in DOMAIN Merge(items, hits) : score(Merge(items, hits)[k]) = m
  <2>1. CASE p >= q
    <3>1. m = p
        BY <2>1
    <3>2. PICK k \in DOMAIN items : score(items[k]) = p
        BY <1>3, <1>5, <3>1
    <3>3. ~(k \in DOMAIN hits /\ score(hits[k]) > score(items[k]))
        BY <1>1, <1>3, <2>1, <3>2
    <3>4. Merge(items, hits)[k] = items[k] /\ k \in DOMAIN Merge(items, hits)
        BY <1>2, <3>3
    <3> QED
        BY <3>1, <3>2, <3>4
  <2>2. CASE ~(p >= q)
    <3>1. m = q /\ p < q
        BY <2>2
    <3>2. PICK k \in DOMAIN hits : score(hits[k]) = q
        BY <1>3, <1>5, <3>1
    <3>3. k \in DOMAIN items => score(hits[k]) > score(items[k])
        BY <1>1, <1>3, <3>1, <3>2
    <3>4. Merge(items, hits)[k] = hits[k] /\ k \in DOMAIN Merge(items, hits)
        BY <1>2, <3>3
    <3> QED
        BY <3>1, <3>2, <3>4
  <2> QED
      BY <2>1, <2>2
<1> QED
    BY <1>4, <1>5 DEF score

\* Each search may raise the peak; nothing else changes the collection.
LEMMA PeakStep == TypeOK /\ PeakFacts /\ [Next]_vars => PeakFacts'
<1> SUFFICES ASSUME TypeOK, PeakFacts, [Next]_vars PROVE PeakFacts'
    OBVIOUS
<1>1. CASE Seed
  <2>1. PICK hits \in Hits : collected' = hits /\ peak' = PeakOf(hits)
      BY <1>1 DEF Seed
  <2> QED
      BY <2>1, HitsAreItems, PeakOfHits DEF PeakFacts
<1>2. CASE Search
  <2>1. PICK hits \in Hits :
          collected' = Merge(collected, hits) /\ peak' = Max({peak, PeakOf(hits)})
      BY <1>2 DEF Search
  <2>2. /\ DOMAIN hits \subseteq Clauses
        /\ \A k \in DOMAIN hits : hits[k] \in Item
      BY HitsAreItems
  <2>3. /\ PeakOf(hits) \in Nat
        /\ \A k \in DOMAIN hits : OrElse(hits[k].rerank, 0) <= PeakOf(hits)
        /\ PeakOf(hits) > 0 => \E k \in DOMAIN hits : OrElse(hits[k].rerank, 0) = PeakOf(hits)
      BY <2>2, PeakOfHits
  <2>4. peak \in Nat /\ peak' = (IF peak >= PeakOf(hits) THEN peak ELSE PeakOf(hits)) /\ peak' \in Nat
      BY <2>1, <2>3, MaxOfTwo DEF TypeOK
  <2>5. /\ DOMAIN collected \subseteq Clauses
        /\ \A k \in DOMAIN collected : collected[k] \in Item
        /\ \A k \in DOMAIN collected : OrElse(collected[k].rerank, 0) <= peak
        /\ peak > 0 => \E k \in DOMAIN collected : OrElse(collected[k].rerank, 0) = peak
      BY DEF TypeOK, PeakFacts
  <2>6. /\ \A k \in DOMAIN Merge(collected, hits) : OrElse(Merge(collected, hits)[k].rerank, 0) <= peak'
        /\ peak' > 0 => \E k \in DOMAIN Merge(collected, hits) :
                           OrElse(Merge(collected, hits)[k].rerank, 0) = peak'
      BY <2>2, <2>3, <2>4, <2>5, MergeKeepsPeak
  <2> QED
      BY <2>1, <2>6 DEF PeakFacts
<1>3. CASE UNCHANGED <<collected, peak>>
    BY <1>3 DEF PeakFacts
<1> QED
    BY <1>1, <1>2, <1>3
    DEF Next, Done, Turn, Suppress, EndTurn, GateA, Reason, Upstream, Malformed, Emit, vars

\* _top_clauses and the merging of rounds: unless what has no score, or a score
\* of 0, has a fused score that high, a clause that scores as high as the best of
\* any round is among those the model reasons on.
THEOREM BestIsConsidered == Spec => []BestClauseConsidered
<1>1. Init => TopFacts /\ PeakFacts
    BY DEF Init, TopFacts, PeakFacts
<1>2. TypeOK /\ TopFacts /\ PeakFacts => BestClauseConsidered
  <2> SUFFICES ASSUME TypeOK, TopFacts, PeakFacts, retrieved # {}, peak > 0,
                      \A k \in DOMAIN collected :
                        OrElse(collected[k].rerank, 0) = 0 => collected[k].fused < peak
               PROVE  \E r \in retrieved : r.rerank # None /\ r.rerank >= peak
      BY DEF BestClauseConsidered
  <2>1. PICK S \in TopSets(collected) : retrieved = RetrievedClauses(collected, S)
      BY DEF TopFacts
  <2>2. /\ S \subseteq DOMAIN collected /\ S # {}
        /\ \A k \in S, j \in DOMAIN collected \ S : SortKey(collected[k]) >= SortKey(collected[j])
      BY <2>1 DEF TopSets, RetrievedClauses
  <2>3. PICK top \in DOMAIN collected : OrElse(collected[top].rerank, 0) = peak
      BY DEF PeakFacts
  <2>4. peak \in Nat /\ collected[top].rerank = peak
      BY <2>3 DEF OrElse, TypeOK
  <2>5. peak # None /\ SortKey(collected[top]) = peak
      BY <2>4, SettingsAssumption DEF SortKey, OrElse
  <2>6. PICK k \in S : SortKey(collected[k]) >= peak
    <3>1. CASE top \in S
        BY <2>4, <2>5, <3>1
    <3>2. CASE top \notin S
        BY <2>2, <2>3, <2>5, <3>2
    <3> QED
        BY <3>1, <3>2
  <2>7. collected[k] \in Item /\ k \in DOMAIN collected
      BY <2>2 DEF TypeOK
  <2>8. OrElse(collected[k].rerank, 0) # 0
    <3> SUFFICES ASSUME OrElse(collected[k].rerank, 0) = 0 PROVE FALSE
        OBVIOUS
    <3>1. collected[k].fused < peak /\ collected[k].fused \in Int
        BY <2>7, PipelineAssumption DEF Item
    <3>2. SortKey(collected[k]) = collected[k].fused
        BY DEF SortKey, OrElse
    <3> QED
        BY <2>4, <2>6, <3>1, <3>2
  <2>9. collected[k].rerank # None /\ collected[k].rerank >= peak
      BY <2>6, <2>8 DEF OrElse, SortKey
  <2> DEFINE row == [clause |-> k, rerank |-> collected[k].rerank,
                     superseded |-> k \in SupersededClauses]
  <2>10. row \in retrieved
      BY <2>1, <2>6 DEF RetrievedClauses
  <2> QED
      BY <2>9, <2>10
<1> QED
    BY <1>1, <1>2, TopStep, PeakStep, TypeCorrect, PTL DEF Spec

-----------------------------------------------------------------------------
(* The pipeline implements AssessmentContract. *)

\* Giving the answer is a step of the contract.
LEMMA EmitResponds == Inv /\ Emit => Contract!Respond
<1> SUFFICES ASSUME Inv, Emit PROVE Contract!Respond
    OBVIOUS
<1>1. pc = "decide" /\ pc' = "done" /\ UNCHANGED <<reserved, draft, retrieved, prior>>
    BY DEF Emit
<1>2. /\ result'.verdict = VerdictOf(reserved, draft, retrieved, prior)
      /\ result'.escalations = Escalations(reserved, draft, retrieved, prior)
    BY DEF Emit, Decide
<1>3. WellFormed(draft, retrieved) /\ reserved \in BOOLEAN
    BY InvWellFormed
<1>4. /\ result'.verdict \in Verdicts
      /\ result'.verdict # "NEEDS_REVIEW" => Vetted(reserved, draft, retrieved)
      /\ result'.verdict = "NEEDS_REVIEW" <=> result'.escalations # {}
      /\ result'.verdict = "COMPLIANT" => draft.finding = "SUPPORTED_COMPLIANT"
      /\ result'.verdict = "NON_COMPLIANT" => draft.finding = "SUPPORTED_NON_COMPLIANT"
    BY <1>2, <1>3, VerdictMeaning
<1>5. result'.escalations \subseteq EscalationCodes
  <2>1. prior \subseteq EscalationCodes
      BY DEF Inv, TypeOK, EscalationCodes
  <2> QED
      BY <1>2, <2>1, EscalationsAreCodes
<1>6. prior \subseteq result'.escalations
    BY <1>2 DEF Escalations
<1>7. Contract!Permitted(result')
    BY <1>4, <1>5, <1>6 DEF Contract!Permitted, Contract!Vetted, Contract!Passes,
       Contract!Verdicts, Contract!EscalationCodes, Contract!NoDraft,
       Vetted, Passes, Verdicts, EscalationCodes, NoDraft
<1> QED
    BY <1>1, <1>7 DEF Contract!Respond, Contract!basis, status

\* One assessment implements its contract: it starts as the contract does, and
\* every step is the contract's Work, Respond or Fail, or changes nothing.
THEOREM PipelineKeepsContract == Spec => KeepsContract
<1>1. Init => Contract!Init
    BY DEF Init, Contract!Init, Contract!NoDraft, NoDraft, status
<1>2. Inv /\ [Next]_vars => [Contract!Next]_(Contract!vars)
  <2> SUFFICES ASSUME Inv, [Next]_vars PROVE Contract!Next \/ UNCHANGED Contract!vars
      OBVIOUS
  <2>1. ASSUME pc \notin {"done", "failed"}, pc' \notin {"done", "failed"},
               prior \subseteq prior', UNCHANGED result
        PROVE  Contract!Next
      BY <2>1 DEF Contract!Next, Contract!Work, status
  <2>2. CASE Seed
      BY <2>1, <2>2 DEF Seed, EnterRound
  <2>3. CASE Done
      BY <2>1, <2>3 DEF Done
  <2>4. CASE Turn
      BY <2>1, <2>4 DEF Turn
  <2>5. CASE Suppress
      BY <2>1, <2>5 DEF Suppress
  <2>6. CASE Search
      BY <2>1, <2>6 DEF Search
  <2>7. CASE EndTurn
      BY <2>1, <2>7 DEF EndTurn, EnterRound
  <2>8. CASE GateA
      BY <2>1, <2>8 DEF GateA
  <2>9. CASE Reason
      BY <2>1, <2>9 DEF Reason
  <2>10. CASE Upstream
      BY <2>1, <2>10 DEF Upstream, Waiting
  <2>11. CASE Malformed
    <3>1. status = "pending" /\ status' = "failed"
        BY <2>11 DEF Malformed, Waiting, status
    <3> QED
        BY <2>11, <3>1 DEF Malformed, Contract!Next, Contract!Fail, Contract!basis
  <2>12. CASE Emit
      BY <2>12, EmitResponds DEF Contract!Next
  <2>13. CASE UNCHANGED vars
      BY <2>13 DEF vars, Contract!vars, status
  <2> QED
      BY <2>2, <2>3, <2>4, <2>5, <2>6, <2>7, <2>8, <2>9, <2>10, <2>11, <2>12, <2>13 DEF Next
<1> QED
    BY <1>1, <1>2, Invariance, PTL DEF Spec, KeepsContract, Contract!Spec

=============================================================================
