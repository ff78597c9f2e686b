---------------------------- MODULE Trades_proofs ----------------------------
(***************************************************************************)
(* Theorems about TradeCount and TradeHistory, for any contracts,          *)
(* quantities, prices and fees and any number of fills, and for the count  *)
(* any number of webhook requests and syncs that overlap.                  *)
(*                                                                         *)
(* The count: the state stays well typed; a fill advances the session      *)
(* state once; the stored fills are counted right, however they came to be *)
(* stored; and webhooks handled one at a time and in order need no recount.*)
(* The history: the open lots are the newest units; and, as long as each   *)
(* fill is known once, no money of the fills is lost or counted twice, and *)
(* its trades are the exits among them, the completed ones those counted.  *)
(*                                                                         *)
(* The models sum with the folds of the community modules.  The first part *)
(* shows what they give: any order of adding gives the same sum, a walk    *)
(* over the sorted fills meets what the earlier fills add up to, and their *)
(* ranks number them.                                                      *)
(***************************************************************************)
EXTENDS TradeCount, TradeHistory, FiniteSetTheorems, TLAPS

-----------------------------------------------------------------------------
(* Induction, one instance at a time: the least counterexample *)

\* A set of numbers has a least one.
LEMMA LeastNatural ==
  ASSUME NEW T \in SUBSET Nat, T # {}
  PROVE  \E n \in T : \A m \in T : n <= m
<1> DEFINE R == {ss \in Nat \X Nat : ss[1] < ss[2]}
<1>1. IsWellFoundedOn(R, Nat)
  BY NatLessThanWellFounded, Zenon DEF OpToRel
<1>2. PICK n \in T : \A m \in T : <<m, n>> \notin R
  <2> HIDE DEF R
  <2> QED  BY <1>1, WFMin
<1>3. \A m \in Nat : m < n => <<m, n>> \in R
  OBVIOUS
<1>4. \A m \in T : m \in Nat /\ n \in Nat /\ ~(m < n)
  BY <1>2, <1>3
<1> QED  BY <1>4

\* A set of subsets of a finite set has a smallest one.
LEMMA LeastSubset ==
  ASSUME NEW S, IsFiniteSet(S), NEW T \in SUBSET (SUBSET S), T # {}
  PROVE  \E t \in T : \A u \in T : u \subseteq t => u = t
<1>1. IsWellFoundedOn(StrictSubsetOrdering(S), SUBSET S)
  BY FS_StrictSubsetOrderingWellFounded, FS_FiniteSubsetsOfFinite
<1>2. PICK t \in T : \A u \in T : <<u, t>> \notin StrictSubsetOrdering(S)
  BY <1>1, WFMin
<1>3. \A u \in T : u \subseteq t => u = t
  BY <1>2 DEF StrictSubsetOrdering
<1> QED  BY <1>3

-----------------------------------------------------------------------------
(* Sums over a finite set *)

\* The values v are numbers, v and w are equal on a part T of S, ch chooses a member
\* of each set.
Numbers(v, S) == \A x \in S : v[x] \in Int
Alike(v, w, T, S) == T \in SUBSET S /\ \A x \in T : v[x] = w[x]
Chooses(ch, S) == \A s \in SUBSET S : s # {} => ch[s] \in s

\* g[s] adds the values v of the members of s, taking out ch[s] first, wherever the
\* sum of the others is known to be a number.
Folds(g, S, v, ch) ==
    \A s \in SUBSET S :
      IF s = {} THEN g[s] = 0
      ELSE g[s \ {ch[s]}] \in Int => g[s] = v[ch[s]] + g[s \ {ch[s]}]

\* All these sums are numbers.
IsFold(g, S, v, ch) == g \in [SUBSET S -> Int] /\ Folds(g, S, v, ch)

\* There are such sums, whatever is taken out first.
LEMMA FoldExists ==
  ASSUME NEW S, NEW v, NEW ch, IsFiniteSet(S), Numbers(v, S), Chooses(ch, S)
  PROVE  \E g : IsFold(g, S, v, ch)
<1> USE DEF Numbers, Chooses
<1> DEFINE After(g) == [s \in SUBSET S |-> IF s = {} THEN 0 ELSE v[ch[s]] + g[s \ {ch[s]}]]
           Good(g, n) == \A s \in SUBSET S : Cardinality(s) <= n => g[s] = After(g)[s]
           Bad == {n \in Nat : \A g \in [SUBSET S -> Int] : ~Good(g, n)}
<1>1. \A g \in [SUBSET S -> Int] : After(g) \in [SUBSET S -> Int]
  OBVIOUS
<1>2. \A s \in SUBSET S : /\ IsFiniteSet(s)
                          /\ Cardinality(s) \in Nat
                          /\ s = {} <=> Cardinality(s) = 0
  BY FS_Subset, FS_CardinalityType, FS_EmptySet
<1>3. \A s \in SUBSET S : s # {} => Cardinality(s \ {ch[s]}) = Cardinality(s) - 1
  BY <1>2, FS_RemoveElement
<1>4. Bad = {}
  <2> SUFFICES ASSUME Bad # {}  PROVE FALSE
    OBVIOUS
  <2>1. PICK n \in Bad : \A m \in Bad : n <= m
    BY LeastNatural
  <2>2. n # 0
    <3> DEFINE z == [s \in SUBSET S |-> 0]
    <3>1. z \in [SUBSET S -> Int]
      OBVIOUS
    <3>2. Good(z, 0)
      BY <1>2
    <3>3. 0 \notin Bad
      <4> HIDE DEF Good, z
      <4> QED  BY <3>1, <3>2
    <3> QED  BY <3>3, <2>1
  <2>3. PICK g \in [SUBSET S -> Int] : Good(g, n - 1)
    <3>1. n - 1 \in Nat /\ ~(n <= n - 1)
      BY <2>2
    <3>2. n - 1 \notin Bad
      BY <2>1, <3>1
    <3> HIDE DEF Good
    <3> QED  BY <3>1, <3>2
  <2> DEFINE h == After(g)
  <2>4. h \in [SUBSET S -> Int]
    BY <1>1
  <2>5. ASSUME NEW s \in SUBSET S, Cardinality(s) <= n
        PROVE  h[s] = After(h)[s]
    <3>1. CASE s = {}
      BY <3>1
    <3>2. CASE s # {}
      <4> DEFINE r == s \ {ch[s]}
      <4>1. r \in SUBSET S /\ Cardinality(r) <= n - 1
        BY <3>2, <2>5, <1>2, <1>3
      <4>2. g[r] = h[r]
        BY <4>1, <2>3
      <4>3. h[s] = v[ch[s]] + g[r] /\ After(h)[s] = v[ch[s]] + h[r]
        BY <3>2
      <4> QED  BY <4>2, <4>3
    <3> QED  BY <3>1, <3>2
  <2>6. Good(h, n)
    BY <2>5
  <2> HIDE DEF Good, h
  <2> QED  BY <2>1, <2>4, <2>6
<1>5. Cardinality(S) \in Nat /\ \A s \in SUBSET S : Cardinality(s) <= Cardinality(S)
  BY <1>2, FS_Subset
<1>6. PICK g \in [SUBSET S -> Int] : Good(g, Cardinality(S))
  <2> HIDE DEF Good
  <2> QED  BY <1>4, <1>5
<1>7. \A s \in SUBSET S : g[s] = After(g)[s]
  BY <1>5, <1>6
<1> QED  BY <1>7 DEF IsFold, Folds

\* The last one to be added may be any member.
LEMMA FoldAnyOrder ==
  ASSUME NEW S, NEW v, NEW ch, NEW g,
         IsFiniteSet(S), Numbers(v, S), Chooses(ch, S), IsFold(g, S, v, ch)
  PROVE  \A x \in S : g[S] = v[x] + g[S \ {x}]
<1> USE DEF Numbers, Chooses
<1>0. \A s \in SUBSET S : /\ g[s] = IF s = {} THEN 0 ELSE v[ch[s]] + g[s \ {ch[s]}]
                          /\ g[s] \in Int
  BY DEF IsFold, Folds
<1> DEFINE Bad == {s \in SUBSET S : \E x \in s : g[s] # v[x] + g[s \ {x}]}
<1> SUFFICES ASSUME Bad # {}  PROVE FALSE
  OBVIOUS
<1>1. PICK t \in Bad : \A u \in Bad : u \subseteq t => u = t
  <2>1. Bad \in SUBSET (SUBSET S)
    OBVIOUS
  <2> HIDE DEF Bad
  <2> QED  BY <2>1, LeastSubset
<1>2. PICK x \in t : g[t] # v[x] + g[t \ {x}]
  OBVIOUS
<1> DEFINE c == ch[t]
           r == t \ {c}
           q == t \ {x}
           b == r \ {x}
<1>3. t \in SUBSET S /\ c \in t /\ g[t] = v[c] + g[r]
  BY <1>0, <1>2
<1>4. x # c
  BY <1>2, <1>3
<1>5. g[r] = v[x] + g[b]
  <2>1. r \in SUBSET S /\ r \subseteq t /\ r # t /\ x \in r
    BY <1>3, <1>4
  <2>2. r \notin Bad
    <3> HIDE DEF Bad, r
    <3> QED  BY <1>1, <2>1
  <2> QED  BY <2>1, <2>2
<1>6. g[q] = v[c] + g[b]
  <2>1. q \in SUBSET S /\ q \subseteq t /\ q # t /\ c \in q /\ q \ {c} = b
    BY <1>3, <1>4
  <2>2. q \notin Bad
    <3> HIDE DEF Bad, q
    <3> QED  BY <1>1, <2>1
  <2>3. g[q] = v[c] + g[q \ {c}]
    <3> HIDE DEF c, q
    <3> QED  BY <2>1, <2>2
  <2> QED  BY <2>1, <2>3
<1>7. v[x] \in Int /\ v[c] \in Int /\ g[b] \in Int
  BY <1>0, <1>3
<1>8. g[t] = v[x] + g[q]
  <2> HIDE DEF c, r, q, b
  <2> QED  BY <1>3, <1>5, <1>6, <1>7
<1> QED  BY <1>2, <1>8

\* Two functions that add the same values in the same order are equal, though one
\* of them is known only by its equation.
LEMMA FoldAgrees ==
  ASSUME NEW S, NEW T, NEW v, NEW w, NEW ch, NEW g, NEW h,
         IsFiniteSet(S), Alike(v, w, T, S), Chooses(ch, S),
         IsFold(g, S, v, ch), Folds(h, T, w, ch)
  PROVE  g[T] = h[T]
<1> USE DEF Alike, Chooses
<1> DEFINE Bad == {s \in SUBSET T : g[s] # h[s]}
<1> SUFFICES ASSUME Bad # {}  PROVE FALSE
  OBVIOUS
<1>0. \A s \in SUBSET T : g[s] \in Int
  BY DEF IsFold
<1>1. IsFiniteSet(T)
  BY FS_Subset
<1>2. PICK t \in Bad : \A u \in Bad : u \subseteq t => u = t
  <2>1. Bad \in SUBSET (SUBSET T)
    OBVIOUS
  <2> HIDE DEF Bad
  <2> QED  BY <1>1, <2>1, LeastSubset
<1> DEFINE r == t \ {ch[t]}
<1>3. t # {}
  BY DEF IsFold, Folds
<1>4. ch[t] \in t /\ ch[t] \in T /\ r \in SUBSET T /\ r \subseteq t /\ r # t
  BY <1>3
<1>5. g[r] = h[r]
  <2>1. r \notin Bad
    <3> HIDE DEF Bad, r
    <3> QED  BY <1>2, <1>4
  <2> QED  BY <2>1, <1>4
<1>6. g[t] = v[ch[t]] + g[r] /\ h[t] = w[ch[t]] + h[r]
  <2>1. g[r] \in Int /\ h[r] \in Int
    BY <1>0, <1>4, <1>5
  <2> QED  BY <1>3, <1>4, <2>1 DEF IsFold, Folds
<1>7. g[t] = h[t]
  <2> HIDE DEF r
  <2> QED  BY <1>4, <1>5, <1>6
<1> QED  BY <1>7

-----------------------------------------------------------------------------
(* Sums of fills *)

\* What the fills S of the history fl add up to.
Net(fl, S) == MapThenSumSet(LAMBDA j : fl[j].delta, S)

\* The values Net adds, and the order MapThenSumSet takes them in.
Delta(fl, S) == [j \in S |-> fl[j].delta]
AnyOf == [t \in SUBSET Nat |-> CHOOSE x \in t : TRUE]

\* MapThenSumSet is such a sum.
LEMMA NetIsFold ==
  ASSUME NEW fl, NEW S \in SUBSET Nat, IsFiniteSet(S), \A j \in S : fl[j].delta \in Int
  PROVE  \E g : IsFold(g, S, Delta(fl, S), AnyOf) /\ Net(fl, S) = g[S]
<1> DEFINE After(g) == [s \in SUBSET S |-> IF s = {} THEN 0
                          ELSE fl[CHOOSE x \in s : TRUE].delta + g[s \ {CHOOSE x \in s : TRUE}]]
           iter == CHOOSE g : g = After(g)
<1>1. \A x \in S : Delta(fl, S)[x] = fl[x].delta /\ Delta(fl, S)[x] \in Int
  BY DEF Delta
<1>2. \A s \in SUBSET S : /\ AnyOf[s] = CHOOSE x \in s : TRUE
                          /\ s # {} => AnyOf[s] \in s
  BY DEF AnyOf
<1>3. ASSUME NEW h, NEW s \in SUBSET S
      PROVE  After(h)[s] = IF s = {} THEN 0 ELSE Delta(fl, S)[AnyOf[s]] + h[s \ {AnyOf[s]}]
  <2> DEFINE c == CHOOSE x \in s : TRUE
  <2>1. After(h)[s] = IF s = {} THEN 0 ELSE fl[c].delta + h[s \ {c}]
    OBVIOUS
  <2>2. AnyOf[s] = c
    BY <1>2
  <2>3. s # {} => Delta(fl, S)[AnyOf[s]] = fl[AnyOf[s]].delta
    BY <1>1, <1>2
  <2> HIDE DEF c, After
  <2> QED  BY <2>1, <2>2, <2>3
<1>4. PICK g : IsFold(g, S, Delta(fl, S), AnyOf)
  <2>1. Numbers(Delta(fl, S), S) /\ Chooses(AnyOf, S)
    BY <1>1, <1>2 DEF Numbers, Chooses
  <2> QED  BY <2>1, FoldExists
<1>5. iter = After(iter)
  <2>1. \A s \in SUBSET S : g[s] = After(g)[s]
    <3> HIDE DEF After
    <3> QED  BY <1>3, <1>4 DEF IsFold, Folds
  <2>2. g = After(g)
    BY <1>4, <2>1 DEF IsFold
  <2> HIDE DEF After
  <2> QED  BY <2>2
<1>6. Net(fl, S) = iter[S]
  BY DEF Net, MapThenSumSet, MapThenFoldSet
<1>7. Folds(iter, S, Delta(fl, S), AnyOf)
  <2> HIDE DEF iter, After
  <2> QED  BY <1>3, <1>5 DEF Folds
<1>8. iter[S] = g[S]
  <2>1. Alike(Delta(fl, S), Delta(fl, S), S, S) /\ Chooses(AnyOf, S)
    BY <1>2 DEF Alike, Chooses
  <2> HIDE DEF iter
  <2> QED  BY <1>4, <1>7, <2>1, FoldAgrees
<1> QED  BY <1>4, <1>6, <1>8

\* What a net position is: a number, nothing for no fills, and each fill adds its own.
LEMMA NetAdds ==
  ASSUME NEW fl, NEW S \in SUBSET Nat, IsFiniteSet(S), \A j \in S : fl[j].delta \in Int
  PROVE  /\ Net(fl, S) \in Int
         /\ S = {} => Net(fl, S) = 0
         /\ \A x \in S : Net(fl, S) = fl[x].delta + Net(fl, S \ {x})
<1>1. \A x \in S : Delta(fl, S)[x] = fl[x].delta /\ Delta(fl, S)[x] \in Int
  BY DEF Delta
<1>2. \A s \in SUBSET S : s # {} => AnyOf[s] \in s
  BY DEF AnyOf
<1>3. PICK g : IsFold(g, S, Delta(fl, S), AnyOf) /\ Net(fl, S) = g[S]
  BY NetIsFold
<1>4. \A x \in S : g[S] = Delta(fl, S)[x] + g[S \ {x}]
  <2>1. Numbers(Delta(fl, S), S) /\ Chooses(AnyOf, S)
    BY <1>1, <1>2 DEF Numbers, Chooses
  <2> QED  BY <1>3, <2>1, FoldAnyOrder
<1>5. ASSUME NEW T \in SUBSET S
      PROVE  Net(fl, T) = g[T]
  <2>1. T \in SUBSET S /\ T \in SUBSET Nat /\ IsFiniteSet(T)
    BY FS_Subset
  <2>2. \A j \in T : fl[j].delta \in Int /\ Delta(fl, S)[j] = Delta(fl, T)[j]
    BY DEF Delta
  <2>3. PICK h : IsFold(h, T, Delta(fl, T), AnyOf) /\ Net(fl, T) = h[T]
    BY <2>1, <2>2, NetIsFold
  <2>4. g[T] = h[T]
    <3>1. Folds(h, T, Delta(fl, T), AnyOf)
      BY <2>3 DEF IsFold
    <3>2. Alike(Delta(fl, S), Delta(fl, T), T, S) /\ Chooses(AnyOf, S)
      BY <1>2, <2>2 DEF Alike, Chooses
    <3> QED  BY <1>3, <2>1, <3>1, <3>2, FoldAgrees
  <2> QED  BY <2>3, <2>4
<1>6. g[S] \in Int /\ (S = {} => g[S] = 0)
  BY <1>3 DEF IsFold, Folds
<1>7. \A x \in S : g[S] = fl[x].delta + g[S \ {x}]
  BY <1>1, <1>4
<1> QED  BY <1>3, <1>5, <1>6, <1>7

\* It depends on nothing but the fills added.
LEMMA NetSame ==
  ASSUME NEW fl, NEW gl, NEW S \in SUBSET Nat, IsFiniteSet(S),
         \A j \in S : fl[j].delta \in Int /\ gl[j].delta = fl[j].delta
  PROVE  Net(gl, S) = Net(fl, S)
<1>1. PICK g : IsFold(g, S, Delta(gl, S), AnyOf) /\ Net(gl, S) = g[S]
  BY NetIsFold
<1>2. PICK h : IsFold(h, S, Delta(fl, S), AnyOf) /\ Net(fl, S) = h[S]
  BY NetIsFold
<1>3. Delta(gl, S) = Delta(fl, S)
  BY DEF Delta
<1>4. \A s \in SUBSET S : s # {} => AnyOf[s] \in s
  BY DEF AnyOf
<1>5. g[S] = h[S]
  <2>1. Folds(h, S, Delta(gl, S), AnyOf)
    BY <1>2, <1>3 DEF IsFold
  <2>2. Alike(Delta(gl, S), Delta(gl, S), S, S) /\ Chooses(AnyOf, S)
    BY <1>4 DEF Alike, Chooses
  <2> QED  BY <1>1, <2>1, <2>2, FoldAgrees
<1> QED  BY <1>1, <1>2, <1>5

-----------------------------------------------------------------------------
(* The walk over sorted fills *)

\* The Max of the community modules is one.
LEMMA MaxIsMember ==
  ASSUME NEW n \in Nat, NEW S \in SUBSET (1..n), S # {}
  PROVE  Max(S) \in S /\ \A x \in S : x <= Max(S)
<1> DEFINE T == {n - x : x \in S}
<1>1. T \in SUBSET Nat /\ T # {}
  <2>1. \A x \in S : n - x \in Nat
    OBVIOUS
  <2>2. \A k \in T : k \in Nat
    BY <2>1, Zenon
  <2>3. PICK x \in S : TRUE
    OBVIOUS
  <2>4. n - x \in T
    BY Zenon
  <2> HIDE DEF T
  <2> QED  BY <2>2, <2>4
<1>2. PICK m \in T : \A k \in T : m <= k
  <2> HIDE DEF T
  <2> QED  BY <1>1, LeastNatural
<1>3. PICK x \in S : m = n - x
  BY <1>2
<1>4. \A y \in S : x >= y
  <2>1. \A y \in S : n - y \in T /\ y \in Int
    OBVIOUS
  <2> HIDE DEF T
  <2> QED  BY <1>2, <1>3, <2>1
<1> QED  BY <1>4 DEF Max

\* The walk of Fills!Position, the values it adds, and that it adds the last one last.
Walk(fl, c, seq) ==
    FoldLeft(LAMBDA p, r : p + (IF fl[r.id].contract = c THEN fl[r.id].delta ELSE 0), 0, seq)
Step(fl, c, seq) ==
    [n \in DOMAIN seq |-> IF fl[seq[n].id].contract = c THEN fl[seq[n].id].delta ELSE 0]
LastOf == [t \in SUBSET Nat |-> Max(t)]

\* FoldLeft over a sequence is such a sum too.
LEMMA WalkIsFold ==
  ASSUME NEW fl, NEW c, NEW seq, NEW n \in Nat, DOMAIN seq = 1..n,
         \A k \in 1..n : fl[seq[k].id].delta \in Int
  PROVE  \E g : IsFold(g, 1..n, Step(fl, c, seq), LastOf) /\ Walk(fl, c, seq) = g[1..n]
<1> DEFINE S == 1..n
           value(r) == IF fl[r.id].contract = c THEN fl[r.id].delta ELSE 0
           After(g) == [s \in SUBSET S |-> IF s = {} THEN 0
                          ELSE g[s \ {Max(s)}] + value(seq[Max(s)])]
           iter == CHOOSE g : g = After(g)
<1>1. \A x \in S : Step(fl, c, seq)[x] = value(seq[x]) /\ Step(fl, c, seq)[x] \in Int
  BY DEF Step
<1>2. \A s \in SUBSET S : LastOf[s] = Max(s) /\ (s # {} => LastOf[s] \in s)
  BY MaxIsMember DEF LastOf
<1>3. IsFiniteSet(S)
  <2>1. 1 \in Int /\ n \in Int
    OBVIOUS
  <2> QED  BY <2>1, FS_Interval, Zenon
<1>4. PICK g : IsFold(g, S, Step(fl, c, seq), LastOf)
  <2>1. Numbers(Step(fl, c, seq), S) /\ Chooses(LastOf, S)
    BY <1>1, <1>2 DEF Numbers, Chooses
  <2> HIDE DEF S
  <2> QED  BY <1>3, <2>1, FoldExists
<1>5. ASSUME NEW h, h \in [SUBSET S -> Int] \/ h = iter, NEW s \in SUBSET S
      PROVE  /\ s = {} => After(h)[s] = 0
             /\ s # {} => After(h)[s] = h[s \ {LastOf[s]}] + Step(fl, c, seq)[LastOf[s]]
  <2> HIDE DEF iter
  <2>1. After(h)[s] = IF s = {} THEN 0 ELSE h[s \ {Max(s)}] + value(seq[Max(s)])
    BY Zenon
  <2> HIDE DEF After, value, S
  <2> QED  BY <1>1, <1>2, <2>1
<1>6. iter = After(iter)
  <2>1. \A s \in SUBSET S : g[s] = After(g)[s]
    <3>1. \A s \in SUBSET S : s # {} => /\ g[s \ {LastOf[s]}] \in Int
                                      /\ Step(fl, c, seq)[LastOf[s]] \in Int
      BY <1>1, <1>2, <1>4 DEF IsFold
    <3>2. ASSUME NEW s \in SUBSET S
          PROVE  g[s] = After(g)[s]
      <4> DEFINE a == g[s \ {LastOf[s]}]
                 b == Step(fl, c, seq)[LastOf[s]]
      <4>1. CASE s = {}
        <5> HIDE DEF After, S
        <5> QED  BY <1>4, <1>5, <4>1 DEF IsFold, Folds
      <4>2. CASE s # {}
        <5>1. g[s] = b + a
          <6> HIDE DEF S
          <6> QED  BY <1>4, <3>1, <4>2 DEF IsFold, Folds
        <5>2. After(g)[s] = a + b
          <6> HIDE DEF After, S
          <6> QED  BY <1>4, <1>5, <4>2 DEF IsFold
        <5>3. a \in Int /\ b \in Int
          BY <3>1, <4>2
        <5> HIDE DEF After, a, b
        <5> QED  BY <5>1, <5>2, <5>3
      <4> QED  BY <4>1, <4>2
    <3> QED  BY <3>2
  <2>2. g = After(g)
    BY <1>4, <2>1 DEF IsFold
  <2> HIDE DEF After
  <2> QED  BY <2>2
<1>7. Folds(iter, S, Step(fl, c, seq), LastOf)
  <2>1. \A s \in SUBSET S : s # {} => Step(fl, c, seq)[LastOf[s]] \in Int
    BY <1>1, <1>2
  <2>2. ASSUME NEW s \in SUBSET S, s # {}, iter[s \ {LastOf[s]}] \in Int
        PROVE  iter[s] = Step(fl, c, seq)[LastOf[s]] + iter[s \ {LastOf[s]}]
    <3> DEFINE a == iter[s \ {LastOf[s]}]
               b == Step(fl, c, seq)[LastOf[s]]
    <3>1. iter[s] = a + b
      <4> HIDE DEF iter, After, S
      <4> QED  BY <1>5, <1>6, <2>2
    <3>2. a \in Int /\ b \in Int
      BY <2>1, <2>2
    <3> HIDE DEF iter, a, b
    <3>3. iter[s] = b + a
      BY <3>1, <3>2
    <3> QED  BY <3>3 DEF a, b
  <2>3. iter[{}] = 0
    <3>1. {} \in SUBSET S
      OBVIOUS
    <3> HIDE DEF iter, After, S
    <3> QED  BY <1>5, <1>6, <3>1
  <2> HIDE DEF iter, After, S
  <2> QED  BY <2>2, <2>3 DEF Folds
<1>8. iter[S] = g[S]
  <2>1. Alike(Step(fl, c, seq), Step(fl, c, seq), S, S) /\ Chooses(LastOf, S)
    BY <1>2 DEF Alike, Chooses
  <2> HIDE DEF iter, S
  <2> QED  BY <1>3, <1>4, <1>7, <2>1, FoldAgrees
<1>9. Walk(fl, c, seq) = iter[S]
  BY DEF Walk, FoldLeft, MapThenFoldSet
<1> QED  BY <1>4, <1>8, <1>9

\* Sets of fills are finite.
LEMMA UpToIsFinite ==
  ASSUME NEW n \in Nat, NEW S \in SUBSET (1..n)
  PROVE  /\ IsFiniteSet(S)
         /\ Cardinality(S) \in Nat
         /\ Cardinality(S) <= n
         /\ S \in SUBSET Nat
<1>1. 1 \in Int /\ n \in Int
  OBVIOUS
<1>2. IsFiniteSet(1..n) /\ Cardinality(1..n) = n
  BY <1>1, FS_Interval
<1>3. IsFiniteSet(S) /\ Cardinality(S) <= n
  BY <1>2, FS_Subset
<1> QED  BY <1>3, FS_CardinalityType

\* The fills of contract c at places s.
Among(fl, c, seq, s) == {seq[k].id : k \in {m \in s : fl[seq[m].id].contract = c}}

\* The sequence lists n different fills, numbered up to N.
Lists(fl, seq, n, N) ==
    /\ n \in Nat /\ N \in Nat /\ DOMAIN seq = 1..n
    /\ \A k \in 1..n : seq[k].id \in 1..N /\ fl[seq[k].id].delta \in Int
    /\ \A k, m \in 1..n : seq[k].id = seq[m].id => k = m

\* The walk over different fills accumulates their net position in the contract.
LEMMA WalkIsNet ==
  ASSUME NEW fl, NEW c, NEW seq, NEW n, NEW N, Lists(fl, seq, n, N)
  PROVE  Walk(fl, c, seq) = Net(fl, Among(fl, c, seq, 1..n))
<1> USE DEF Lists
<1> DEFINE S == 1..n
           Sel(s) == {seq[k].id : k \in {m \in s : fl[seq[m].id].contract = c}}
<1>1. PICK g : IsFold(g, S, Step(fl, c, seq), LastOf) /\ Walk(fl, c, seq) = g[S]
  BY WalkIsFold
<1> DEFINE Bad == {s \in SUBSET S : g[s] # Net(fl, Sel(s))}
<1> SUFFICES ASSUME Bad # {}  PROVE FALSE
  <2>1. S \notin Bad
    OBVIOUS
  <2> HIDE DEF Bad
  <2>2. g[S] = Net(fl, Sel(S))
    BY <2>1 DEF Bad
  <2> QED  BY <1>1, <2>2 DEF Among
<1>2. PICK t \in Bad : \A u \in Bad : u \subseteq t => u = t
  <2>1. Bad \in SUBSET (SUBSET S) /\ IsFiniteSet(S)
    BY UpToIsFinite
  <2> HIDE DEF Bad, S
  <2> QED  BY <2>1, LeastSubset
<1>3. ASSUME NEW s \in SUBSET S
      PROVE  /\ Sel(s) \in SUBSET Nat
             /\ IsFiniteSet(Sel(s))
             /\ \A j \in Sel(s) : fl[j].delta \in Int
  <2>1. Sel(s) \in SUBSET (1..N) /\ \A j \in Sel(s) : fl[j].delta \in Int
    OBVIOUS
  <2> HIDE DEF Sel
  <2> QED  BY <2>1, UpToIsFinite
<1>4. t # {}
  <2> SUFFICES ASSUME t = {}  PROVE FALSE
    OBVIOUS
  <2>1. g[t] = 0
    BY <1>1 DEF IsFold, Folds
  <2>2. Sel(t) = {}
    OBVIOUS
  <2>3. Net(fl, Sel(t)) = 0
    <3> HIDE DEF Sel
    <3> QED  BY <1>3, <2>2, NetAdds
  <2> QED  BY <2>1, <2>3
<1> DEFINE m == LastOf[t]
           r == t \ {m}
           d == IF fl[seq[m].id].contract = c THEN fl[seq[m].id].delta ELSE 0
<1>5. m \in t /\ m \in S /\ r \in SUBSET S /\ r \subseteq t /\ r # t
  <2>1. Max(t) \in t
    BY <1>4, MaxIsMember
  <2>2. t \in SUBSET S /\ t \in SUBSET Nat
    OBVIOUS
  <2>3. LastOf[t] = Max(t)
    BY <2>2 DEF LastOf
  <2> QED  BY <2>1, <2>2, <2>3
<1>6. g[t] = d + g[r] /\ g[r] \in Int
  <2>1. Step(fl, c, seq)[m] = d
    BY <1>5 DEF Step
  <2>2. t \in SUBSET S /\ g[r] \in Int
    BY <1>1, <1>5 DEF IsFold
  <2>3. g[t \ {LastOf[t]}] \in Int => g[t] = Step(fl, c, seq)[LastOf[t]] + g[t \ {LastOf[t]}]
    <3>1. t \in SUBSET S
      BY <2>2
    <3> HIDE DEF S
    <3> QED  BY <1>1, <1>4, <3>1 DEF IsFold, Folds
  <2> HIDE DEF S, d
  <2> QED  BY <2>1, <2>2, <2>3
<1>7. g[r] = Net(fl, Sel(r))
  <2>1. r \notin Bad
    <3> HIDE DEF Bad, r
    <3> QED  BY <1>2, <1>5
  <2> HIDE DEF Sel
  <2> QED  BY <2>1, <1>5
<1>8. Net(fl, Sel(t)) = d + Net(fl, Sel(r))
  <2>1. CASE fl[seq[m].id].contract = c
    <3>1. seq[m].id \in Sel(t) /\ Sel(t) \ {seq[m].id} = Sel(r)
      <4> HIDE DEF m
      <4> QED  BY <1>5, <2>1
    <3>2. Sel(t) \in SUBSET Nat /\ IsFiniteSet(Sel(t)) /\ \A j \in Sel(t) : fl[j].delta \in Int
      <4>1. t \in SUBSET S
        OBVIOUS
      <4> HIDE DEF Sel, S
      <4> QED  BY <1>3, <4>1
    <3> HIDE DEF Sel, m
    <3>3. \A x \in Sel(t) : Net(fl, Sel(t)) = fl[x].delta + Net(fl, Sel(t) \ {x})
      BY <3>2, NetAdds
    <3> QED  BY <2>1, <3>1, <3>3
  <2>2. CASE fl[seq[m].id].contract # c
    <3>1. Sel(t) = Sel(r)
      <4> HIDE DEF m
      <4> QED  BY <1>5, <2>2
    <3>2. Net(fl, Sel(r)) \in Int
      <4> HIDE DEF Sel, m
      <4> QED  BY <1>3, <1>5, NetAdds
    <3> HIDE DEF Sel, m
    <3> QED  BY <2>2, <3>1, <3>2
  <2> QED  BY <2>1, <2>2
<1>9. g[t] # Net(fl, Sel(t))
  OBVIOUS
<1> QED
  <2> HIDE DEF Sel, m, r, d
  <2> QED  BY <1>6, <1>7, <1>8, <1>9

\* The ranks of a set of numbers number it, in order.
LEMMA Ranks ==
  ASSUME NEW N \in Nat, NEW S \in SUBSET (1..N)
  PROVE  LET n == Cardinality(S)
         IN  /\ n \in Nat
             /\ \A k \in 1..n : Kth(S, k) \in S
             /\ \A k, m \in 1..n : k < m <=> Kth(S, k) < Kth(S, m)
             /\ \A i \in S : \E k \in 1..n : Kth(S, k) = i
<1> DEFINE n == Cardinality(S)
           UpTo(i) == {j \in S : j <= i}
           rank == [i \in S |-> Cardinality(UpTo(i))]
<1>1. IsFiniteSet(S) /\ n \in Nat /\ S \in SUBSET Nat
  BY UpToIsFinite
<1>a. \A i \in S : i \in Int
  BY <1>1
<1>2. ASSUME NEW i \in S
      PROVE  IsFiniteSet(UpTo(i)) /\ Cardinality(UpTo(i)) \in 1..n
  <2>1. UpTo(i) \in SUBSET S /\ UpTo(i) # {}
    BY <1>1
  <2> HIDE DEF UpTo
  <2> QED  BY <1>1, <2>1, FS_Subset, FS_CardinalityType, FS_EmptySet
<1>3. ASSUME NEW i \in S, NEW j \in S, i < j
      PROVE  rank[i] < rank[j]
  <2>1. UpTo(i) \in SUBSET UpTo(j) /\ UpTo(i) # UpTo(j)
    <3>1. i \in Int /\ j \in Int /\ ~(j <= i) /\ j <= j
      BY <1>a, <1>3
    <3>2. \A m \in S : m <= i => m <= j
      BY <1>a, <1>3, <3>1
    <3> QED  BY <3>1, <3>2
  <2> HIDE DEF UpTo
  <2>2. Cardinality(UpTo(i)) <= Cardinality(UpTo(j)) /\ Cardinality(UpTo(i)) # Cardinality(UpTo(j))
    BY <1>2, <2>1, FS_Subset
  <2> QED  BY <1>2, <2>2
<1>4. rank \in Surjection(S, 1..n)
  <2>1. rank \in [S -> 1..n]
    <3> HIDE DEF UpTo, n
    <3> QED  BY <1>2
  <2>2. \A i, j \in S : rank[i] = rank[j] => i = j
    <3> HIDE DEF rank, n
    <3>1. \A i, j \in S : i < j \/ j < i \/ i = j
      BY <1>1
    <3>2. \A i \in S : rank[i] \in Int
      BY <2>1
    <3> QED  BY <1>3, <3>1, <3>2
  <2>3. rank \in Injection(S, 1..n)
    <3> HIDE DEF rank, n
    <3> QED  BY <2>1, <2>2 DEF Injection, IsInjective
  <2>4. IsFiniteSet(1..n) /\ Cardinality(1..n) = n
    <3>1. 1 \in Int /\ n \in Int
      BY <1>1
    <3> HIDE DEF n
    <3> QED  BY <1>1, <3>1, FS_Interval
  <2> HIDE DEF rank
  <2> QED  BY <2>3, <2>4, FS_Injection
<1>5. ASSUME NEW k \in 1..n
      PROVE  Kth(S, k) \in S /\ rank[Kth(S, k)] = k
  <2>1. PICK i \in S : rank[i] = k
    <3> HIDE DEF rank, n
    <3> QED  BY <1>4 DEF Surjection
  <2>2. \A j \in S : rank[j] = Cardinality(UpTo(j))
    OBVIOUS
  <2>3. Kth(S, k) = CHOOSE j \in S : Cardinality(UpTo(j)) = k
    BY DEF Kth
  <2> HIDE DEF rank, UpTo, n
  <2> QED  BY <2>1, <2>2, <2>3
<1>6. ASSUME NEW k \in 1..n, NEW m \in 1..n
      PROVE  k < m <=> Kth(S, k) < Kth(S, m)
  <2>1. Kth(S, k) \in S /\ Kth(S, m) \in S /\ Kth(S, k) \in Int /\ Kth(S, m) \in Int
    BY <1>a, <1>5
  <2>2. rank[Kth(S, k)] = k /\ rank[Kth(S, m)] = m
    BY <1>5
  <2>3. k \in Int /\ m \in Int
    OBVIOUS
  <2> HIDE DEF rank, n
  <2>4. Kth(S, k) < Kth(S, m) => k < m
    BY <1>3, <2>1, <2>2
  <2>5. Kth(S, m) < Kth(S, k) => m < k
    BY <1>3, <2>1, <2>2
  <2>6. Kth(S, m) = Kth(S, k) => m = k
    BY <2>2
  <2> QED  BY <2>1, <2>3, <2>4, <2>5, <2>6
<1>7. ASSUME NEW i \in S
      PROVE  \E k \in 1..n : Kth(S, k) = i
  <2>1. rank[i] \in 1..n
    <3> HIDE DEF rank, n
    <3> QED  BY <1>4 DEF Surjection
  <2> DEFINE j == Kth(S, rank[i])
  <2>2. j \in S /\ rank[j] = rank[i]
    <3> HIDE DEF rank, n
    <3> QED  BY <1>5, <2>1
  <2>3. j = i
    <3> HIDE DEF rank, n, j
    <3>1. i < j \/ j < i \/ j = i
      <4>1. j \in Int /\ i \in Int
        BY <1>a, <2>2
      <4> QED  BY <4>1
    <3>2. rank[i] \in Int
      BY <2>1
    <3> QED  BY <1>3, <2>2, <3>1, <3>2
  <2> QED  BY <2>1, <2>3
<1> QED
  <2> HIDE DEF n
  <2> QED  BY <1>1, <1>5, <1>6, <1>7 DEF n

\* The sorted fills are all the fills, each once, in the order of their ids.
LEMMA Sorted ==
  ASSUME NEW events, NEW N \in Nat, {r.id : r \in events} \in SUBSET (1..N)
  PROVE  LET S == {r.id : r \in events}
             n == Cardinality(S)
             ev == Deduplicated(events)
         IN  /\ n \in Nat
             /\ DOMAIN ev = 1..n
             /\ ev \in Seq([id : S, kind : {"fill"}]) /\ Len(ev) = n
             /\ \A k \in 1..n : ev[k].id \in S
             /\ \A k, m \in 1..n : k < m <=> ev[k].id < ev[m].id
             /\ \A i \in S : \E k \in 1..n : ev[k].id = i
<1> DEFINE S == {r.id : r \in events}
           n == Cardinality(S)
           ev == Deduplicated(events)
<1>1. /\ n \in Nat
      /\ \A k \in 1..n : Kth(S, k) \in S
      /\ \A k, m \in 1..n : k < m <=> Kth(S, k) < Kth(S, m)
      /\ \A i \in S : \E k \in 1..n : Kth(S, k) = i
  <2> HIDE DEF S
  <2> QED  BY Ranks DEF S
<1>2. ev = [k \in 1..n |-> [id |-> Kth(S, k), kind |-> "fill"]]
  BY DEF Deduplicated
<1>3. DOMAIN ev = 1..n /\ \A k \in 1..n : ev[k].id = Kth(S, k)
  <2> HIDE DEF S, n, ev
  <2> QED  BY <1>2
<1>4. ev \in Seq([id : S, kind : {"fill"}]) /\ Len(ev) = n
  <2> HIDE DEF S, n, ev
  <2> QED  BY <1>1, <1>2
<1>5. /\ \A k \in 1..n : ev[k].id \in S
      /\ \A k, m \in 1..n : k < m <=> ev[k].id < ev[m].id
      /\ \A i \in S : \E k \in 1..n : ev[k].id = i
  <2> HIDE DEF S, n, ev
  <2> QED  BY <1>1, <1>3
<1> QED
  <2> HIDE DEF S, n, ev
  <2> QED  BY <1>1, <1>3, <1>4, <1>5 DEF S, n, ev

-----------------------------------------------------------------------------
(* Fills: what is held, and the canonical count *)

\* A fill adds or takes away something.
LEMMA FillType ==
  ASSUME FillsTypeOK
  PROVE  /\ Len(fills) \in Nat /\ Ids \in SUBSET Nat
         /\ \A i \in Ids : /\ fills[i].contract \in Contracts
                          /\ fills[i].delta \in Int /\ fills[i].delta # 0
<1>1. \A d \in Deltas : d \in Int /\ d # 0
  BY BoundsAssumption DEF Deltas
<1>2. \A i \in Ids : fills[i] \in Fill
  BY DEF FillsTypeOK, Ids
<1>3. Len(fills) \in Nat /\ Ids \in SUBSET Nat
  BY DEF FillsTypeOK, Ids
<1> QED  BY <1>1, <1>2, <1>3 DEF Fill

\* Held and Trips of Fills, as functions of the history of fills.
HeldIn(fl, ids, c, i) == Net(fl, {j \in ids : j <= i /\ fl[j].contract = c})

TripsIn(fl, ids) ==
    {i \in ids : LET c == fl[i].contract
                     before == HeldIn(fl, ids, c, i - 1)
                     after == HeldIn(fl, ids, c, i)
                 IN  before # 0 /\ Sign(after) \in {0, -Sign(before)}}

LEMMA TripsAreIn ==
  ASSUME NEW ids
  PROVE  Trips(ids) = TripsIn(fills, ids)
<1>1. \A c, i : Held(ids, c, i) = HeldIn(fills, ids, c, i)
  BY DEF Held, HeldIn, Net
<1> QED  BY <1>1 DEF Trips, TripsIn

LEMMA HeldIsNet ==
  ASSUME NEW ids, NEW c, NEW i
  PROVE  Held(ids, c, i) = Net(fills, {j \in ids : j <= i /\ fills[j].contract = c})
BY DEF Held, Net

\* Each fill changes the position held in its own contract, by what it is.
LEMMA HeldSteps ==
  ASSUME FillsTypeOK, NEW ids \in SUBSET Ids, NEW c, NEW i \in Nat
  PROVE  /\ Held(ids, c, i) \in Int
         /\ i = 0 => Held(ids, c, i) = 0
         /\ i # 0 => Held(ids, c, i) = Held(ids, c, i - 1)
              + IF i \in ids /\ fills[i].contract = c THEN fills[i].delta ELSE 0
<1> DEFINE Sel(n) == {j \in ids : j <= n /\ fills[j].contract = c}
<1>1. \A n \in Int : Held(ids, c, n) = Net(fills, Sel(n))
  BY HeldIsNet
<1>2. ASSUME NEW n \in Int
      PROVE  /\ Sel(n) \in SUBSET Nat /\ IsFiniteSet(Sel(n))
             /\ \A j \in Sel(n) : fills[j].delta \in Int
  <2>1. Sel(n) \in SUBSET (1..Len(fills)) /\ Len(fills) \in Nat
    BY FillType DEF Ids
  <2>2. \A j \in Sel(n) : fills[j].delta \in Int
    BY FillType
  <2> HIDE DEF Sel
  <2> QED  BY <2>1, <2>2, UpToIsFinite
<1>3. \A n \in Int : /\ Held(ids, c, n) \in Int
                     /\ Sel(n) = {} => Held(ids, c, n) = 0
                     /\ \A j \in Sel(n) : Held(ids, c, n) = fills[j].delta + Net(fills, Sel(n) \ {j})
  <2> HIDE DEF Sel
  <2> QED  BY <1>1, <1>2, NetAdds
<1>5. \A j \in ids : j \in Int /\ j >= 1
  BY FillType DEF Ids
<1>4. i = 0 => Sel(i) = {}
  BY <1>5
<1>6. ASSUME i # 0, i \in ids, fills[i].contract = c
      PROVE  Held(ids, c, i) = Held(ids, c, i - 1) + fills[i].delta
  <2>1. i \in Sel(i) /\ Sel(i) \ {i} = Sel(i - 1) /\ i \in Int /\ i - 1 \in Int
    <3>1. \A j \in ids : j <= i - 1 <=> j <= i /\ j # i
      BY <1>5
    <3>2. i <= i /\ i \in Int /\ i - 1 \in Int
      OBVIOUS
    <3> QED  BY <1>6, <3>1, <3>2, Zenon
  <2>2. Held(ids, c, i) = fills[i].delta + Held(ids, c, i - 1)
    <3> HIDE DEF Sel
    <3> QED  BY <1>1, <1>3, <2>1
  <2>3. fills[i].delta \in Int /\ Held(ids, c, i - 1) \in Int
    BY <1>3, <1>6, <2>1, FillType
  <2> QED  BY <2>2, <2>3
<1>7. ASSUME i # 0, ~(i \in ids /\ fills[i].contract = c)
      PROVE  Held(ids, c, i) = Held(ids, c, i - 1)
  <2>1. Sel(i) = Sel(i - 1) /\ i \in Int /\ i - 1 \in Int
    <3>1. \A j \in ids : j <= i - 1 <=> j <= i /\ j # i
      BY <1>5
    <3>2. i \in Int /\ i - 1 \in Int
      OBVIOUS
    <3> QED  BY <1>7, <3>1, <3>2
  <2> HIDE DEF Sel
  <2> QED  BY <1>1, <2>1
<1>8. i \in Int /\ i - 1 \in Int
  OBVIOUS
<1>9. Held(ids, c, i) \in Int /\ Held(ids, c, i - 1) \in Int /\ (i = 0 => Held(ids, c, i) = 0)
  BY <1>3, <1>4, <1>8
<1> QED  BY <1>6, <1>7, <1>9

\* What classifyFill calls the end of a trade is one: the position that was held is
\* gone or on the other side.
LEMMA CompletesIsTrip ==
  ASSUME NEW b \in Int, NEW d \in Int, d # 0
  PROVE  Completes(b, d) <=> b # 0 /\ Sign(b + d) \in {0, -Sign(b)}
<1>1. CASE b = 0
  BY <1>1 DEF Completes, ClassifyFill, Sign, Magnitude
<1>2. CASE b > 0 /\ b + d > 0
  BY <1>2 DEF Completes, ClassifyFill, Sign, Magnitude
<1>3. CASE b > 0 /\ b + d < 0
  BY <1>3 DEF Completes, ClassifyFill, Sign, Magnitude
<1>4. CASE b # 0 /\ b + d = 0
  BY <1>4 DEF Completes, ClassifyFill, Sign, Magnitude
<1>5. CASE b < 0 /\ b + d > 0
  <2>1. Sign(b) = -1 /\ Sign(b + d) = 1 /\ b # 0 /\ b + d # 0
    BY <1>5 DEF Sign
  <2>2. Completes(b, d)
    BY <2>1 DEF Completes, ClassifyFill
  <2>3. \A x \in Int : x = -1 => 0 - x = 1
    OBVIOUS
  <2>4. \A x \in Int : -x = 0 - x
    OBVIOUS
  <2>5. Sign(b + d) = -Sign(b)
    <3>1. Sign(b) \in Int
      BY <2>1
    <3> QED  BY <2>1, <2>3, <2>4, <3>1, Zenon
  <2> QED  BY <2>1, <2>2, <2>5
<1>6. CASE b < 0 /\ b + d < 0
  <2>1. Sign(b) = -1 /\ Sign(b + d) = -1 /\ b # 0 /\ b + d # 0
    BY <1>6 DEF Sign
  <2>2. ~Completes(b, d)
    BY <2>1 DEF Completes, ClassifyFill
  <2> QED  BY <2>1, <2>2
<1>7. \/ b = 0
      \/ b > 0 /\ b + d > 0
      \/ b > 0 /\ b + d < 0
      \/ b # 0 /\ b + d = 0
      \/ b < 0 /\ b + d > 0
      \/ b < 0 /\ b + d < 0
  OBVIOUS
<1> QED  BY <1>1, <1>2, <1>3, <1>4, <1>5, <1>6, <1>7, Zenon

\* The walk meets at each fill what the earlier fills stored left in its contract.
LEMMA PositionIsHeld ==
  ASSUME FillsTypeOK, Stored \subseteq Ids,
         NEW k \in 1..Cardinality(Stored)
  PROVE  LET i == Deduplicated(rows)[k].id
         IN  Position(Deduplicated(rows), k) = Held(Stored, fills[i].contract, i - 1)
<1> DEFINE S == {r.id : r \in rows}
           n == Cardinality(S)
           ev == Deduplicated(rows)
           i == ev[k].id
           c == fills[i].contract
           seq == SubSeq(ev, 1, k - 1)
<1>1. S = Stored /\ S \in SUBSET (1..Len(fills)) /\ Len(fills) \in Nat /\ k \in 1..n
  BY FillType DEF Stored, Ids
<1>2. /\ n \in Nat
      /\ DOMAIN ev = 1..n
      /\ ev \in Seq([id : S, kind : {"fill"}]) /\ Len(ev) = n
      /\ \A a \in 1..n : ev[a].id \in S
      /\ \A a, b \in 1..n : a < b <=> ev[a].id < ev[b].id
      /\ \A x \in S : \E a \in 1..n : ev[a].id = x
  <2> HIDE DEF S, n, ev
  <2> QED  BY <1>1, Sorted DEF S, n, ev
<1>3. \A a \in 1..n : ev[a].id \in S
  BY <1>2
<1>4. Position(ev, k) = Walk(fills, c, seq)
  BY DEF Position, Walk
<1>5. /\ k - 1 \in Nat /\ DOMAIN seq = 1..(k - 1)
      /\ \A a \in 1..(k - 1) : seq[a] = ev[a] /\ a \in 1..n
  <2>1. k \in 1..n /\ n \in Nat
    BY <1>1, <1>2
  <2> HIDE DEF S, n, ev
  <2> QED  BY <1>2, <2>1
<1>6. /\ \A a \in 1..(k - 1) : seq[a].id \in 1..Len(fills) /\ fills[seq[a].id].delta \in Int
      /\ \A a, b \in 1..(k - 1) : seq[a].id = seq[b].id => a = b
  <2>1. \A a \in 1..(k - 1) : seq[a].id \in 1..Len(fills) /\ fills[seq[a].id].delta \in Int
    <3> HIDE DEF S, n, ev, seq
    <3> QED  BY <1>1, <1>3, <1>5, FillType DEF Ids
  <2>2. ASSUME NEW a \in 1..(k - 1), NEW b \in 1..(k - 1), seq[a].id = seq[b].id
        PROVE  a = b
    <3>1. a \in 1..n /\ b \in 1..n /\ ev[a].id = ev[b].id
      BY <1>5, <2>2
    <3>2. ev[a].id \in Int
      <4> HIDE DEF S, n, ev
      <4>1. ev[a].id \in S
        BY <1>3, <3>1, Zenon
      <4>2. S \subseteq Int
        BY <1>1
      <4> QED  BY <4>1, <4>2, Zenon
    <3> HIDE DEF S, n, ev, seq
    <3> QED  BY <1>2, <3>1, <3>2
  <2> QED  BY <2>1, <2>2
<1> DEFINE Before == {seq[a].id : a \in {m \in 1..(k - 1) : fills[seq[m].id].contract = c}}
<1>7. Walk(fills, c, seq) = Net(fills, Before)
  <2> DEFINE q == k - 1
  <2>1. q \in Nat /\ DOMAIN seq = 1..q /\ Len(fills) \in Nat
    BY <1>1, <1>5
  <2>2. /\ \A a \in 1..q : seq[a].id \in 1..Len(fills) /\ fills[seq[a].id].delta \in Int
        /\ \A a, b \in 1..q : seq[a].id = seq[b].id => a = b
    BY <1>6
  <2>3. Before = Among(fills, c, seq, 1..q)
    BY DEF Among
  <2> HIDE DEF S, n, ev, seq, c, q, Before
  <2>4. Lists(fills, seq, q, Len(fills))
    BY <2>1, <2>2 DEF Lists
  <2>5. Walk(fills, c, seq) = Net(fills, Among(fills, c, seq, 1..q))
    BY <2>4, WalkIsNet
  <2> QED  BY <2>3, <2>5
<1>8. Before = {j \in Stored : j <= i - 1 /\ fills[j].contract = c}
  <2>1. ASSUME NEW a \in 1..(k - 1)
        PROVE  seq[a].id \in Stored /\ seq[a].id <= i - 1
    <3>1. a \in 1..n /\ k \in 1..n /\ a < k
      BY <1>1, <1>5
    <3>2. ev[a].id < ev[k].id /\ ev[a].id \in S /\ ev[k].id \in S /\ seq[a].id = ev[a].id
      <4> HIDE DEF S, n, ev
      <4> QED  BY <1>2, <1>3, <1>5, <3>1
    <3>3. \A x \in S : x \in Int
      BY <1>1
    <3>4. ev[a].id \in Int /\ ev[k].id \in Int
      <4> HIDE DEF S, n, ev
      <4> QED  BY <3>2, <3>3, Zenon
    <3>5. ev[a].id <= ev[k].id - 1
      BY <3>2, <3>4
    <3> QED  BY <1>1, <3>2, <3>5, Zenon
  <2>2. ASSUME NEW j \in Stored, j <= i - 1
        PROVE  \E a \in 1..(k - 1) : seq[a].id = j
    <3>1. PICK a \in 1..n : ev[a].id = j
      <4> HIDE DEF S, n, ev
      <4> QED  BY <1>1, <1>2
    <3>2. \A x \in S : x \in Int
      BY <1>1
    <3>3. ev[k].id \in S /\ k \in 1..n
      <4> HIDE DEF S, n, ev
      <4> QED  BY <1>1, <1>3
    <3>4. ev[a].id < ev[k].id
      <4>1. ev[k].id \in Int /\ j \in Int
        <5> HIDE DEF S, n, ev
        <5> QED  BY <1>1, <3>2, <3>3, Zenon
      <4>2. j < ev[k].id
        BY <2>2, <4>1
      <4> QED  BY <3>1, <4>2, Zenon
    <3>5. a < k
      <4> HIDE DEF S, n, ev
      <4> QED  BY <1>2, <3>3, <3>4
    <3>6. a \in 1..(k - 1)
      <4> HIDE DEF S, ev
      <4> QED  BY <1>2, <3>3, <3>5
    <3> HIDE DEF S, n, ev, seq
    <3> QED  BY <1>5, <3>1, <3>6
  <2> HIDE DEF seq, i, c
  <2> QED  BY <2>1, <2>2
<1> QED  BY <1>4, <1>7, <1>8, HeldIsNet

\* Fills and their places in the sorted sequence are equally many.
LEMMA SameNumber ==
  ASSUME FillsTypeOK, Stored \subseteq Ids,
         NEW C \in SUBSET DOMAIN Deduplicated(rows), NEW T \in SUBSET Stored,
         \A k \in DOMAIN Deduplicated(rows) : k \in C <=> Deduplicated(rows)[k].id \in T
  PROVE  Cardinality(T) = Cardinality(C) /\ Cardinality(C) \in Nat
<1> DEFINE S == {r.id : r \in rows}
           n == Cardinality(S)
           ev == Deduplicated(rows)
           id == [k \in C |-> ev[k].id]
<1>1. S = Stored /\ S \in SUBSET (1..Len(fills)) /\ Len(fills) \in Nat
  BY FillType DEF Stored, Ids
<1>2. /\ n \in Nat
      /\ DOMAIN ev = 1..n
      /\ \A a \in 1..n : ev[a].id \in S
      /\ \A a, b \in 1..n : a < b <=> ev[a].id < ev[b].id
      /\ \A x \in S : \E a \in 1..n : ev[a].id = x
  <2> HIDE DEF S, n, ev
  <2> QED  BY <1>1, Sorted DEF S, n, ev
<1>3. \A i \in S : i \in Nat
  <2> HIDE DEF S
  <2> QED  BY <1>1
<1>4. C \in SUBSET (1..n) /\ T \in SUBSET S
  BY <1>1, <1>2
<1>5. \A k \in 1..n : k \in C <=> ev[k].id \in T
  BY <1>2
<1>6. id \in Bijection(C, T)
  <2>1. id \in [C -> T]
    <3> HIDE DEF S, n, ev
    <3> QED  BY <1>4, <1>5
  <2>2. ASSUME NEW a \in C, NEW b \in C, id[a] = id[b]
        PROVE  a = b
    <3>1. a \in 1..n /\ b \in 1..n /\ ev[a].id = ev[b].id /\ ev[a].id \in Nat
      <4>1. a \in 1..n /\ b \in 1..n /\ ev[a].id = ev[b].id
        <5> HIDE DEF S, n, ev
        <5> QED  BY <1>4, <2>2
      <4> HIDE DEF S, n, ev
      <4> QED  BY <1>2, <1>3, <4>1
    <3> HIDE DEF S, n, ev, id
    <3> QED  BY <1>2, <3>1
  <2>3. ASSUME NEW i \in T
        PROVE  \E k \in C : id[k] = i
    <3> HIDE DEF S, n, ev
    <3>1. PICK k \in 1..n : ev[k].id = i
      BY <1>2, <1>4
    <3>2. k \in C
      BY <1>5, <3>1
    <3> QED  BY <3>1, <3>2
  <2> HIDE DEF id
  <2> QED  BY <2>1, <2>2, <2>3 DEF Bijection, Injection, Surjection, IsInjective
<1>7. IsFiniteSet(C) /\ Cardinality(C) \in Nat
  <2> HIDE DEF n, S
  <2> QED  BY <1>2, <1>4, UpToIsFinite
<1>8. ExistsBijection(C, T)
  <2> HIDE DEF id
  <2> QED  BY <1>6 DEF ExistsBijection
<1> QED  BY <1>7, <1>8, FS_Bijection

\* What the k-th of the sorted fills finds and does.
LEMMA KthFill ==
  ASSUME FillsTypeOK, Stored \subseteq Ids, NEW k \in DOMAIN Deduplicated(rows)
  PROVE  LET i == Deduplicated(rows)[k].id
         IN  /\ i \in Stored
             /\ Position(Deduplicated(rows), k) = Held(Stored, fills[i].contract, i - 1)
<1> DEFINE S == {r.id : r \in rows}
           n == Cardinality(S)
           ev == Deduplicated(rows)
<1>1. S = Stored /\ S \in SUBSET (1..Len(fills)) /\ Len(fills) \in Nat
  BY FillType DEF Stored, Ids
<1>2. DOMAIN ev = 1..n /\ \A a \in 1..n : ev[a].id \in S
  <2> HIDE DEF S, n, ev
  <2> QED  BY <1>1, Sorted DEF S, n, ev
<1>3. ev[k].id \in Stored
  BY <1>1, <1>2
<1>4. k \in 1..Cardinality(Stored)
  BY <1>1, <1>2
<1> HIDE DEF S, n
<1> QED  BY <1>3, <1>4, PositionIsHeld

\* What a fill among `ids' finds and does.
LEMMA StoredFill ==
  ASSUME FillsTypeOK, NEW ids \in SUBSET Ids, NEW i \in ids
  PROVE  LET c == fills[i].contract
             before == Held(ids, c, i - 1)
             delta == fills[i].delta
         IN  /\ i \in Nat /\ i # 0 /\ i - 1 \in Nat
             /\ c \in Contracts /\ before \in Int /\ delta \in Int /\ delta # 0
             /\ Held(ids, c, i) = before + delta
             /\ i \in Trips(ids) <=> Completes(before, delta)
<1> DEFINE c == fills[i].contract
           b == Held(ids, c, i - 1)
           d == fills[i].delta
<1>1. i \in Nat /\ i # 0 /\ i - 1 \in Nat /\ c \in Contracts /\ d \in Int /\ d # 0
  BY FillType DEF Ids
<1>2. b \in Int
  BY <1>1, HeldSteps
<1>3. Held(ids, c, i) = b + d
  <2> HIDE DEF b
  <2> QED  BY <1>1, HeldSteps DEF b
<1>4. i \in Trips(ids) <=> b # 0 /\ Sign(Held(ids, c, i)) \in {0, -Sign(b)}
  BY <1>1 DEF Trips
<1> HIDE DEF b, c, d
<1>5. i \in Trips(ids) <=> Completes(b, d)
  BY <1>1, <1>2, <1>3, <1>4, CompletesIsTrip
<1> QED  BY <1>1, <1>2, <1>3, <1>5 DEF b, c, d

\* The canonical count is the number of trades the stored fills complete.
LEMMA CountIsTrips ==
  ASSUME FillsTypeOK, Stored \subseteq Ids
  PROVE  CanonicalCount = Cardinality(Trips(Stored)) /\ CanonicalCount \in Nat
<1> DEFINE ev == Deduplicated(rows)
           C == CompletedAt(ev)
           T == Trips(Stored)
<1>1. C \in SUBSET DOMAIN ev /\ T \in SUBSET Stored
  BY DEF CompletedAt, Trips
<1>2. \A k \in DOMAIN ev : k \in C <=> ev[k].id \in T
  <2> TAKE k \in DOMAIN ev
  <2> DEFINE i == ev[k].id
             b == Held(Stored, fills[i].contract, i - 1)
  <2>1. i \in Stored /\ Position(ev, k) = b
    BY KthFill
  <2>2. k \in C <=> Completes(Position(ev, k), fills[i].delta)
    BY DEF CompletedAt
  <2>3. i \in T <=> Completes(b, fills[i].delta)
    <3> HIDE DEF i
    <3> QED  BY <2>1, StoredFill
  <2> HIDE DEF C, T, ev, b
  <2> QED  BY <2>1, <2>2, <2>3
<1>3. CanonicalCount = Cardinality(C)
  BY DEF CanonicalCount, Completed
<1>4. Cardinality(T) = Cardinality(C) /\ Cardinality(C) \in Nat
  <2> HIDE DEF C, T
  <2> QED  BY <1>1, <1>2, SameNumber
<1> QED  BY <1>3, <1>4

\* Counting without one of a set, or without another.
LEMMA WithoutOne ==
  ASSUME NEW S, IsFiniteSet(S), NEW x
  PROVE  /\ x \in S => Cardinality(S \ {x}) = Cardinality(S) - 1
         /\ x \notin S => Cardinality(S \ {x}) = Cardinality(S)
  BY FS_RemoveElement

\* What deriveCanonicalEntryCount counts.
Opens(position, delta) == ClassifyFill(position, delta) \in {"entry", "reversal"}

\* A fill from flat only opens, one to flat only completes, any other does both or
\* neither.
LEMMA OpensOrCompletes ==
  ASSUME NEW b \in Int, NEW d \in Int, d # 0
  PROVE  /\ b = 0 => Opens(b, d) /\ ~Completes(b, d) /\ b + d # 0
         /\ b # 0 /\ b + d = 0 => ~Opens(b, d) /\ Completes(b, d)
         /\ b # 0 /\ b + d # 0 => (Opens(b, d) <=> Completes(b, d))
<1>1. CASE b = 0
  BY <1>1 DEF Opens, Completes, ClassifyFill
<1>2. CASE b # 0 /\ b + d = 0
  <2>1. Sign(b + d) = 0 /\ Sign(b) # 0
    BY <1>2 DEF Sign
  <2> QED  BY <1>2, <2>1 DEF Opens, Completes, ClassifyFill
<1>3. CASE b # 0 /\ b + d # 0
  BY <1>3 DEF Opens, Completes, ClassifyFill
<1> QED  BY <1>1, <1>2, <1>3

\* Every entry is closed by a trade or still open.
LEMMA EntriesAreTripsOrOpen ==
  ASSUME FillsTypeOK, Stored \subseteq Ids
  PROVE  Entries(Deduplicated(rows))
           = CanonicalCount + Cardinality({c \in Contracts : Held(Stored, c, MaxFills) # 0})
<1> DEFINE ev == Deduplicated(rows)
           Before(i) == Held(Stored, fills[i].contract, i - 1)
           E == {k \in DOMAIN ev : Opens(Position(ev, k), fills[ev[k].id].delta)}
           D == {i \in Stored : Opens(Before(i), fills[i].delta)}
           T == Trips(Stored)
           Entered(n) == {i \in D : i <= n}
           Closed(n) == {i \in T : i <= n}
           Open(n) == {c \in Contracts : Held(Stored, c, n) # 0}
           Balanced(n) == /\ IsFiniteSet(Open(n))
                          /\ Cardinality(Entered(n)) = Cardinality(Closed(n)) + Cardinality(Open(n))
<1>1. Stored \in SUBSET (1..Len(fills)) /\ Len(fills) \in Nat /\ Len(fills) <= MaxFills /\ MaxFills \in Nat
  BY FillType, BoundsAssumption DEF FillsTypeOK, Ids
<1>2. Cardinality(D) = Entries(ev)
  <2>1. E \in SUBSET DOMAIN ev /\ D \in SUBSET Stored
    OBVIOUS
  <2>2. \A k \in DOMAIN ev : k \in E <=> ev[k].id \in D
    <3> TAKE k \in DOMAIN ev
    <3>1. ev[k].id \in Stored /\ Position(ev, k) = Before(ev[k].id)
      BY KthFill
    <3> HIDE DEF ev, Before
    <3> QED  BY <3>1
  <2>3. Entries(ev) = Cardinality(E)
    BY DEF Entries, Opens
  <2> HIDE DEF E, D
  <2> QED  BY <2>1, <2>2, <2>3, SameNumber
<1>3. \A n \in Nat : /\ IsFiniteSet(Entered(n)) /\ Cardinality(Entered(n)) \in Nat
                     /\ IsFiniteSet(Closed(n)) /\ Cardinality(Closed(n)) \in Nat
  <2> TAKE n \in Nat
  <2>1. Entered(n) \in SUBSET (1..Len(fills)) /\ Closed(n) \in SUBSET (1..Len(fills))
    BY <1>1 DEF Trips
  <2> HIDE DEF Entered, Closed
  <2> QED  BY <1>1, <2>1, UpToIsFinite
<1>4. Balanced(0)
  <2>1. Entered(0) = {} /\ Closed(0) = {}
    <3>1. \A i \in Stored : ~(i <= 0)
      BY <1>1
    <3>2. D \subseteq Stored /\ T \subseteq Stored
      BY DEF Trips
    <3> HIDE DEF D, T
    <3> QED  BY <3>1, <3>2
  <2>2. Open(0) = {}
    BY HeldSteps
  <2> HIDE DEF Entered, Closed, Open
  <2> QED  BY <2>1, <2>2, FS_EmptySet
<1>5. ASSUME NEW n \in Nat, n # 0, Balanced(n - 1)
      PROVE  Balanced(n)
  <2>0. n - 1 \in Nat /\ Stored \in SUBSET Ids
    BY <1>5
  <2>1. CASE n \notin Stored
    <3>1. \A c : Held(Stored, c, n) = Held(Stored, c, n - 1)
      BY <1>5, <2>0, <2>1, HeldSteps
    <3>2. \A i \in Stored : i <= n <=> i <= n - 1
      BY <1>1, <2>1
    <3>3. Entered(n) = Entered(n - 1) /\ Closed(n) = Closed(n - 1) /\ Open(n) = Open(n - 1)
      BY <3>1, <3>2 DEF Trips
    <3> HIDE DEF Entered, Closed, Open
    <3> QED  BY <1>5, <3>3
  <2>2. CASE n \in Stored
    <3> DEFINE c == fills[n].contract
               b == Held(Stored, c, n - 1)
               d == fills[n].delta
    <3>1. /\ c \in Contracts /\ b \in Int /\ d \in Int /\ d # 0
          /\ Held(Stored, c, n) = b + d
          /\ n \in T <=> Completes(b, d)
      BY <2>0, <2>2, StoredFill
    <3>2. n \in D <=> Opens(b, d)
      BY <2>2
    <3>3. \A e : e # c => Held(Stored, e, n) = Held(Stored, e, n - 1)
      BY <1>5, <2>0, HeldSteps
    <3>4. \A i \in Stored : i <= n - 1 <=> i <= n /\ i # n
      BY <1>1
    <3>5. /\ Entered(n - 1) = Entered(n) \ {n} /\ Closed(n - 1) = Closed(n) \ {n}
          /\ n \in Entered(n) <=> Opens(b, d)
          /\ n \in Closed(n) <=> Completes(b, d)
      <4>1. D \subseteq Stored /\ T \subseteq Stored /\ n <= n
        BY DEF Trips
      <4> HIDE DEF D, T, b, d
      <4> QED  BY <3>1, <3>2, <3>4, <4>1
    <3>6. /\ Open(n) = IF b + d # 0 THEN Open(n - 1) \cup {c} ELSE Open(n - 1) \ {c}
          /\ c \in Open(n - 1) <=> b # 0
      <4>1. c \in Open(n) <=> b + d # 0
        <5> HIDE DEF b, d
        <5> QED  BY <3>1
      <4>2. \A e : e # c => (e \in Open(n) <=> e \in Open(n - 1))
        BY <3>3
      <4>3. c \in Open(n - 1) <=> b # 0
        BY <3>1
      <4> HIDE DEF Open, b, c, d
      <4> QED  BY <4>1, <4>2, <4>3
    <3>7. /\ Opens(b, d) => Cardinality(Entered(n - 1)) = Cardinality(Entered(n)) - 1
          /\ ~Opens(b, d) => Cardinality(Entered(n - 1)) = Cardinality(Entered(n))
          /\ Completes(b, d) => Cardinality(Closed(n - 1)) = Cardinality(Closed(n)) - 1
          /\ ~Completes(b, d) => Cardinality(Closed(n - 1)) = Cardinality(Closed(n))
      <4>1. IsFiniteSet(Entered(n)) /\ IsFiniteSet(Closed(n))
        <5> HIDE DEF Entered, Closed
        <5> QED  BY <1>3
      <4> HIDE DEF Entered, Closed, b, d
      <4>2. Opens(b, d) => Cardinality(Entered(n) \ {n}) = Cardinality(Entered(n)) - 1
        BY <3>5, <4>1, WithoutOne, Zenon
      <4>3. ~Opens(b, d) => Cardinality(Entered(n) \ {n}) = Cardinality(Entered(n))
        BY <3>5, <4>1, WithoutOne, Zenon
      <4>4. Completes(b, d) => Cardinality(Closed(n) \ {n}) = Cardinality(Closed(n)) - 1
        BY <3>5, <4>1, WithoutOne, Zenon
      <4>5. ~Completes(b, d) => Cardinality(Closed(n) \ {n}) = Cardinality(Closed(n))
        BY <3>5, <4>1, WithoutOne, Zenon
      <4>6. Entered(n - 1) = Entered(n) \ {n} /\ Closed(n - 1) = Closed(n) \ {n}
        BY <3>5
      <4> QED  BY <4>2, <4>3, <4>4, <4>5, <4>6, Zenon
    <3>8. /\ IsFiniteSet(Open(n))
          /\ Cardinality(Open(n)) = Cardinality(Open(n - 1)) + (IF b + d # 0 THEN 1 ELSE 0)
                                                            - (IF b # 0 THEN 1 ELSE 0)
      <4>1. IsFiniteSet(Open(n - 1)) /\ Cardinality(Open(n - 1)) \in Nat
        <5> HIDE DEF Open
        <5> QED  BY <1>5, FS_CardinalityType
      <4> DEFINE old == Open(n - 1)
      <4> HIDE DEF Open, b, c, d, old
      <4>2. /\ IsFiniteSet(old \cup {c}) /\ IsFiniteSet(old \ {c})
            /\ Cardinality(old \cup {c}) = IF c \in old THEN Cardinality(old) ELSE Cardinality(old) + 1
            /\ Cardinality(old \ {c}) = IF c \in old THEN Cardinality(old) - 1 ELSE Cardinality(old)
        BY <4>1, FS_AddElement, FS_RemoveElement DEF old
      <4>3. CASE b # 0
        BY <3>1, <3>6, <4>1, <4>2, <4>3 DEF old
      <4>4. CASE b = 0
        BY <3>1, <3>6, <4>1, <4>2, <4>4 DEF old
      <4> QED  BY <4>3, <4>4
    <3>9. /\ b = 0 => Opens(b, d) /\ ~Completes(b, d) /\ b + d # 0
          /\ b # 0 /\ b + d = 0 => ~Opens(b, d) /\ Completes(b, d)
          /\ b # 0 /\ b + d # 0 => (Opens(b, d) <=> Completes(b, d))
      <4> HIDE DEF b, d
      <4> QED  BY <3>1, OpensOrCompletes
    <3>10. /\ Cardinality(Entered(n - 1)) = Cardinality(Closed(n - 1)) + Cardinality(Open(n - 1))
           /\ Cardinality(Entered(n)) \in Nat /\ Cardinality(Closed(n)) \in Nat
           /\ Cardinality(Open(n)) \in Nat /\ Cardinality(Open(n - 1)) \in Nat
      <4> HIDE DEF Entered, Closed, Open
      <4> QED  BY <1>3, <1>5, <3>8, FS_CardinalityType
    <3> HIDE DEF Entered, Closed, Open, b, d
    <3>11. CASE b = 0
      BY <3>7, <3>8, <3>9, <3>10, <3>11
    <3>12. CASE b # 0 /\ b + d = 0
      BY <3>7, <3>8, <3>9, <3>10, <3>12
    <3>13. CASE b # 0 /\ b + d # 0 /\ Opens(b, d)
      BY <3>7, <3>8, <3>9, <3>10, <3>13
    <3>14. CASE b # 0 /\ b + d # 0 /\ ~Opens(b, d)
      BY <3>7, <3>8, <3>9, <3>10, <3>14
    <3> QED  BY <3>11, <3>12, <3>13, <3>14
  <2> QED  BY <2>1, <2>2
<1>6. \A n \in Nat : Balanced(n)
  <2> DEFINE Bad == {n \in Nat : ~Balanced(n)}
  <2> HIDE DEF Balanced
  <2> SUFFICES ASSUME Bad # {}  PROVE FALSE
    OBVIOUS
  <2>1. PICK n \in Bad : \A m \in Bad : n <= m
    BY LeastNatural
  <2>2. n # 0
    BY <1>4
  <2>3. n - 1 \in Nat /\ n - 1 \notin Bad
    BY <2>1, <2>2
  <2> QED  BY <1>5, <2>2, <2>3
<1>7. Entered(MaxFills) = D /\ Closed(MaxFills) = T
  <2>1. \A i \in Stored : i <= MaxFills
    BY <1>1
  <2>2. D \subseteq Stored /\ T \subseteq Stored
    BY DEF Trips
  <2> HIDE DEF D, T
  <2> QED  BY <2>1, <2>2
<1>8. Balanced(MaxFills)
  <2> HIDE DEF Balanced
  <2> QED  BY <1>1, <1>6
<1> HIDE DEF D, T, Entered, Closed
<1> QED  BY <1>2, <1>7, <1>8, CountIsTrips DEF T

LEMMA TripsFinite ==
  ASSUME FillsTypeOK, NEW ids \in SUBSET Ids
  PROVE  IsFiniteSet(Trips(ids)) /\ Cardinality(Trips(ids)) \in Nat
<1>1. Trips(ids) \in SUBSET (1..Len(fills)) /\ Len(fills) \in Nat
  BY FillType DEF Trips, Ids
<1> QED  BY <1>1, UpToIsFinite

LEMMA OpeningsFinite ==
  ASSUME FillsTypeOK
  PROVE  Cardinality(Openings(Ids)) \in Nat
<1>1. Openings(Ids) \in SUBSET (1..Len(fills)) /\ Len(fills) \in Nat
  BY FillType DEF Openings, Ids
<1> QED  BY <1>1, UpToIsFinite

\* A fill executed later changes nothing of the trades known.
LEMMA TripsKept ==
  ASSUME FillsTypeOK, NEW c \in Contracts, NEW d \in Deltas, Trade(c, d),
         NEW ids \in SUBSET Ids
  PROVE  TripsIn(fills', ids) = TripsIn(fills, ids)
<1>1. \A j \in ids : /\ j \in Nat /\ fills'[j] = fills[j]
                     /\ fills[j].delta \in Int /\ j \in 1..Len(fills)
  <2>1. \A j \in Ids : fills'[j] = fills[j] /\ j \in 1..Len(fills) /\ j \in Nat
    BY DEF Trade, Ids, FillsTypeOK
  <2> QED  BY <2>1, FillType
<1>2. ASSUME NEW e, NEW i
      PROVE  HeldIn(fills', ids, e, i) = HeldIn(fills, ids, e, i)
  <2> DEFINE Sel == {j \in ids : j <= i /\ fills[j].contract = e}
  <2>1. Sel = {j \in ids : j <= i /\ fills'[j].contract = e}
    BY <1>1
  <2>2. Sel \in SUBSET (1..Len(fills)) /\ Len(fills) \in Nat
    BY <1>1, FillType
  <2>3. \A j \in Sel : fills[j].delta \in Int /\ fills'[j].delta = fills[j].delta
    BY <1>1
  <2>4. HeldIn(fills', ids, e, i) = Net(fills', Sel) /\ HeldIn(fills, ids, e, i) = Net(fills, Sel)
    BY <2>1 DEF HeldIn
  <2> HIDE DEF Sel
  <2>5. Net(fills', Sel) = Net(fills, Sel)
    BY <2>2, <2>3, UpToIsFinite, NetSame
  <2> QED  BY <2>4, <2>5
<1>3. \A j \in ids : fills'[j].contract = fills[j].contract
  BY <1>1
<1> QED  BY <1>2, <1>3 DEF TripsIn

\* The last of the stored fills adds at most itself to the trades, when the webhook
\* says that it completes one.
LEMMA LastFill ==
  ASSUME FillsTypeOK, NEW i \in Ids
  PROVE  /\ Trips(1..(i - 1)) = Trips(1..i) \ {i}
         /\ Stored = 1..i =>
              (i \in Trips(1..i) <=> Completes(NetPosition(i), fills[i].delta))
<1> DEFINE ids == 1..i
           old == 1..(i - 1)
           c == fills[i].contract
<1>1. /\ i \in Nat /\ i # 0 /\ i - 1 \in Nat /\ ids \in SUBSET Ids /\ i \in ids
      /\ old = ids \ {i} /\ \A j \in old : j \in Int /\ j <= i - 1
  BY FillType DEF Ids
<1>2. ASSUME NEW e, NEW n \in Int, n <= i - 1
      PROVE  Held(old, e, n) = Held(ids, e, n)
  <2>1. {j \in old : j <= n /\ fills[j].contract = e} = {j \in ids : j <= n /\ fills[j].contract = e}
    BY <1>1, <1>2
  <2> QED  BY <2>1, HeldIsNet
<1>3. \A j \in old : j \in Trips(old) <=> j \in Trips(ids)
  <2> TAKE j \in old
  <2>1. j \in Int /\ j - 1 \in Int /\ j - 1 <= i - 1 /\ j <= i - 1 /\ j \in ids
    BY <1>1
  <2> HIDE DEF ids, old
  <2> QED  BY <1>2, <2>1 DEF Trips
<1>4. Trips(old) = Trips(ids) \ {i}
  <2>1. Trips(old) \subseteq old /\ Trips(ids) \subseteq ids
    BY DEF Trips
  <2> HIDE DEF ids, old
  <2> QED  BY <1>1, <1>3, <2>1
<1>5. ASSUME Stored = ids
      PROVE  i \in Trips(ids) <=> Completes(NetPosition(i), fills[i].delta)
  <2> DEFINE b == Held(ids, c, i - 1)
             d == fills[i].delta
  <2>1. NetPosition(i) = Net(fills, {j \in Stored \ {i} : fills[j].contract = c})
    BY DEF NetPosition, Net
  <2>2. {j \in Stored \ {i} : fills[j].contract = c}
          = {j \in ids : j <= i - 1 /\ fills[j].contract = c}
    BY <1>1, <1>5
  <2>3. NetPosition(i) = b
    BY <2>1, <2>2, HeldIsNet
  <2>4. d \in Int /\ d # 0 /\ b \in Int
    BY <1>1, FillType, HeldSteps
  <2>5. Held(ids, c, i) = b + d
    <3> HIDE DEF ids
    <3> QED  BY <1>1, HeldSteps
  <2>6. i \in Trips(ids) <=> b # 0 /\ Sign(Held(ids, c, i)) \in {0, -Sign(b)}
    BY <1>1 DEF Trips
  <2> HIDE DEF ids, b, c, d
  <2>7. i \in Trips(ids) <=> Completes(b, d)
    BY <2>4, <2>5, <2>6, CompletesIsTrip
  <2> QED  BY <2>3, <2>7 DEF d
<1> QED  BY <1>4, <1>5

-----------------------------------------------------------------------------
(* The inductive invariant *)

\* The webhook's row of a fill; a request that has created it and goes on.
RowOf(i) == [id |-> i, kind |-> EventType[i]]
Holding(h) == hook[h].pc \in {"created", "judged"}

\* What is stored, delivered or fetched was executed.
Known ==
    /\ Stored \subseteq Ids
    /\ \A h \in Hooks : hook[h].pc # "idle" => hook[h].fill \in Ids
    /\ \A s \in Syncs : sync[s].seen <= Len(fills)

\* The row of a fill is what a request holds while it goes on with it.
Once ==
    /\ \A i \in applied : RowOf(i) \in rows
    /\ \A h \in Hooks : Holding(h) => RowOf(hook[h].fill) \in rows /\ hook[h].fill \notin applied
    /\ \A g, h \in Hooks : Holding(g) /\ Holding(h) /\ hook[g].fill = hook[h].fill => g = h

\* The next five are so while everything is orderly.  One process is under way.
Alone ==
    /\ \A g, h \in Hooks : hook[g].pc # "idle" /\ hook[h].pc # "idle" => g = h
    /\ \A s, t \in Syncs : sync[s].pc # "idle" /\ sync[t].pc # "idle" => s = t
    /\ \A h \in Hooks, s \in Syncs : hook[h].pc = "idle" \/ sync[s].pc = "idle"

\* No stored fill has an earlier one missing.
NoGap == \A i \in Stored : 1..i \subseteq Stored

\* What the request under way has still to add to the count.
HookExact(h) ==
    LET i == hook[h].fill
    IN  /\ hook[h].pc = "checked" => i \notin Stored /\ 1..(i - 1) \subseteq Stored
        /\ hook[h].pc = "created" =>
             Stored = 1..i /\ count = Cardinality(TripsIn(fills, 1..(i - 1)))
        /\ hook[h].pc = "judged" => count + hook[h].adds = Cardinality(TripsIn(fills, Stored))

\* A sync is about to write the right count.
SyncExact(s) == sync[s].pc = "counted" => sync[s].count = Cardinality(TripsIn(fills, Stored))

\* The count is right while nobody is between storing and counting.
Settled ==
    (\A h \in Hooks : ~Holding(h)) /\ (\A s \in Syncs : sync[s].pc = "idle") =>
      count = Cardinality(TripsIn(fills, Stored))

Exact ==
    /\ Alone
    /\ NoGap
    /\ \A h \in Hooks : HookExact(h)
    /\ \A s \in Syncs : SyncExact(s)
    /\ Settled

\* Once and Exact make AppliedOnce and OrderlyCountIsExact inductive.
IInv == TypeOK /\ Known /\ Once /\ (orderly => Exact)

-----------------------------------------------------------------------------
(* Each step keeps each part *)

LEMMA TypeStep ==
  ASSUME TypeOK, Known, [Next]_vars
  PROVE  TypeOK'
<1> USE DEF TypeOK, Known
<1> DEFINE HookType == [pc : {"idle", "checked", "created", "judged"},
                        fill : 0..MaxFills, adds : {0, 1}]
           SyncType == [pc : {"idle", "fetched", "stored", "counted"},
                        seen : 0..MaxFills, count : Nat]
<1>0. 0 \in 0..MaxFills /\ IdleHook \in HookType /\ IdleSync \in SyncType
  BY BoundsAssumption DEF IdleHook, IdleSync
<1>1. ASSUME NEW c \in Contracts, NEW d \in Deltas, Execute(c, d)
      PROVE  TypeOK'
  <2>1. FillsTypeOK'
    <3>1. fills' \in Seq(Fill) /\ Len(fills') <= MaxFills
      BY <1>1, BoundsAssumption DEF Execute, Trade, FillsTypeOK, Fill
    <3> QED  BY <1>1, <3>1 DEF Execute, FillsTypeOK
  <2> QED  BY <1>1, <2>1 DEF Execute
<1>2. ASSUME NEW h \in Hooks, NEW i \in Ids, HookCheck(h, i)
      PROVE  TypeOK'
  <2>1. i \in 0..MaxFills /\ fills' = fills /\ rows' = rows
    BY <1>2, BoundsAssumption DEF HookCheck, FillsTypeOK, Ids
  <2>2. hook' \in [Hooks -> [pc : {"idle", "checked", "created", "judged"},
                            fill : 0..MaxFills, adds : {0, 1}]]
    BY <1>2, <2>1 DEF HookCheck
  <2>3. orderly' \in BOOLEAN
    BY <1>2 DEF HookCheck
  <2> QED  BY <1>2, <2>1, <2>2, <2>3 DEF HookCheck, FillsTypeOK
<1>3. ASSUME NEW h \in Hooks, HookCreate(h)
      PROVE  TypeOK'
  <2> DEFINE row == [id |-> hook[h].fill, kind |-> EventType[hook[h].fill]]
  <2>1. hook[h].pc = "checked" /\ hook[h].fill \in 1..MaxFills
    BY <1>3, BoundsAssumption DEF HookCreate, FillsTypeOK, Ids
  <2>2. row \in Row
    BY <2>1, EventAssumption DEF Row
  <2>3. hook' \in [Hooks -> [pc : {"idle", "checked", "created", "judged"},
                            fill : 0..MaxFills, adds : {0, 1}]]
    BY <1>0, <1>3, ZenonT(30) DEF HookCreate
  <2> QED  BY <1>3, <2>2, <2>3 DEF HookCreate, FillsTypeOK
<1>4. ASSUME NEW h \in Hooks, HookJudge(h)
      PROVE  TypeOK'
  <2> DEFINE completes == Completes(NetPosition(hook[h].fill), fills[hook[h].fill].delta)
             stated == EventType[hook[h].fill] # "trade_closed"
             adds == IF completes /\ stated THEN 1 ELSE 0
  <2>1. /\ adds \in {0, 1}
        /\ hook' = [hook EXCEPT ![h].pc = "judged", ![h].adds = adds]
        /\ orderly' = (orderly /\ (completes => stated))
    <3> HIDE DEF completes, stated
    <3> QED  BY <1>4 DEF HookJudge, completes, stated
  <2>2. hook' \in [Hooks -> [pc : {"idle", "checked", "created", "judged"},
                            fill : 0..MaxFills, adds : {0, 1}]]
    <3> HIDE DEF adds, completes, stated
    <3> QED  BY <2>1, ZenonT(30)
  <2> HIDE DEF completes, stated, adds
  <2> QED  BY <1>4, <2>1, <2>2 DEF HookJudge, FillsTypeOK
<1>5. ASSUME NEW h \in Hooks, HookApply(h)
      PROVE  TypeOK'
  <2>1. hook[h].fill \in 1..MaxFills
    BY <1>5, BoundsAssumption DEF HookApply, FillsTypeOK, Ids
  <2>2. hook' \in [Hooks -> HookType]
    BY <1>0, <1>5 DEF HookApply
  <2>3. count' \in Nat
    <3>1. hook[h].adds \in {0, 1}
      OBVIOUS
    <3> QED  BY <1>5, <3>1 DEF HookApply
  <2> QED  BY <1>5, <2>1, <2>2, <2>3 DEF HookApply, FillsTypeOK
<1>6. ASSUME NEW h \in Hooks, HookDies(h)
      PROVE  TypeOK'
  <2>1. hook' \in [Hooks -> HookType]
    BY <1>0, <1>6 DEF HookDies
  <2> QED  BY <1>6, <2>1 DEF HookDies, FillsTypeOK
<1>7. ASSUME NEW s \in Syncs, SyncFetch(s)
      PROVE  TypeOK'
  <2>1. Len(fills) \in 0..MaxFills
    BY FillType DEF FillsTypeOK
  <2>2. sync' \in [Syncs -> SyncType]
    <3>1. ASSUME sync' = [sync EXCEPT ![s] = [pc |-> "fetched", seen |-> Len(fills), count |-> 0]]
          PROVE  sync' \in [Syncs -> SyncType]
      BY <2>1, <3>1
    <3>2. ASSUME sync' = [sync EXCEPT ![s].pc = "stored"]
          PROVE  sync' \in [Syncs -> SyncType]
      BY <3>2
    <3> HIDE DEF SyncType
    <3> QED  BY <1>7, <3>1, <3>2 DEF SyncFetch
  <2>3. orderly' \in BOOLEAN
    BY <1>7 DEF SyncFetch
  <2> QED  BY <1>7, <2>2, <2>3 DEF SyncFetch, FillsTypeOK
<1>8. ASSUME NEW s \in Syncs, SyncStore(s)
      PROVE  TypeOK'
  <2>1. \A i \in 1..sync[s].seen : [id |-> i, kind |-> "fill"] \in Row
    BY BoundsAssumption DEF Row
  <2>2. rows' \subseteq Row
    BY <1>8, <2>1 DEF SyncStore, FillsTypeOK
  <2> QED  BY <1>8, <2>2, BoundsAssumption DEF SyncStore, FillsTypeOK
<1>9. ASSUME NEW s \in Syncs, SyncCount(s)
      PROVE  TypeOK'
  <2>1. Cardinality(Openings(Ids)) \in Nat /\ CanonicalCount \in Nat
    BY OpeningsFinite, TripsFinite, CountIsTrips
  <2>2. PICK n \in Nat :
          /\ sync' = [sync EXCEPT ![s] = [pc |-> "counted", seen |-> 0, count |-> n]]
          /\ orderly' = (orderly /\ n = CanonicalCount)
    BY <1>9, <2>1 DEF SyncCount
  <2> QED  BY <1>9, <2>2, BoundsAssumption DEF SyncCount, FillsTypeOK
<1>10. ASSUME NEW s \in Syncs, SyncWrite(s)
       PROVE  TypeOK'
  <2>1. sync' \in [Syncs -> SyncType]
    BY <1>0, <1>10 DEF SyncWrite
  <2> QED  BY <1>10, <2>1 DEF SyncWrite, FillsTypeOK
<1>11. ASSUME NEW s \in Syncs, SyncDies(s)
       PROVE  TypeOK'
  <2>1. sync' \in [Syncs -> SyncType]
    BY <1>0, <1>11 DEF SyncDies
  <2> QED  BY <1>11, <2>1 DEF SyncDies, FillsTypeOK
<1>12. ASSUME UNCHANGED vars
       PROVE  TypeOK'
  BY <1>12 DEF vars, FillsTypeOK
<1> QED
  BY <1>1, <1>2, <1>3, <1>4, <1>5, <1>6, <1>7, <1>8, <1>9, <1>10, <1>11, <1>12 DEF Next

LEMMA KnownStep ==
  ASSUME TypeOK, Known, [Next]_vars
  PROVE  Known'
<1> USE DEF TypeOK, Known
<1>0. Len(fills) \in Nat
  BY FillType
<1>1. ASSUME NEW c \in Contracts, NEW d \in Deltas, Execute(c, d)
      PROVE  Known'
  <2>1. Len(fills') = Len(fills) + 1 /\ rows' = rows /\ hook' = hook /\ sync' = sync
    BY <1>1 DEF Execute, Trade, FillsTypeOK
  <2>2. Ids \subseteq Ids' /\ Stored' = Stored
    BY <1>0, <2>1 DEF Ids, Stored
  <2>3. \A s \in Syncs : sync[s].seen \in Int
    OBVIOUS
  <2> QED  BY <1>0, <2>1, <2>2, <2>3
<1>2. ASSUME fills' = fills, rows' = rows,
             \A h \in Hooks : hook'[h].pc # "idle" => hook'[h].fill \in Ids,
             \A s \in Syncs : sync'[s].seen <= Len(fills)
      PROVE  Known'
  BY <1>2 DEF Ids, Stored
<1>3. ASSUME NEW h \in Hooks, NEW i \in Ids, HookCheck(h, i)
      PROVE  Known'
  BY <1>2, <1>3 DEF HookCheck
<1>4. ASSUME NEW h \in Hooks, HookCreate(h)
      PROVE  Known'
  <2>1. hook[h].fill \in Ids /\ fills' = fills /\ Ids' = Ids
    BY <1>4 DEF HookCreate, Ids
  <2>2. Stored' = Stored \cup {hook[h].fill}
    BY <1>4 DEF HookCreate, Stored
  <2>3. \A g \in Hooks : hook'[g].pc # "idle" => hook'[g].fill \in Ids
    BY <1>4, <2>1 DEF HookCreate, IdleHook
  <2> QED  BY <1>4, <2>1, <2>2, <2>3 DEF HookCreate
<1>5. ASSUME NEW h \in Hooks, HookJudge(h)
      PROVE  Known'
  <2>1. PICK adds : hook' = [hook EXCEPT ![h].pc = "judged", ![h].adds = adds]
    BY <1>5 DEF HookJudge
  <2>2. hook[h].fill \in Ids
    BY <1>5 DEF HookJudge
  <2> QED  BY <1>2, <1>5, <2>1, <2>2 DEF HookJudge
<1>6. ASSUME NEW h \in Hooks, HookApply(h)
      PROVE  Known'
  BY <1>2, <1>6 DEF HookApply, IdleHook
<1>7. ASSUME NEW h \in Hooks, HookDies(h)
      PROVE  Known'
  BY <1>2, <1>7 DEF HookDies, IdleHook
<1>8. ASSUME NEW s \in Syncs, SyncFetch(s)
      PROVE  Known'
  <2>1. \A t \in Syncs : sync'[t].seen = sync[t].seen \/ sync'[t].seen = Len(fills)
    <3>1. ASSUME sync' = [sync EXCEPT ![s] = [pc |-> "fetched", seen |-> Len(fills), count |-> 0]],
                 NEW t \in Syncs
          PROVE  sync'[t].seen = sync[t].seen \/ sync'[t].seen = Len(fills)
      BY <3>1
    <3>2. ASSUME sync' = [sync EXCEPT ![s].pc = "stored"], NEW t \in Syncs
          PROVE  sync'[t].seen = sync[t].seen \/ sync'[t].seen = Len(fills)
      BY <3>2
    <3> QED  BY <1>8, <3>1, <3>2 DEF SyncFetch
  <2>2. Len(fills) <= Len(fills)
    BY <1>0
  <2>3. \A t \in Syncs : sync'[t].seen <= Len(fills)
    BY <2>1, <2>2
  <2> QED  BY <1>2, <1>8, <2>3 DEF SyncFetch
<1>9. ASSUME NEW s \in Syncs, SyncStore(s)
      PROVE  Known'
  <2>1. Ids' = Ids /\ Stored' = Stored \cup 1..sync[s].seen
    <3>1. Stored' = Stored \cup {r.id : r \in {[id |-> i, kind |-> "fill"] : i \in 1..sync[s].seen}}
      BY <1>9 DEF SyncStore, Stored
    <3>2. {r.id : r \in {[id |-> i, kind |-> "fill"] : i \in 1..sync[s].seen}} = 1..sync[s].seen
      <4> DEFINE new == {[id |-> i, kind |-> "fill"] : i \in 1..sync[s].seen}
      <4>1. \A r \in new : r.id \in 1..sync[s].seen
        OBVIOUS
      <4>2. ASSUME NEW i \in 1..sync[s].seen
            PROVE  \E r \in new : r.id = i
        <5>1. [id |-> i, kind |-> "fill"] \in new /\ [id |-> i, kind |-> "fill"].id = i
          OBVIOUS
        <5> QED  BY <5>1
      <4> HIDE DEF new
      <4>3. {r.id : r \in new} = 1..sync[s].seen
        BY <4>1, <4>2
      <4> QED  BY <4>3 DEF new
    <3> QED  BY <1>9, <3>1, <3>2 DEF SyncStore, Ids
  <2>2. 1..sync[s].seen \subseteq Ids
    BY <1>0 DEF Ids
  <2> QED  BY <1>0, <1>9, <2>1, <2>2 DEF SyncStore
<1>10. ASSUME NEW s \in Syncs, SyncCount(s)
       PROVE  Known'
  <2>1. PICK n : sync' = [sync EXCEPT ![s] = [pc |-> "counted", seen |-> 0, count |-> n]]
    BY <1>10 DEF SyncCount
  <2>2. \A t \in Syncs : sync'[t].seen = sync[t].seen \/ sync'[t].seen = 0
    BY <2>1
  <2>3. \A t \in Syncs : sync'[t].seen <= Len(fills)
    BY <1>0, <2>2
  <2> QED  BY <1>2, <1>10, <2>3 DEF SyncCount
<1>11. ASSUME NEW s \in Syncs, SyncWrite(s) \/ SyncDies(s)
       PROVE  Known'
  <2>1. /\ sync' = [sync EXCEPT ![s] = IdleSync]
        /\ fills' = fills /\ rows' = rows /\ hook' = hook
    BY <1>11 DEF SyncWrite, SyncDies
  <2>2. \A t \in Syncs : sync'[t].seen = sync[t].seen \/ sync'[t].seen = 0
    BY <2>1 DEF IdleSync
  <2>3. \A t \in Syncs : sync'[t].seen <= Len(fills)
    BY <1>0, <2>2
  <2> QED  BY <1>2, <2>1, <2>3
<1>12. ASSUME UNCHANGED vars
       PROVE  Known'
  BY <1>2, <1>12 DEF vars
<1> QED
  BY <1>1, <1>3, <1>4, <1>5, <1>6, <1>7, <1>8, <1>9, <1>10, <1>11, <1>12 DEF Next

LEMMA OnceStep ==
  ASSUME TypeOK, Once, [Next]_vars
  PROVE  Once'
<1> USE DEF Once, Holding, RowOf
<1>0. hook \in [Hooks -> [pc : {"idle", "checked", "created", "judged"},
                         fill : 0..MaxFills, adds : {0, 1}]]
  BY DEF TypeOK
\* A request that stops holding a row, or still holds the same, while the rest stands.
<1>1. ASSUME rows \subseteq rows', applied' = applied,
             \A h \in Hooks : hook'[h].pc \in {"created", "judged"} =>
               hook[h].pc \in {"created", "judged"} /\ hook'[h].fill = hook[h].fill
      PROVE  Once'
  BY <1>1
<1>2. ASSUME NEW c \in Contracts, NEW d \in Deltas, Execute(c, d)
      PROVE  Once'
  BY <1>1, <1>2 DEF Execute
<1>3. ASSUME NEW h \in Hooks, NEW i \in Ids, HookCheck(h, i)
      PROVE  Once'
  BY <1>0, <1>1, <1>3 DEF HookCheck
<1>4. ASSUME NEW h \in Hooks, HookCreate(h), RowOf(hook[h].fill) \in rows
      PROVE  Once'
  <2>1. hook' = [hook EXCEPT ![h] = IdleHook] /\ rows \subseteq rows' /\ applied' = applied
    BY <1>4 DEF HookCreate
  <2>2. \A g \in Hooks : g # h => hook'[g] = hook[g]
    BY <1>0, <2>1
  <2>3. hook'[h].pc = "idle"
    BY <1>0, <2>1 DEF IdleHook
  <2> QED  BY <1>1, <2>1, <2>2, <2>3
<1>5. ASSUME NEW h \in Hooks, HookCreate(h), RowOf(hook[h].fill) \notin rows
      PROVE  Once'
  <2>1. /\ hook' = [hook EXCEPT ![h] = [hook[h] EXCEPT !.pc = "created"]]
        /\ rows' = rows \cup {RowOf(hook[h].fill)} /\ applied' = applied
    BY <1>5 DEF HookCreate
  <2>2. \A g \in Hooks : g # h => hook'[g] = hook[g]
    BY <1>0, <2>1
  <2>3. hook'[h].fill = hook[h].fill
    BY <1>0, <2>1
  <2>4. hook[h].fill \notin applied
    BY <1>5
  <2>5. \A g \in Hooks : Holding(g) => hook[g].fill # hook[h].fill
    BY <1>5
  <2> QED  BY <2>1, <2>2, <2>3, <2>4, <2>5
<1>6. ASSUME NEW h \in Hooks, HookJudge(h)
      PROVE  Once'
  <2>1. PICK adds : hook' = [hook EXCEPT ![h].pc = "judged", ![h].adds = adds]
    BY <1>6 DEF HookJudge
  <2>2. hook[h].pc = "created" /\ hook'[h].fill = hook[h].fill /\ rows' = rows /\ applied' = applied
    BY <1>0, <1>6, <2>1 DEF HookJudge
  <2>3. \A g \in Hooks : g # h => hook'[g] = hook[g]
    BY <1>0, <2>1
  <2> QED  BY <1>1, <2>2, <2>3
<1>7. ASSUME NEW h \in Hooks, HookApply(h)
      PROVE  Once'
  <2>1. /\ hook[h].pc = "judged" /\ rows' = rows /\ applied' = applied \cup {hook[h].fill}
        /\ hook' = [hook EXCEPT ![h] = IdleHook]
    BY <1>7 DEF HookApply
  <2>2. hook'[h].pc = "idle" /\ \A g \in Hooks : g # h => hook'[g] = hook[g]
    BY <1>0, <2>1 DEF IdleHook
  <2> QED  BY <2>1, <2>2
<1>8. ASSUME NEW h \in Hooks, HookDies(h)
      PROVE  Once'
  <2>1. hook' = [hook EXCEPT ![h] = IdleHook] /\ rows' = rows /\ applied' = applied
    BY <1>8 DEF HookDies
  <2>2. hook'[h].pc = "idle" /\ \A g \in Hooks : g # h => hook'[g] = hook[g]
    BY <1>0, <2>1 DEF IdleHook
  <2> QED  BY <1>1, <2>1, <2>2
<1>9. ASSUME NEW s \in Syncs,
             SyncFetch(s) \/ SyncStore(s) \/ SyncCount(s) \/ SyncWrite(s) \/ SyncDies(s)
      PROVE  Once'
  <2>1. rows \subseteq rows' /\ applied' = applied /\ hook' = hook
    BY <1>9 DEF SyncFetch, SyncStore, SyncCount, SyncWrite, SyncDies
  <2> QED  BY <1>1, <2>1
<1>10. ASSUME UNCHANGED vars
       PROVE  Once'
  BY <1>1, <1>10 DEF vars
<1> QED
  BY <1>2, <1>3, <1>4, <1>5, <1>6, <1>7, <1>8, <1>9, <1>10 DEF Next

LEMMA AloneStep ==
  ASSUME TypeOK, Alone, [Next]_vars, orderly, orderly'
  PROVE  Alone'
<1> USE DEF Alone
<1>0. /\ hook \in [Hooks -> [pc : {"idle", "checked", "created", "judged"},
                            fill : 0..MaxFills, adds : {0, 1}]]
      /\ sync \in [Syncs -> [pc : {"idle", "fetched", "stored", "counted"},
                            seen : 0..MaxFills, count : Nat]]
  BY DEF TypeOK
\* Nothing starts.
<1>1. ASSUME \A h \in Hooks : hook'[h].pc # "idle" => hook[h].pc # "idle",
             \A s \in Syncs : sync'[s].pc # "idle" => sync[s].pc # "idle"
      PROVE  Alone'
  BY <1>1
<1>2. ASSUME NEW h \in Hooks, NEW i \in Ids, HookCheck(h, i)
      PROVE  Alone'
  <2>1. Quiet /\ sync' = sync /\ \A g \in Hooks : g # h => hook'[g] = hook[g]
    BY <1>0, <1>2 DEF HookCheck
  <2> QED  BY <2>1 DEF Quiet
<1>3. ASSUME NEW s \in Syncs, SyncFetch(s)
      PROVE  Alone'
  <2>1. Quiet /\ hook' = hook
    BY <1>3 DEF SyncFetch
  <2>2. \A t \in Syncs : t # s => sync'[t] = sync[t]
    BY <1>0, <1>3 DEF SyncFetch
  <2> QED  BY <2>1, <2>2 DEF Quiet
<1>4. ASSUME NEW h \in Hooks, HookCreate(h) \/ HookJudge(h) \/ HookApply(h) \/ HookDies(h)
      PROVE  Alone'
  <2>1. hook[h].pc # "idle" /\ sync' = sync
    BY <1>4 DEF HookCreate, HookJudge, HookApply, HookDies
  <2>2. \A g \in Hooks : g # h => hook'[g] = hook[g]
    BY <1>0, <1>4 DEF HookCreate, HookJudge, HookApply, HookDies
  <2> QED  BY <1>1, <2>1, <2>2
<1>5. ASSUME NEW s \in Syncs, SyncStore(s) \/ SyncCount(s) \/ SyncWrite(s) \/ SyncDies(s)
      PROVE  Alone'
  <2>1. sync[s].pc # "idle" /\ hook' = hook
    BY <1>5 DEF SyncStore, SyncCount, SyncWrite, SyncDies
  <2>2. \A t \in Syncs : t # s => sync'[t] = sync[t]
    BY <1>0, <1>5 DEF SyncStore, SyncCount, SyncWrite, SyncDies
  <2> QED  BY <1>1, <2>1, <2>2
<1>6. ASSUME NEW c \in Contracts, NEW d \in Deltas, Execute(c, d)
      PROVE  Alone'
  BY <1>1, <1>6 DEF Execute
<1>7. ASSUME UNCHANGED vars
      PROVE  Alone'
  BY <1>1, <1>7 DEF vars
<1> QED
  BY <1>2, <1>3, <1>4, <1>5, <1>6, <1>7 DEF Next

LEMMA ExactStep ==
  ASSUME TypeOK, Known, Exact, Alone', [Next]_vars, orderly, orderly'
  PROVE  Exact'
<1>0. /\ hook \in [Hooks -> [pc : {"idle", "checked", "created", "judged"},
                            fill : 0..MaxFills, adds : {0, 1}]]
      /\ sync \in [Syncs -> [pc : {"idle", "fetched", "stored", "counted"},
                            seen : 0..MaxFills, count : Nat]]
  BY DEF TypeOK
<1>a. Len(fills) \in Nat /\ Ids = 1..Len(fills) /\ \A i \in Ids : i \in Nat /\ i > 0
  BY FillType DEF TypeOK, Ids
<1>b. Alone /\ NoGap /\ Settled /\ Stored \subseteq Ids
  BY DEF Exact, Known
<1> DEFINE T == Cardinality(TripsIn(fills, Stored))
\* The fills stand, and one process at most is not idle.
<1>1. ASSUME NEW h \in Hooks, NEW i \in Ids, HookCheck(h, i)
      PROVE  Exact'
  <2>1. /\ i \notin Stored /\ 1..(i - 1) \subseteq Stored /\ Quiet
        /\ fills' = fills /\ rows' = rows /\ count' = count /\ sync' = sync
    BY <1>1 DEF HookCheck
  <2>2. Stored' = Stored
    BY <2>1 DEF Stored
  <2>3. hook'[h].pc = "checked" /\ hook'[h].fill = i /\ \A g \in Hooks : g # h => hook'[g].pc = "idle"
    BY <1>0, <1>1, <2>1 DEF HookCheck, Quiet
  <2>4. NoGap'
    BY <1>b, <2>2 DEF NoGap
  <2>5. \A g \in Hooks : HookExact(g)'
    BY <2>1, <2>2, <2>3 DEF HookExact
  <2>6. \A s \in Syncs : SyncExact(s)'
    BY <2>1 DEF SyncExact, Quiet
  <2>7. Settled'
    BY <1>b, <2>1, <2>2 DEF Settled, Quiet, Holding
  <2> QED  BY <2>4, <2>5, <2>6, <2>7 DEF Exact
<1>2. ASSUME NEW h \in Hooks, HookCreate(h)
      PROVE  Exact'
  <2> DEFINE i == hook[h].fill
  <2>1. /\ hook[h].pc = "checked" /\ i \in Ids /\ i \notin Stored /\ 1..(i - 1) \subseteq Stored
    BY <1>2 DEF HookCreate, Known, Exact, HookExact
  <2>2. [id |-> i, kind |-> EventType[i]] \notin rows
    BY <2>1 DEF Stored
  <2>3. /\ hook' = [hook EXCEPT ![h] = [hook[h] EXCEPT !.pc = "created"]]
        /\ fills' = fills /\ count' = count /\ sync' = sync
        /\ rows' = rows \cup {[id |-> i, kind |-> EventType[i]]}
    BY <1>2, <2>2 DEF HookCreate
  <2>4. hook'[h].pc = "created" /\ hook'[h].fill = i /\ \A g \in Hooks : g # h => hook'[g].pc = "idle"
    BY <1>0, <1>b, <2>1, <2>3 DEF Alone
  <2>5. \A s \in Syncs : sync[s].pc = "idle"
    BY <1>b, <2>1 DEF Alone
  <2>6. Stored = 1..(i - 1)
    <3>1. \A j \in Stored : j < i
      BY <1>a, <1>b, <2>1 DEF NoGap
    <3>2. \A j \in Stored : j \in 1..(i - 1)
      BY <1>a, <1>b, <2>1, <3>1
    <3> QED  BY <2>1, <3>2
  <2>7. Stored' = Stored \cup {i}
    BY <1>2 DEF HookCreate, Stored
  <2>8. Stored' = 1..i
    <3>1. 1..i = (1..(i - 1)) \cup {i}
      BY <1>a, <2>1
    <3> QED  BY <2>6, <2>7, <3>1
  <2>9. count = Cardinality(TripsIn(fills, 1..(i - 1)))
    <3>1. \A g \in Hooks : ~Holding(g)
      BY <1>b, <2>1 DEF Alone, Holding
    <3> QED  BY <1>b, <2>5, <2>6, <3>1 DEF Settled
  <2>10. NoGap'
    <3>1. \A j \in 1..i : 1..j \subseteq 1..i
      BY <1>a, <2>1
    <3> QED  BY <2>8, <3>1 DEF NoGap
  <2>11. \A g \in Hooks : HookExact(g)'
    BY <2>3, <2>4, <2>8, <2>9 DEF HookExact
  <2>12. \A s \in Syncs : SyncExact(s)'
    BY <2>3, <2>5 DEF SyncExact
  <2>13. Settled'
    BY <2>4 DEF Settled, Holding
  <2> QED  BY <2>10, <2>11, <2>12, <2>13 DEF Exact
<1>3. ASSUME NEW h \in Hooks, HookJudge(h)
      PROVE  Exact'
  <2> DEFINE i == hook[h].fill
             completes == Completes(NetPosition(i), fills[i].delta)
             stated == EventType[i] # "trade_closed"
             adds == IF completes /\ stated THEN 1 ELSE 0
  <2>1. /\ hook' = [hook EXCEPT ![h].pc = "judged", ![h].adds = adds]
        /\ orderly' = (orderly /\ (completes => stated))
    <3> HIDE DEF completes, stated
    <3> QED  BY <1>3 DEF HookJudge, completes, stated
  <2>2. /\ hook[h].pc = "created" /\ i \in Ids /\ Stored = 1..i
        /\ count = Cardinality(TripsIn(fills, 1..(i - 1)))
        /\ fills' = fills /\ rows' = rows /\ count' = count /\ sync' = sync
    BY <1>3 DEF HookJudge, Known, Exact, HookExact
  <2>3. Stored' = Stored
    BY <2>2 DEF Stored
  <2>4. /\ hook'[h].pc = "judged" /\ hook'[h].adds = adds
        /\ \A g \in Hooks : g # h => hook'[g].pc = "idle"
    <3> HIDE DEF adds
    <3> QED  BY <1>0, <1>b, <2>1, <2>2 DEF Alone
  <2>5. adds = IF completes THEN 1 ELSE 0
    <3> HIDE DEF completes, stated
    <3> QED  BY <2>1
  <2>6. count + adds = T
    <3>1. FillsTypeOK /\ Stored \in SUBSET Ids
      BY <1>b DEF TypeOK
    <3>2. /\ Trips(1..(i - 1)) = Trips(Stored) \ {i}
          /\ i \in Trips(Stored) <=> completes
      BY <2>2, <3>1, LastFill
    <3>3. IsFiniteSet(Trips(Stored)) /\ Cardinality(Trips(Stored)) \in Nat
      BY <3>1, TripsFinite
    <3>4. count = Cardinality(Trips(Stored) \ {i})
      BY <2>2, <3>2, TripsAreIn
    <3>5. T = Cardinality(Trips(Stored))
      BY TripsAreIn
    <3> DEFINE all == Trips(Stored)
    <3>6. Cardinality(all \ {i}) = IF i \in all THEN Cardinality(all) - 1 ELSE Cardinality(all)
      <4> HIDE DEF all, i
      <4> QED  BY <3>3, FS_RemoveElement DEF all
    <3> HIDE DEF T, completes, i, all, adds
    <3>7. CASE completes
      BY <2>5, <3>2, <3>3, <3>4, <3>5, <3>6, <3>7 DEF all
    <3>8. CASE ~completes
      BY <2>5, <3>2, <3>3, <3>4, <3>5, <3>6, <3>8 DEF all
    <3> QED  BY <3>7, <3>8
  <2>7. NoGap'
    BY <1>b, <2>3 DEF NoGap
  <2>8. \A g \in Hooks : HookExact(g)'
    <3> HIDE DEF completes, adds
    <3> QED  BY <2>2, <2>3, <2>4, <2>6 DEF HookExact
  <2>9. \A s \in Syncs : SyncExact(s)'
    BY <1>b, <2>2 DEF SyncExact, Alone
  <2>10. Settled'
    BY <2>4 DEF Settled, Holding
  <2> QED  BY <2>7, <2>8, <2>9, <2>10 DEF Exact
<1>4. ASSUME NEW h \in Hooks, HookApply(h)
      PROVE  Exact'
  <2>1. /\ hook[h].pc = "judged" /\ count + hook[h].adds = T
        /\ fills' = fills /\ rows' = rows /\ count' = count + hook[h].adds /\ sync' = sync
        /\ hook' = [hook EXCEPT ![h] = IdleHook]
    BY <1>4 DEF HookApply, Exact, HookExact
  <2>2. Stored' = Stored
    BY <2>1 DEF Stored
  <2>3. \A g \in Hooks : hook'[g].pc = "idle"
    BY <1>0, <1>b, <2>1 DEF Alone, IdleHook
  <2>4. NoGap'
    BY <1>b, <2>2 DEF NoGap
  <2>5. \A g \in Hooks : HookExact(g)'
    BY <2>3 DEF HookExact
  <2>6. \A s \in Syncs : SyncExact(s)'
    BY <1>b, <2>1 DEF SyncExact, Alone
  <2>7. Settled'
    BY <2>1, <2>2 DEF Settled
  <2> QED  BY <2>4, <2>5, <2>6, <2>7 DEF Exact
<1>5. ASSUME NEW h \in Hooks, HookDies(h)
      PROVE  Exact'
  BY <1>5 DEF HookDies
<1>6. ASSUME NEW s \in Syncs, SyncFetch(s)
      PROVE  Exact'
  <2>1. /\ Quiet /\ fills' = fills /\ rows' = rows /\ count' = count /\ hook' = hook
    BY <1>6 DEF SyncFetch
  <2>2. Stored' = Stored
    BY <2>1 DEF Stored
  <2>3. sync'[s].pc \in {"fetched", "stored"} /\ \A t \in Syncs : t # s => sync'[t].pc = "idle"
    BY <1>0, <1>6, <2>1 DEF SyncFetch, Quiet
  <2>4. NoGap'
    BY <1>b, <2>2 DEF NoGap
  <2>5. \A g \in Hooks : HookExact(g)'
    BY <2>1 DEF HookExact, Quiet
  <2>6. \A t \in Syncs : SyncExact(t)'
    BY <2>3 DEF SyncExact
  <2>7. Settled'
    BY <2>3 DEF Settled
  <2> QED  BY <2>4, <2>5, <2>6, <2>7 DEF Exact
<1>7. ASSUME NEW s \in Syncs, SyncStore(s)
      PROVE  Exact'
  <2> DEFINE n == sync[s].seen
  <2>1. /\ sync[s].pc = "fetched" /\ fills' = fills /\ count' = count /\ hook' = hook
        /\ sync' = [sync EXCEPT ![s] = [pc |-> "stored", seen |-> 0, count |-> 0]]
    BY <1>7 DEF SyncStore
  <2>2. Stored' = Stored \cup 1..n
    <3> DEFINE new == {[id |-> i, kind |-> "fill"] : i \in 1..n}
    <3>1. \A r \in new : r.id \in 1..n
      OBVIOUS
    <3>2. ASSUME NEW i \in 1..n
          PROVE  \E r \in new : r.id = i
      <4>1. [id |-> i, kind |-> "fill"] \in new /\ [id |-> i, kind |-> "fill"].id = i
        OBVIOUS
      <4> QED  BY <4>1
    <3>3. rows' = rows \cup new
      BY <1>7 DEF SyncStore
    <3> HIDE DEF new, n
    <3> QED  BY <3>1, <3>2, <3>3 DEF Stored
  <2>3. /\ \A h \in Hooks : hook[h].pc = "idle"
        /\ sync'[s].pc = "stored" /\ \A t \in Syncs : t # s => sync'[t].pc = "idle"
    BY <1>0, <1>b, <2>1 DEF Alone
  <2>4. NoGap'
    <3>1. n \in Int
      BY <1>0
    <3>2. \A i \in 1..n : 1..i \subseteq 1..n
      BY <3>1
    <3> HIDE DEF n
    <3> QED  BY <1>b, <2>2, <3>2 DEF NoGap
  <2>5. \A h \in Hooks : HookExact(h)'
    BY <2>1, <2>3 DEF HookExact
  <2>6. \A t \in Syncs : SyncExact(t)'
    BY <2>3 DEF SyncExact
  <2>7. Settled'
    BY <2>3 DEF Settled
  <2> QED  BY <2>4, <2>5, <2>6, <2>7 DEF Exact
<1>8. ASSUME NEW s \in Syncs, SyncCount(s)
      PROVE  Exact'
  <2>1. PICK n \in {Cardinality(Openings(Ids)), CanonicalCount} :
          /\ sync' = [sync EXCEPT ![s] = [pc |-> "counted", seen |-> 0, count |-> n]]
          /\ orderly' = (orderly /\ n = CanonicalCount)
    BY <1>8 DEF SyncCount
  <2>2. /\ sync[s].pc = "stored" /\ fills' = fills /\ rows' = rows /\ count' = count /\ hook' = hook
    BY <1>8 DEF SyncCount
  <2>3. n = T
    BY <1>b, <2>1, CountIsTrips, TripsAreIn DEF TypeOK
  <2>4. Stored' = Stored
    BY <2>2 DEF Stored
  <2>5. /\ \A h \in Hooks : hook[h].pc = "idle"
        /\ sync'[s].pc = "counted" /\ sync'[s].count = n
        /\ \A t \in Syncs : t # s => sync'[t].pc = "idle"
    BY <1>0, <1>b, <2>1, <2>2 DEF Alone
  <2>6. NoGap'
    BY <1>b, <2>4 DEF NoGap
  <2>7. \A h \in Hooks : HookExact(h)'
    BY <2>2, <2>5 DEF HookExact
  <2>8. \A t \in Syncs : SyncExact(t)'
    BY <2>2, <2>3, <2>4, <2>5 DEF SyncExact
  <2>9. Settled'
    BY <2>5 DEF Settled
  <2> QED  BY <2>6, <2>7, <2>8, <2>9 DEF Exact
<1>9. ASSUME NEW s \in Syncs, SyncWrite(s)
      PROVE  Exact'
  <2>1. /\ sync[s].pc = "counted" /\ count' = sync[s].count /\ sync[s].count = T
        /\ fills' = fills /\ rows' = rows /\ hook' = hook
        /\ sync' = [sync EXCEPT ![s] = IdleSync]
    BY <1>9 DEF SyncWrite, Exact, SyncExact
  <2>2. Stored' = Stored
    BY <2>1 DEF Stored
  <2>3. /\ \A h \in Hooks : hook[h].pc = "idle"
        /\ \A t \in Syncs : sync'[t].pc = "idle"
    BY <1>0, <1>b, <2>1 DEF Alone, IdleSync
  <2>4. NoGap'
    BY <1>b, <2>2 DEF NoGap
  <2>5. \A h \in Hooks : HookExact(h)'
    BY <2>1, <2>3 DEF HookExact
  <2>6. \A t \in Syncs : SyncExact(t)'
    BY <2>3 DEF SyncExact
  <2>7. Settled'
    BY <2>1, <2>2 DEF Settled
  <2> QED  BY <2>4, <2>5, <2>6, <2>7 DEF Exact
<1>10. ASSUME NEW s \in Syncs, SyncDies(s)
       PROVE  Exact'
  BY <1>10 DEF SyncDies
<1>11. ASSUME NEW c \in Contracts, NEW d \in Deltas, Execute(c, d)
       PROVE  Exact'
  <2>1. Trade(c, d) /\ rows' = rows /\ count' = count /\ hook' = hook /\ sync' = sync
    BY <1>11 DEF Execute
  <2>2. Stored' = Stored
    BY <2>1 DEF Stored
  <2>3. \A ids \in SUBSET Ids : TripsIn(fills', ids) = TripsIn(fills, ids)
    BY <2>1, TripsKept DEF TypeOK
  <2>4. TripsIn(fills', Stored) = TripsIn(fills, Stored)
    BY <1>b, <2>3
  <2>5. ASSUME NEW h \in Hooks
        PROVE  HookExact(h)'
    <3> DEFINE i == hook[h].fill
    <3>1. hook[h].pc = "created" => TripsIn(fills', 1..(i - 1)) = TripsIn(fills, 1..(i - 1))
      <4>1. hook[h].pc = "created" => i \in Ids
        BY DEF Known
      <4>2. i \in Ids => 1..(i - 1) \in SUBSET Ids
        BY <1>a
      <4> HIDE DEF i
      <4> QED  BY <2>3, <4>1, <4>2
    <3>2. HookExact(h)
      BY DEF Exact
    <3> QED  BY <2>1, <2>2, <2>4, <3>1, <3>2 DEF HookExact
  <2>6. \A s \in Syncs : SyncExact(s)'
    BY <2>1, <2>2, <2>4 DEF Exact, SyncExact
  <2>7. NoGap' /\ Settled'
    BY <1>b, <2>1, <2>2, <2>4 DEF NoGap, Settled, Holding
  <2> QED  BY <2>5, <2>6, <2>7 DEF Exact
<1>12. ASSUME UNCHANGED vars
       PROVE  Exact'
  <2>1. Stored' = Stored
    BY <1>12 DEF vars, Stored
  <2> QED  BY <1>12, <2>1 DEF vars, Exact, NoGap, HookExact, SyncExact, Settled, Holding
<1> QED
  BY <1>1, <1>2, <1>3, <1>4, <1>5, <1>6, <1>7, <1>8, <1>9, <1>10, <1>11, <1>12 DEF Next

-----------------------------------------------------------------------------
(* Sums: SumFunctionOnSet is one, whatever the order, and is linear *)

\* A set that has 0, and with each number the next, has them all.
LEMMA Inductive ==
  ASSUME NEW T \in SUBSET Nat, 0 \in T, \A n \in Nat : n \in T => n + 1 \in T
  PROVE  \A n \in Nat : n \in T
<1> DEFINE Bad == {n \in Nat : n \notin T}
<1> SUFFICES ASSUME Bad # {}  PROVE FALSE
  OBVIOUS
<1>1. PICK n \in Bad : \A m \in Bad : n <= m
  BY LeastNatural
<1>2. n - 1 \in Nat /\ ~(n <= n - 1) /\ (n - 1) + 1 = n
  BY <1>1
<1>3. n - 1 \in T
  BY <1>1, <1>2
<1> QED  BY <1>1, <1>2, <1>3

\* A set of subsets of a finite set that has the empty one, and with each what one
\* more member makes of it, has the whole.
LEMMA InductiveSet ==
  ASSUME NEW S, IsFiniteSet(S), NEW T, {} \in T,
         \A s \in SUBSET S : \A x \in S \ s : s \in T => s \cup {x} \in T
  PROVE  S \in T
<1> DEFINE Bad == {s \in SUBSET S : s \notin T}
<1> SUFFICES ASSUME Bad # {}  PROVE FALSE
  OBVIOUS
<1>1. PICK t \in Bad : \A u \in Bad : u \subseteq t => u = t
  <2>1. Bad \in SUBSET (SUBSET S)
    OBVIOUS
  <2> HIDE DEF Bad
  <2> QED  BY <2>1, LeastSubset
<1>2. PICK x \in t : TRUE
  OBVIOUS
<1> DEFINE r == t \ {x}
<1>3. r \in SUBSET S /\ x \in S \ r /\ r \subseteq t /\ r # t /\ r \cup {x} = t
  BY <1>2
<1>4. r \in T
  <2> HIDE DEF r
  <2> QED  BY <1>1, <1>3
<1> HIDE DEF r
<1> QED  BY <1>1, <1>3, <1>4

\* f has a number for each of finitely many places; h is a f + b g there.
Numbered(f, S) == S \in SUBSET Nat /\ IsFiniteSet(S) /\ \A x \in S : f[x] \in Int
Combines(h, a, f, b, g, S) == \A x \in S : h[x] = a * f[x] + b * g[x]

\* SumFunctionOnSet is such a sum.
LEMMA SumIsFold ==
  ASSUME NEW f, NEW S, Numbered(f, S)
  PROVE  \E g : IsFold(g, S, f, AnyOf) /\ SumFunctionOnSet(f, S) = g[S]
<1> USE DEF Numbered
<1> DEFINE After(g) == [s \in SUBSET S |-> IF s = {} THEN 0
                          ELSE f[CHOOSE x \in s : TRUE] + g[s \ {CHOOSE x \in s : TRUE}]]
           iter == CHOOSE g : g = After(g)
<1>2. \A s \in SUBSET S : /\ AnyOf[s] = CHOOSE x \in s : TRUE
                          /\ s # {} => AnyOf[s] \in s
  BY DEF AnyOf
<1>3. ASSUME NEW h, NEW s \in SUBSET S
      PROVE  After(h)[s] = IF s = {} THEN 0 ELSE f[AnyOf[s]] + h[s \ {AnyOf[s]}]
  <2> DEFINE c == CHOOSE x \in s : TRUE
  <2>1. After(h)[s] = IF s = {} THEN 0 ELSE f[c] + h[s \ {c}]
    OBVIOUS
  <2>2. AnyOf[s] = c
    BY <1>2
  <2> HIDE DEF c, After
  <2> QED  BY <2>1, <2>2
<1>a. Numbers(f, S) /\ Chooses(AnyOf, S) /\ Alike(f, f, S, S)
  BY <1>2 DEF Numbers, Chooses, Alike
<1>4. PICK g : IsFold(g, S, f, AnyOf)
  BY <1>a, FoldExists
<1>5. iter = After(iter)
  <2>1. \A s \in SUBSET S : g[s] = After(g)[s]
    <3> HIDE DEF After
    <3> QED  BY <1>3, <1>4 DEF IsFold, Folds
  <2>2. g = After(g)
    BY <1>4, <2>1 DEF IsFold
  <2> HIDE DEF After
  <2> QED  BY <2>2
<1>6. SumFunctionOnSet(f, S) = iter[S]
  BY DEF SumFunctionOnSet, FoldFunctionOnSet, MapThenFoldSet
<1>7. Folds(iter, S, f, AnyOf)
  <2> HIDE DEF iter, After
  <2> QED  BY <1>3, <1>5 DEF Folds
<1>8. iter[S] = g[S]
  <2> HIDE DEF iter
  <2> QED  BY <1>4, <1>7, <1>a, FoldAgrees
<1> QED  BY <1>4, <1>6, <1>8

\* A sum is a number, nothing over nothing, and each place adds its own.
LEMMA SumAdds ==
  ASSUME NEW f, NEW S, Numbered(f, S)
  PROVE  /\ SumFunctionOnSet(f, S) \in Int
         /\ S = {} => SumFunctionOnSet(f, S) = 0
         /\ \A x \in S : SumFunctionOnSet(f, S) = f[x] + SumFunctionOnSet(f, S \ {x})
<1>2. Numbers(f, S) /\ Chooses(AnyOf, S) /\ IsFiniteSet(S)
  BY DEF AnyOf, Numbers, Chooses, Numbered
<1>3. PICK g : IsFold(g, S, f, AnyOf) /\ SumFunctionOnSet(f, S) = g[S]
  BY SumIsFold
<1>4. \A x \in S : g[S] = f[x] + g[S \ {x}]
  BY <1>2, <1>3, FoldAnyOrder
<1>5. ASSUME NEW T \in SUBSET S
      PROVE  SumFunctionOnSet(f, T) = g[T]
  <2>1. IsFiniteSet(T)
    BY <1>2, FS_Subset
  <2>2. Numbered(f, T)
    BY <2>1 DEF Numbered
  <2>3. PICK h : IsFold(h, T, f, AnyOf) /\ SumFunctionOnSet(f, T) = h[T]
    BY <2>2, SumIsFold
  <2>4. g[T] = h[T]
    <3>1. Folds(h, T, f, AnyOf) /\ Alike(f, f, T, S)
      BY <2>3 DEF IsFold, Alike
    <3> QED  BY <1>2, <1>3, <3>1, FoldAgrees
  <2> QED  BY <2>3, <2>4
<1>6. g[S] \in Int /\ (S = {} => g[S] = 0)
  BY <1>3 DEF IsFold, Folds
<1> QED  BY <1>3, <1>4, <1>5, <1>6

LEMMA NumberedPart ==
  ASSUME NEW f, NEW S, NEW T \in SUBSET S, Numbered(f, S)
  PROVE  Numbered(f, T)
<1>1. IsFiniteSet(T)
  BY FS_Subset DEF Numbered
<1> QED  BY <1>1 DEF Numbered

\* Adding a place that was not there.
LEMMA SumWith ==
  ASSUME NEW f, NEW S, NEW x \in Nat, x \notin S, Numbered(f, S), f[x] \in Int
  PROVE  /\ Numbered(f, S \cup {x})
         /\ SumFunctionOnSet(f, S \cup {x}) = SumFunctionOnSet(f, S) + f[x]
<1>1. Numbered(f, S \cup {x})
  <2>1. IsFiniteSet(S \cup {x})
    BY FS_AddElement DEF Numbered
  <2> QED  BY <2>1 DEF Numbered
<1>2. (S \cup {x}) \ {x} = S /\ x \in S \cup {x}
  OBVIOUS
<1>3. SumFunctionOnSet(f, S \cup {x}) = f[x] + SumFunctionOnSet(f, (S \cup {x}) \ {x})
  BY <1>1, <1>2, SumAdds
<1>4. SumFunctionOnSet(f, S) \in Int
  BY SumAdds
<1>5. SumFunctionOnSet(f, S \cup {x}) = f[x] + SumFunctionOnSet(f, S)
  BY <1>2, <1>3, Zenon
<1> QED  BY <1>1, <1>4, <1>5

LEMMA Distributes ==
  \A a, b, p, q, r, s \in Int :
    (a * p + b * q) + (a * r + b * s) = a * (p + r) + b * (q + s)
OBVIOUS

\* Sums are linear.
LEMMA SumLinear ==
  ASSUME NEW f, NEW g, NEW h, NEW S, NEW a \in Int, NEW b \in Int,
         Numbered(f, S), Numbered(g, S), Combines(h, a, f, b, g, S)
  PROVE  /\ Numbered(h, S)
         /\ SumFunctionOnSet(h, S) = a * SumFunctionOnSet(f, S) + b * SumFunctionOnSet(g, S)
<1>1. Numbered(h, S)
  BY DEF Numbered, Combines
<1> DEFINE Good == {s \in SUBSET S :
             SumFunctionOnSet(h, s) = a * SumFunctionOnSet(f, s) + b * SumFunctionOnSet(g, s)}
<1>2. {} \in Good
  <2>1. Numbered(f, {}) /\ Numbered(g, {}) /\ Numbered(h, {})
    BY <1>1, NumberedPart
  <2>2. /\ SumFunctionOnSet(f, {}) = 0 /\ SumFunctionOnSet(g, {}) = 0
        /\ SumFunctionOnSet(h, {}) = 0
    BY <2>1, SumAdds
  <2> QED  BY <2>2
<1>3. ASSUME NEW s \in SUBSET S, NEW x \in S \ s, s \in Good
      PROVE  s \cup {x} \in Good
  <2>1. /\ Numbered(f, s) /\ Numbered(g, s) /\ Numbered(h, s)
        /\ x \in Nat /\ x \notin s /\ x \in S
        /\ f[x] \in Int /\ g[x] \in Int /\ h[x] \in Int
    BY <1>1, NumberedPart DEF Numbered
  <2>2. /\ SumFunctionOnSet(f, s \cup {x}) = SumFunctionOnSet(f, s) + f[x]
        /\ SumFunctionOnSet(g, s \cup {x}) = SumFunctionOnSet(g, s) + g[x]
        /\ SumFunctionOnSet(h, s \cup {x}) = SumFunctionOnSet(h, s) + h[x]
        /\ SumFunctionOnSet(f, s) \in Int /\ SumFunctionOnSet(g, s) \in Int
    BY <2>1, SumWith, SumAdds
  <2>3. h[x] = a * f[x] + b * g[x]
    BY <2>1 DEF Combines
  <2>4. SumFunctionOnSet(h, s) = a * SumFunctionOnSet(f, s) + b * SumFunctionOnSet(g, s)
    BY <1>3
  <2>5. s \cup {x} \in SUBSET S
    OBVIOUS
  <2>6. (a * SumFunctionOnSet(f, s) + b * SumFunctionOnSet(g, s)) + (a * f[x] + b * g[x])
          = a * (SumFunctionOnSet(f, s) + f[x]) + b * (SumFunctionOnSet(g, s) + g[x])
    BY <2>1, <2>2, Distributes
  <2> QED  BY <2>2, <2>3, <2>4, <2>5, <2>6
<1>4. S \in Good
  <2>1. IsFiniteSet(S)
    BY DEF Numbered
  <2> HIDE DEF Good
  <2> QED  BY <1>2, <1>3, <2>1, InductiveSet
<1> QED  BY <1>1, <1>4

\* They depend on nothing but what is added.
LEMMA SumSame ==
  ASSUME NEW f, NEW h, NEW S, Numbered(f, S), Alike(f, h, S, S)
  PROVE  Numbered(h, S) /\ SumFunctionOnSet(h, S) = SumFunctionOnSet(f, S)
<1>1. Combines(h, 1, f, 0, f, S)
  BY DEF Combines, Alike, Numbered
<1>2. SumFunctionOnSet(f, S) \in Int
  BY SumAdds
<1>3. /\ Numbered(h, S)
      /\ SumFunctionOnSet(h, S) = 1 * SumFunctionOnSet(f, S) + 0 * SumFunctionOnSet(f, S)
  BY <1>1, SumLinear
<1> QED  BY <1>2, <1>3

\* Two parts make up the whole.
LEMMA SumParts ==
  ASSUME NEW f, NEW S, NEW T \in SUBSET S, Numbered(f, S)
  PROVE  SumFunctionOnSet(f, S) = SumFunctionOnSet(f, T) + SumFunctionOnSet(f, S \ T)
<1> DEFINE R == S \ T
           Good == {u \in SUBSET R :
             SumFunctionOnSet(f, T \cup u) = SumFunctionOnSet(f, T) + SumFunctionOnSet(f, u)}
<1>1. Numbered(f, T) /\ SumFunctionOnSet(f, T) \in Int
  BY NumberedPart, SumAdds
<1>2. {} \in Good
  <2>1. Numbered(f, {})
    BY NumberedPart
  <2>2. SumFunctionOnSet(f, {}) = 0 /\ T \cup {} = T
    BY <2>1, SumAdds
  <2> QED  BY <1>1, <2>2
<1>3. ASSUME NEW u \in SUBSET R, NEW x \in R \ u, u \in Good
      PROVE  u \cup {x} \in Good
  <2>1. /\ T \cup u \in SUBSET S /\ u \in SUBSET S /\ x \in S /\ x \notin T \cup u /\ x \notin u
        /\ T \cup (u \cup {x}) = (T \cup u) \cup {x}
        /\ u \cup {x} \in SUBSET R
    OBVIOUS
  <2>2. Numbered(f, T \cup u) /\ Numbered(f, u) /\ x \in Nat /\ f[x] \in Int
    BY <2>1, NumberedPart DEF Numbered
  <2>3. /\ SumFunctionOnSet(f, (T \cup u) \cup {x}) = SumFunctionOnSet(f, T \cup u) + f[x]
        /\ SumFunctionOnSet(f, u \cup {x}) = SumFunctionOnSet(f, u) + f[x]
        /\ SumFunctionOnSet(f, u) \in Int
    BY <2>1, <2>2, SumWith, SumAdds
  <2>4. SumFunctionOnSet(f, T \cup u) = SumFunctionOnSet(f, T) + SumFunctionOnSet(f, u)
    BY <1>3
  <2>5. SumFunctionOnSet(f, T \cup (u \cup {x}))
          = SumFunctionOnSet(f, T) + SumFunctionOnSet(f, u \cup {x})
    BY <1>1, <2>1, <2>2, <2>3, <2>4
  <2> QED  BY <2>1, <2>5
<1>4. IsFiniteSet(R)
  BY FS_Subset DEF Numbered
<1>5. R \in Good
  <2> HIDE DEF Good, R
  <2> QED  BY <1>2, <1>3, <1>4, InductiveSet
<1>6. T \cup R = S
  OBVIOUS
<1> QED  BY <1>5, <1>6

\* Places with nothing do not matter.
LEMMA SumWithoutZeros ==
  ASSUME NEW f, NEW S, NEW T \in SUBSET S, Numbered(f, S), \A x \in S \ T : f[x] = 0
  PROVE  SumFunctionOnSet(f, S) = SumFunctionOnSet(f, T)
<1>1. Numbered(f, S \ T) /\ Numbered(f, T)
  BY NumberedPart
<1>2. Combines(f, 0, f, 0, f, S \ T)
  BY <1>1 DEF Combines, Numbered
<1>3. SumFunctionOnSet(f, S \ T) \in Int /\ SumFunctionOnSet(f, T) \in Int
  BY <1>1, SumAdds
<1>4. SumFunctionOnSet(f, S \ T)
        = 0 * SumFunctionOnSet(f, S \ T) + 0 * SumFunctionOnSet(f, S \ T)
  BY <1>1, <1>2, SumLinear
<1>5. SumFunctionOnSet(f, S) = SumFunctionOnSet(f, T) + SumFunctionOnSet(f, S \ T)
  BY SumParts
<1> QED  BY <1>3, <1>4, <1>5

-----------------------------------------------------------------------------
(* The trade history: what the walk meets *)

\* What is stored, ordered or reported was executed.
HistoryInv ==
    FillsTypeOK /\ Stored \subseteq Ids /\ ordered \subseteq Ids /\ reported \subseteq Ids

\* What the walk needs to know of the merged fills.
Walkable ==
    /\ Len(Merged) \in Nat /\ DOMAIN Merged = 1..Len(Merged)
    /\ \A k \in DOMAIN Merged :
         /\ KeyAt(k) \in ContractKeys
         /\ DeltaAt(k) \in Int /\ DeltaAt(k) # 0
         /\ PriceAt(k) \in Int /\ FeeAt(k) \in Int

\* The merged events are all of them, in the order of their ids; those of one fill, if
\* it has several, one behind the other.
LEMMA MergedFills ==
  ASSUME HistoryInv
  PROVE  /\ Len(Merged) \in Nat /\ DOMAIN Merged = 1..Len(Merged)
         /\ \A k \in DOMAIN Merged : Merged[k] \in Events
         /\ \A k, m \in DOMAIN Merged : k < m <=> Place(Merged[k]) < Place(Merged[m])
         /\ \A e \in Events : \E k \in DOMAIN Merged : Place(Merged[k]) = Place(e)
         /\ \A e \in Events : e.id \in Ids
<1> DEFINE places == {Place(e) : e \in Events}
           n == Cardinality(places)
           N == 3 * Len(fills) + 2
<1>1. /\ \A e \in rows : e.id \in Ids
      /\ \A i \in reported \ Stored : i \in Ids
      /\ \A i \in ordered : i \in Ids
  BY DEF HistoryInv, Stored
<1>2. \A e \in Events : e.id \in Ids
  <2>1. \A i : [id |-> i, kind |-> "report"].id = i /\ [id |-> i, kind |-> "trade_opened"].id = i
    OBVIOUS
  <2> QED  BY <1>1, <2>1 DEF Events
<1>3. Len(fills) \in Nat /\ Ids = 1..Len(fills)
  BY FillType DEF HistoryInv, Ids
<1>4. N \in Nat /\ places \in SUBSET (1..N)
  <2>1. ASSUME NEW e \in Events
        PROVE  Place(e) \in 1..N
    <3>1. e.id \in 1..Len(fills)
      BY <1>2, <1>3
    <3> QED  BY <1>3, <3>1 DEF Place
  <2> QED  BY <1>3, <2>1
<1>5. /\ n \in Nat
      /\ \A k \in 1..n : Kth(places, k) \in places
      /\ \A k, m \in 1..n : k < m <=> Kth(places, k) < Kth(places, m)
      /\ \A p \in places : \E k \in 1..n : Kth(places, k) = p
  <2> HIDE DEF places, N
  <2> QED  BY <1>4, Ranks
<1>6. Merged = [k \in 1..n |-> CHOOSE e \in Events : Place(e) = Kth(places, k)]
  BY DEF Merged
<1>7. \A k \in 1..n : Merged[k] \in Events /\ Place(Merged[k]) = Kth(places, k)
  <2> TAKE k \in 1..n
  <2>1. PICK e \in Events : Place(e) = Kth(places, k)
    <3>1. Kth(places, k) \in places
      BY <1>5
    <3> QED  BY <3>1
  <2>2. Merged[k] = CHOOSE x \in Events : Place(x) = Kth(places, k)
    <3> HIDE DEF places, n
    <3> QED  BY <1>6
  <2> HIDE DEF places, n
  <2> QED  BY <2>1, <2>2
<1>8. Len(Merged) = n /\ DOMAIN Merged = 1..n
  <2>1. DOMAIN Merged = 1..n
    <3> HIDE DEF places, n
    <3> QED  BY <1>6
  <2>2. Merged \in Seq(Events)
    <3>1. Merged = [k \in 1..n |-> Merged[k]]
      <4> HIDE DEF places, n
      <4> QED  BY <1>6
    <3> HIDE DEF places, n
    <3> QED  BY <1>5, <1>7, <3>1
  <2> HIDE DEF places, n
  <2> QED  BY <1>5, <2>1, <2>2
<1>9. \A e \in Events : \E k \in 1..n : Place(Merged[k]) = Place(e)
  <2> TAKE e \in Events
  <2>1. Place(e) \in places
    OBVIOUS
  <2> HIDE DEF places, n
  <2> QED  BY <1>5, <1>7, <2>1
<1>10. \A k, m \in 1..n : k < m <=> Place(Merged[k]) < Place(Merged[m])
  <2> HIDE DEF places, n
  <2> QED  BY <1>5, <1>7
<1> HIDE DEF places, n
<1> QED  BY <1>2, <1>5, <1>7, <1>8, <1>9, <1>10

LEMMA MergedIsWalkable ==
  ASSUME HistoryInv
  PROVE  Walkable
<1>1. /\ Len(Merged) \in Nat /\ DOMAIN Merged = 1..Len(Merged)
      /\ \A k \in DOMAIN Merged : Merged[k].id \in Ids
  BY MergedFills
<1>2. \A i \in Ids : i \in 1..MaxFills
  BY BoundsAssumption, FillType DEF HistoryInv, FillsTypeOK, Ids
<1>3. ASSUME NEW k \in DOMAIN Merged
      PROVE  /\ KeyAt(k) \in ContractKeys
             /\ DeltaAt(k) \in Int /\ DeltaAt(k) # 0
             /\ PriceAt(k) \in Int /\ FeeAt(k) \in Int
  <2> DEFINE i == Merged[k].id
  <2>1. i \in Ids /\ i \in 1..MaxFills
    BY <1>1, <1>2
  <2>2. fills[i].contract \in Contracts /\ fills[i].delta \in Int /\ fills[i].delta # 0
    BY <2>1, FillType DEF HistoryInv
  <2>3. Price[i] \in Int /\ Fee[i] \in Int
    <3>1. Price \in [1..MaxFills -> Int] /\ Fee \in [1..MaxFills -> Int]
      BY MoneyAssumption
    <3> QED  BY <2>1, <3>1
  <2> QED
    BY <2>2, <2>3 DEF KeyAt, ContractKey, ContractKeys, DeltaAt, PriceAt, FeeAt, FeePerUnit
<1> QED  BY <1>1, <1>3 DEF Walkable

\* Each fill is applied to what the fills before it left.
LEMMA BooksStep ==
  ASSUME Walkable
  PROVE  /\ Books[0] = NoBook
         /\ \A k \in DOMAIN Merged : Books[k] = AfterFill(Books[k - 1], k)
<1> DEFINE N == Len(Merged)
           After(g) == [k \in 0..N |-> IF k = 0 THEN NoBook ELSE AfterFill(g[k - 1], k)]
           Right(g, m) == \A k \in 0..m : g[k] = IF k = 0 THEN NoBook ELSE AfterFill(g[k - 1], k)
           Good == {m \in Nat : \E g : Right(g, m)}
<1>1. N \in Nat /\ DOMAIN Merged = 1..N
  BY DEF Walkable
<1>2. 0 \in Good
  <2>1. Right([k \in {0} |-> NoBook], 0)
    OBVIOUS
  <2> HIDE DEF Right
  <2> QED  BY <2>1
<1>3. ASSUME NEW m \in Nat, m \in Good
      PROVE  m + 1 \in Good
  <2>1. PICK g : Right(g, m)
    BY <1>3
  <2> DEFINE h == [k \in 0..(m + 1) |-> IF k = m + 1 THEN AfterFill(g[m], m + 1) ELSE g[k]]
  <2>2. ASSUME NEW k \in 0..(m + 1)
        PROVE  h[k] = IF k = 0 THEN NoBook ELSE AfterFill(h[k - 1], k)
    <3>1. CASE k = m + 1
      <4>1. k # 0 /\ k - 1 = m /\ m \in 0..(m + 1) /\ m # m + 1
        BY <3>1
      <4> QED  BY <3>1, <4>1
    <3>2. CASE k # m + 1 /\ k # 0
      <4>1. k \in 0..m /\ k - 1 \in 0..(m + 1) /\ k - 1 # m + 1
        BY <3>2
      <4>2. h[k] = g[k] /\ h[k - 1] = g[k - 1]
        BY <3>2, <4>1
      <4>3. g[k] = AfterFill(g[k - 1], k)
        BY <2>1, <3>2, <4>1
      <4> QED  BY <3>2, <4>2, <4>3
    <3>3. CASE k = 0
      <4>1. 0 # m + 1 /\ 0 \in 0..(m + 1) /\ 0 \in 0..m
        OBVIOUS
      <4>2. h[0] = g[0]
        BY <4>1
      <4>3. g[0] = NoBook
        BY <2>1, <4>1
      <4> QED  BY <3>3, <4>2, <4>3
    <3> QED  BY <3>1, <3>2, <3>3
  <2>3. Right(h, m + 1)
    BY <2>2
  <2> HIDE DEF Right
  <2> QED  BY <2>3
<1>4. N \in Good
  <2> HIDE DEF Good
  <2>1. Good \in SUBSET Nat
    BY DEF Good
  <2> QED  BY <1>1, <1>2, <1>3, <2>1, Inductive
<1>5. PICK g : Right(g, N)
  BY <1>4
<1>6. \E h : h = After(h)
  <2> DEFINE h == [k \in 0..N |-> g[k]]
  <2>1. \A k \in 0..N : h[k] = After(h)[k]
    <3> TAKE k \in 0..N
    <3>1. g[k] = IF k = 0 THEN NoBook ELSE AfterFill(g[k - 1], k)
      BY <1>5
    <3>2. k # 0 => k - 1 \in 0..N
      BY <1>1
    <3> HIDE DEF N
    <3> QED  BY <3>1, <3>2
  <2>2. h = After(h)
    <3>1. h = [k \in 0..N |-> h[k]]
      OBVIOUS
    <3>2. After(h) = [k \in 0..N |-> After(h)[k]]
      OBVIOUS
    <3> HIDE DEF h, After
    <3> QED  BY <2>1, <3>1, <3>2
  <2> HIDE DEF h, After
  <2> QED  BY <2>2
<1>7. Books = After(Books)
  <2>1. Books = CHOOSE h : h = After(h)
    BY DEF Books
  <2> HIDE DEF After
  <2> QED  BY <1>6, <2>1
<1>8. \A k \in 0..N : Books[k] = IF k = 0 THEN NoBook ELSE AfterFill(Books[k - 1], k)
  <2> TAKE k \in 0..N
  <2>1. After(Books)[k] = IF k = 0 THEN NoBook ELSE AfterFill(Books[k - 1], k)
    OBVIOUS
  <2> HIDE DEF After
  <2> QED  BY <1>7, <2>1
<1>9. 0 \in 0..N /\ \A k \in DOMAIN Merged : k \in 0..N /\ k # 0
  BY <1>1
<1> HIDE DEF N, After
<1> QED  BY <1>8, <1>9

-----------------------------------------------------------------------------
(* Volumes: how much was bought, how much was sold *)

Other(s) == IF s = 1 THEN -1 ELSE 1
Over(a, b) == IF a > b THEN a - b ELSE 0
Lesser(a, b) == IF a <= b THEN a ELSE b

\* What the first n fills bought (s = 1) or sold (s = -1) under a key.
Units == [k \in DOMAIN Merged |-> Magnitude(DeltaAt(k))]
OfSide(key, s, n) == {j \in 1..n : KeyAt(j) = key /\ Sign(DeltaAt(j)) = s}
Volume(key, s, n) == SumFunctionOnSet(Units, OfSide(key, s, n))

LEMMA SignOf ==
  ASSUME NEW d \in Int, d # 0
  PROVE  /\ Sign(d) \in {1, -1} /\ Magnitude(d) \in Nat /\ Magnitude(d) > 0
         /\ Sign(d) = 1 => d = Magnitude(d)
         /\ Sign(d) = -1 => d = 0 - Magnitude(d)
         /\ Sign(d) * Magnitude(d) = d
<1>1. CASE d > 0
  BY <1>1 DEF Sign, Magnitude
<1>2. CASE d < 0
  BY <1>2 DEF Sign, Magnitude
<1> QED  BY <1>1, <1>2

LEMMA UnitsNumbered ==
  ASSUME Walkable
  PROVE  /\ \A S \in SUBSET DOMAIN Merged : Numbered(Units, S)
         /\ \A j \in DOMAIN Merged :
              Units[j] = Magnitude(DeltaAt(j)) /\ Units[j] \in Nat /\ Units[j] > 0
<1>1. Len(Merged) \in Nat /\ DOMAIN Merged = 1..Len(Merged)
  BY DEF Walkable
<1>2. ASSUME NEW j \in DOMAIN Merged
      PROVE  Units[j] = Magnitude(DeltaAt(j)) /\ Units[j] \in Nat /\ Units[j] > 0
  <2>1. DeltaAt(j) \in Int /\ DeltaAt(j) # 0
    BY DEF Walkable
  <2>2. Units[j] = Magnitude(DeltaAt(j))
    BY DEF Units
  <2> QED  BY <2>1, <2>2, SignOf
<1>3. ASSUME NEW S \in SUBSET DOMAIN Merged
      PROVE  Numbered(Units, S)
  <2>1. IsFiniteSet(S) /\ S \in SUBSET Nat
    BY <1>1, UpToIsFinite
  <2>2. \A j \in S : Units[j] \in Int
    BY <1>2
  <2> QED  BY <2>1, <2>2 DEF Numbered
<1> QED  BY <1>2, <1>3

\* Each fill adds to one volume of its own key.
LEMMA VolumeSteps ==
  ASSUME Walkable, NEW key, NEW s, NEW n \in 0..Len(Merged)
  PROVE  /\ Volume(key, s, n) \in Int
         /\ n = 0 => Volume(key, s, n) = 0
         /\ n # 0 => Volume(key, s, n) = Volume(key, s, n - 1)
              + IF KeyAt(n) = key /\ Sign(DeltaAt(n)) = s THEN Magnitude(DeltaAt(n)) ELSE 0
<1>0. Len(Merged) \in Nat /\ DOMAIN Merged = 1..Len(Merged)
  BY DEF Walkable
<1>1. \A m \in 0..Len(Merged) : Numbered(Units, OfSide(key, s, m)) /\ Volume(key, s, m) \in Int
  <2> TAKE m \in 0..Len(Merged)
  <2>1. OfSide(key, s, m) \in SUBSET DOMAIN Merged
    BY <1>0 DEF OfSide
  <2> QED  BY <2>1, UnitsNumbered, SumAdds DEF Volume
<1>2. n = 0 => Volume(key, s, n) = 0
  <2>1. OfSide(key, s, 0) = {}
    BY DEF OfSide
  <2> QED  BY <1>1, <2>1, SumAdds DEF Volume
<1>3. ASSUME n # 0
      PROVE  Volume(key, s, n) = Volume(key, s, n - 1)
              + IF KeyAt(n) = key /\ Sign(DeltaAt(n)) = s THEN Magnitude(DeltaAt(n)) ELSE 0
  <2>0. n \in DOMAIN Merged /\ n - 1 \in 0..Len(Merged) /\ 1..n = (1..(n - 1)) \cup {n} /\ n \notin 1..(n - 1)
    BY <1>0, <1>3
  <2>1. CASE KeyAt(n) = key /\ Sign(DeltaAt(n)) = s
    <3>1. OfSide(key, s, n) = OfSide(key, s, n - 1) \cup {n} /\ n \notin OfSide(key, s, n - 1)
      BY <2>0, <2>1 DEF OfSide
    <3>2. Units[n] = Magnitude(DeltaAt(n)) /\ Units[n] \in Int /\ n \in Nat
      BY <1>0, <2>0, UnitsNumbered
    <3>3. SumFunctionOnSet(Units, OfSide(key, s, n - 1) \cup {n})
            = SumFunctionOnSet(Units, OfSide(key, s, n - 1)) + Units[n]
      BY <1>1, <2>0, <3>1, <3>2, SumWith
    <3> QED  BY <2>1, <3>1, <3>2, <3>3 DEF Volume
  <2>2. CASE ~(KeyAt(n) = key /\ Sign(DeltaAt(n)) = s)
    <3>1. OfSide(key, s, n) = OfSide(key, s, n - 1)
      BY <2>0, <2>2 DEF OfSide
    <3>2. Volume(key, s, n - 1) \in Int
      BY <1>1, <2>0
    <3>3. Volume(key, s, n) = Volume(key, s, n - 1)
      BY <3>1 DEF Volume
    <3> QED  BY <2>2, <3>2, <3>3
  <2> QED  BY <2>1, <2>2
<1> QED  BY <1>1, <1>2, <1>3

LEMMA VolumeGrows ==
  ASSUME Walkable, NEW key, NEW s, NEW n \in 0..Len(Merged), NEW m \in 0..n
  PROVE  Volume(key, s, m) <= Volume(key, s, n) /\ Volume(key, s, m) >= 0
<1> DEFINE N == Len(Merged)
           Good == {i \in Nat : i <= N => /\ Volume(key, s, i) >= 0
                                          /\ \A j \in 0..i : Volume(key, s, j) <= Volume(key, s, i)}
<1>0. N \in Nat /\ DOMAIN Merged = 1..N
  BY DEF Walkable
<1>1. 0 \in Good
  <2>1. 0 \in 0..N /\ \A j \in 0..0 : j = 0
    BY <1>0
  <2>2. Volume(key, s, 0) = 0
    BY <2>1, VolumeSteps
  <2> QED  BY <2>1, <2>2
<1>2. ASSUME NEW i \in Nat, i \in Good
      PROVE  i + 1 \in Good
  <2> SUFFICES ASSUME i + 1 <= N
               PROVE  /\ Volume(key, s, i + 1) >= 0
                      /\ \A j \in 0..(i + 1) : Volume(key, s, j) <= Volume(key, s, i + 1)
    OBVIOUS
  <2>1. /\ i + 1 \in 0..N /\ i + 1 \in DOMAIN Merged /\ i + 1 # 0 /\ (i + 1) - 1 = i /\ i \in 0..N
        /\ \A j \in 0..(i + 1) : j = i + 1 \/ j \in 0..i
    BY <1>0
  <2>2. \A j \in 0..i : Volume(key, s, j) <= Volume(key, s, i) /\ Volume(key, s, i) >= 0
    BY <1>0, <1>2, <2>1
  <2>3. Magnitude(DeltaAt(i + 1)) \in Nat
    BY <2>1, SignOf DEF Walkable
  <2>4. /\ Volume(key, s, i) \in Int /\ Volume(key, s, i + 1) \in Int
        /\ \A j \in 0..(i + 1) : Volume(key, s, j) \in Int
    <3>1. \A j \in 0..(i + 1) : j \in 0..N
      BY <1>0, <2>1
    <3> QED  BY <2>1, <3>1, VolumeSteps
  <2>5. Volume(key, s, i) <= Volume(key, s, i + 1)
    <3>1. Volume(key, s, i + 1) = Volume(key, s, i)
            + IF KeyAt(i + 1) = key /\ Sign(DeltaAt(i + 1)) = s THEN Magnitude(DeltaAt(i + 1)) ELSE 0
      <4> HIDE DEF N
      <4> QED  BY <2>1, VolumeSteps DEF N
    <3> QED  BY <2>3, <2>4, <3>1
  <2>6. i \in 0..i
    OBVIOUS
  <2> QED  BY <2>1, <2>2, <2>4, <2>5, <2>6
<1>3. n \in Good /\ m \in Good
  <2>1. n \in Nat /\ m \in Nat /\ Good \in SUBSET Nat
    BY <1>0
  <2> HIDE DEF Good
  <2> QED  BY <1>1, <1>2, <2>1, Inductive
<1>4. n <= N /\ m <= N
  BY <1>0
<1> QED  BY <1>3, <1>4

-----------------------------------------------------------------------------
(* The lots *)

\* How much of what the first j fills opened is still open after the fill k: what the
\* other side's volume has not closed.
Remains(book, key, k, j) ==
    Over(Volume(key, book.side[key], j), Volume(key, Other(book.side[key]), k))

\* The lots after the fill k: each is what first in, first out leaves of it.
LotsRight(book, k) ==
    /\ book.left \in [DOMAIN Merged -> Nat]
    /\ book.side \in [ContractKeys -> {1, -1}]
    /\ \A j \in DOMAIN Merged : j > k => book.left[j] = 0
    /\ \A key \in ContractKeys :
         Volume(key, Other(book.side[key]), k) <= Volume(key, book.side[key], k)
    /\ \A j \in 1..k : book.left[j] = Remains(book, KeyAt(j), k, j) - Remains(book, KeyAt(j), k, j - 1)

\* The first n fills' lots hold what remains of them.
LEMMA LotsHold ==
  ASSUME Walkable, NEW k \in 0..Len(Merged), NEW book, LotsRight(book, k),
         NEW key \in ContractKeys, NEW n \in 0..k
  PROVE  LET lots == {j \in OpenLots(book, key) : j <= n}
         IN  /\ Numbered(book.left, lots) /\ lots \in SUBSET (1..n)
             /\ SumFunctionOnSet(book.left, lots) = Remains(book, key, k, n)
<1> DEFINE N == Len(Merged)
           Lots(i) == {j \in OpenLots(book, key) : j <= i}
           s == book.side[key]
           Q == Volume(key, Other(s), k)
           Good == {i \in Nat : i <= k => SumFunctionOnSet(book.left, Lots(i)) = Remains(book, key, k, i)}
<1>0. N \in Nat /\ DOMAIN Merged = 1..N /\ k \in Nat /\ k <= N
  BY DEF Walkable
<1>1. /\ book.left \in [1..N -> Nat] /\ s \in {1, -1}
      /\ \A j \in 1..k : book.left[j] = Remains(book, KeyAt(j), k, j) - Remains(book, KeyAt(j), k, j - 1)
  BY <1>0 DEF LotsRight
<1>2. ASSUME NEW i \in Nat
      PROVE  /\ Numbered(book.left, Lots(i)) /\ Lots(i) \in SUBSET (1..N)
             /\ \A j \in Lots(i) : j <= i /\ KeyAt(j) = key /\ book.left[j] > 0
  <2>1. Lots(i) \in SUBSET (1..N)
    BY <1>1 DEF OpenLots
  <2>2. IsFiniteSet(Lots(i)) /\ Lots(i) \in SUBSET Nat
    <3> HIDE DEF Lots, N
    <3> QED  BY <1>0, <2>1, UpToIsFinite
  <2>3. \A j \in Lots(i) : j \in 1..N /\ j <= i /\ KeyAt(j) = key /\ book.left[j] > 0
    BY <1>1 DEF OpenLots
  <2>4. \A j \in Lots(i) : book.left[j] \in Int
    <3> HIDE DEF Lots
    <3> QED  BY <1>1, <2>3
  <2> HIDE DEF Lots, N
  <2> QED  BY <2>1, <2>2, <2>3, <2>4 DEF Numbered
<1>3. \A i \in 0..k : Volume(key, s, i) \in Int /\ Volume(key, s, i) >= 0 /\ Q \in Int /\ Q >= 0
  <2> TAKE i \in 0..k
  <2>1. i \in 0..N /\ k \in 0..N /\ i \in 0..i /\ k \in 0..k
    BY <1>0
  <2> HIDE DEF s
  <2> QED  BY <2>1, VolumeSteps, VolumeGrows
<1>4. \A i \in 0..k : Remains(book, key, k, i) = Over(Volume(key, s, i), Q) /\ Remains(book, key, k, i) \in Nat
  BY <1>3 DEF Remains, Over
<1>5. 0 \in Good
  <2>1. Lots(0) = {}
    <3>1. \A j \in OpenLots(book, key) : j \in 1..N
      BY <1>1 DEF OpenLots
    <3>2. \A j \in 1..N : ~(j <= 0)
      OBVIOUS
    <3> QED  BY <3>1, <3>2
  <2>2. SumFunctionOnSet(book.left, Lots(0)) = 0
    <3> HIDE DEF Lots
    <3> QED  BY <1>2, <2>1, SumAdds
  <2>3. Volume(key, s, 0) = 0 /\ 0 \in 0..k
    <3>1. 0 \in 0..N /\ 0 \in 0..k
      BY <1>0
    <3> HIDE DEF s
    <3> QED  BY <3>1, VolumeSteps
  <2>4. Remains(book, key, k, 0) = 0
    BY <1>3, <1>4, <2>3 DEF Over
  <2> QED  BY <2>2, <2>4
<1>6. ASSUME NEW i \in Nat, i \in Good
      PROVE  i + 1 \in Good
  <2> SUFFICES ASSUME i + 1 <= k
               PROVE  SumFunctionOnSet(book.left, Lots(i + 1)) = Remains(book, key, k, i + 1)
    OBVIOUS
  <2>1. /\ i + 1 \in 1..k /\ i + 1 \in 1..N /\ i + 1 \in 0..N /\ i + 1 # 0 /\ (i + 1) - 1 = i
        /\ i \in 0..k /\ i + 1 \in 0..k
    BY <1>0
  <2>2. SumFunctionOnSet(book.left, Lots(i)) = Remains(book, key, k, i)
    BY <1>0, <1>6, <2>1
  <2>3. \A j \in 1..N : j <= i + 1 <=> j <= i \/ j = i + 1
    OBVIOUS
  <2>4. CASE KeyAt(i + 1) = key
    <3>1. book.left[i + 1] = Remains(book, key, k, i + 1) - Remains(book, key, k, i)
      BY <1>1, <2>1, <2>4
    <3>2. book.left[i + 1] \in Nat
      BY <1>1, <2>1
    <3>3. CASE book.left[i + 1] > 0
      <4>1. i + 1 \in OpenLots(book, key) /\ \A j \in OpenLots(book, key) : j \in 1..N
        BY <1>1, <2>1, <2>4, <3>3 DEF OpenLots
      <4>2. Lots(i + 1) = Lots(i) \cup {i + 1} /\ i + 1 \notin Lots(i) /\ i + 1 \in Nat
        BY <2>3, <4>1
      <4> DEFINE x == i + 1
      <4>3. Numbered(book.left, Lots(i)) /\ book.left[x] \in Int /\ x \in Nat /\ x \notin Lots(i)
        BY <1>2, <3>2, <4>2
      <4>4. SumFunctionOnSet(book.left, Lots(x)) = SumFunctionOnSet(book.left, Lots(i)) + book.left[x]
        <5>1. Lots(x) = Lots(i) \cup {x}
          BY <4>2
        <5> HIDE DEF Lots, x
        <5> QED  BY <4>3, <5>1, SumWith
      <4>5. book.left[x] = Remains(book, key, k, x) - Remains(book, key, k, i)
        BY <3>1
      <4>6. Remains(book, key, k, x) \in Int /\ Remains(book, key, k, i) \in Int
        BY <1>4, <2>1
      <4>7. SumFunctionOnSet(book.left, Lots(x)) = Remains(book, key, k, x)
        <5> HIDE DEF Lots, x
        <5> QED  BY <2>2, <4>4, <4>5, <4>6
      <4> QED  BY <4>7
    <3>4. CASE ~(book.left[i + 1] > 0)
      <4>1. i + 1 \notin OpenLots(book, key) /\ \A j \in OpenLots(book, key) : j \in 1..N
        BY <1>1, <3>4 DEF OpenLots
      <4>2. Lots(i + 1) = Lots(i)
        BY <2>3, <4>1
      <4> HIDE DEF Lots
      <4> QED  BY <1>4, <2>1, <2>2, <3>1, <3>2, <3>4, <4>2
    <3> QED  BY <3>3, <3>4
  <2>5. CASE KeyAt(i + 1) # key
    <3>1. i + 1 \notin OpenLots(book, key) /\ \A j \in OpenLots(book, key) : j \in 1..N
      BY <1>1, <2>5 DEF OpenLots
    <3>2. Lots(i + 1) = Lots(i)
      BY <2>3, <3>1
    <3>3. Volume(key, s, i + 1) = Volume(key, s, i)
      <4>1. Volume(key, s, i + 1) = Volume(key, s, i) + 0
        <5> HIDE DEF s, N
        <5> QED  BY <2>1, <2>5, VolumeSteps DEF N
      <4> QED  BY <1>3, <2>1, <4>1
    <3>4. Remains(book, key, k, i + 1) = Remains(book, key, k, i)
      BY <3>3 DEF Remains
    <3> HIDE DEF Lots
    <3> QED  BY <2>2, <3>2, <3>4
  <2> QED  BY <2>4, <2>5
<1>7. n \in Good
  <2>1. n \in Nat /\ Good \in SUBSET Nat
    BY <1>0
  <2> HIDE DEF Good
  <2> QED  BY <1>5, <1>6, <2>1, Inductive
<1>8. n <= k /\ n \in Nat
  BY <1>0
<1>9. Lots(n) \in SUBSET (1..n)
  <2>1. \A j \in Lots(n) : j \in 1..N /\ j <= n
    <3> HIDE DEF Lots
    <3> QED  BY <1>2, <1>8
  <2> HIDE DEF Lots
  <2> QED  BY <1>0, <1>8, <2>1
<1> QED
  <2> HIDE DEF Lots
  <2> QED  BY <1>2, <1>7, <1>8, <1>9 DEF Lots

\* The Min and Max of the community modules, of two.
LEMMA MinOfTwo ==
  ASSUME NEW a \in Int, NEW b \in Int
  PROVE  Min({a, b}) = Lesser(a, b)
<1> DEFINE x == Lesser(a, b)
<1>1. x \in {a, b} /\ \A y \in {a, b} : x <= y
  BY DEF Lesser
<1>2. \A z \in {a, b} : (\A y \in {a, b} : z <= y) => z = x
  BY DEF Lesser
<1> HIDE DEF x
<1> QED  BY <1>1, <1>2 DEF Min, x

LEMMA MaxWithZero ==
  ASSUME NEW a \in Int, NEW b \in Int
  PROVE  Max({0, a - b}) = Over(a, b)
<1> DEFINE x == Over(a, b)
<1>1. x \in {0, a - b} /\ \A y \in {0, a - b} : x >= y
  BY DEF Over
<1>2. \A z \in {0, a - b} : (\A y \in {0, a - b} : z >= y) => z = x
  BY DEF Over
<1> HIDE DEF x
<1> QED  BY <1>1, <1>2 DEF Max, x

\* What is open under a key.
Open(book, key) == SumFunctionOnSet(book.left, OpenLots(book, key))

LEMMA OpenIs ==
  ASSUME Walkable, NEW k \in 0..Len(Merged), NEW book, LotsRight(book, k), NEW key \in ContractKeys
  PROVE  LET s == book.side[key]
         IN  /\ Numbered(book.left, OpenLots(book, key))
             /\ OpenLots(book, key) \in SUBSET (1..k)
             /\ Open(book, key) = Remains(book, key, k, k)
             /\ Open(book, key) = Volume(key, s, k) - Volume(key, Other(s), k)
             /\ Open(book, key) \in Nat
             /\ Volume(key, s, k) \in Nat /\ Volume(key, Other(s), k) \in Nat
<1> DEFINE s == book.side[key]
<1>0. Len(Merged) \in Nat /\ DOMAIN Merged = 1..Len(Merged) /\ k \in Nat /\ k \in 0..k
  BY DEF Walkable
<1>1. \A j \in OpenLots(book, key) : j \in 1..Len(Merged) /\ j <= k
  <2>1. /\ DOMAIN book.left = 1..Len(Merged)
        /\ \A j \in 1..Len(Merged) : j > k => book.left[j] = 0
    BY <1>0 DEF LotsRight
  <2> TAKE j \in OpenLots(book, key)
  <2>2. j \in 1..Len(Merged) /\ book.left[j] > 0
    BY <2>1 DEF OpenLots
  <2>3. ~(j > k)
    BY <2>1, <2>2
  <2> QED  BY <1>0, <2>2, <2>3
<1>2. {j \in OpenLots(book, key) : j <= k} = OpenLots(book, key)
  BY <1>1
<1>3. /\ Numbered(book.left, OpenLots(book, key)) /\ OpenLots(book, key) \in SUBSET (1..k)
      /\ Open(book, key) = Remains(book, key, k, k)
  BY <1>0, <1>2, LotsHold DEF Open
<1>4. Volume(key, s, k) \in Nat /\ Volume(key, Other(s), k) \in Nat
  <2> HIDE DEF s
  <2>1. \A r : Volume(key, r, k) \in Int /\ Volume(key, r, k) >= 0
    BY <1>0, VolumeSteps, VolumeGrows
  <2> QED  BY <2>1
<1>5. Volume(key, Other(s), k) <= Volume(key, s, k)
  BY DEF LotsRight
<1>6. /\ Open(book, key) = Volume(key, s, k) - Volume(key, Other(s), k)
      /\ Open(book, key) \in Nat
  BY <1>3, <1>4, <1>5 DEF Remains, Over
<1> QED  BY <1>3, <1>4, <1>6

\* Closing c takes the front of the queue: from each lot what reaches into the first c.
LEMMA TakenIs ==
  ASSUME Walkable, NEW k \in 0..Len(Merged), NEW book, LotsRight(book, k), NEW key \in ContractKeys,
         NEW c \in Nat, c <= Open(book, key)
  PROVE  LET lots == OpenLots(book, key)
             taken == Taken(book.left, lots, c)
         IN  /\ DOMAIN taken = lots
             /\ Numbered(taken, lots)
             /\ \A j \in lots : /\ taken[j] = Lesser(book.left[j], Over(c, Remains(book, key, k, j - 1)))
                                /\ taken[j] \in Nat /\ taken[j] <= book.left[j] /\ book.left[j] \in Nat
             /\ SumFunctionOnSet(taken, lots) = c
<1> DEFINE N == Len(Merged)
           lots == OpenLots(book, key)
           taken == Taken(book.left, lots, c)
           Rem(i) == Remains(book, key, k, i)
           Lots(i) == {j \in lots : j <= i}
           Good == {i \in Nat : i <= k => SumFunctionOnSet(taken, Lots(i)) = Lesser(c, Rem(i))}
<1>0. N \in Nat /\ DOMAIN Merged = 1..N /\ k \in Nat /\ k <= N
  BY DEF Walkable
<1>1. /\ book.left \in [1..N -> Nat] /\ book.side[key] \in {1, -1}
      /\ \A j \in 1..k : book.left[j] = Remains(book, KeyAt(j), k, j) - Remains(book, KeyAt(j), k, j - 1)
  BY <1>0 DEF LotsRight
<1>2. \A i \in 0..k : /\ Numbered(book.left, Lots(i)) /\ Lots(i) \in SUBSET (1..i)
                      /\ SumFunctionOnSet(book.left, Lots(i)) = Rem(i)
                      /\ Rem(i) \in Int
  <2> TAKE i \in 0..k
  <2>1. /\ Numbered(book.left, Lots(i)) /\ Lots(i) \in SUBSET (1..i)
        /\ SumFunctionOnSet(book.left, Lots(i)) = Rem(i)
    BY LotsHold
  <2>2. SumFunctionOnSet(book.left, Lots(i)) \in Int
    <3> HIDE DEF Lots
    <3> QED  BY <2>1, SumAdds
  <2> QED  BY <2>1, <2>2
<1>3. lots \in SUBSET (1..k) /\ Numbered(book.left, lots) /\ Open(book, key) = Rem(k)
  BY OpenIs
<1>4. ASSUME NEW j \in lots
      PROVE  /\ taken[j] = Lesser(book.left[j], Over(c, Rem(j - 1)))
             /\ book.left[j] \in Nat /\ book.left[j] > 0 /\ KeyAt(j) = key
             /\ j \in 1..k /\ j - 1 \in 0..k
  <2>1. j \in 1..k /\ j - 1 \in 0..k
    BY <1>0, <1>3
  <2>2. book.left[j] \in Nat /\ book.left[j] > 0 /\ KeyAt(j) = key
    BY <1>0, <1>1, <2>1 DEF OpenLots
  <2>3. {i \in lots : i < j} = Lots(j - 1)
    <3>1. \A i \in 1..k : i < j <=> i <= j - 1
      BY <2>1
    <3> HIDE DEF lots
    <3> QED  BY <1>3, <3>1
  <2>4. taken[j] = Min({book.left[j], Max({0, c - SumFunctionOnSet(book.left, {i \in lots : i < j})})})
    BY DEF Taken
  <2>5. taken[j] = Min({book.left[j], Max({0, c - Rem(j - 1)})})
    <3> HIDE DEF lots, taken
    <3> QED  BY <1>2, <2>1, <2>3, <2>4
  <2>6. Rem(j - 1) \in Int
    BY <1>2, <2>1
  <2> DEFINE r == Rem(j - 1)
  <2>7. Max({0, c - r}) = Over(c, r) /\ Over(c, r) \in Int
    <3> HIDE DEF r
    <3>1. c \in Int /\ r \in Int
      BY <2>6 DEF r
    <3> QED  BY <3>1, MaxWithZero DEF Over
  <2>8. Min({book.left[j], Over(c, r)}) = Lesser(book.left[j], Over(c, r))
    <3> HIDE DEF r, lots
    <3> QED  BY <2>2, <2>7, MinOfTwo
  <2> HIDE DEF lots, taken
  <2> QED  BY <2>1, <2>2, <2>5, <2>7, <2>8
<1>5. ASSUME NEW j \in lots
      PROVE  taken[j] \in Nat /\ taken[j] <= book.left[j]
  <2>1. Rem(j - 1) \in Int /\ book.left[j] \in Nat /\ taken[j] = Lesser(book.left[j], Over(c, Rem(j - 1)))
    <3> HIDE DEF lots, taken
    <3> QED  BY <1>2, <1>4
  <2> HIDE DEF lots, taken
  <2> QED  BY <2>1 DEF Lesser, Over
<1>6. Numbered(taken, lots) /\ DOMAIN taken = lots
  <2>1. DOMAIN taken = lots
    BY DEF Taken
  <2> HIDE DEF lots, taken
  <2> QED  BY <1>3, <1>5, <2>1 DEF Numbered
<1>7. 0 \in Good
  <2>1. 0 \in 0..k
    BY <1>0
  <2>2. Lots(0) = {}
    <3>1. Lots(0) \in SUBSET (1..0)
      BY <1>2, <2>1
    <3> HIDE DEF Lots
    <3> QED  BY <3>1
  <2>3. Rem(0) = 0
    <3>1. SumFunctionOnSet(book.left, Lots(0)) = 0
      <4> HIDE DEF Lots
      <4> QED  BY <1>2, <2>1, <2>2, SumAdds
    <3> QED  BY <1>2, <2>1, <3>1
  <2>4. SumFunctionOnSet(taken, Lots(0)) = 0
    <3>1. Numbered(taken, {})
      <4> HIDE DEF taken, lots
      <4> QED  BY <1>6, NumberedPart
    <3> HIDE DEF taken, Lots
    <3> QED  BY <2>2, <3>1, SumAdds
  <2> HIDE DEF taken, Lots, Rem
  <2> QED  BY <2>3, <2>4 DEF Lesser
<1>8. ASSUME NEW i \in Nat, i \in Good
      PROVE  i + 1 \in Good
  <2> DEFINE x == i + 1
  <2> SUFFICES ASSUME x <= k
               PROVE  SumFunctionOnSet(taken, Lots(x)) = Lesser(c, Rem(x))
    OBVIOUS
  <2>1. /\ x \in 1..k /\ x \in 1..N /\ x \in Nat /\ x - 1 = i
        /\ i \in 0..k /\ x \in 0..k
        /\ \A j \in 1..k : j <= x <=> j <= i \/ j = x
    BY <1>0
  <2>2. SumFunctionOnSet(taken, Lots(i)) = Lesser(c, Rem(i))
    BY <1>0, <1>8, <2>1
  <2>3. /\ Rem(i) \in Int /\ Rem(x) \in Int
        /\ SumFunctionOnSet(book.left, Lots(i)) = Rem(i)
        /\ SumFunctionOnSet(book.left, Lots(x)) = Rem(x)
        /\ Numbered(book.left, Lots(i))
    <3> HIDE DEF Lots, Rem, x
    <3> QED  BY <1>2, <2>1
  <2>4. Lots(i) \in SUBSET lots
    OBVIOUS
  <2>5. Numbered(taken, Lots(i))
    <3> HIDE DEF Lots, lots, taken
    <3> QED  BY <1>6, <2>4, NumberedPart
  <2>6. CASE x \in lots
    <3>1. Lots(x) = Lots(i) \cup {x} /\ x \notin Lots(i)
      <4>1. \A j \in lots : j \in 1..k
        BY <1>3
      <4>2. ~(x <= i)
        BY <2>1
      <4> HIDE DEF lots, x
      <4> QED  BY <2>1, <2>6, <4>1, <4>2
    <3>2. /\ taken[x] = Lesser(book.left[x], Over(c, Rem(i)))
          /\ taken[x] \in Nat /\ book.left[x] \in Nat
      <4>1. taken[x] = Lesser(book.left[x], Over(c, Rem(x - 1))) /\ taken[x] \in Nat /\ book.left[x] \in Nat
        <5> HIDE DEF lots, taken, x, Rem
        <5> QED  BY <1>4, <1>5, <2>6
      <4> HIDE DEF taken, x, Rem
      <4> QED  BY <2>1, <4>1
    <3>3. /\ SumFunctionOnSet(taken, Lots(x)) = SumFunctionOnSet(taken, Lots(i)) + taken[x]
          /\ SumFunctionOnSet(book.left, Lots(x)) = SumFunctionOnSet(book.left, Lots(i)) + book.left[x]
      <4>1. /\ x \in Nat /\ x \notin Lots(i) /\ Numbered(taken, Lots(i))
            /\ Numbered(book.left, Lots(i)) /\ taken[x] \in Int /\ book.left[x] \in Int
        BY <2>1, <2>3, <2>5, <3>1, <3>2
      <4> HIDE DEF Lots, taken, x
      <4>2. SumFunctionOnSet(taken, Lots(i) \cup {x}) = SumFunctionOnSet(taken, Lots(i)) + taken[x]
        BY <4>1, SumWith
      <4>3. SumFunctionOnSet(book.left, Lots(i) \cup {x})
              = SumFunctionOnSet(book.left, Lots(i)) + book.left[x]
        BY <4>1, SumWith
      <4> QED  BY <3>1, <4>2, <4>3
    <3>4. Rem(x) = Rem(i) + book.left[x]
      BY <2>3, <3>3
    <3> HIDE DEF Lots, taken, x, Rem, lots
    <3> QED  BY <2>2, <2>3, <3>2, <3>3, <3>4 DEF Lesser, Over
  <2>7. CASE x \notin lots
    <3>1. Lots(x) = Lots(i)
      <4>1. \A j \in lots : j \in 1..k
        BY <1>3
      <4> HIDE DEF lots, x
      <4> QED  BY <2>1, <2>7, <4>1
    <3>2. Rem(x) = Rem(i)
      <4> HIDE DEF Lots, Rem, x
      <4> QED  BY <2>3, <3>1
    <3> HIDE DEF Lots, taken, x, Rem, lots
    <3> QED  BY <2>2, <3>1, <3>2
  <2> QED  BY <2>6, <2>7
<1>9. k \in Good
  <2>1. Good \in SUBSET Nat
    OBVIOUS
  <2> HIDE DEF Good
  <2> QED  BY <1>0, <1>7, <1>8, <2>1, Inductive
<1>10. SumFunctionOnSet(taken, lots) = c
  <2>1. Lots(k) = lots
    <3>1. \A j \in lots : j <= k
      BY <1>0, <1>3
    <3> HIDE DEF lots
    <3> QED  BY <3>1
  <2>2. SumFunctionOnSet(taken, Lots(k)) = Lesser(c, Rem(k))
    BY <1>0, <1>9
  <2>3. c <= Rem(k) /\ Rem(k) \in Int
    <3>1. k \in 0..k
      BY <1>0
    <3> QED  BY <1>2, <1>3, <3>1
  <2> HIDE DEF taken, lots, Lots, Rem
  <2> QED  BY <2>1, <2>2, <2>3 DEF Lesser
<1> QED
  <2> HIDE DEF lots, taken
  <2> QED  BY <1>4, <1>5, <1>6, <1>10 DEF lots, taken

-----------------------------------------------------------------------------
(* One fill *)

\* How much of an open quantity o of side s a fill of d closes.
Closing(s, o, d) == IF o > 0 /\ Sign(d) # s THEN Lesser(o, Magnitude(d)) ELSE 0

\* What classifyFill says of a fill against an open quantity.
LEMMA Classified ==
  ASSUME NEW s \in {1, -1}, NEW o \in Nat, NEW d \in Int, d # 0
  PROVE  LET class == ClassifyFill(s * o, d)
         IN  /\ class \in {"entry", "reversal"} <=> o = 0 \/ (Sign(d) # s /\ Magnitude(d) > o)
             /\ class \in {"reduction", "reversal"} <=> o > 0 /\ Sign(d) # s
             /\ class = "reduction" <=> o > 0 /\ Sign(d) # s /\ Magnitude(d) <= o
             /\ class = "reversal" <=> o > 0 /\ Sign(d) # s /\ Magnitude(d) > o
             /\ Completes(s * o, d) <=> o > 0 /\ Sign(d) # s /\ Closing(s, o, d) = o
<1>1. d > 0 \/ d < 0
  OBVIOUS
<1>2. CASE s = 1 /\ d > 0
  BY <1>2 DEF ClassifyFill, Completes, Sign, Magnitude, Closing, Lesser
<1>3. CASE s = 1 /\ d < 0
  BY <1>3 DEF ClassifyFill, Completes, Sign, Magnitude, Closing, Lesser
<1>4. CASE s = -1 /\ d > 0
  BY <1>4 DEF ClassifyFill, Completes, Sign, Magnitude, Closing, Lesser
<1>5. CASE s = -1 /\ d < 0
  BY <1>5 DEF ClassifyFill, Completes, Sign, Magnitude, Closing, Lesser
<1> QED  BY <1>1, <1>2, <1>3, <1>4, <1>5

\* What AfterFill does, by the open quantity alone.
LEMMA AfterFillIs ==
  ASSUME Walkable, NEW k \in DOMAIN Merged, NEW book, LotsRight(book, k - 1)
  PROVE  LET key == KeyAt(k)
             d == DeltaAt(k)
             s == book.side[key]
             o == Open(book, key)
             closed == Closing(s, o, d)
             lots == OpenLots(book, key)
             taken == Taken(book.left, lots, closed)
             new == AfterFill(book, k)
         IN  /\ closed \in Nat /\ closed <= o /\ closed <= Magnitude(d)
             /\ new.left = [j \in DOMAIN Merged |->
                              IF j = k THEN Magnitude(d) - closed
                              ELSE IF j \in lots THEN book.left[j] - taken[j]
                              ELSE book.left[j]]
             /\ new.side = IF o = 0 \/ (Sign(d) # s /\ Magnitude(d) > o)
                           THEN [book.side EXCEPT ![key] = Sign(d)] ELSE book.side
             /\ new.trades = IF o > 0 /\ Sign(d) # s
                             THEN Append(book.trades, ClosedTrade(book, k, taken, closed))
                             ELSE book.trades
<1> DEFINE key == KeyAt(k)
           d == DeltaAt(k)
           s == book.side[key]
           o == Open(book, key)
           closed == Closing(s, o, d)
           lots == OpenLots(book, key)
           class == ClassifyFill(s * o, d)
           c == CASE class = "reduction" -> Magnitude(d)
                  [] class = "reversal" -> o
                  [] OTHER -> 0
<1>1. key \in ContractKeys /\ d \in Int /\ d # 0 /\ k - 1 \in 0..Len(Merged)
  BY DEF Walkable
<1>2. s \in {1, -1} /\ o \in Nat
  <2>1. s \in {1, -1}
    BY <1>1 DEF LotsRight
  <2>2. o \in Nat
    BY <1>1, OpenIs
  <2> QED  BY <2>1, <2>2
<1>3. Sign(d) \in {1, -1} /\ Magnitude(d) \in Nat
  BY <1>1, SignOf
<1>4. closed \in Nat /\ closed <= o /\ closed <= Magnitude(d)
  <2> HIDE DEF d, s, o
  <2> QED  BY <1>2, <1>3 DEF Closing, Lesser
<1>5. /\ class \in {"entry", "reversal"} <=> o = 0 \/ (Sign(d) # s /\ Magnitude(d) > o)
      /\ class \in {"reduction", "reversal"} <=> o > 0 /\ Sign(d) # s
      /\ class = "reduction" <=> o > 0 /\ Sign(d) # s /\ Magnitude(d) <= o
      /\ class = "reversal" <=> o > 0 /\ Sign(d) # s /\ Magnitude(d) > o
  <2> HIDE DEF d, s, o
  <2> QED  BY <1>1, <1>2, Classified
<1>6. c = closed
  <2> HIDE DEF d, s, o, class
  <2> QED  BY <1>2, <1>3, <1>5 DEF Closing, Lesser
<1>7. DOMAIN book.left = DOMAIN Merged
  BY DEF LotsRight
<1> DEFINE taken == Taken(book.left, lots, c)
<1>8. AfterFill(book, k) =
        [left |-> [j \in DOMAIN book.left |->
                     IF j = k THEN Magnitude(d) - c
                     ELSE IF j \in lots THEN book.left[j] - taken[j]
                     ELSE book.left[j]],
         side |-> IF class \in {"entry", "reversal"}
                  THEN [book.side EXCEPT ![key] = Sign(d)] ELSE book.side,
         trades |-> IF class \in {"reduction", "reversal"}
                    THEN Append(book.trades, ClosedTrade(book, k, taken, c))
                    ELSE book.trades]
  BY DEF AfterFill, Open
<1> HIDE DEF key, d, s, o, closed, lots, class, c
<1>9. /\ AfterFill(book, k).left = [j \in DOMAIN Merged |->
                     IF j = k THEN Magnitude(d) - closed
                     ELSE IF j \in lots THEN book.left[j] - Taken(book.left, lots, closed)[j]
                     ELSE book.left[j]]
      /\ AfterFill(book, k).side = IF class \in {"entry", "reversal"}
                  THEN [book.side EXCEPT ![key] = Sign(d)] ELSE book.side
      /\ AfterFill(book, k).trades = IF class \in {"reduction", "reversal"}
                    THEN Append(book.trades, ClosedTrade(book, k, Taken(book.left, lots, closed), closed))
                    ELSE book.trades
  BY <1>6, <1>7, <1>8
<1>10. /\ AfterFill(book, k).side = IF o = 0 \/ (Sign(d) # s /\ Magnitude(d) > o)
                           THEN [book.side EXCEPT ![key] = Sign(d)] ELSE book.side
       /\ AfterFill(book, k).trades = IF o > 0 /\ Sign(d) # s
                             THEN Append(book.trades, ClosedTrade(book, k, Taken(book.left, lots, closed), closed))
                             ELSE book.trades
  <2>1. CASE class \in {"entry", "reversal"}
    BY <1>5, <1>9, <2>1
  <2>2. CASE class \notin {"entry", "reversal"}
    BY <1>5, <1>9, <2>2
  <2> QED  BY <2>1, <2>2
<1> QED
  BY <1>4, <1>9, <1>10 DEF key, d, s, o, closed, lots

\* Of a lot between u and v, beyond the q closed before, c more takes the front.
LEMMA FrontFirst ==
  ASSUME NEW u \in Nat, NEW v \in Nat, u <= v, NEW q \in Nat, NEW c \in Nat
  PROVE  LET lot == Over(v, q) - Over(u, q)
         IN  lot - Lesser(lot, Over(c, Over(u, q))) = Over(v, q + c) - Over(u, q + c)
<1>1. CASE v <= q
  BY <1>1 DEF Over, Lesser
<1>2. CASE v > q /\ u <= q
  BY <1>2 DEF Over, Lesser
<1>3. CASE u > q /\ c <= u - q
  BY <1>3 DEF Over, Lesser
<1>4. CASE u > q /\ c > u - q
  BY <1>4 DEF Over, Lesser
<1> QED  BY <1>1, <1>2, <1>3, <1>4

\* All that is open is closed exactly when every lot is taken whole.
LEMMA AllTaken ==
  ASSUME Walkable, NEW k \in 0..Len(Merged), NEW book, LotsRight(book, k), NEW key \in ContractKeys,
         NEW c \in Nat, c <= Open(book, key)
  PROVE  LET lots == OpenLots(book, key)
             taken == Taken(book.left, lots, c)
         IN  (\A j \in lots : taken[j] = book.left[j]) <=> c = Open(book, key)
<1> DEFINE lots == OpenLots(book, key)
           taken == Taken(book.left, lots, c)
           s == book.side[key]
           Q == Volume(key, Other(s), k)
<1>1. /\ Numbered(taken, lots) /\ SumFunctionOnSet(taken, lots) = c
      /\ \A j \in lots : /\ taken[j] = Lesser(book.left[j], Over(c, Remains(book, key, k, j - 1)))
                         /\ book.left[j] \in Nat
  BY TakenIs
<1>2. ASSUME \A j \in lots : taken[j] = book.left[j]
      PROVE  c = Open(book, key)
  <2>1. Alike(taken, book.left, lots, lots)
    BY <1>2 DEF Alike
  <2> HIDE DEF taken, lots
  <2>2. SumFunctionOnSet(book.left, lots) = SumFunctionOnSet(taken, lots)
    BY <1>1, <2>1, SumSame
  <2> QED  BY <1>1, <2>2 DEF Open, lots
<1>3. ASSUME c = Open(book, key), NEW j \in lots
      PROVE  taken[j] = book.left[j]
  <2>0. Len(Merged) \in Nat /\ k \in Nat /\ k <= Len(Merged)
    BY DEF Walkable
  <2>1. j \in 1..k /\ j \in 0..k /\ j - 1 \in 0..k /\ k \in 0..k
    <3>1. lots \in SUBSET (1..k)
      BY OpenIs
    <3> HIDE DEF lots
    <3> QED  BY <2>0, <3>1
  <2>2. KeyAt(j) = key
    BY DEF OpenLots
  <2>3. book.left[j] = Remains(book, key, k, j) - Remains(book, key, k, j - 1)
    BY <2>1, <2>2 DEF LotsRight
  <2>4. /\ Volume(key, s, j) <= Volume(key, s, k)
        /\ Volume(key, s, j) \in Int /\ Volume(key, s, j - 1) \in Int
        /\ Volume(key, s, k) \in Int /\ Q \in Int
    <3>1. j \in 0..Len(Merged) /\ j - 1 \in 0..Len(Merged) /\ k \in 0..Len(Merged)
      BY <2>0, <2>1
    <3> HIDE DEF s
    <3> QED  BY <2>1, <3>1, VolumeSteps, VolumeGrows
  <2>5. c = Over(Volume(key, s, k), Q)
    <3>1. Open(book, key) = Remains(book, key, k, k)
      BY OpenIs
    <3> QED  BY <1>3, <3>1 DEF Remains
  <2>6. /\ taken[j] = Lesser(book.left[j], Over(c, Over(Volume(key, s, j - 1), Q)))
        /\ book.left[j] = Over(Volume(key, s, j), Q) - Over(Volume(key, s, j - 1), Q)
    BY <1>1, <2>3 DEF Remains
  <2> HIDE DEF lots, taken, s, Q
  <2> QED  BY <2>4, <2>5, <2>6 DEF Lesser, Over
<1> QED  BY <1>2, <1>3

\* Each fill leaves the lots right.
LEMMA LotsStep ==
  ASSUME Walkable, NEW k \in DOMAIN Merged, NEW book, LotsRight(book, k - 1)
  PROVE  LotsRight(AfterFill(book, k), k)
<1> DEFINE N == Len(Merged)
           p == k - 1
           key == KeyAt(k)
           d == DeltaAt(k)
           s == book.side[key]
           o == Open(book, key)
           closed == Closing(s, o, d)
           lots == OpenLots(book, key)
           taken == Taken(book.left, lots, closed)
           new == AfterFill(book, k)
           turned == o = 0 \/ (Sign(d) # s /\ Magnitude(d) > o)
           V(i) == Volume(key, s, i)
           W(i) == Volume(key, Other(s), i)
<1>0. /\ N \in Nat /\ DOMAIN Merged = 1..N /\ k \in 1..N /\ p \in 0..N /\ k \in 0..N
      /\ p \in Nat /\ k # 0
  BY DEF Walkable
<1>1. /\ key \in ContractKeys /\ d \in Int /\ d # 0
      /\ Sign(d) \in {1, -1} /\ Magnitude(d) \in Nat
  BY SignOf DEF Walkable
<1>2. /\ book.left \in [1..N -> Nat] /\ book.side \in [ContractKeys -> {1, -1}]
      /\ \A j \in 1..N : j > p => book.left[j] = 0
      /\ \A c \in ContractKeys : Volume(c, Other(book.side[c]), p) <= Volume(c, book.side[c], p)
      /\ \A j \in 1..p : book.left[j] = Remains(book, KeyAt(j), p, j) - Remains(book, KeyAt(j), p, j - 1)
  BY <1>0 DEF LotsRight
<1>3. /\ s \in {1, -1} /\ Other(s) \in {1, -1} /\ Other(Other(s)) = s
      /\ (Sign(d) = s \/ Sign(d) = Other(s)) /\ s # Other(s)
  <2>1. s \in {1, -1}
    BY <1>1, <1>2
  <2> HIDE DEF s, d
  <2> QED  BY <1>1, <2>1 DEF Other
<1>4. /\ lots \in SUBSET (1..p) /\ o = V(p) - W(p) /\ o \in Nat /\ V(p) \in Nat /\ W(p) \in Nat
  BY <1>0, <1>1, OpenIs
<1>5. /\ closed \in Nat /\ closed <= o /\ closed <= Magnitude(d)
      /\ new.left = [j \in DOMAIN Merged |-> IF j = k THEN Magnitude(d) - closed
                                             ELSE IF j \in lots THEN book.left[j] - taken[j]
                                             ELSE book.left[j]]
      /\ new.side = IF turned THEN [book.side EXCEPT ![key] = Sign(d)] ELSE book.side
  BY AfterFillIs
<1>6. /\ \A j \in lots : /\ taken[j] = Lesser(book.left[j], Over(closed, Remains(book, key, p, j - 1)))
                         /\ taken[j] \in Nat /\ taken[j] <= book.left[j] /\ book.left[j] \in Nat
      /\ (\A j \in lots : taken[j] = book.left[j]) <=> closed = o
  <2> HIDE DEF key, d, closed
  <2> QED  BY <1>0, <1>1, <1>5, TakenIs, AllTaken
<1>7. \A j \in lots : KeyAt(j) = key /\ book.left[j] > 0
  BY DEF OpenLots
<1>8. \A j \in 1..N : KeyAt(j) = key /\ j \notin lots => book.left[j] = 0
  <2> TAKE j \in 1..N
  <2>1. KeyAt(j) = key /\ j \notin lots => ~(book.left[j] > 0)
    BY <1>2 DEF OpenLots
  <2>2. book.left[j] \in Nat
    <3> HIDE DEF N
    <3> QED  BY <1>2
  <2> HIDE DEF lots, key
  <2> QED  BY <2>1, <2>2
<1>9. \A i \in 0..k : V(i) \in Nat /\ W(i) \in Nat
  <2> TAKE i \in 0..k
  <2>1. i \in 0..N /\ i \in 0..i
    BY <1>0
  <2>2. V(i) \in Int /\ V(i) >= 0 /\ W(i) \in Int /\ W(i) >= 0
    <3> HIDE DEF key, s, N
    <3> QED  BY <2>1, VolumeSteps, VolumeGrows DEF N
  <2> QED  BY <2>2
<1>10. \A i \in 0..p : V(i) <= V(p) /\ W(i) <= W(p)
  <2> HIDE DEF key, s, p
  <2> QED  BY <1>0, VolumeGrows
<1>11. /\ V(k) = V(p) + IF Sign(d) = s THEN Magnitude(d) ELSE 0
       /\ W(k) = W(p) + IF Sign(d) = s THEN 0 ELSE Magnitude(d)
  <2>1. \A r : Volume(key, r, k) = Volume(key, r, k - 1) + IF KeyAt(k) = key /\ Sign(DeltaAt(k)) = r
                                                           THEN Magnitude(DeltaAt(k)) ELSE 0
    BY <1>0, VolumeSteps
  <2>2. V(k) = V(p) + IF Sign(d) = s THEN Magnitude(d) ELSE 0
    BY <2>1
  <2>3. W(k) = W(p) + IF Sign(d) = Other(s) THEN Magnitude(d) ELSE 0
    BY <2>1
  <2> HIDE DEF d, s, key, p
  <2> QED  BY <1>3, <2>2, <2>3
<1>12. ASSUME NEW c, c # key
       PROVE  \A r : Volume(c, r, k) = Volume(c, r, p)
  <2> TAKE r
  <2>1. Volume(c, r, k) = Volume(c, r, p) + 0 /\ Volume(c, r, p) \in Int
    BY <1>0, <1>12, VolumeSteps
  <2> QED  BY <2>1
\* The types.
<1>13. new.left \in [DOMAIN Merged -> Nat]
  <2>1. ASSUME NEW j \in 1..N
        PROVE  (IF j = k THEN Magnitude(d) - closed
                ELSE IF j \in lots THEN book.left[j] - taken[j]
                ELSE book.left[j]) \in Nat
    <3>1. ASSUME j \in lots  PROVE book.left[j] - taken[j] \in Nat
      <4> DEFINE a == book.left[j]
                 b == taken[j]
      <4> HIDE DEF lots, taken
      <4>1. a \in Nat /\ b \in Nat /\ b <= a
        BY <1>6, <3>1, Zenon
      <4> HIDE DEF a, b
      <4>2. a - b \in Nat
        BY <4>1
      <4> QED  BY <4>2 DEF a, b
    <3>2. Magnitude(d) - closed \in Nat /\ book.left[j] \in Nat
      <4> HIDE DEF d, closed, N
      <4>1. Magnitude(d) \in Nat /\ closed \in Nat /\ closed <= Magnitude(d)
        BY <1>1, <1>5, Zenon
      <4>2. book.left[j] \in Nat
        BY <1>2
      <4> DEFINE m == Magnitude(d)
      <4>3. m - closed \in Nat
        <5>1. m \in Nat /\ closed \in Nat /\ closed <= m
          BY <4>1
        <5> HIDE DEF m
        <5> QED  BY <5>1
      <4> QED  BY <4>2, <4>3
    <3> HIDE DEF lots, taken, d, closed
    <3> QED  BY <3>1, <3>2
  <2> HIDE DEF lots, taken, d, closed, new, N
  <2> QED  BY <1>0, <1>5, <2>1
<1>14. /\ new.side \in [ContractKeys -> {1, -1}]
       /\ new.side[key] = IF turned THEN Sign(d) ELSE s
       /\ \A c \in ContractKeys : c # key => new.side[c] = book.side[c]
  <2> HIDE DEF turned, d, key, new
  <2> QED  BY <1>1, <1>2, <1>5
<1>15. \A j \in DOMAIN Merged : j > k => new.left[j] = 0
  <2> TAKE j \in DOMAIN Merged
  <2> SUFFICES ASSUME j > k  PROVE new.left[j] = 0
    OBVIOUS
  <2>1. j \in 1..N /\ j # k /\ j > p /\ j \notin 1..p
    BY <1>0
  <2>2. j \notin lots /\ book.left[j] = 0
    BY <1>2, <1>4, <2>1
  <2> HIDE DEF lots, taken, d, closed, new, p
  <2> QED  BY <1>5, <2>1, <2>2
\* The other keys.
<1>16. ASSUME NEW c \in ContractKeys, c # key
       PROVE  /\ Volume(c, Other(new.side[c]), k) <= Volume(c, new.side[c], k)
              /\ \A j \in 1..k : KeyAt(j) = c =>
                   new.left[j] = Remains(new, c, k, j) - Remains(new, c, k, j - 1)
  <2>1. new.side[c] = book.side[c] /\ \A r : Volume(c, r, k) = Volume(c, r, p)
    BY <1>12, <1>14, <1>16
  <2>2. Volume(c, Other(new.side[c]), k) <= Volume(c, new.side[c], k)
    <3> HIDE DEF new, p, key
    <3> QED  BY <1>2, <2>1
  <2>3. \A i : Remains(new, c, k, i) = Remains(book, c, p, i)
    <3> HIDE DEF new, p, key
    <3> QED  BY <2>1 DEF Remains
  <2>4. ASSUME NEW j \in 1..k, KeyAt(j) = c
        PROVE  new.left[j] = Remains(new, c, k, j) - Remains(new, c, k, j - 1)
    <3>1. j # k /\ j \in 1..p /\ j \in 1..N
      BY <1>0, <1>16, <2>4
    <3>2. j \notin lots
      <4> HIDE DEF lots, key
      <4> QED  BY <1>7, <1>16, <2>4
    <3>3. new.left[j] = book.left[j]
      <4> HIDE DEF new, lots, taken, d, closed
      <4> QED  BY <1>0, <1>5, <3>1, <3>2
    <3>4. book.left[j] = Remains(book, c, p, j) - Remains(book, c, p, j - 1)
      BY <1>2, <2>4, <3>1
    <3> HIDE DEF new, p, key
    <3> QED  BY <2>3, <3>3, <3>4
  <2> QED  BY <2>2, <2>4
\* The key of the fill, when the side stays.
<1>17. ASSUME ~turned
       PROVE  /\ Volume(key, Other(new.side[key]), k) <= Volume(key, new.side[key], k)
              /\ \A j \in 1..k : KeyAt(j) = key =>
                   new.left[j] = Remains(new, key, k, j) - Remains(new, key, k, j - 1)
  <2>1. new.side[key] = s
    BY <1>14, <1>17
  <2>2. W(k) = W(p) + closed /\ V(k) = V(p) + (Magnitude(d) - closed)
    <3>1. o > 0 /\ (Sign(d) = s \/ Magnitude(d) <= o)
      <4> HIDE DEF o, d, s
      <4> QED  BY <1>1, <1>4, <1>17
    <3>2. closed = IF Sign(d) = s THEN 0 ELSE Magnitude(d)
      <4> HIDE DEF o, d, s
      <4> QED  BY <1>1, <1>4, <3>1 DEF Closing, Lesser
    <3> HIDE DEF o, d, s, closed, V, W, p
    <3> QED  BY <1>1, <1>4, <1>11, <3>2
  <2>3. Volume(key, Other(new.side[key]), k) <= Volume(key, new.side[key], k)
    <3>1. W(k) <= V(k)
      <4> HIDE DEF o, d, s, closed, V, W, p
      <4> QED  BY <1>1, <1>4, <1>5, <2>2
    <3> HIDE DEF new, s, key
    <3> QED  BY <2>1, <3>1 DEF V, W
  <2>4. \A i : Remains(new, key, k, i) = Over(V(i), W(p) + closed)
    <3> HIDE DEF new, s, key, closed, p
    <3> QED  BY <2>1, <2>2 DEF Remains
  <2>5. ASSUME NEW j \in 1..k, KeyAt(j) = key
        PROVE  new.left[j] = Over(V(j), W(p) + closed) - Over(V(j - 1), W(p) + closed)
    <3>1. CASE j = k
      <4>1. new.left[k] = Magnitude(d) - closed
        <5> HIDE DEF new, lots, taken, d, closed
        <5> QED  BY <1>5
      <4>2. Over(V(k), W(p) + closed) - Over(V(p), W(p) + closed) = Magnitude(d) - closed
        <5> HIDE DEF o, d, s, closed, V, W, p
        <5> QED  BY <1>1, <1>4, <1>5, <2>2 DEF Over
      <4> QED  BY <3>1, <4>1, <4>2
    <3>2. CASE j # k
      <4>1. j \in 1..p /\ j \in 1..N /\ j \in 0..k /\ j - 1 \in 0..k /\ j \in 0..p /\ j - 1 \in 0..p
        BY <1>0, <3>2
      <4>2. /\ book.left[j] = Over(V(j), W(p)) - Over(V(j - 1), W(p))
            /\ Remains(book, key, p, j - 1) = Over(V(j - 1), W(p))
        BY <1>2, <2>5, <4>1 DEF Remains
      <4>3. V(j - 1) <= V(j) /\ V(j) \in Nat /\ V(j - 1) \in Nat
        <5>1. j \in 0..N /\ j - 1 \in 0..j
          BY <1>0, <4>1
        <5> HIDE DEF s, key, N
        <5> QED  BY <1>9, <4>1, <5>1, VolumeGrows DEF N
      <4> DEFINE u == V(j - 1)
                 v == V(j)
                 q == W(p)
                 lot == Over(v, q) - Over(u, q)
      <4>4. lot - Lesser(lot, Over(closed, Over(u, q))) = Over(v, q + closed) - Over(u, q + closed)
        <5>1. u <= v /\ v \in Nat /\ u \in Nat /\ q \in Nat /\ closed \in Nat
          BY <1>4, <1>5, <4>3
        <5> HIDE DEF u, v, q, closed
        <5> QED  BY <5>1, FrontFirst
      <4>5. CASE j \in lots
        <5>1. new.left[j] = book.left[j] - taken[j]
          <6> HIDE DEF new, lots, taken, d, closed
          <6> QED  BY <1>0, <1>5, <3>2, <4>1, <4>5
        <5>2. taken[j] = Lesser(lot, Over(closed, Over(u, q)))
          <6>1. taken[j] = Lesser(book.left[j], Over(closed, Remains(book, key, p, j - 1)))
            <7> HIDE DEF lots, taken, closed, key, p
            <7> QED  BY <1>6, <4>5
          <6> HIDE DEF taken, closed
          <6> QED  BY <4>2, <6>1
        <5> HIDE DEF new, taken, closed
        <5> QED  BY <4>2, <4>4, <5>1, <5>2
      <4>6. CASE j \notin lots
        <5>1. new.left[j] = book.left[j] /\ book.left[j] = 0
          <6>1. book.left[j] = 0
            <7> HIDE DEF lots, key
            <7> QED  BY <1>8, <2>5, <4>1, <4>6
          <6> HIDE DEF new, lots, taken, d, closed
          <6> QED  BY <1>0, <1>5, <3>2, <4>1, <4>6, <6>1
        <5>2. lot = 0
          BY <4>2, <5>1
        <5>3. lot - Lesser(lot, Over(closed, Over(u, q))) = 0
          <6>1. Over(closed, Over(u, q)) >= 0 /\ Over(closed, Over(u, q)) \in Int
            <7>1. u \in Nat /\ q \in Nat /\ closed \in Nat
              BY <1>4, <1>5, <4>3
            <7> HIDE DEF u, q, closed
            <7> QED  BY <7>1 DEF Over
          <6> HIDE DEF lot, u, q, closed
          <6> QED  BY <5>2, <6>1 DEF Lesser
        <5> HIDE DEF new, lot, closed
        <5> QED  BY <4>4, <5>1, <5>3
      <4> QED  BY <4>5, <4>6
    <3> QED  BY <3>1, <3>2
  <2> HIDE DEF new, key, V, W, closed, p
  <2> QED  BY <2>3, <2>4, <2>5
\* The key of the fill, when it changes sides or was flat.
<1>18. ASSUME turned
       PROVE  /\ Volume(key, Other(new.side[key]), k) <= Volume(key, new.side[key], k)
              /\ \A j \in 1..k : KeyAt(j) = key =>
                   new.left[j] = Remains(new, key, k, j) - Remains(new, key, k, j - 1)
  <2>1. new.side[key] = Sign(d)
    BY <1>14, <1>18
  <2>2. closed = o
    <3> HIDE DEF o, d, s
    <3> QED  BY <1>1, <1>4, <1>18 DEF Closing, Lesser
  <2> DEFINE X(i) == Volume(key, Sign(d), i)
             Y(i) == Volume(key, Other(Sign(d)), i)
  <2>3. /\ Y(k) = X(p) + o /\ X(k) = X(p) + Magnitude(d) /\ o <= Magnitude(d) /\ X(p) \in Nat
        /\ \A i \in 0..p : X(i) <= X(p) /\ X(i) \in Nat
    <3>0. \A i \in 0..p : i \in 0..k
      BY <1>0
    <3>1. CASE Sign(d) = s
      <4>1. o = 0
        BY <1>18, <3>1
      <4>2. \A i : X(i) = V(i) /\ Y(i) = W(i)
        BY <3>1
      <4> HIDE DEF o, d, s, X, Y, V, W, p
      <4> QED  BY <1>1, <1>4, <1>9, <1>10, <1>11, <3>0, <3>1, <4>1, <4>2
    <3>2. CASE Sign(d) = Other(s)
      <4>1. \A i : X(i) = W(i) /\ Y(i) = V(i)
        <5> HIDE DEF d, s, key
        <5> QED  BY <1>3, <3>2
      <4>2. o <= Magnitude(d)
        <5> HIDE DEF d, s, o
        <5> QED  BY <1>1, <1>4, <1>18
      <4>3. Sign(d) # s
        <5> HIDE DEF d, s
        <5> QED  BY <1>3, <3>2
      <4> HIDE DEF o, d, s, X, Y, V, W, p
      <4> QED  BY <1>1, <1>4, <1>9, <1>10, <1>11, <3>0, <4>1, <4>2, <4>3
    <3> QED  BY <1>3, <3>1, <3>2
  <2>4. \A i : Remains(new, key, k, i) = Over(X(i), Y(k))
    <3> HIDE DEF new, d, key
    <3> QED  BY <2>1 DEF Remains
  <2>5. Y(k) <= X(k)
    <3> HIDE DEF o, d, X, Y, p
    <3> QED  BY <1>1, <1>4, <2>3
  <2>6. Volume(key, Other(new.side[key]), k) <= Volume(key, new.side[key], k)
    <3> HIDE DEF new, d, key
    <3> QED  BY <2>1, <2>5
  <2>7. \A i \in 0..p : Over(X(i), Y(k)) = 0
    <3> TAKE i \in 0..p
    <3>1. X(i) <= X(p) /\ X(i) \in Nat
      BY <2>3
    <3> HIDE DEF o, d, X, Y, p
    <3> QED  BY <1>4, <2>3, <3>1 DEF Over
  <2>8. ASSUME NEW j \in 1..k, KeyAt(j) = key
        PROVE  new.left[j] = Over(X(j), Y(k)) - Over(X(j - 1), Y(k))
    <3>1. CASE j = k
      <4>1. new.left[k] = Magnitude(d) - closed
        <5> HIDE DEF new, lots, taken, d, closed
        <5> QED  BY <1>5
      <4>2. Over(X(p), Y(k)) = 0
        <5>1. p \in 0..p
          BY <1>0
        <5> HIDE DEF X, Y, p
        <5> QED  BY <2>7, <5>1
      <4>3. Over(X(k), Y(k)) = Magnitude(d) - o
        <5> HIDE DEF o, d, X, Y, p
        <5> QED  BY <1>1, <1>4, <2>3 DEF Over
      <4>4. Magnitude(d) - o \in Int
        <5> HIDE DEF o, d
        <5> QED  BY <1>1, <1>4
      <4>5. new.left[j] = Over(X(j), Y(k)) - 0
        <5> HIDE DEF new, d, o, closed, X, Y
        <5> QED  BY <2>2, <3>1, <4>1, <4>3, <4>4
      <4> QED  BY <3>1, <4>2, <4>5
    <3>2. CASE j # k
      <4>1. j \in 1..N /\ j \in 0..p /\ j - 1 \in 0..p
        BY <1>0, <3>2
      <4>2. new.left[j] = 0
        <5>1. CASE j \in lots
          <6>1. new.left[j] = book.left[j] - taken[j]
            <7> HIDE DEF new, lots, taken, d, closed
            <7> QED  BY <1>0, <1>5, <3>2, <4>1, <5>1
          <6>2. taken[j] = book.left[j] /\ book.left[j] \in Nat
            <7> HIDE DEF lots, taken, closed, o
            <7> QED  BY <1>6, <2>2, <5>1
          <6> HIDE DEF new, taken
          <6> QED  BY <6>1, <6>2
        <5>2. CASE j \notin lots
          <6>1. book.left[j] = 0
            <7> HIDE DEF lots, key
            <7> QED  BY <1>8, <2>8, <4>1, <5>2
          <6> HIDE DEF new, lots, taken, d, closed
          <6> QED  BY <1>0, <1>5, <3>2, <4>1, <5>2, <6>1
        <5> QED  BY <5>1, <5>2
      <4>3. Over(X(j), Y(k)) = 0 /\ Over(X(j - 1), Y(k)) = 0
        <5> HIDE DEF X, Y, p
        <5> QED  BY <2>7, <4>1
      <4> HIDE DEF new, X, Y
      <4> QED  BY <4>2, <4>3
    <3> QED  BY <3>1, <3>2
  <2> HIDE DEF new, key, X, Y, p
  <2> QED  BY <2>4, <2>6, <2>8
<1>19. \A c \in ContractKeys :
         /\ Volume(c, Other(new.side[c]), k) <= Volume(c, new.side[c], k)
         /\ \A j \in 1..k : KeyAt(j) = c =>
              new.left[j] = Remains(new, c, k, j) - Remains(new, c, k, j - 1)
  <2> HIDE DEF new, key, turned
  <2> QED  BY <1>1, <1>16, <1>17, <1>18
<1>20. \A j \in 1..k : KeyAt(j) \in ContractKeys
  BY <1>0 DEF Walkable
<1> HIDE DEF new
<1> QED  BY <1>13, <1>14, <1>15, <1>19, <1>20 DEF LotsRight, new

LEMMA NoLotsRight ==
  ASSUME Walkable
  PROVE  LotsRight(NoBook, 0)
<1>1. /\ NoBook.left \in [DOMAIN Merged -> Nat]
      /\ NoBook.side \in [ContractKeys -> {1, -1}]
      /\ \A j \in DOMAIN Merged : NoBook.left[j] = 0
  BY DEF NoBook
<1>2. \A c, r : Volume(c, r, 0) = 0
  <2>1. 0 \in 0..Len(Merged)
    BY DEF Walkable
  <2> QED  BY <2>1, VolumeSteps
<1> HIDE DEF NoBook
<1> QED  BY <1>1, <1>2 DEF LotsRight

LEMMA AllLotsRight ==
  ASSUME Walkable
  PROVE  \A k \in 0..Len(Merged) : LotsRight(Books[k], k)
<1> DEFINE N == Len(Merged)
           Good == {k \in Nat : k <= N => LotsRight(Books[k], k)}
<1>0. N \in Nat /\ DOMAIN Merged = 1..N
  BY DEF Walkable
<1>1. 0 \in Good
  BY BooksStep, NoLotsRight
<1>2. ASSUME NEW k \in Nat, k \in Good
      PROVE  k + 1 \in Good
  <2> SUFFICES ASSUME k + 1 <= N  PROVE LotsRight(Books[k + 1], k + 1)
    OBVIOUS
  <2>1. k + 1 \in DOMAIN Merged /\ (k + 1) - 1 = k /\ k <= N
    BY <1>0
  <2>2. LotsRight(Books[k], k)
    BY <1>2, <2>1
  <2>3. LotsRight(AfterFill(Books[k], k + 1), k + 1)
    BY <2>1, <2>2, LotsStep
  <2>4. Books[k + 1] = AfterFill(Books[k], k + 1)
    <3>1. Books[k + 1] = AfterFill(Books[(k + 1) - 1], k + 1)
      BY <2>1, BooksStep
    <3> QED  BY <2>1, <3>1
  <2> QED  BY <2>3, <2>4
<1>3. \A k \in Nat : k \in Good
  <2>1. Good \in SUBSET Nat
    OBVIOUS
  <2> HIDE DEF Good
  <2> QED  BY <1>1, <1>2, <2>1, Inductive
<1>4. \A k \in 0..N : k \in Nat /\ k <= N
  BY <1>0
<1> QED  BY <1>3, <1>4

\* The net position under a key is what was bought less what was sold.
LEMMA PositionIsVolumes ==
  ASSUME Walkable, NEW key \in ContractKeys, NEW n \in 0..Len(Merged)
  PROVE  LET mine == {j \in 1..n : KeyAt(j) = key}
             Deltas1 == [k \in DOMAIN Merged |-> DeltaAt(k)]
         IN  SumFunctionOnSet(Deltas1, mine) = Volume(key, 1, n) - Volume(key, -1, n)
<1> DEFINE f == [k \in DOMAIN Merged |-> DeltaAt(k)]
           mine == {j \in 1..n : KeyAt(j) = key}
           bought == OfSide(key, 1, n)
           sold == OfSide(key, -1, n)
<1>0. Len(Merged) \in Nat /\ DOMAIN Merged = 1..Len(Merged) /\ \A j \in 1..n : j \in DOMAIN Merged
  BY DEF Walkable
<1>1. \A j \in DOMAIN Merged : /\ f[j] = DeltaAt(j) /\ f[j] \in Int
                               /\ Sign(DeltaAt(j)) \in {1, -1}
                               /\ Sign(DeltaAt(j)) = 1 => f[j] = Units[j]
                               /\ Sign(DeltaAt(j)) = -1 => f[j] = 0 - Units[j]
                               /\ Units[j] \in Int
  <2> TAKE j \in DOMAIN Merged
  <2>1. DeltaAt(j) \in Int /\ DeltaAt(j) # 0 /\ Units[j] = Magnitude(DeltaAt(j)) /\ Units[j] \in Nat
    BY UnitsNumbered DEF Walkable
  <2> QED  BY <2>1, SignOf
<1>2. /\ bought \in SUBSET mine /\ mine \ bought = sold
      /\ mine \in SUBSET DOMAIN Merged /\ sold \in SUBSET DOMAIN Merged /\ bought \in SUBSET DOMAIN Merged
  BY <1>0, <1>1 DEF OfSide
<1>3. Numbered(f, mine) /\ Numbered(f, bought) /\ Numbered(f, sold)
  <2>1. Numbered(Units, mine)
    <3> HIDE DEF mine
    <3> QED  BY <1>2, UnitsNumbered
  <2>2. \A j \in mine : f[j] \in Int
    BY <1>1, <1>2
  <2>3. Numbered(f, mine)
    <3> HIDE DEF f, mine
    <3> QED  BY <2>1, <2>2 DEF Numbered
  <2>4. bought \in SUBSET mine /\ sold \in SUBSET mine
    <3> HIDE DEF mine, sold
    <3> QED  BY <1>2
  <2> HIDE DEF f, mine, bought, sold
  <2> QED  BY <2>3, <2>4, NumberedPart
<1>4. SumFunctionOnSet(f, mine) = SumFunctionOnSet(f, bought) + SumFunctionOnSet(f, sold)
  <2>1. SumFunctionOnSet(f, mine) = SumFunctionOnSet(f, bought) + SumFunctionOnSet(f, mine \ bought)
    <3> HIDE DEF f, mine, bought
    <3> QED  BY <1>2, <1>3, SumParts
  <2> HIDE DEF f, mine, bought, sold
  <2> QED  BY <1>2, <2>1
<1>5. Numbered(Units, bought) /\ Numbered(Units, sold)
  <2> HIDE DEF bought, sold
  <2> QED  BY <1>2, UnitsNumbered
<1>6. SumFunctionOnSet(f, bought) = 1 * SumFunctionOnSet(Units, bought) + 0 * SumFunctionOnSet(Units, bought)
  <2>1. \A j \in bought : f[j] = Units[j] /\ Units[j] \in Int
    BY <1>1, <1>2 DEF OfSide
  <2>2. Combines(f, 1, Units, 0, Units, bought)
    <3> HIDE DEF f, bought
    <3> QED  BY <2>1 DEF Combines
  <2> HIDE DEF f, bought
  <2> QED  BY <1>5, <2>2, SumLinear
<1>7. SumFunctionOnSet(f, sold) = (-1) * SumFunctionOnSet(Units, sold) + 0 * SumFunctionOnSet(Units, sold)
  <2>1. \A j \in sold : f[j] = 0 - Units[j] /\ Units[j] \in Int
    BY <1>1, <1>2 DEF OfSide
  <2>2. Combines(f, -1, Units, 0, Units, sold)
    <3> HIDE DEF f, sold
    <3> QED  BY <2>1 DEF Combines
  <2> HIDE DEF f, sold
  <2> QED  BY <1>5, <2>2, SumLinear
<1>8. Volume(key, 1, n) \in Int /\ Volume(key, -1, n) \in Int
  BY VolumeSteps
<1>9. Volume(key, 1, n) = SumFunctionOnSet(Units, bought) /\ Volume(key, -1, n) = SumFunctionOnSet(Units, sold)
  BY DEF Volume
<1> HIDE DEF f, bought, sold, mine
<1>10. SumFunctionOnSet(f, mine) = Volume(key, 1, n) - Volume(key, -1, n)
  BY <1>4, <1>6, <1>7, <1>8, <1>9
<1> QED  BY <1>10 DEF f, mine

\* Right lots are the newest units.
LEMMA LotsAreNewest ==
  ASSUME Walkable
  PROVE  OpenLotsAreTheNewest
<1> DEFINE N == Len(Merged)
           Ds == [k \in DOMAIN Merged |-> DeltaAt(k)]
<1>0. N \in Nat /\ DOMAIN Merged = 1..N /\ N \in 0..N
  BY DEF Walkable
<1>1. LotsRight(Book, N)
  BY <1>0, AllLotsRight DEF Book
<1>2. ASSUME NEW key \in ContractKeys, NEW k \in DOMAIN Merged, KeyAt(k) = key
      PROVE  LET mine == {j \in DOMAIN Merged : KeyAt(j) = key}
                 position == SumFunctionOnSet(Ds, mine)
                 opening == {j \in mine : Sign(DeltaAt(j)) = Sign(position)}
                 later == SumFunctionOnSet(Units, {j \in opening : j > k})
             IN  Book.left[k] = IF k \in opening
                                THEN Min({Units[k], Max({0, Magnitude(position) - later})})
                                ELSE 0
  <2> DEFINE mine == {j \in DOMAIN Merged : KeyAt(j) = key}
             position == SumFunctionOnSet(Ds, mine)
             opening == {j \in mine : Sign(DeltaAt(j)) = Sign(position)}
             later == SumFunctionOnSet(Units, {j \in opening : j > k})
             s == Book.side[key]
             V(i) == Volume(key, s, i)
             Q == Volume(key, Other(s), N)
             u == Magnitude(DeltaAt(k))
  <2>1. /\ s \in {1, -1} /\ Q <= V(N)
        /\ Book.left[k] = Over(V(k), Q) - Over(V(k - 1), Q)
    <3>1. k \in 1..N
      BY <1>0
    <3>2. s \in {1, -1} /\ Q <= V(N)
      BY <1>1 DEF LotsRight
    <3>3. Book.left[k] = Remains(Book, key, N, k) - Remains(Book, key, N, k - 1)
      BY <1>1, <1>2, <3>1 DEF LotsRight
    <3> QED  BY <3>2, <3>3 DEF Remains
  <2>2. /\ V(N) \in Nat /\ Q \in Nat /\ V(k) \in Nat /\ V(k - 1) \in Nat /\ V(k) <= V(N)
        /\ V(k) = V(k - 1) + IF Sign(DeltaAt(k)) = s THEN u ELSE 0
    <3>1. k \in 0..N /\ k - 1 \in 0..N /\ k # 0 /\ k \in 0..k /\ k - 1 \in 0..(k - 1)
      BY <1>0
    <3>2. \A r : /\ Volume(key, r, N) \in Int /\ Volume(key, r, N) >= 0
                 /\ Volume(key, r, k) \in Int /\ Volume(key, r, k) >= 0
                 /\ Volume(key, r, k - 1) \in Int /\ Volume(key, r, k - 1) >= 0
      BY <1>0, <3>1, VolumeSteps, VolumeGrows
    <3>3. V(k) <= V(N)
      <4> HIDE DEF s
      <4> QED  BY <1>0, <3>1, VolumeGrows
    <3>4. V(k) = V(k - 1) + IF KeyAt(k) = key /\ Sign(DeltaAt(k)) = s THEN Magnitude(DeltaAt(k)) ELSE 0
      <4> HIDE DEF s
      <4> QED  BY <3>1, VolumeSteps
    <3>5. V(k) = V(k - 1) + IF Sign(DeltaAt(k)) = s THEN u ELSE 0
      BY <1>2, <3>4
    <3>6. V(N) \in Nat /\ Q \in Nat /\ V(k) \in Nat /\ V(k - 1) \in Nat
      <4> HIDE DEF s
      <4> QED  BY <3>2
    <3> QED  BY <3>3, <3>5, <3>6
  <2>3. u \in Nat /\ u > 0 /\ Sign(DeltaAt(k)) \in {1, -1} /\ Units[k] = u
    BY SignOf, UnitsNumbered DEF Walkable
  <2>4. position = Volume(key, 1, N) - Volume(key, -1, N)
    <3>1. mine = {j \in 1..N : KeyAt(j) = key}
      BY <1>0
    <3> HIDE DEF mine, Ds
    <3>2. SumFunctionOnSet(Ds, {j \in 1..N : KeyAt(j) = key}) = Volume(key, 1, N) - Volume(key, -1, N)
      BY <1>0, PositionIsVolumes DEF Ds
    <3> QED  BY <3>1, <3>2
  <2>5. /\ Magnitude(position) = V(N) - Q
        /\ V(N) > Q => Sign(position) = s
        /\ V(N) = Q => Sign(position) = 0
    <3>1. CASE s = 1
      <4>1. position = V(N) - Q
        BY <2>4, <3>1 DEF Other
      <4> HIDE DEF position, V, Q
      <4> QED  BY <2>1, <2>2, <3>1, <4>1 DEF Sign, Magnitude
    <3>2. CASE s = -1
      <4>1. position = Q - V(N)
        BY <2>4, <3>2 DEF Other
      <4>2. position \in Int /\ position <= 0 /\ 0 - position = V(N) - Q
        <5> HIDE DEF position, V, Q
        <5> QED  BY <2>1, <2>2, <4>1
      <4>3. CASE position = 0
        <5>1. V(N) = Q
          <6> HIDE DEF position, V, Q
          <6> QED  BY <2>2, <4>2, <4>3
        <5>2. Sign(position) = 0 /\ Magnitude(position) = 0
          <6> HIDE DEF position
          <6> QED  BY <4>3 DEF Sign, Magnitude
        <5> HIDE DEF position, V, Q
        <5> QED  BY <2>2, <5>1, <5>2
      <4>4. CASE position # 0
        <5>1. Sign(position) = -1 /\ Magnitude(position) = 0 - position
          <6> HIDE DEF position
          <6> QED  BY <4>2, <4>4 DEF Sign, Magnitude
        <5> HIDE DEF position, V, Q
        <5> QED  BY <2>2, <3>2, <4>2, <4>4, <5>1
      <4> QED  BY <4>3, <4>4
    <3> QED  BY <2>1, <3>1, <3>2
  <2>6. ASSUME k \in opening
        PROVE  Book.left[k] = Min({Units[k], Max({0, Magnitude(position) - later})})
    <3>1. Sign(DeltaAt(k)) = Sign(position)
      BY <2>6
    <3>2. V(N) > Q /\ Sign(DeltaAt(k)) = s /\ Sign(position) = s
      <4>1. Sign(position) # 0
        <5> HIDE DEF position
        <5> QED  BY <2>3, <3>1
      <4> HIDE DEF position, V, Q, s
      <4> QED  BY <2>1, <2>2, <2>5, <3>1, <4>1
    <3>3. later = V(N) - V(k)
      <4>1. /\ opening = OfSide(key, s, N)
            /\ OfSide(key, s, k) \in SUBSET OfSide(key, s, N)
            /\ {j \in opening : j > k} = OfSide(key, s, N) \ OfSide(key, s, k)
        <5>1. opening = OfSide(key, s, N)
          <6> HIDE DEF position, s
          <6> QED  BY <1>0, <3>2 DEF OfSide
        <5>2. \A j \in 1..N : j \in 1..k <=> ~(j > k)
          BY <1>0
        <5>3. \A j \in 1..k : j \in 1..N
          BY <1>0
        <5> HIDE DEF opening, s, N
        <5> QED  BY <5>1, <5>2, <5>3 DEF OfSide
      <4>2. Numbered(Units, OfSide(key, s, N))
        <5>1. OfSide(key, s, N) \in SUBSET DOMAIN Merged
          BY <1>0 DEF OfSide
        <5> QED  BY <5>1, UnitsNumbered
      <4>3. V(N) = V(k) + later
        <5>1. SumFunctionOnSet(Units, OfSide(key, s, N)) = SumFunctionOnSet(Units, OfSide(key, s, k))
                + SumFunctionOnSet(Units, OfSide(key, s, N) \ OfSide(key, s, k))
          BY <4>1, <4>2, SumParts
        <5> HIDE DEF opening, s, N
        <5> QED  BY <4>1, <5>1 DEF Volume
      <4>4. later \in Int
        <5>1. Numbered(Units, OfSide(key, s, N) \ OfSide(key, s, k))
          BY <4>2, NumberedPart
        <5> HIDE DEF opening, s, N
        <5> QED  BY <4>1, <5>1, SumAdds
      <4> HIDE DEF later, V
      <4> QED  BY <2>2, <4>3, <4>4
    <3>4. Max({0, Magnitude(position) - later}) = Over(V(N) - Q, V(N) - V(k))
      <4> HIDE DEF position, later, V, Q
      <4>1. V(N) - Q \in Int /\ V(N) - V(k) \in Int
        BY <2>2
      <4> QED  BY <2>5, <3>3, <4>1, MaxWithZero
    <3>5. Min({Units[k], Over(V(N) - Q, V(N) - V(k))}) = Lesser(u, Over(V(N) - Q, V(N) - V(k)))
      <4>1. u \in Int /\ Over(V(N) - Q, V(N) - V(k)) \in Int
        <5> HIDE DEF V, Q, u
        <5> QED  BY <2>2, <2>3 DEF Over
      <4> HIDE DEF V, Q, u
      <4> QED  BY <2>3, <4>1, MinOfTwo
    <3>6. Lesser(u, Over(V(N) - Q, V(N) - V(k))) = Over(V(k), Q) - Over(V(k - 1), Q)
      <4>1. V(k) = V(k - 1) + u
        BY <2>2, <3>2
      <4>2. Q <= V(N)
        BY <2>1
      <4> DEFINE n == V(N)
                 v == V(k)
                 w == V(k - 1)
      <4>3. n \in Nat /\ v \in Nat /\ w \in Nat /\ Q \in Nat /\ u \in Nat
            /\ v = w + u /\ v <= n /\ Q <= n
        BY <2>2, <2>3, <4>1, <4>2
      <4>4. Lesser(u, Over(n - Q, n - v)) = Over(v, Q) - Over(w, Q)
        <5> HIDE DEF n, v, w, Q, u
        <5>1. CASE v <= Q
          BY <4>3, <5>1 DEF Over, Lesser
        <5>2. CASE v > Q /\ w <= Q
          BY <4>3, <5>2 DEF Over, Lesser
        <5>3. CASE v > Q /\ w > Q
          BY <4>3, <5>3 DEF Over, Lesser
        <5> QED  BY <4>3, <5>1, <5>2, <5>3
      <4> QED  BY <4>4
    <3> HIDE DEF position, later, V, Q, u
    <3> QED  BY <2>1, <3>4, <3>5, <3>6
  <2>7. ASSUME k \notin opening
        PROVE  Book.left[k] = 0
    <3>1. Sign(DeltaAt(k)) # Sign(position)
      BY <1>2, <2>7
    <3>2. Over(V(k), Q) - Over(V(k - 1), Q) = 0
      <4>1. CASE V(N) > Q
        <5>1. V(k) = V(k - 1)
          <6> HIDE DEF position, V, Q, s, u
          <6> QED  BY <2>2, <2>5, <3>1, <4>1
        <5> HIDE DEF V, Q
        <5> QED  BY <2>2, <5>1 DEF Over
      <4>2. CASE ~(V(N) > Q)
        <5> HIDE DEF V, Q, u, s
        <5> QED  BY <2>1, <2>2, <2>3, <4>2 DEF Over
      <4> QED  BY <4>1, <4>2
    <3> HIDE DEF V, Q
    <3> QED  BY <2>1, <3>2
  <2>8. Book.left[k] = IF k \in opening
                       THEN Min({Units[k], Max({0, Magnitude(position) - later})})
                       ELSE 0
    <3> HIDE DEF opening, later, position
    <3> QED  BY <2>6, <2>7
  <2> QED  BY <2>8
<1> QED
  BY <1>2 DEF OpenLotsAreTheNewest, Units

-----------------------------------------------------------------------------
(* Money *)

\* A sum of what is held by place, when some of it moves and one place is filled.
LEMMA SumMoved ==
  ASSUME NEW f, NEW g, NEW h, NEW D, NEW lots \in SUBSET D, NEW a \in Int, NEW k \in D,
         k \notin lots, Numbered(f, D), Numbered(g, lots), f[k] = 0, h[k] \in Int,
         \A j \in D \ {k} : h[j] = f[j] + a * (IF j \in lots THEN g[j] ELSE 0)
  PROVE  /\ Numbered(h, D)
         /\ SumFunctionOnSet(h, D)
              = SumFunctionOnSet(f, D) + a * SumFunctionOnSet(g, lots) + h[k]
<1> DEFINE R == D \ {k}
           g0 == [j \in R |-> IF j \in lots THEN g[j] ELSE 0]
<1>1. lots \in SUBSET R /\ R \in SUBSET D /\ k \notin R /\ R \cup {k} = D /\ k \in Nat
  BY DEF Numbered
<1>2. /\ \A j \in R : g0[j] \in Int /\ h[j] = f[j] + a * g0[j] /\ f[j] \in Int
      /\ \A j \in lots : g0[j] = g[j]
      /\ \A j \in R \ lots : g0[j] = 0
  BY DEF Numbered
<1> HIDE DEF R, g0
<1>3. Numbered(f, R)
  BY <1>1, NumberedPart
<1>4. Numbered(g0, R)
  BY <1>2, <1>3 DEF Numbered
<1>5. SumFunctionOnSet(g0, R) = SumFunctionOnSet(g, lots)
  <2>1. SumFunctionOnSet(g0, R) = SumFunctionOnSet(g0, lots)
    BY <1>1, <1>2, <1>4, SumWithoutZeros
  <2>2. Alike(g, g0, lots, lots)
    BY <1>2 DEF Alike
  <2>3. SumFunctionOnSet(g0, lots) = SumFunctionOnSet(g, lots)
    BY <2>2, SumSame
  <2> QED  BY <2>1, <2>3
<1>6. Combines(h, 1, f, a, g0, R)
  BY <1>2 DEF Combines
<1>7. /\ Numbered(h, R)
      /\ SumFunctionOnSet(h, R) = 1 * SumFunctionOnSet(f, R) + a * SumFunctionOnSet(g0, R)
  BY <1>3, <1>4, <1>6, SumLinear
<1>8. /\ Numbered(h, D) /\ SumFunctionOnSet(h, D) = SumFunctionOnSet(h, R) + h[k]
  <2>1. Numbered(h, R \cup {k}) /\ SumFunctionOnSet(h, R \cup {k}) = SumFunctionOnSet(h, R) + h[k]
    BY <1>1, <1>7, SumWith
  <2> QED  BY <1>1, <2>1
<1>9. SumFunctionOnSet(f, D) = SumFunctionOnSet(f, R) /\ SumFunctionOnSet(f, R) \in Int
  <2>1. \A x \in D \ R : f[x] = 0
    BY <1>1
  <2> QED  BY <1>1, <1>3, <2>1, SumWithoutZeros, SumAdds
<1>10. SumFunctionOnSet(h, R) = SumFunctionOnSet(f, D) + a * SumFunctionOnSet(g, lots)
  BY <1>5, <1>7, <1>9
<1> QED  BY <1>8, <1>10

\* What a fill leaves of each lot, and of the position it is a part of.
LEMMA FillLeaves ==
  ASSUME Walkable, NEW k \in DOMAIN Merged, NEW book, LotsRight(book, k - 1)
  PROVE  LET key == KeyAt(k)
             d == DeltaAt(k)
             s == book.side[key]
             closed == Closing(s, Open(book, key), d)
             lots == OpenLots(book, key)
             taken == Taken(book.left, lots, closed)
             new == AfterFill(book, k)
         IN  /\ lots \in SUBSET DOMAIN Merged /\ k \notin lots /\ book.left[k] = 0
             /\ s \in {1, -1} /\ closed \in Nat
             /\ Numbered(taken, lots) /\ SumFunctionOnSet(taken, lots) = closed
             /\ \A j \in DOMAIN Merged \ {k} :
                  LET t == IF j \in lots THEN taken[j] ELSE 0
                  IN  /\ t \in Int
                      /\ new.left[j] = book.left[j] - t
                      /\ new.side[KeyAt(j)] * new.left[j] = book.side[KeyAt(j)] * book.left[j] - s * t
             /\ new.left[k] = Magnitude(d) - closed
             /\ new.side[key] * new.left[k] = d + s * closed
<1> DEFINE N == Len(Merged)
           p == k - 1
           key == KeyAt(k)
           d == DeltaAt(k)
           s == book.side[key]
           o == Open(book, key)
           closed == Closing(s, o, d)
           lots == OpenLots(book, key)
           taken == Taken(book.left, lots, closed)
           new == AfterFill(book, k)
           turned == o = 0 \/ (Sign(d) # s /\ Magnitude(d) > o)
<1>0. /\ N \in Nat /\ DOMAIN Merged = 1..N /\ k \in 1..N /\ p \in 0..N /\ k > p
      /\ \A j \in 1..p : j \in 1..N /\ j # k
  BY DEF Walkable
<1>1. /\ key \in ContractKeys /\ d \in Int /\ d # 0
      /\ Sign(d) \in {1, -1} /\ Magnitude(d) \in Nat
      /\ Sign(d) = 1 => d = Magnitude(d)
      /\ Sign(d) = -1 => d = 0 - Magnitude(d)
  BY SignOf DEF Walkable
<1>2. /\ book.left \in [1..N -> Nat] /\ book.side \in [ContractKeys -> {1, -1}]
      /\ \A j \in 1..N : j > p => book.left[j] = 0
      /\ \A j \in 1..N : KeyAt(j) \in ContractKeys
  BY <1>0 DEF LotsRight, Walkable
<1>3. /\ s \in {1, -1} /\ o \in Nat /\ lots \in SUBSET (1..p)
  <2>1. s \in {1, -1}
    BY <1>1, <1>2
  <2>2. o \in Nat /\ lots \in SUBSET (1..p)
    BY <1>0, <1>1, OpenIs
  <2> QED  BY <2>1, <2>2
<1>5. /\ closed \in Nat /\ closed <= o /\ closed <= Magnitude(d)
      /\ new.left = [j \in DOMAIN Merged |-> IF j = k THEN Magnitude(d) - closed
                                             ELSE IF j \in lots THEN book.left[j] - taken[j]
                                             ELSE book.left[j]]
      /\ new.side = IF turned THEN [book.side EXCEPT ![key] = Sign(d)] ELSE book.side
  BY AfterFillIs
<1>6. /\ \A j \in lots : taken[j] \in Nat /\ book.left[j] \in Nat
      /\ (\A j \in lots : taken[j] = book.left[j]) <=> closed = o
      /\ Numbered(taken, lots) /\ SumFunctionOnSet(taken, lots) = closed
  <2> HIDE DEF key, d, closed
  <2> QED  BY <1>0, <1>1, <1>5, TakenIs, AllTaken
<1>7. \A j \in lots : KeyAt(j) = key
  BY DEF OpenLots
<1>8. \A j \in 1..N : KeyAt(j) = key /\ j \notin lots => book.left[j] = 0
  <2> TAKE j \in 1..N
  <2>1. KeyAt(j) = key /\ j \notin lots => ~(book.left[j] > 0)
    BY <1>2 DEF OpenLots
  <2>2. book.left[j] \in Nat
    <3> HIDE DEF N
    <3> QED  BY <1>2
  <2> HIDE DEF lots, key
  <2> QED  BY <2>1, <2>2
<1>9. /\ new.side[key] = IF turned THEN Sign(d) ELSE s
      /\ \A c \in ContractKeys : c # key => new.side[c] = book.side[c]
  <2> HIDE DEF turned, d, key, new
  <2> QED  BY <1>1, <1>2, <1>5
<1>10. turned => closed = o
  <2> HIDE DEF o, d, s
  <2> QED  BY <1>1, <1>3 DEF Closing, Lesser
<1>11. lots \in SUBSET DOMAIN Merged /\ k \notin lots /\ book.left[k] = 0
  <2> HIDE DEF lots, N, p
  <2> QED  BY <1>0, <1>2, <1>3
<1>12. ASSUME NEW j \in DOMAIN Merged \ {k}
       PROVE  LET t == IF j \in lots THEN taken[j] ELSE 0
              IN  /\ t \in Int
                  /\ new.left[j] = book.left[j] - t
                  /\ new.side[KeyAt(j)] * new.left[j] = book.side[KeyAt(j)] * book.left[j] - s * t
  <2> DEFINE t == IF j \in lots THEN taken[j] ELSE 0
             b == book.side[KeyAt(j)]
             l == book.left[j]
  <2>1. j \in 1..N /\ j # k /\ KeyAt(j) \in ContractKeys /\ l \in Nat /\ b \in {1, -1}
    <3>1. j \in 1..N /\ j # k /\ KeyAt(j) \in ContractKeys
      BY <1>0, <1>2
    <3> HIDE DEF N
    <3> QED  BY <1>2, <3>1
  <2>2. t \in Int
    <3> HIDE DEF lots, taken
    <3> QED  BY <1>6
  <2>3. new.left[j] = l - t
    <3>1. new.left[j] = IF j \in lots THEN l - taken[j] ELSE l
      <4> HIDE DEF lots, taken, new, d, closed
      <4> QED  BY <1>0, <1>5, <2>1
    <3> HIDE DEF lots, taken, new
    <3> QED  BY <2>1, <3>1
  <2>4. CASE j \in lots
    <3>1. KeyAt(j) = key /\ b = s
      BY <1>7, <2>4
    <3>2. CASE turned
      <4>1. t = l
        <5> HIDE DEF lots, taken, turned, closed, o
        <5> QED  BY <1>6, <1>10, <2>4, <3>2
      <4>2. new.left[j] = 0 /\ b * l = s * t
        <5> HIDE DEF new, t, l, b, s
        <5> QED  BY <2>1, <2>3, <3>1, <4>1
      <4>3. new.side[KeyAt(j)] \in Int
        <5> HIDE DEF new, turned, s, d, key
        <5> QED  BY <1>1, <1>3, <1>9, <3>1
      <4>4. b * l \in Int
        <5> HIDE DEF b, l
        <5> QED  BY <2>1
      <4>5. new.side[KeyAt(j)] * new.left[j] = b * l - s * t
        <5> HIDE DEF new, t, l, b, s
        <5> QED  BY <4>2, <4>3, <4>4
      <4> QED  BY <2>2, <2>3, <4>5
    <3>3. CASE ~turned
      <4>1. new.side[KeyAt(j)] = s
        <5> HIDE DEF new, turned, s, d, key
        <5> QED  BY <1>9, <3>1, <3>3
      <4>2. s * (l - t) = s * l - s * t
        <5> HIDE DEF s, l, t
        <5> QED  BY <1>3, <2>1, <2>2
      <4>3. new.side[KeyAt(j)] * new.left[j] = b * l - s * t
        <5> HIDE DEF new, t, l, b, s
        <5> QED  BY <2>3, <3>1, <4>1, <4>2
      <4> QED  BY <2>2, <2>3, <4>3
    <3> QED  BY <3>2, <3>3
  <2>5. CASE j \notin lots
    <3>1. t = 0 /\ s * t = 0 /\ new.left[j] = l
      <4>1. t = 0
        BY <2>5
      <4> HIDE DEF t, s, l, new
      <4> QED  BY <1>3, <2>1, <2>3, <4>1
    <3>2. new.side[KeyAt(j)] * l = b * l
      <4>1. CASE KeyAt(j) = key
        <5>1. l = 0 /\ new.side[KeyAt(j)] \in Int
          <6>1. l = 0
            <7> HIDE DEF lots, key, N
            <7> QED  BY <1>8, <2>1, <2>5, <4>1
          <6> HIDE DEF new, turned, s, d, key, l
          <6> QED  BY <1>1, <1>3, <1>9, <4>1, <6>1
        <5> HIDE DEF new, l, b
        <5> QED  BY <2>1, <5>1
      <4>2. CASE KeyAt(j) # key
        <5> HIDE DEF new, key, turned
        <5> QED  BY <1>9, <2>1, <4>2
      <4> QED  BY <4>1, <4>2
    <3>3. b * l \in Int
      <4> HIDE DEF b, l
      <4> QED  BY <2>1
    <3>4. new.side[KeyAt(j)] * new.left[j] = b * l - s * t
      <4> HIDE DEF new, t, l, b, s
      <4> QED  BY <3>1, <3>2, <3>3
    <3> QED  BY <2>2, <2>3, <3>4
  <2> QED  BY <2>4, <2>5
<1>13. new.left[k] = Magnitude(d) - closed
  <2> HIDE DEF new, lots, taken, d, closed
  <2> QED  BY <1>5
<1>14. new.side[key] * (Magnitude(d) - closed) = d + s * closed
  <2>1. new.side[key] = IF turned THEN Sign(d) ELSE s
    BY <1>9
  <2>2. CASE Sign(d) = s
    <3>1. closed = 0
      BY <2>2 DEF Closing
    <3>2. new.side[key] = s
      <4> HIDE DEF new, d, s, key
      <4> QED  BY <2>1, <2>2
    <3> HIDE DEF new, d, s, key, closed
    <3> QED  BY <1>1, <1>3, <2>2, <3>1, <3>2
  <2>3. CASE Sign(d) # s
    <3>1. closed = Lesser(o, Magnitude(d))
      <4> HIDE DEF s, d, o
      <4> QED  BY <1>1, <1>3, <2>3 DEF Closing, Lesser
    <3>2. CASE turned
      <4> HIDE DEF new, d, s, key, closed, turned
      <4> QED  BY <1>1, <1>3, <1>5, <2>1, <2>3, <3>2
    <3>3. CASE ~turned
      <4>1. closed = Magnitude(d)
        <5> HIDE DEF d, s, o, closed
        <5> QED  BY <1>1, <1>3, <2>3, <3>1, <3>3 DEF Lesser
      <4> HIDE DEF new, d, s, key, closed, turned
      <4> QED  BY <1>1, <1>3, <2>1, <2>3, <3>3, <4>1
    <3> QED  BY <3>2, <3>3
  <2> QED  BY <2>2, <2>3
<1>15. new.side[key] * new.left[k] = d + s * closed
  <2> HIDE DEF new, d, s, key, closed
  <2> QED  BY <1>13, <1>14
<1> QED
  <2>1. s \in {1, -1} /\ closed \in Nat /\ Numbered(taken, lots) /\ SumFunctionOnSet(taken, lots) = closed
    BY <1>3, <1>5, <1>6
  <2> HIDE DEF new, d, s, key, closed, lots, taken, o
  <2> QED  BY <1>11, <1>12, <1>13, <1>15, <2>1 DEF new, d, s, key, closed, lots, taken, o

\* The terms of MoneyIsAccountedFor, for any book and number of fills.
RoundTrips == [exit : {Merged[j].id : j \in DOMAIN Merged}, pnl : Int, fees : Int, flat : BOOLEAN]
MadeBy(trades) == [n \in DOMAIN trades |-> trades[n].pnl]
ChargedBy(trades) == [n \in DOMAIN trades |-> trades[n].fees]
CostOf(book) == [j \in DOMAIN Merged |-> book.side[KeyAt(j)] * book.left[j] * PriceAt(j)]
CarriedBy(book) == [j \in DOMAIN Merged |-> book.left[j] * FeeAt(j)]
CashIn == [j \in DOMAIN Merged |-> -DeltaAt(j) * PriceAt(j)]
FeesPaid == [j \in DOMAIN Merged |-> Magnitude(DeltaAt(j)) * FeeAt(j)]

\* What was paid for, and what was charged on, the part of the lots that is taken.
CostTaken(taken) == [j \in DOMAIN taken |-> taken[j] * PriceAt(j)]
FeeTaken(taken) == [j \in DOMAIN taken |-> taken[j] * FeeAt(j)]

\* The money of a book after the fill k.
MoneyRight(book, k) ==
    /\ book.trades \in Seq(RoundTrips)
    /\ SumFunctionOnSet(MadeBy(book.trades), DOMAIN book.trades)
         = SumFunctionOnSet(CashIn, 1..k) + SumFunctionOnSet(CostOf(book), DOMAIN Merged)
    /\ SumFunctionOnSet(ChargedBy(book.trades), DOMAIN book.trades)
         + SumFunctionOnSet(CarriedBy(book), DOMAIN Merged)
         = SumFunctionOnSet(FeesPaid, 1..k)

LEMMA Products ==
  \A a, b \in Int : a * b \in Int
OBVIOUS

\* The terms are numbers.
LEMMA MoneyNumbered ==
  ASSUME Walkable
  PROVE  /\ \A S \in SUBSET DOMAIN Merged : Numbered(CashIn, S) /\ Numbered(FeesPaid, S)
         /\ \A k \in DOMAIN Merged : CashIn[k] = 0 - DeltaAt(k) * PriceAt(k)
                                     /\ FeesPaid[k] = Magnitude(DeltaAt(k)) * FeeAt(k)
         /\ \A book, k : LotsRight(book, k) =>
              Numbered(CostOf(book), DOMAIN Merged) /\ Numbered(CarriedBy(book), DOMAIN Merged)
<1>0. /\ Len(Merged) \in Nat /\ DOMAIN Merged = 1..Len(Merged)
      /\ \A j \in DOMAIN Merged : /\ KeyAt(j) \in ContractKeys
                                  /\ PriceAt(j) \in Int /\ FeeAt(j) \in Int
                                  /\ DeltaAt(j) \in Int /\ Magnitude(DeltaAt(j)) \in Int
  BY SignOf DEF Walkable
<1>1. \A S \in SUBSET DOMAIN Merged : S \in SUBSET Nat /\ IsFiniteSet(S)
  BY <1>0, UpToIsFinite
<1>2. \A k \in DOMAIN Merged :
        /\ CashIn[k] = 0 - DeltaAt(k) * PriceAt(k) /\ CashIn[k] \in Int
        /\ FeesPaid[k] = Magnitude(DeltaAt(k)) * FeeAt(k) /\ FeesPaid[k] \in Int
  <2> TAKE k \in DOMAIN Merged
  <2>1. DeltaAt(k) * PriceAt(k) \in Int /\ Magnitude(DeltaAt(k)) * FeeAt(k) \in Int
    BY <1>0, Products
  <2>2. CashIn[k] = -DeltaAt(k) * PriceAt(k) /\ FeesPaid[k] = Magnitude(DeltaAt(k)) * FeeAt(k)
    BY DEF CashIn, FeesPaid
  <2> DEFINE x == DeltaAt(k) * PriceAt(k)
  <2>3. x \in Int /\ CashIn[k] = -x
    BY <2>1, <2>2
  <2> HIDE DEF x
  <2>4. CashIn[k] = 0 - x
    BY <2>3
  <2>5. CashIn[k] \in Int /\ FeesPaid[k] \in Int
    BY <2>1, <2>2, <2>3, <2>4
  <2> QED  BY <2>2, <2>4, <2>5 DEF x
<1>3. ASSUME NEW book, NEW k, LotsRight(book, k)
      PROVE  Numbered(CostOf(book), DOMAIN Merged) /\ Numbered(CarriedBy(book), DOMAIN Merged)
  <2>1. ASSUME NEW j \in DOMAIN Merged
        PROVE  CostOf(book)[j] \in Int /\ CarriedBy(book)[j] \in Int
    <3>1. book.left[j] \in Int /\ book.side[KeyAt(j)] \in Int
      <4>1. book.left \in [DOMAIN Merged -> Nat] /\ book.side \in [ContractKeys -> {1, -1}]
        BY <1>3 DEF LotsRight
      <4>2. book.left[j] \in Nat /\ book.side[KeyAt(j)] \in {1, -1}
        BY <1>0, <4>1
      <4> QED  BY <4>2
    <3>2. book.side[KeyAt(j)] * book.left[j] \in Int
      BY <3>1, Products
    <3>3. book.side[KeyAt(j)] * book.left[j] * PriceAt(j) \in Int /\ book.left[j] * FeeAt(j) \in Int
      BY <1>0, <3>1, <3>2, Products
    <3> QED  BY <3>3 DEF CostOf, CarriedBy
  <2> QED  BY <1>0, <1>1, <2>1 DEF Numbered
<1> QED  BY <1>1, <1>2, <1>3 DEF Numbered

LEMMA Expands ==
  /\ \A a, t, p \in Int : (a - t) * p = a * p + (-1) * (t * p)
  /\ \A s \in {1, -1} : \A a, t, p \in Int : (a - s * t) * p = a * p + (0 - s) * (t * p)
<1>1. \A a, t, p \in Int : (a - t) * p = a * p + (-1) * (t * p)
  OBVIOUS
<1>2. ASSUME NEW s \in {1, -1}, NEW a \in Int, NEW t \in Int, NEW p \in Int
      PROVE  (a - s * t) * p = a * p + (0 - s) * (t * p)
  <2>1. t * p \in Int /\ a * p \in Int
    OBVIOUS
  <2>2. CASE s = 1
    BY <1>1, <2>1, <2>2
  <2>3. CASE s = -1
    <3>1. (a - s * t) * p = (a + t) * p
      BY <2>3
    <3>2. (a + t) * p = a * p + t * p
      OBVIOUS
    <3> QED  BY <2>1, <2>3, <3>1, <3>2
  <2> QED  BY <2>2, <2>3
<1> QED  BY <1>1, <1>2

\* What a fill does to the cost of what is open and to the fees that ride with it.
LEMMA CostMoves ==
  ASSUME Walkable, NEW k \in DOMAIN Merged, NEW book, LotsRight(book, k - 1)
  PROVE  LET key == KeyAt(k)
             d == DeltaAt(k)
             s == book.side[key]
             closed == Closing(s, Open(book, key), d)
             lots == OpenLots(book, key)
             taken == Taken(book.left, lots, closed)
             new == AfterFill(book, k)
         IN  /\ Numbered(CostTaken(taken), lots) /\ Numbered(FeeTaken(taken), lots)
             /\ SumFunctionOnSet(CostOf(new), DOMAIN Merged)
                  = SumFunctionOnSet(CostOf(book), DOMAIN Merged)
                    + (0 - s) * SumFunctionOnSet(CostTaken(taken), lots)
                    + (d + s * closed) * PriceAt(k)
             /\ SumFunctionOnSet(CarriedBy(new), DOMAIN Merged)
                  = SumFunctionOnSet(CarriedBy(book), DOMAIN Merged)
                    + (-1) * SumFunctionOnSet(FeeTaken(taken), lots)
                    + (Magnitude(d) - closed) * FeeAt(k)
<1> DEFINE D == DOMAIN Merged
           key == KeyAt(k)
           d == DeltaAt(k)
           s == book.side[key]
           closed == Closing(s, Open(book, key), d)
           lots == OpenLots(book, key)
           taken == Taken(book.left, lots, closed)
           new == AfterFill(book, k)
<1>1. /\ lots \in SUBSET D /\ k \notin lots /\ book.left[k] = 0
      /\ s \in {1, -1} /\ closed \in Nat
      /\ Numbered(taken, lots)
      /\ \A j \in D \ {k} :
           LET t == IF j \in lots THEN taken[j] ELSE 0
           IN  /\ t \in Int
               /\ new.left[j] = book.left[j] - t
               /\ new.side[KeyAt(j)] * new.left[j] = book.side[KeyAt(j)] * book.left[j] - s * t
      /\ new.left[k] = Magnitude(d) - closed
      /\ new.side[key] * new.left[k] = d + s * closed
  BY FillLeaves
<1>2. DOMAIN taken = lots
  BY DEF Taken
<1>3. \A j \in D : /\ book.left[j] \in Int /\ book.side[KeyAt(j)] \in Int
                   /\ book.side[KeyAt(j)] * book.left[j] \in Int
                   /\ PriceAt(j) \in Int /\ FeeAt(j) \in Int
  <2> TAKE j \in D
  <2>1. KeyAt(j) \in ContractKeys /\ PriceAt(j) \in Int /\ FeeAt(j) \in Int
    BY DEF Walkable
  <2>2. book.left \in [DOMAIN Merged -> Nat] /\ book.side \in [ContractKeys -> {1, -1}]
    BY DEF LotsRight
  <2>3. book.left[j] \in Nat /\ book.side[KeyAt(j)] \in {1, -1}
    BY <2>1, <2>2
  <2>4. book.left[j] \in Int /\ book.side[KeyAt(j)] \in Int
    BY <2>3
  <2> QED  BY <2>1, <2>4, Products
<1>4. d \in Int /\ Magnitude(d) \in Int
  BY SignOf DEF Walkable
<1> HIDE DEF key, d, s, closed, lots, taken, new
<1>5. \A j \in D : /\ CostOf(book)[j] = book.side[KeyAt(j)] * book.left[j] * PriceAt(j)
                   /\ CostOf(new)[j] = new.side[KeyAt(j)] * new.left[j] * PriceAt(j)
                   /\ CarriedBy(book)[j] = book.left[j] * FeeAt(j)
                   /\ CarriedBy(new)[j] = new.left[j] * FeeAt(j)
  BY DEF CostOf, CarriedBy
<1>6. \A j \in lots : /\ CostTaken(taken)[j] = taken[j] * PriceAt(j) /\ CostTaken(taken)[j] \in Int
                      /\ FeeTaken(taken)[j] = taken[j] * FeeAt(j) /\ FeeTaken(taken)[j] \in Int
  <2> TAKE j \in lots
  <2>1. taken[j] \in Int /\ PriceAt(j) \in Int /\ FeeAt(j) \in Int
    BY <1>1, <1>3 DEF Numbered
  <2>2. taken[j] * PriceAt(j) \in Int /\ taken[j] * FeeAt(j) \in Int
    BY <2>1, Products
  <2>3. CostTaken(taken)[j] = taken[j] * PriceAt(j) /\ FeeTaken(taken)[j] = taken[j] * FeeAt(j)
    BY <1>2 DEF CostTaken, FeeTaken
  <2> QED  BY <2>2, <2>3
<1>7. Numbered(CostTaken(taken), lots) /\ Numbered(FeeTaken(taken), lots)
  BY <1>1, <1>6 DEF Numbered
<1>8. Numbered(CostOf(book), D) /\ Numbered(CarriedBy(book), D)
  BY MoneyNumbered
<1>9. ASSUME NEW j \in D \ {k}
      PROVE  /\ CostOf(new)[j] = CostOf(book)[j]
                  + (0 - s) * (IF j \in lots THEN CostTaken(taken)[j] ELSE 0)
             /\ CarriedBy(new)[j] = CarriedBy(book)[j]
                  + (-1) * (IF j \in lots THEN FeeTaken(taken)[j] ELSE 0)
  <2> DEFINE t == IF j \in lots THEN taken[j] ELSE 0
             b == book.side[KeyAt(j)] * book.left[j]
             l == book.left[j]
             P == PriceAt(j)
             F == FeeAt(j)
  <2>1. /\ t \in Int /\ new.left[j] = l - t /\ new.side[KeyAt(j)] * new.left[j] = b - s * t
        /\ b \in Int /\ l \in Int /\ P \in Int /\ F \in Int
    BY <1>1, <1>3
  <2>2. (b - s * t) * P = b * P + (0 - s) * (t * P) /\ (l - t) * F = l * F + (-1) * (t * F)
    <3> HIDE DEF b, t, l, P, F
    <3> QED  BY <1>1, <2>1, Expands
  <2>3. CostOf(new)[j] = (b - s * t) * P /\ CarriedBy(new)[j] = (l - t) * F
    <3> HIDE DEF t
    <3> QED  BY <1>5, <2>1
  <2>4. CostOf(book)[j] = b * P /\ CarriedBy(book)[j] = l * F
    BY <1>5
  <2>5. t * P = IF j \in lots THEN CostTaken(taken)[j] ELSE 0
    <3>1. 0 * P = 0
      <4> HIDE DEF P
      <4> QED  BY <2>1
    <3> HIDE DEF P
    <3> QED  BY <1>6, <3>1 DEF P
  <2>6. t * F = IF j \in lots THEN FeeTaken(taken)[j] ELSE 0
    <3>1. 0 * F = 0
      <4> HIDE DEF F
      <4> QED  BY <2>1
    <3> HIDE DEF F
    <3> QED  BY <1>6, <3>1 DEF F
  <2> HIDE DEF t, b, l, P, F
  <2> QED  BY <2>2, <2>3, <2>4, <2>5, <2>6
<1>10. /\ CostOf(book)[k] = 0 /\ CarriedBy(book)[k] = 0
       /\ CostOf(new)[k] = (d + s * closed) * PriceAt(k)
       /\ CarriedBy(new)[k] = (Magnitude(d) - closed) * FeeAt(k)
       /\ CostOf(new)[k] \in Int /\ CarriedBy(new)[k] \in Int
  <2>1. CostOf(book)[k] = 0 /\ CarriedBy(book)[k] = 0
    <3>1. book.side[KeyAt(k)] * 0 = 0 /\ 0 * PriceAt(k) = 0 /\ 0 * FeeAt(k) = 0
      BY <1>3
    <3> QED  BY <1>1, <1>5, <3>1
  <2>2. /\ CostOf(new)[k] = (d + s * closed) * PriceAt(k)
        /\ CarriedBy(new)[k] = (Magnitude(d) - closed) * FeeAt(k)
    BY <1>1, <1>5 DEF key
  <2>3. d + s * closed \in Int /\ Magnitude(d) - closed \in Int
    BY <1>1, <1>4
  <2>4. (d + s * closed) * PriceAt(k) \in Int /\ (Magnitude(d) - closed) * FeeAt(k) \in Int
    BY <1>3, <2>3, Products
  <2> QED  BY <2>1, <2>2, <2>4
<1>11. SumFunctionOnSet(CostOf(new), D)
         = SumFunctionOnSet(CostOf(book), D) + (0 - s) * SumFunctionOnSet(CostTaken(taken), lots)
           + CostOf(new)[k]
  <2>1. 0 - s \in Int
    BY <1>1
  <2> DEFINE a == 0 - s
             f == CostOf(book)
             g == CostTaken(taken)
             h == CostOf(new)
  <2>2. /\ a \in Int /\ k \in D /\ lots \in SUBSET D /\ k \notin lots
        /\ Numbered(f, D) /\ Numbered(g, lots) /\ f[k] = 0 /\ h[k] \in Int
        /\ \A j \in D \ {k} : h[j] = f[j] + a * (IF j \in lots THEN g[j] ELSE 0)
    BY <1>1, <1>7, <1>8, <1>9, <1>10, <2>1
  <2>3. SumFunctionOnSet(h, D) = SumFunctionOnSet(f, D) + a * SumFunctionOnSet(g, lots) + h[k]
    <3> HIDE DEF a, f, g, h, D
    <3> QED  BY <2>2, SumMoved
  <2> QED  BY <2>3
<1>12. SumFunctionOnSet(CarriedBy(new), D)
         = SumFunctionOnSet(CarriedBy(book), D) + (-1) * SumFunctionOnSet(FeeTaken(taken), lots)
           + CarriedBy(new)[k]
  <2> DEFINE f == CarriedBy(book)
             g == FeeTaken(taken)
             h == CarriedBy(new)
  <2>2. /\ -1 \in Int /\ k \in D /\ lots \in SUBSET D /\ k \notin lots
        /\ Numbered(f, D) /\ Numbered(g, lots) /\ f[k] = 0 /\ h[k] \in Int
        /\ \A j \in D \ {k} : h[j] = f[j] + (-1) * (IF j \in lots THEN g[j] ELSE 0)
    BY <1>1, <1>7, <1>8, <1>9, <1>10
  <2>3. SumFunctionOnSet(h, D) = SumFunctionOnSet(f, D) + (-1) * SumFunctionOnSet(g, lots) + h[k]
    <3> HIDE DEF f, g, h, D
    <3> QED  BY <2>2, SumMoved
  <2> QED  BY <2>3
<1> QED
  BY <1>7, <1>10, <1>11, <1>12 DEF key, d, s, closed, lots, taken, new

LEMMA SumWhole ==
  \A f : SumFunction(f) = SumFunctionOnSet(f, DOMAIN f)
BY DEF SumFunction, SumFunctionOnSet, FoldFunction, FoldFunctionOnSet

LEMMA ExpandsDifference ==
  \A t, a, b \in Int : t * (a - b) = a * t + (-1) * (t * b)
OBVIOUS

\* What the trade made that closing yields, and what it was charged.
LEMMA ClosedTradeIs ==
  ASSUME Walkable, NEW k \in DOMAIN Merged, NEW book, LotsRight(book, k - 1)
  PROVE  LET key == KeyAt(k)
             d == DeltaAt(k)
             s == book.side[key]
             o == Open(book, key)
             closed == Closing(s, o, d)
             lots == OpenLots(book, key)
             taken == Taken(book.left, lots, closed)
             trade == ClosedTrade(book, k, taken, closed)
         IN  /\ trade.exit = Merged[k].id
             /\ trade.flat = (closed = o)
             /\ trade \in RoundTrips
             /\ trade.pnl = s * (PriceAt(k) * closed - SumFunctionOnSet(CostTaken(taken), lots))
             /\ trade.fees = SumFunctionOnSet(FeeTaken(taken), lots) + FeeAt(k) * closed
<1> DEFINE key == KeyAt(k)
           d == DeltaAt(k)
           s == book.side[key]
           o == Open(book, key)
           closed == Closing(s, o, d)
           lots == OpenLots(book, key)
           taken == Taken(book.left, lots, closed)
           gain == [j \in DOMAIN taken |-> taken[j] * (PriceAt(k) - PriceAt(j))]
           fee == [j \in DOMAIN taken |-> taken[j] * FeeAt(j)]
           trade == ClosedTrade(book, k, taken, closed)
<1>1. /\ lots \in SUBSET DOMAIN Merged /\ s \in {1, -1} /\ closed \in Nat
      /\ Numbered(taken, lots) /\ SumFunctionOnSet(taken, lots) = closed
      /\ Numbered(CostTaken(taken), lots) /\ Numbered(FeeTaken(taken), lots)
  BY FillLeaves, CostMoves
<1>2. DOMAIN taken = lots
  BY DEF Taken
<1>3. trade = [exit |-> Merged[k].id,
               pnl |-> s * SumFunction(gain),
               fees |-> SumFunction(fee) + FeeAt(k) * closed,
               flat |-> \A j \in DOMAIN taken : taken[j] = book.left[j]]
  BY DEF ClosedTrade
<1>4. (\A j \in lots : taken[j] = book.left[j]) <=> closed = o
  <2>1. key \in ContractKeys /\ k - 1 \in 0..Len(Merged)
    BY DEF Walkable
  <2>2. closed \in Nat /\ closed <= o
    BY AfterFillIs
  <2> HIDE DEF key, d, closed
  <2> QED  BY <2>1, <2>2, AllTaken
<1>5. \A j \in DOMAIN Merged : PriceAt(j) \in Int /\ FeeAt(j) \in Int
  BY DEF Walkable
<1> HIDE DEF key, d, s, o, closed, lots, taken
<1>6. SumFunction(gain) = PriceAt(k) * closed - SumFunctionOnSet(CostTaken(taken), lots)
  <2>1. \A j \in lots : gain[j] = PriceAt(k) * taken[j] + (-1) * CostTaken(taken)[j]
    <3> TAKE j \in lots
    <3>1. taken[j] \in Int /\ PriceAt(k) \in Int /\ PriceAt(j) \in Int
      BY <1>1, <1>5 DEF Numbered
    <3>2. taken[j] * (PriceAt(k) - PriceAt(j)) = PriceAt(k) * taken[j] + (-1) * (taken[j] * PriceAt(j))
      BY <3>1, ExpandsDifference
    <3>3. gain[j] = taken[j] * (PriceAt(k) - PriceAt(j)) /\ CostTaken(taken)[j] = taken[j] * PriceAt(j)
      BY <1>2 DEF CostTaken
    <3> QED  BY <3>2, <3>3
  <2>2. DOMAIN gain = lots
    BY <1>2
  <2> HIDE DEF gain
  <2>3. Combines(gain, PriceAt(k), taken, -1, CostTaken(taken), lots)
    BY <2>1 DEF Combines
  <2>4. PriceAt(k) \in Int /\ -1 \in Int
    BY <1>5
  <2>5. SumFunctionOnSet(gain, lots)
          = PriceAt(k) * closed + (-1) * SumFunctionOnSet(CostTaken(taken), lots)
    BY <1>1, <2>3, <2>4, SumLinear
  <2>6. SumFunctionOnSet(CostTaken(taken), lots) \in Int /\ PriceAt(k) * closed \in Int
    BY <1>1, <2>4, SumAdds, Products
  <2>7. SumFunction(gain) = SumFunctionOnSet(gain, lots)
    BY <2>2, SumWhole
  <2> QED  BY <2>5, <2>6, <2>7
<1>7. SumFunction(fee) = SumFunctionOnSet(FeeTaken(taken), lots)
  <2>1. fee = FeeTaken(taken) /\ DOMAIN FeeTaken(taken) = lots
    BY <1>2 DEF FeeTaken
  <2> HIDE DEF fee
  <2> QED  BY <2>1, SumWhole
<1> DEFINE X == SumFunctionOnSet(CostTaken(taken), lots)
           Y == SumFunctionOnSet(FeeTaken(taken), lots)
<1>8. /\ trade.pnl = s * (PriceAt(k) * closed - X) /\ trade.fees = Y + FeeAt(k) * closed
      /\ trade.exit = Merged[k].id /\ trade.flat = (closed = o)
  <2>1. (\A j \in DOMAIN taken : taken[j] = book.left[j]) = (closed = o)
    BY <1>2, <1>4
  <2> HIDE DEF trade, gain, fee
  <2> QED  BY <1>3, <1>6, <1>7, <2>1
<1>9. trade.pnl \in Int /\ trade.fees \in Int
  <2>1. X \in Int /\ Y \in Int /\ closed \in Int /\ s \in Int
    BY <1>1, SumAdds
  <2>2. PriceAt(k) * closed \in Int /\ FeeAt(k) * closed \in Int
    BY <1>5, <2>1, Products
  <2> HIDE DEF X, Y, trade
  <2>3. PriceAt(k) * closed - X \in Int /\ Y + FeeAt(k) * closed \in Int
    BY <2>1, <2>2
  <2>4. s * (PriceAt(k) * closed - X) \in Int
    BY <2>1, <2>3, Products
  <2> QED  BY <1>8, <2>3, <2>4
<1>10. trade \in RoundTrips
  <2> DEFINE a == trade.exit
             b == trade.pnl
             c == trade.fees
             e == trade.flat
  <2>1. trade = [exit |-> a, pnl |-> b, fees |-> c, flat |-> e]
    BY <1>3
  <2>2. a \in {Merged[j].id : j \in DOMAIN Merged} /\ b \in Int /\ c \in Int /\ e \in BOOLEAN
    <3> HIDE DEF trade
    <3> QED  BY <1>8, <1>9
  <2> HIDE DEF trade, a, b, c, e
  <2> QED  BY <2>1, <2>2 DEF RoundTrips
<1> HIDE DEF trade
<1> QED
  BY <1>8, <1>10 DEF key, d, s, o, closed, lots, taken, trade

\* One more trade adds what it made and what it was charged.
LEMMA OneMoreTrade ==
  ASSUME Walkable, NEW trades \in Seq(RoundTrips), NEW trade \in RoundTrips
  PROVE  /\ SumFunctionOnSet(MadeBy(trades), DOMAIN trades) \in Int
         /\ SumFunctionOnSet(ChargedBy(trades), DOMAIN trades) \in Int
         /\ Append(trades, trade) \in Seq(RoundTrips)
         /\ SumFunctionOnSet(MadeBy(Append(trades, trade)), DOMAIN Append(trades, trade))
              = SumFunctionOnSet(MadeBy(trades), DOMAIN trades) + trade.pnl
         /\ SumFunctionOnSet(ChargedBy(Append(trades, trade)), DOMAIN Append(trades, trade))
              = SumFunctionOnSet(ChargedBy(trades), DOMAIN trades) + trade.fees
<1> DEFINE n == Len(trades)
           x == n + 1
           longer == Append(trades, trade)
<1>1. /\ n \in Nat /\ DOMAIN trades = 1..n /\ x \in Nat /\ x \notin 1..n
      /\ longer \in Seq(RoundTrips) /\ DOMAIN longer = 1..n \cup {x}
      /\ longer[x] = trade /\ \A i \in 1..n : longer[i] = trades[i]
  OBVIOUS
<1>2. /\ \A i \in 1..n : trades[i].pnl \in Int /\ trades[i].fees \in Int
      /\ trade.pnl \in Int /\ trade.fees \in Int
  <2>1. \A i \in 1..n : trades[i] \in RoundTrips
    BY <1>1
  <2>2. \A r \in RoundTrips : r.pnl \in Int /\ r.fees \in Int
    BY DEF RoundTrips
  <2> QED  BY <2>1, <2>2
<1>3. IsFiniteSet(1..n) /\ 1..n \in SUBSET Nat
  BY <1>1, UpToIsFinite
<1> HIDE DEF n, x, longer
<1>4. /\ \A i \in 1..n : /\ MadeBy(trades)[i] = trades[i].pnl /\ MadeBy(longer)[i] = trades[i].pnl
                         /\ ChargedBy(trades)[i] = trades[i].fees
                         /\ ChargedBy(longer)[i] = trades[i].fees
      /\ MadeBy(longer)[x] = trade.pnl /\ ChargedBy(longer)[x] = trade.fees
  BY <1>1 DEF MadeBy, ChargedBy
<1>5. /\ Numbered(MadeBy(trades), 1..n) /\ Numbered(ChargedBy(trades), 1..n)
      /\ Alike(MadeBy(trades), MadeBy(longer), 1..n, 1..n)
      /\ Alike(ChargedBy(trades), ChargedBy(longer), 1..n, 1..n)
  BY <1>2, <1>3, <1>4 DEF Numbered, Alike
<1>6. /\ Numbered(MadeBy(longer), 1..n)
      /\ SumFunctionOnSet(MadeBy(longer), 1..n) = SumFunctionOnSet(MadeBy(trades), 1..n)
  BY <1>5, SumSame
<1>7. /\ Numbered(ChargedBy(longer), 1..n)
      /\ SumFunctionOnSet(ChargedBy(longer), 1..n) = SumFunctionOnSet(ChargedBy(trades), 1..n)
  BY <1>5, SumSame
<1>8. /\ SumFunctionOnSet(MadeBy(longer), 1..n \cup {x})
           = SumFunctionOnSet(MadeBy(longer), 1..n) + MadeBy(longer)[x]
      /\ SumFunctionOnSet(ChargedBy(longer), 1..n \cup {x})
           = SumFunctionOnSet(ChargedBy(longer), 1..n) + ChargedBy(longer)[x]
  <2>1. MadeBy(longer)[x] \in Int /\ ChargedBy(longer)[x] \in Int
    BY <1>2, <1>4
  <2>2. SumFunctionOnSet(MadeBy(longer), 1..n \cup {x})
          = SumFunctionOnSet(MadeBy(longer), 1..n) + MadeBy(longer)[x]
    BY <1>1, <1>6, <2>1, SumWith
  <2>3. SumFunctionOnSet(ChargedBy(longer), 1..n \cup {x})
          = SumFunctionOnSet(ChargedBy(longer), 1..n) + ChargedBy(longer)[x]
    BY <1>1, <1>7, <2>1, SumWith
  <2> QED  BY <2>2, <2>3
<1>9. SumFunctionOnSet(MadeBy(trades), 1..n) \in Int /\ SumFunctionOnSet(ChargedBy(trades), 1..n) \in Int
  BY <1>5, SumAdds
<1> QED  BY <1>1, <1>4, <1>6, <1>7, <1>8, <1>9 DEF longer

\* The balance of one fill: what it makes, brings in, and adds to what is open.
LEMMA Balance ==
  ASSUME NEW s \in {1, -1}, NEW d \in Int, NEW c \in Int, NEW p \in Int, NEW x \in Int
  PROVE  s * (p * c - x) = (0 - d * p) + (0 - s) * x + (d + s * c) * p
<1>1. d * p \in Int /\ p * c \in Int
  OBVIOUS
<1>2. CASE s = 1
  <2>1. (d + c) * p = d * p + p * c
    OBVIOUS
  <2> QED  BY <1>1, <1>2, <2>1
<1>3. CASE s = -1
  <2>1. (d - c) * p = d * p - p * c
    OBVIOUS
  <2>2. (d + s * c) * p = (d - c) * p
    BY <1>3
  <2> QED  BY <1>1, <1>3, <2>1, <2>2
<1> QED  BY <1>2, <1>3

LEMMA FeeBalance ==
  ASSUME NEW m \in Int, NEW c \in Int, NEW f \in Int
  PROVE  f * c + (m - c) * f = m * f
<1>1. m * f \in Int /\ f * c \in Int /\ (m - c) * f = m * f - f * c
  OBVIOUS
<1> QED  BY <1>1

\* Each fill leaves the money right.
LEMMA MoneyStep ==
  ASSUME Walkable, NEW k \in DOMAIN Merged, NEW book, LotsRight(book, k - 1), MoneyRight(book, k - 1)
  PROVE  MoneyRight(AfterFill(book, k), k)
<1> DEFINE D == DOMAIN Merged
           key == KeyAt(k)
           d == DeltaAt(k)
           s == book.side[key]
           o == Open(book, key)
           closed == Closing(s, o, d)
           lots == OpenLots(book, key)
           taken == Taken(book.left, lots, closed)
           new == AfterFill(book, k)
           trade == ClosedTrade(book, k, taken, closed)
           X == SumFunctionOnSet(CostTaken(taken), lots)
           Y == SumFunctionOnSet(FeeTaken(taken), lots)
           P == PriceAt(k)
           F == FeeAt(k)
           m == Magnitude(d)
           made == SumFunctionOnSet(MadeBy(book.trades), DOMAIN book.trades)
           charged == SumFunctionOnSet(ChargedBy(book.trades), DOMAIN book.trades)
           cash == SumFunctionOnSet(CashIn, 1..(k - 1))
           paid == SumFunctionOnSet(FeesPaid, 1..(k - 1))
           cost == SumFunctionOnSet(CostOf(book), D)
           carried == SumFunctionOnSet(CarriedBy(book), D)
<1>1. /\ P \in Int /\ F \in Int /\ d \in Int /\ m \in Int /\ s \in {1, -1} /\ closed \in Nat
  <2>1. s \in {1, -1} /\ closed \in Nat
    BY FillLeaves
  <2> QED  BY <2>1, SignOf DEF Walkable
<1>2. /\ book.trades \in Seq(RoundTrips) /\ made = cash + cost /\ charged + carried = paid
  BY DEF MoneyRight
<1>3. /\ Numbered(CostTaken(taken), lots) /\ Numbered(FeeTaken(taken), lots)
      /\ SumFunctionOnSet(CostOf(new), D) = cost + (0 - s) * X + (d + s * closed) * P
      /\ SumFunctionOnSet(CarriedBy(new), D) = carried + (-1) * Y + (m - closed) * F
  BY CostMoves
<1>4. /\ SumFunctionOnSet(CashIn, 1..k) = cash + (0 - d * P)
      /\ SumFunctionOnSet(FeesPaid, 1..k) = paid + m * F
      /\ cash \in Int /\ paid \in Int
  <2>1. /\ 1..(k - 1) \in SUBSET D /\ k \in Nat /\ k \notin 1..(k - 1)
        /\ (1..(k - 1)) \cup {k} = 1..k /\ k \in D
    BY DEF Walkable
  <2>2. /\ Numbered(CashIn, 1..(k - 1)) /\ Numbered(FeesPaid, 1..(k - 1))
        /\ CashIn[k] = 0 - d * P /\ FeesPaid[k] = m * F
    BY <2>1, MoneyNumbered
  <2>3. CashIn[k] \in Int /\ FeesPaid[k] \in Int
    <3>1. d * P \in Int /\ m * F \in Int
      BY <1>1, Products
    <3> QED  BY <2>2, <3>1
  <2>4. SumFunctionOnSet(CashIn, 1..(k - 1) \cup {k}) = SumFunctionOnSet(CashIn, 1..(k - 1)) + CashIn[k]
    BY <2>1, <2>2, <2>3, SumWith
  <2>5. SumFunctionOnSet(FeesPaid, 1..(k - 1) \cup {k}) = SumFunctionOnSet(FeesPaid, 1..(k - 1)) + FeesPaid[k]
    BY <2>1, <2>2, <2>3, SumWith
  <2>6. cash \in Int /\ paid \in Int
    BY <2>2, SumAdds
  <2> QED  BY <2>1, <2>2, <2>4, <2>5, <2>6
<1>5. /\ X \in Int /\ Y \in Int /\ cost \in Int /\ carried \in Int
  <2>1. Numbered(CostOf(book), D) /\ Numbered(CarriedBy(book), D)
    BY MoneyNumbered
  <2> QED  BY <1>3, <2>1, SumAdds
<1>6. /\ new.trades \in Seq(RoundTrips)
      /\ SumFunctionOnSet(MadeBy(new.trades), DOMAIN new.trades) = made + s * (P * closed - X)
      /\ SumFunctionOnSet(ChargedBy(new.trades), DOMAIN new.trades) = charged + (Y + F * closed)
      /\ made \in Int /\ charged \in Int
  <2>1. /\ trade \in RoundTrips /\ trade.pnl = s * (P * closed - X) /\ trade.fees = Y + F * closed
    BY ClosedTradeIs
  <2>2. new.trades = IF o > 0 /\ Sign(d) # s THEN Append(book.trades, trade) ELSE book.trades
    BY AfterFillIs
  <2>3. /\ made \in Int /\ charged \in Int
        /\ Append(book.trades, trade) \in Seq(RoundTrips)
        /\ SumFunctionOnSet(MadeBy(Append(book.trades, trade)), DOMAIN Append(book.trades, trade))
             = made + trade.pnl
        /\ SumFunctionOnSet(ChargedBy(Append(book.trades, trade)), DOMAIN Append(book.trades, trade))
             = charged + trade.fees
    <3> HIDE DEF trade
    <3> QED  BY <1>2, <2>1, OneMoreTrade
  <2>4. CASE o > 0 /\ Sign(d) # s
    <3>1. new.trades = Append(book.trades, trade)
      BY <2>2, <2>4
    <3> HIDE DEF new, trade, s, P, closed, X, Y, F, made, charged
    <3> QED  BY <2>1, <2>3, <3>1
  <2>5. CASE ~(o > 0 /\ Sign(d) # s)
    <3>1. closed = 0 /\ new.trades = book.trades
      BY <2>2, <2>5 DEF Closing
    <3>2. X = 0 /\ Y = 0
      <4>1. /\ Numbered(taken, lots) /\ lots \in SUBSET DOMAIN Merged
            /\ \A j \in lots : taken[j] \in Nat /\ taken[j] <= 0
        <5>1. key \in ContractKeys /\ k - 1 \in 0..Len(Merged) /\ closed <= o
          <6>1. closed <= o
            BY AfterFillIs
          <6> QED  BY <6>1 DEF Walkable
        <5>2. \A j \in lots : /\ taken[j] = Lesser(book.left[j], Over(closed, Remains(book, key, k - 1, j - 1)))
                              /\ taken[j] \in Nat
          <6> HIDE DEF key, closed
          <6> QED  BY <1>1, <5>1, TakenIs
        <5>3. \A j \in lots : book.left[j] \in Nat /\ Remains(book, key, k - 1, j - 1) \in Int
                              /\ Remains(book, key, k - 1, j - 1) >= 0
          <6> TAKE j \in lots
          <6>1. j \in 1..(k - 1) /\ Len(Merged) \in Nat /\ k \in 1..Len(Merged) /\ DOMAIN Merged = 1..Len(Merged)
            <7>1. lots \in SUBSET (1..(k - 1))
              BY <5>1, OpenIs
            <7> HIDE DEF lots
            <7> QED  BY <7>1 DEF Walkable
          <6>2. j - 1 \in 0..Len(Merged) /\ k - 1 \in 0..Len(Merged) /\ j \in DOMAIN Merged
                /\ j - 1 \in 0..(j - 1) /\ k - 1 \in 0..(k - 1)
            BY <6>1
          <6>3. \A r : /\ Volume(key, r, j - 1) \in Int /\ Volume(key, r, k - 1) \in Int
            BY <6>2, VolumeSteps
          <6>4. book.left[j] \in Nat
            BY <6>2 DEF LotsRight
          <6> HIDE DEF key, s, lots
          <6> QED  BY <6>3, <6>4 DEF Remains, Over
        <5>4. Numbered(taken, lots) /\ lots \in SUBSET DOMAIN Merged
          BY FillLeaves
        <5> HIDE DEF lots, taken, key, closed
        <5> QED  BY <3>1, <5>2, <5>3, <5>4 DEF Lesser, Over
      <4>2. \A j \in lots : CostTaken(taken)[j] = 0 /\ FeeTaken(taken)[j] = 0
        <5> TAKE j \in lots
        <5>1. DOMAIN taken = lots
          BY DEF Taken
        <5>2. CostTaken(taken)[j] = taken[j] * PriceAt(j) /\ FeeTaken(taken)[j] = taken[j] * FeeAt(j)
          <6> HIDE DEF taken
          <6> QED  BY <5>1 DEF CostTaken, FeeTaken
        <5>3. taken[j] = 0
          <6> HIDE DEF taken, lots
          <6> QED  BY <4>1
        <5>4. PriceAt(j) \in Int /\ FeeAt(j) \in Int
          <6> HIDE DEF taken, lots
          <6> QED  BY <4>1 DEF Walkable
        <5> HIDE DEF taken, lots
        <5> QED  BY <5>2, <5>3, <5>4
      <4>3. {} \in SUBSET lots /\ lots \ {} = lots
        OBVIOUS
      <4> HIDE DEF taken, lots
      <4>4. X = SumFunctionOnSet(CostTaken(taken), {}) /\ Y = SumFunctionOnSet(FeeTaken(taken), {})
        BY <1>3, <4>2, <4>3, SumWithoutZeros
      <4>5. Numbered(CostTaken(taken), {}) /\ Numbered(FeeTaken(taken), {})
        BY <1>3, <4>3, NumberedPart
      <4> QED  BY <4>4, <4>5, SumAdds
    <3>3. s * (P * 0 - 0) = 0 /\ 0 + F * 0 = 0
      <4> HIDE DEF s, P, F
      <4> QED  BY <1>1
    <3> HIDE DEF new, trade, s, P, closed, X, Y, F
    <3> QED  BY <1>2, <2>3, <3>1, <3>2, <3>3
  <2> QED  BY <2>4, <2>5
<1>7. s * (P * closed - X) = (0 - d * P) + (0 - s) * X + (d + s * closed) * P
  <2> HIDE DEF s, P, closed, X, d
  <2> QED  BY <1>1, <1>5, Balance
<1>8. F * closed + (m - closed) * F = m * F
  <2> HIDE DEF F, closed, m
  <2> QED  BY <1>1, FeeBalance
<1>9. /\ d * P \in Int /\ (0 - s) * X \in Int /\ (d + s * closed) * P \in Int
      /\ F * closed \in Int /\ (m - closed) * F \in Int /\ m * F \in Int
  <2>1. 0 - s \in Int /\ d + s * closed \in Int /\ m - closed \in Int /\ closed \in Int
    <3> HIDE DEF s, closed, d, m
    <3> QED  BY <1>1
  <2> HIDE DEF s, P, closed, X, d, m, F
  <2> QED  BY <1>1, <1>5, <2>1, Products
<1> HIDE DEF D, key, d, s, o, closed, lots, taken, new, trade, X, Y, P, F, m, made, charged, cash,
             paid, cost, carried
<1>10. SumFunctionOnSet(MadeBy(new.trades), DOMAIN new.trades)
         = SumFunctionOnSet(CashIn, 1..k) + SumFunctionOnSet(CostOf(new), D)
  <2> DEFINE gained == s * (P * closed - X)
             sold == 0 - d * P
             less == (0 - s) * X
             more == (d + s * closed) * P
  <2>1. sold \in Int /\ less \in Int /\ more \in Int /\ gained = sold + less + more
    BY <1>7, <1>9
  <2>2. /\ SumFunctionOnSet(MadeBy(new.trades), DOMAIN new.trades) = made + gained
        /\ SumFunctionOnSet(CashIn, 1..k) = cash + sold
        /\ SumFunctionOnSet(CostOf(new), D) = cost + less + more
    BY <1>3, <1>4, <1>6, Zenon
  <2> HIDE DEF gained, sold, less, more
  <2>3. made + gained = (cash + sold) + (cost + less + more)
    BY <1>2, <1>4, <1>5, <2>1
  <2> QED  BY <2>2, <2>3
<1>11. SumFunctionOnSet(ChargedBy(new.trades), DOMAIN new.trades)
         + SumFunctionOnSet(CarriedBy(new), D) = SumFunctionOnSet(FeesPaid, 1..k)
  <2> DEFINE exit == F * closed
             rest == (m - closed) * F
             whole == m * F
  <2>1. exit \in Int /\ rest \in Int /\ whole \in Int /\ exit + rest = whole
    BY <1>8, <1>9
  <2>2. /\ SumFunctionOnSet(ChargedBy(new.trades), DOMAIN new.trades) = charged + (Y + exit)
        /\ SumFunctionOnSet(CarriedBy(new), D) = carried + (-1) * Y + rest
        /\ SumFunctionOnSet(FeesPaid, 1..k) = paid + whole
    BY <1>3, <1>4, <1>6, Zenon
  <2> HIDE DEF exit, rest, whole
  <2>3. (charged + (Y + exit)) + (carried + (-1) * Y + rest) = paid + whole
    BY <1>2, <1>4, <1>5, <1>6, <2>1
  <2> QED  BY <2>2, <2>3
<1> QED  BY <1>6, <1>10, <1>11 DEF MoneyRight, D, new

\* Before the first fill there is no money.
LEMMA NoMoneyRight ==
  ASSUME Walkable
  PROVE  MoneyRight(NoBook, 0)
<1>1. LotsRight(NoBook, 0)
  BY NoLotsRight
<1>2. /\ NoBook.trades = << >> /\ \A j \in DOMAIN Merged : NoBook.left[j] = 0
      /\ \A j \in DOMAIN Merged : NoBook.side[KeyAt(j)] = 1
  BY DEF NoBook, Walkable
<1>3. \A j \in DOMAIN Merged : CostOf(NoBook)[j] = 0 /\ CarriedBy(NoBook)[j] = 0
  <2> TAKE j \in DOMAIN Merged
  <2>1. PriceAt(j) \in Int /\ FeeAt(j) \in Int
    BY DEF Walkable
  <2>2. CostOf(NoBook)[j] = 1 * 0 * PriceAt(j) /\ CarriedBy(NoBook)[j] = 0 * FeeAt(j)
    BY <1>2 DEF CostOf, CarriedBy
  <2> QED  BY <2>1, <2>2
<1>4. {} \in SUBSET DOMAIN Merged
  OBVIOUS
<1>5. Numbered(CostOf(NoBook), DOMAIN Merged) /\ Numbered(CarriedBy(NoBook), DOMAIN Merged)
  BY <1>1, MoneyNumbered
<1>6. /\ Numbered(CostOf(NoBook), {}) /\ Numbered(CarriedBy(NoBook), {})
      /\ Numbered(CashIn, {}) /\ Numbered(FeesPaid, {})
  BY <1>4, <1>5, MoneyNumbered, NumberedPart
<1>7. /\ SumFunctionOnSet(CostOf(NoBook), DOMAIN Merged) = 0
      /\ SumFunctionOnSet(CarriedBy(NoBook), DOMAIN Merged) = 0
  <2>1. SumFunctionOnSet(CostOf(NoBook), DOMAIN Merged) = SumFunctionOnSet(CostOf(NoBook), {})
    BY <1>3, <1>4, <1>5, SumWithoutZeros
  <2>2. SumFunctionOnSet(CarriedBy(NoBook), DOMAIN Merged) = SumFunctionOnSet(CarriedBy(NoBook), {})
    BY <1>3, <1>4, <1>5, SumWithoutZeros
  <2>3. SumFunctionOnSet(CostOf(NoBook), {}) = 0 /\ SumFunctionOnSet(CarriedBy(NoBook), {}) = 0
    BY <1>6, SumAdds
  <2> QED  BY <2>1, <2>2, <2>3
<1>8. SumFunctionOnSet(CashIn, 1..0) = 0 /\ SumFunctionOnSet(FeesPaid, 1..0) = 0
  <2>1. 1..0 = {}
    OBVIOUS
  <2> QED  BY <1>6, <2>1, SumAdds
<1>9. /\ SumFunctionOnSet(MadeBy(NoBook.trades), DOMAIN NoBook.trades) = 0
      /\ SumFunctionOnSet(ChargedBy(NoBook.trades), DOMAIN NoBook.trades) = 0
  <2>1. DOMAIN NoBook.trades = {}
    BY <1>2
  <2>2. Numbered(MadeBy(NoBook.trades), {}) /\ Numbered(ChargedBy(NoBook.trades), {})
    BY <1>6 DEF Numbered
  <2> QED  BY <2>1, <2>2, SumAdds
<1>10. NoBook.trades \in Seq(RoundTrips)
  BY <1>2
<1> HIDE DEF NoBook
<1> QED  BY <1>7, <1>8, <1>9, <1>10 DEF MoneyRight

LEMMA AllMoneyRight ==
  ASSUME Walkable
  PROVE  \A k \in 0..Len(Merged) : MoneyRight(Books[k], k)
<1> DEFINE N == Len(Merged)
           Good == {k \in Nat : k <= N => MoneyRight(Books[k], k)}
<1>0. N \in Nat /\ DOMAIN Merged = 1..N
  BY DEF Walkable
<1>1. 0 \in Good
  BY BooksStep, NoMoneyRight
<1>2. ASSUME NEW k \in Nat, k \in Good
      PROVE  k + 1 \in Good
  <2> SUFFICES ASSUME k + 1 <= N  PROVE MoneyRight(Books[k + 1], k + 1)
    OBVIOUS
  <2>1. k + 1 \in DOMAIN Merged /\ (k + 1) - 1 = k /\ k <= N /\ k \in 0..N
    BY <1>0
  <2>2. MoneyRight(Books[k], k) /\ LotsRight(Books[k], k)
    BY <1>2, <2>1, AllLotsRight
  <2>3. MoneyRight(AfterFill(Books[k], k + 1), k + 1)
    BY <2>1, <2>2, MoneyStep
  <2>4. Books[k + 1] = AfterFill(Books[k], k + 1)
    <3>1. Books[k + 1] = AfterFill(Books[(k + 1) - 1], k + 1)
      BY <2>1, BooksStep
    <3> QED  BY <2>1, <3>1
  <2> QED  BY <2>3, <2>4
<1>3. \A k \in Nat : k \in Good
  <2>1. Good \in SUBSET Nat
    OBVIOUS
  <2> HIDE DEF Good
  <2> QED  BY <1>1, <1>2, <2>1, Inductive
<1>4. \A k \in 0..N : k \in Nat /\ k <= N
  BY <1>0
<1> QED  BY <1>3, <1>4

\* What the walk makes of the money it meets, whatever it is given.
LEMMA MoneyIsKept ==
  ASSUME Walkable
  PROVE  /\ SumFunction(MadeBy(Book.trades)) = SumFunction(CashIn) + SumFunction(CostOf(Book))
         /\ SumFunction(ChargedBy(Book.trades)) + SumFunction(CarriedBy(Book)) = SumFunction(FeesPaid)
<1>1. Len(Merged) \in 0..Len(Merged) /\ DOMAIN Merged = 1..Len(Merged)
  BY DEF Walkable
<1>2. MoneyRight(Book, Len(Merged))
  BY <1>1, AllMoneyRight DEF Book
<1>3. /\ DOMAIN MadeBy(Book.trades) = DOMAIN Book.trades
      /\ DOMAIN ChargedBy(Book.trades) = DOMAIN Book.trades
      /\ DOMAIN CashIn = DOMAIN Merged /\ DOMAIN FeesPaid = DOMAIN Merged
      /\ DOMAIN CostOf(Book) = DOMAIN Merged /\ DOMAIN CarriedBy(Book) = DOMAIN Merged
  BY DEF MadeBy, ChargedBy, CashIn, FeesPaid, CostOf, CarriedBy
<1> QED  BY <1>1, <1>2, <1>3, SumWhole DEF MoneyRight

-----------------------------------------------------------------------------
(* What the walk is given, when each fill is known once *)

\* m gives each place of S one of T, and g has there what f has here.
Renames(m, f, S, g, T) ==
    /\ \A k \in S : m[k] \in Nat /\ m[k] \in T /\ g[m[k]] = f[k]
    /\ \A t \in T : \E k \in S : m[k] = t
    /\ \A k, l \in S : m[k] = m[l] => k = l

\* A sum does not change when its places are renamed.
LEMMA SumRenamed ==
  ASSUME NEW m, NEW f, NEW S, NEW g, NEW T, Numbered(f, S), Renames(m, f, S, g, T)
  PROVE  Numbered(g, T) /\ SumFunctionOnSet(g, T) = SumFunctionOnSet(f, S)
<1> USE DEF Renames
<1> DEFINE Image(s) == {m[k] : k \in s}
           Good == {s \in SUBSET S : /\ Numbered(g, Image(s))
                                     /\ SumFunctionOnSet(g, Image(s)) = SumFunctionOnSet(f, s)}
<1>1. {} \in Good
  <2>1. Image({}) = {}
    OBVIOUS
  <2>2. Numbered(g, {}) /\ Numbered(f, {})
    <3>1. IsFiniteSet({})
      BY FS_EmptySet
    <3> QED  BY <3>1 DEF Numbered
  <2>3. SumFunctionOnSet(g, {}) = 0 /\ SumFunctionOnSet(f, {}) = 0
    BY <2>2, SumAdds
  <2> HIDE DEF Image
  <2> QED  BY <2>1, <2>2, <2>3
<1>2. ASSUME NEW s \in SUBSET S, NEW x \in S \ s, s \in Good
      PROVE  s \cup {x} \in Good
  <2>1. /\ Image(s \cup {x}) = Image(s) \cup {m[x]} /\ m[x] \notin Image(s)
        /\ s \cup {x} \in SUBSET S
    OBVIOUS
  <2>2. /\ Numbered(f, s) /\ x \in Nat /\ x \notin s /\ f[x] \in Int
        /\ m[x] \in Nat /\ g[m[x]] = f[x]
    BY NumberedPart DEF Numbered
  <2>3. Numbered(g, Image(s)) /\ SumFunctionOnSet(g, Image(s)) = SumFunctionOnSet(f, s)
    BY <1>2
  <2> DEFINE y == m[x]
  <2>a. y \in Nat /\ y \notin Image(s) /\ g[y] = f[x] /\ f[x] \in Int
    BY <2>1, <2>2
  <2> HIDE DEF Image, y
  <2>4. SumFunctionOnSet(f, s \cup {x}) = SumFunctionOnSet(f, s) + f[x]
    BY <2>2, SumWith
  <2>5. /\ Numbered(g, Image(s) \cup {y})
        /\ SumFunctionOnSet(g, Image(s) \cup {y}) = SumFunctionOnSet(g, Image(s)) + g[y]
    BY <2>3, <2>a, SumWith
  <2> QED  BY <2>1, <2>3, <2>4, <2>5, <2>a DEF y
<1>3. S \in Good
  <2>1. IsFiniteSet(S)
    BY DEF Numbered
  <2> HIDE DEF Good
  <2> QED  BY <1>1, <1>2, <2>1, InductiveSet
<1>4. Image(S) = T
  OBVIOUS
<1> QED  BY <1>3, <1>4

LEMMA OneEventEach ==
  ASSUME HistoryInv, KnownOnce
  PROVE  /\ Events = rows \cup {[id |-> i, kind |-> "report"] : i \in reported \ Stored}
         /\ \A e \in Events : /\ e.id \in Stored \cup reported
                              /\ e.id \in Stored <=> e \in rows
                              /\ e \in rows => e.kind \in {"fill"} \cup ClosedTypes
                              /\ e \notin rows => e.kind = "report"
         /\ \A i \in Stored \cup reported : \E e \in Events : e.id = i
         /\ \A a, b \in Events : a.id = b.id => a = b
<1> DEFINE fromReport == {[id |-> i, kind |-> "report"] : i \in reported \ Stored}
<1>1. Events = rows \cup fromReport
  BY DEF KnownOnce, Events
<1>2. \A r \in rows : /\ r.id \in 1..MaxFills /\ r.kind \in {"fill", EventType[r.id]}
                      /\ r = [id |-> r.id, kind |-> r.kind]
  BY DEF HistoryInv, FillsTypeOK, Row
<1>3. \A r \in rows : r.id \in Stored /\ r.kind \in {"fill"} \cup ClosedTypes
  BY <1>2, EventAssumption DEF Stored
<1>4. \A e \in fromReport : e.id \in reported \ Stored /\ e.kind = "report"
                        /\ e = [id |-> e.id, kind |-> "report"]
  OBVIOUS
<1>5. IsFiniteSet(rows)
  <2> DEFINE T == 1..(3 * MaxFills + 2)
             f == [r \in rows |-> Place(r)]
  <2>1. IsFiniteSet(T)
    <3>1. 3 * MaxFills + 2 \in Nat
      BY BoundsAssumption
    <3> QED  BY <3>1, UpToIsFinite
  <2>2. \A r \in rows : Place(r) \in T
    BY <1>2, BoundsAssumption DEF Place
  <2>3. \A a, b \in rows : Place(a) = Place(b) => a = b
    <3> TAKE a, b \in rows
    <3>1. /\ a.id \in Nat /\ b.id \in Nat
          /\ a.kind # "trade_opened" /\ b.kind # "trade_opened"
      BY <1>2, <1>3, BoundsAssumption DEF ClosedTypes
    <3>2. Place(a) = Place(b) => a.id = b.id /\ (a.kind = "fill" <=> b.kind = "fill")
      BY <3>1 DEF Place
    <3>3. Place(a) = Place(b) => a.kind = b.kind
      BY <1>2, <3>2
    <3> QED  BY <1>2, <3>2, <3>3
  <2>4. f \in Injection(rows, T)
    <3> HIDE DEF T
    <3> QED  BY <2>2, <2>3 DEF Injection, IsInjective
  <2> HIDE DEF T, f
  <2> QED  BY <2>1, <2>4, FS_Injection
<1>6. \A a, b \in rows : a.id = b.id => a = b
  <2> DEFINE f == [r \in rows |-> r.id]
  <2>1. f \in Surjection(rows, Stored)
    BY DEF Surjection, Stored
  <2>2. f \in Injection(rows, Stored)
    <3> HIDE DEF f
    <3> QED  BY <1>5, <2>1, FS_Surjection DEF KnownOnce
  <2> QED  BY <2>2 DEF Injection, IsInjective
<1>7. \A i \in Stored \cup reported : \E e \in Events : e.id = i
  <2>1. \A i \in reported \ Stored : [id |-> i, kind |-> "report"] \in fromReport
    OBVIOUS
  <2>2. \A i : [id |-> i, kind |-> "report"].id = i
    OBVIOUS
  <2> HIDE DEF fromReport
  <2> QED  BY <1>1, <2>1, <2>2 DEF Stored
<1>8. \A a, b \in Events : a.id = b.id => a = b
  <2> HIDE DEF fromReport
  <2> QED  BY <1>1, <1>3, <1>4, <1>6
<1>9. \A e \in Events : /\ e.id \in Stored \cup reported
                        /\ e.id \in Stored <=> e \in rows
                        /\ e \in rows => e.kind \in {"fill"} \cup ClosedTypes
                        /\ e \notin rows => e.kind = "report"
  <2> HIDE DEF fromReport
  <2> QED  BY <1>1, <1>3, <1>4
<1> QED  BY <1>1, <1>7, <1>8, <1>9

\* So the walk meets each fill known once, in their order.
LEMMA MergedIds ==
  ASSUME HistoryInv, KnownOnce
  PROVE  /\ \A k \in DOMAIN Merged : Merged[k].id \in Nat
         /\ \A k, m \in DOMAIN Merged : k < m => Merged[k].id < Merged[m].id
         /\ {Merged[k].id : k \in DOMAIN Merged} = Stored \cup reported
<1> DEFINE N == Len(Merged)
<1>1. /\ N \in Nat /\ DOMAIN Merged = 1..N
      /\ \A k \in 1..N : Merged[k] \in Events
      /\ \A k, m \in 1..N : k < m <=> Place(Merged[k]) < Place(Merged[m])
      /\ \A e \in Events : \E k \in 1..N : Place(Merged[k]) = Place(e)
      /\ \A e \in Events : e.id \in Ids
  BY MergedFills
<1>2. \A e \in Events : e.id \in Nat
  BY <1>1, FillType DEF HistoryInv, Ids
<1>3. \A a, b \in Events : a.id = b.id => a = b
  BY OneEventEach
<1>4. \A k, m \in 1..N : k < m => Merged[k].id < Merged[m].id
  <2> TAKE k, m \in 1..N
  <2> HAVE k < m
  <2>1. Place(Merged[k]) < Place(Merged[m]) /\ Merged[k] \in Events /\ Merged[m] \in Events
    BY <1>1
  <2>2. Merged[k].id \in Nat /\ Merged[m].id \in Nat
    BY <1>2, <2>1
  <2>3. Merged[k].id <= Merged[m].id
    BY <2>1, <2>2, SMTT(30) DEF Place
  <2>4. Merged[k].id # Merged[m].id
    <3>1. Merged[k].id = Merged[m].id => Merged[k] = Merged[m]
      BY <1>3, <2>1
    <3>2. Merged[k] # Merged[m]
      <4>1. Place(Merged[k]) \in Int
        BY <2>2 DEF Place
      <4> QED  BY <2>1, <4>1
    <3> QED  BY <3>1, <3>2
  <2> QED  BY <2>2, <2>3, <2>4
<1>5. \A k \in 1..N : Merged[k].id \in Stored \cup reported /\ Merged[k].id \in Nat
  BY <1>1, <1>2, OneEventEach
<1>6. \A i \in Stored \cup reported : \E k \in 1..N : Merged[k].id = i
  <2> TAKE i \in Stored \cup reported
  <2>1. PICK e \in Events : e.id = i
    BY OneEventEach
  <2>2. PICK k \in 1..N : Place(Merged[k]) = Place(e)
    BY <1>1
  <2>3. Merged[k].id = e.id
    <3>1. Merged[k].id \in Nat /\ e.id \in Nat
      BY <1>2, <1>5
    <3> QED  BY <2>2, <3>1, SMTT(30) DEF Place
  <2> QED  BY <2>1, <2>3
<1> HIDE DEF N
<1> QED  BY <1>1, <1>4, <1>5, <1>6

\* The money that the walk meets is that of the fills known; a fee is known from a row.
LEMMA MoneyIsRight ==
  ASSUME HistoryInv
  PROVE  MoneyIsAccountedFor
<1> DEFINE known == Stored \cup reported
           Received == [i \in known |-> -fills[i].delta * Price[i]]
           Paid == [i \in Stored |-> Magnitude(fills[i].delta) * Fee[i]]
           Due == [i \in known |-> IF i \in Stored THEN Magnitude(fills[i].delta) * Fee[i] ELSE 0]
           ids == [k \in DOMAIN Merged |-> Merged[k].id]
<1> SUFFICES ASSUME KnownOnce
             PROVE  SumFunction(CashIn) = SumFunction(Received) /\ SumFunction(FeesPaid) = SumFunction(Paid)
  <2>1. Walkable
    BY MergedIsWalkable
  <2>2. /\ SumFunction(MadeBy(Book.trades)) = SumFunction(CashIn) + SumFunction(CostOf(Book))
        /\ SumFunction(ChargedBy(Book.trades)) + SumFunction(CarriedBy(Book)) = SumFunction(FeesPaid)
    BY <2>1, MoneyIsKept
  <2> QED  BY <2>2 DEF MoneyIsAccountedFor, MadeBy, ChargedBy, CostOf, CarriedBy
<1>1. /\ Walkable /\ DOMAIN Merged \in SUBSET Nat /\ IsFiniteSet(DOMAIN Merged)
  <2>1. Walkable
    BY MergedIsWalkable
  <2> QED  BY <2>1, UpToIsFinite DEF Walkable
<1>2. /\ \A k \in DOMAIN Merged : ids[k] = Merged[k].id /\ ids[k] \in Nat /\ ids[k] \in known
      /\ \A k, m \in DOMAIN Merged : ids[k] = ids[m] => k = m
      /\ {ids[k] : k \in DOMAIN Merged} = known
  <2>1. /\ \A k \in DOMAIN Merged : Merged[k].id \in Nat
        /\ \A k, m \in DOMAIN Merged : k < m => Merged[k].id < Merged[m].id
        /\ {Merged[k].id : k \in DOMAIN Merged} = known
    BY MergedIds
  <2>2. \A k, m \in DOMAIN Merged : Merged[k].id = Merged[m].id => k = m
    <3> TAKE k, m \in DOMAIN Merged
    <3>1. k \in Int /\ m \in Int
      BY <1>1
    <3>2. k < m \/ k = m \/ m < k
      BY <3>1
    <3>3. k < m => Merged[k].id < Merged[m].id
      BY <2>1
    <3>4. m < k => Merged[m].id < Merged[k].id
      BY <2>1
    <3>5. Merged[k].id \in Int /\ Merged[m].id \in Int
      BY <2>1
    <3> QED  BY <3>2, <3>3, <3>4, <3>5
  <2> QED  BY <2>1, <2>2
<1>3. \A k \in DOMAIN Merged : /\ CashIn[k] = Received[ids[k]] /\ CashIn[k] \in Int
                               /\ FeesPaid[k] = Due[ids[k]] /\ FeesPaid[k] \in Int
  <2> TAKE k \in DOMAIN Merged
  <2> DEFINE i == Merged[k].id
  <2>1. CashIn[k] \in Int /\ FeesPaid[k] \in Int
    BY <1>1, MoneyNumbered DEF Numbered
  <2>2. i \in known /\ ids[k] = i
    BY <1>2
  <2>3. CashIn[k] = Received[i]
    <3> HIDE DEF i, known
    <3> QED  BY <2>2 DEF CashIn, DeltaAt, PriceAt, i
  <2>4. /\ i \in Stored => FeeAt(k) = Fee[i]
        /\ i \notin Stored => FeeAt(k) = 0
    <3>1. Merged[k] \in Events
      BY MergedFills
    <3>2. /\ i \in Stored => Merged[k].kind \in {"fill"} \cup ClosedTypes
          /\ i \notin Stored => Merged[k].kind = "report"
      BY <3>1, OneEventEach
    <3> QED  BY <3>2 DEF FeeAt, FeePerUnit, ClosedTypes
  <2>5. FeesPaid[k] = Due[i]
    <3>1. FeesPaid[k] = Magnitude(fills[i].delta) * FeeAt(k)
      BY DEF FeesPaid, DeltaAt
    <3>2. Magnitude(fills[i].delta) \in Int
      <4>1. DeltaAt(k) \in Int
        BY <1>1 DEF Walkable
      <4> QED  BY <4>1 DEF DeltaAt, Magnitude, Sign
    <3>3. Due[i] = IF i \in Stored THEN Magnitude(fills[i].delta) * Fee[i] ELSE 0
      BY <2>2
    <3> HIDE DEF Due, i
    <3>4. CASE i \in Stored
      BY <2>4, <3>1, <3>3, <3>4
    <3>5. CASE i \notin Stored
      <4> DEFINE u == Magnitude(fills[i].delta)
      <4>1. FeesPaid[k] = u * 0 /\ Due[i] = 0
        BY <2>4, <3>1, <3>3, <3>5
      <4>2. u \in Int
        BY <3>2
      <4> HIDE DEF u
      <4> QED  BY <4>1, <4>2
    <3> QED  BY <3>4, <3>5
  <2> HIDE DEF i, Received, Due
  <2> QED  BY <2>1, <2>2, <2>3, <2>5, Zenon
<1>4. Numbered(CashIn, DOMAIN Merged) /\ Numbered(FeesPaid, DOMAIN Merged)
  BY <1>1, <1>3 DEF Numbered
<1> DEFINE D == DOMAIN Merged
<1> HIDE DEF ids, Received, Due, known, D
<1>a. /\ \A k \in D : ids[k] \in Nat /\ ids[k] \in known
      /\ \A i \in known : \E k \in D : ids[k] = i
      /\ \A k, m \in D : ids[k] = ids[m] => k = m
  BY <1>2 DEF D
<1>5. SumFunctionOnSet(Received, known) = SumFunctionOnSet(CashIn, D)
  <2>1. Numbered(CashIn, D) /\ Renames(ids, CashIn, D, Received, known)
    BY <1>3, <1>4, <1>a DEF D, Renames
  <2> QED  BY <2>1, SumRenamed
<1>6. Numbered(Due, known) /\ SumFunctionOnSet(Due, known) = SumFunctionOnSet(FeesPaid, D)
  <2>1. Numbered(FeesPaid, D) /\ Renames(ids, FeesPaid, D, Due, known)
    BY <1>3, <1>4, <1>a DEF D, Renames
  <2> QED  BY <2>1, SumRenamed
<1>7. SumFunctionOnSet(Due, known) = SumFunctionOnSet(Due, Stored)
  <2>1. Stored \in SUBSET known /\ \A i \in known \ Stored : Due[i] = 0
    BY DEF known, Due
  <2> QED  BY <1>6, <2>1, SumWithoutZeros
<1>8. SumFunctionOnSet(Paid, Stored) = SumFunctionOnSet(Due, Stored)
  <2>1. Stored \in SUBSET known
    BY DEF known
  <2>2. Numbered(Due, Stored)
    BY <1>6, <2>1, NumberedPart
  <2>3. Alike(Due, Paid, Stored, Stored)
    BY DEF Alike, Due, known
  <2> HIDE DEF Paid
  <2> QED  BY <2>2, <2>3, SumSame
<1>9. DOMAIN CashIn = D /\ DOMAIN FeesPaid = D /\ DOMAIN Received = known /\ DOMAIN Paid = Stored
  BY DEF CashIn, FeesPaid, Received, D
<1> HIDE DEF Paid
<1> QED  BY <1>5, <1>6, <1>7, <1>8, <1>9, SumWhole

-----------------------------------------------------------------------------
(* The exits, and those that leave nothing open *)

ExitsOf(trades) == {trades[n].exit : n \in DOMAIN trades}
FlatExits(trades) == {trades[n].exit : n \in {m \in DOMAIN trades : trades[m].flat}}

\* The position under its key that the fill j finds, and whether the fill ends it.
PositionAt(j) == Volume(KeyAt(j), 1, j - 1) - Volume(KeyAt(j), -1, j - 1)
Ends(k) == {Merged[j].id : j \in {i \in 1..k : Completes(PositionAt(i), DeltaAt(i))}}
Leaves(j) == Sign(DeltaAt(j)) = -Sign(PositionAt(j))
Left(k) == {Merged[j].id : j \in {i \in 1..k : Leaves(i)}}

\* The lots open before a fill are the position it finds.
LEMMA OpenIsPosition ==
  ASSUME Walkable, NEW k \in DOMAIN Merged, NEW book, LotsRight(book, k - 1)
  PROVE  /\ book.side[KeyAt(k)] \in {1, -1} /\ Open(book, KeyAt(k)) \in Nat
         /\ book.side[KeyAt(k)] * Open(book, KeyAt(k)) = PositionAt(k)
<1> DEFINE p == k - 1
           key == KeyAt(k)
           s == book.side[key]
           o == Open(book, key)
<1>0. p \in 0..Len(Merged)
  BY DEF Walkable
<1>1. key \in ContractKeys /\ s \in {1, -1}
  <2>1. s \in {1, -1}
    BY FillLeaves
  <2> QED  BY <2>1 DEF Walkable
<1>2. o \in Nat /\ s * o = PositionAt(k)
  <2>1. /\ o \in Nat /\ o = Volume(key, s, p) - Volume(key, Other(s), p)
        /\ Volume(key, s, p) \in Nat /\ Volume(key, Other(s), p) \in Nat
    BY <1>0, <1>1, OpenIs
  <2>2. CASE s = 1
    <3>1. o = PositionAt(k)
      BY <2>1, <2>2 DEF Other, PositionAt
    <3> HIDE DEF o, s
    <3> QED  BY <2>1, <2>2, <3>1
  <2>3. CASE s = -1
    <3> DEFINE a == Volume(key, 1, p)
               b == Volume(key, -1, p)
    <3>1. o = b - a /\ a \in Nat /\ b \in Nat
      BY <2>1, <2>3 DEF Other
    <3>2. PositionAt(k) = a - b
      BY DEF PositionAt
    <3> HIDE DEF o, s, a, b
    <3>3. s * o = a - b
      BY <2>3, <3>1
    <3> QED  BY <2>1, <3>2, <3>3
  <2> QED  BY <1>1, <2>2, <2>3
<1> QED  BY <1>1, <1>2

LEMMA FlatStep ==
  ASSUME Walkable, NEW k \in DOMAIN Merged, NEW book, LotsRight(book, k - 1),
         book.trades \in Seq(RoundTrips), FlatExits(book.trades) = Ends(k - 1)
  PROVE  FlatExits(AfterFill(book, k).trades) = Ends(k)
<1> DEFINE p == k - 1
           key == KeyAt(k)
           d == DeltaAt(k)
           s == book.side[key]
           o == Open(book, key)
           closed == Closing(s, o, d)
           lots == OpenLots(book, key)
           taken == Taken(book.left, lots, closed)
           new == AfterFill(book, k)
           trade == ClosedTrade(book, k, taken, closed)
<1>0. /\ k \in 1..k /\ 1..k = 1..p \cup {k} /\ k \notin 1..p /\ p \in 0..Len(Merged)
  BY DEF Walkable
<1>1. /\ key \in ContractKeys /\ d \in Int /\ d # 0 /\ s \in {1, -1}
  <2>1. s \in {1, -1}
    BY FillLeaves
  <2> QED  BY <2>1 DEF Walkable
<1>2. o \in Nat /\ s * o = PositionAt(k)
  BY <1>0, OpenIsPosition
<1>3. Completes(PositionAt(k), d) <=> o > 0 /\ Sign(d) # s /\ closed = o
  <2>1. Completes(s * o, d) <=> o > 0 /\ Sign(d) # s /\ Closing(s, o, d) = o
    <3> HIDE DEF s, o, d
    <3> QED  BY <1>1, <1>2, Classified
  <2> QED  BY <1>2, <2>1
<1>4. trade.exit = Merged[k].id /\ trade.flat = (closed = o) /\ trade \in RoundTrips
  BY ClosedTradeIs
<1>5. new.trades = IF o > 0 /\ Sign(d) # s THEN Append(book.trades, trade) ELSE book.trades
  BY AfterFillIs
<1>6. Ends(k) = Ends(p) \cup (IF Completes(PositionAt(k), d) THEN {Merged[k].id} ELSE {})
  <2> HIDE DEF p
  <2> QED  BY <1>0 DEF Ends
<1>7. FlatExits(Append(book.trades, trade))
        = FlatExits(book.trades) \cup (IF closed = o THEN {Merged[k].id} ELSE {})
  <2> DEFINE n == Len(book.trades)
             longer == Append(book.trades, trade)
  <2>1. /\ n \in Nat /\ DOMAIN book.trades = 1..n /\ DOMAIN longer = 1..n \cup {n + 1}
        /\ longer[n + 1] = trade /\ \A i \in 1..n : longer[i] = book.trades[i]
    <3> HIDE DEF trade
    <3> QED  BY <1>4
  <2> DEFINE x == n + 1
  <2>2. /\ DOMAIN longer = 1..n \cup {x} /\ longer[x] = trade
    BY <2>1
  <2> DEFINE Flat(t, e) == \E m \in DOMAIN t : t[m].flat /\ e = t[m].exit
  <2>a. \A t, e : e \in FlatExits(t) <=> Flat(t, e)
    BY DEF FlatExits
  <2> HIDE DEF n, x, longer, trade, closed, o
  <2>b. \A e : Flat(longer, e) <=> Flat(book.trades, e) \/ (longer[x].flat /\ e = longer[x].exit)
    BY <2>1, <2>2
  <2>c. (longer[x].flat <=> closed = o) /\ longer[x].exit = Merged[k].id
    BY <1>4, <2>2, Zenon
  <2>3. \A e : e \in FlatExits(longer) <=> e \in FlatExits(book.trades) \/ (closed = o /\ e = Merged[k].id)
    <3> HIDE DEF Flat
    <3> QED  BY <2>a, <2>b, <2>c, Zenon
  <2> QED  BY <2>3 DEF longer
<1> HIDE DEF p, key, d, s, o, closed, lots, taken, new, trade
<1>8. FlatExits(book.trades) = Ends(p)
  BY DEF p
<1>9. FlatExits(new.trades) = Ends(k)
  <2>1. CASE o > 0 /\ Sign(d) # s
    <3>1. new.trades = Append(book.trades, trade)
      BY <1>5, <2>1
    <3>2. (IF closed = o THEN {Merged[k].id} ELSE {})
            = IF Completes(PositionAt(k), d) THEN {Merged[k].id} ELSE {}
      BY <1>3, <2>1
    <3> QED  BY <1>6, <1>7, <1>8, <3>1, <3>2
  <2>2. CASE ~(o > 0 /\ Sign(d) # s)
    BY <1>3, <1>5, <1>6, <1>8, <2>2
  <2> QED  BY <2>1, <2>2
<1> QED  BY <1>9 DEF new

\* The trades of the history that left nothing open are those that ended a position.
LEMMA FlatExitsAreEnds ==
  ASSUME Walkable
  PROVE  FlatExits(Book.trades) = Ends(Len(Merged))
<1> DEFINE N == Len(Merged)
           Good == {k \in Nat : k <= N => FlatExits(Books[k].trades) = Ends(k)}
<1>0. N \in Nat /\ DOMAIN Merged = 1..N
  BY DEF Walkable
<1>1. 0 \in Good
  <2>1. Books[0].trades = << >>
    BY BooksStep DEF NoBook
  <2>2. FlatExits(<< >>) = {} /\ Ends(0) = {}
    BY DEF FlatExits, Ends
  <2> QED  BY <2>1, <2>2
<1>2. ASSUME NEW k \in Nat, k \in Good
      PROVE  k + 1 \in Good
  <2> SUFFICES ASSUME k + 1 <= N  PROVE FlatExits(Books[k + 1].trades) = Ends(k + 1)
    OBVIOUS
  <2> DEFINE x == k + 1
  <2>1. x \in DOMAIN Merged /\ x - 1 = k /\ k <= N /\ k \in 0..N
    BY <1>0
  <2>2. /\ MoneyRight(Books[k], k) /\ LotsRight(Books[k], k) /\ FlatExits(Books[k].trades) = Ends(k)
    BY <1>2, <2>1, AllLotsRight, AllMoneyRight
  <2> HIDE DEF x
  <2>3. Books[k].trades \in Seq(RoundTrips)
    BY <2>2 DEF MoneyRight
  <2>4. LotsRight(Books[k], x - 1) /\ FlatExits(Books[k].trades) = Ends(x - 1)
    BY <2>1, <2>2
  <2>5. FlatExits(AfterFill(Books[k], x).trades) = Ends(x)
    BY <2>1, <2>3, <2>4, FlatStep
  <2>6. Books[x] = AfterFill(Books[k], x)
    <3>1. Books[x] = AfterFill(Books[x - 1], x)
      BY <2>1, BooksStep
    <3> QED  BY <2>1, <3>1
  <2> QED  BY <2>5, <2>6 DEF x
<1>3. N \in Good
  <2>1. Good \in SUBSET Nat
    OBVIOUS
  <2> HIDE DEF Good
  <2> QED  BY <1>0, <1>1, <1>2, <2>1, Inductive
<1> QED  BY <1>0, <1>3 DEF Book

\* Each exit yields a trade, and nothing else does.
LEMMA ExitStep ==
  ASSUME Walkable, NEW k \in DOMAIN Merged, NEW book, LotsRight(book, k - 1),
         book.trades \in Seq(RoundTrips), ExitsOf(book.trades) = Left(k - 1)
  PROVE  /\ ExitsOf(AfterFill(book, k).trades) = Left(k)
         /\ Len(AfterFill(book, k).trades) = Len(book.trades) + (IF Leaves(k) THEN 1 ELSE 0)
<1> DEFINE p == k - 1
           d == DeltaAt(k)
           s == book.side[KeyAt(k)]
           o == Open(book, KeyAt(k))
           closed == Closing(s, o, d)
           taken == Taken(book.left, OpenLots(book, KeyAt(k)), closed)
           trade == ClosedTrade(book, k, taken, closed)
<1>0. 1..k = 1..p \cup {k} /\ k \in 1..k
  BY DEF Walkable
<1>1. d \in Int /\ d # 0 /\ s \in {1, -1} /\ o \in Nat /\ s * o = PositionAt(k)
  BY OpenIsPosition DEF Walkable
<1>2. Leaves(k) <=> o > 0 /\ Sign(d) # s
  <2>1. Sign(d) \in {1, -1}
    <3> HIDE DEF d
    <3> QED  BY <1>1, SignOf
  <2>2. Leaves(k) <=> Sign(d) = -Sign(s * o)
    BY <1>1 DEF Leaves
  <2> HIDE DEF s, o, d
  <2>3. Sign(s * o) = IF o > 0 THEN s ELSE 0
    <3>1. CASE s = 1
      BY <1>1, <3>1 DEF Sign
    <3>2. CASE s = -1
      BY <1>1, <3>2 DEF Sign
    <3> QED  BY <1>1, <3>1, <3>2
  <2> QED  BY <1>1, <2>1, <2>2, <2>3
<1>3. trade.exit = Merged[k].id /\ trade \in RoundTrips
  BY ClosedTradeIs
<1>4. AfterFill(book, k).trades
        = IF o > 0 /\ Sign(d) # s THEN Append(book.trades, trade) ELSE book.trades
  BY AfterFillIs
<1>5. Left(k) = Left(p) \cup (IF Leaves(k) THEN {Merged[k].id} ELSE {})
  <2> HIDE DEF p
  <2> QED  BY <1>0 DEF Left
<1>6. /\ ExitsOf(Append(book.trades, trade)) = ExitsOf(book.trades) \cup {Merged[k].id}
      /\ Len(Append(book.trades, trade)) = Len(book.trades) + 1 /\ Len(book.trades) \in Nat
  <2> DEFINE n == Len(book.trades)
             longer == Append(book.trades, trade)
             x == n + 1
  <2>1. /\ n \in Nat /\ DOMAIN book.trades = 1..n /\ DOMAIN longer = 1..n \cup {x}
        /\ longer[x] = trade /\ \A i \in 1..n : longer[i] = book.trades[i]
        /\ Len(longer) = x
    <3> HIDE DEF trade
    <3> QED  BY <1>3
  <2>2. longer[x].exit = Merged[k].id
    BY <1>3, <2>1, Zenon
  <2> HIDE DEF x, longer, trade
  <2>3. ExitsOf(longer) = ExitsOf(book.trades) \cup {longer[x].exit}
    <3> HIDE DEF n
    <3> QED  BY <2>1 DEF ExitsOf
  <2> QED  BY <2>1, <2>2, <2>3 DEF longer, x
<1> HIDE DEF p, d, s, o, closed, taken, trade
<1>7. CASE Leaves(k)
  BY <1>2, <1>4, <1>5, <1>6, <1>7 DEF p
<1>8. CASE ~Leaves(k)
  BY <1>2, <1>4, <1>5, <1>6, <1>8 DEF p
<1> QED  BY <1>7, <1>8

\* As many trades as exits, when the walk meets no fill twice.
LEMMA ExitsAreLeft ==
  ASSUME Walkable, \A k, m \in DOMAIN Merged : k < m => Merged[k].id # Merged[m].id
  PROVE  /\ ExitsOf(Book.trades) = Left(Len(Merged))
         /\ Len(Book.trades) = Cardinality(Left(Len(Merged)))
<1> DEFINE N == Len(Merged)
           Right(k) == /\ ExitsOf(Books[k].trades) = Left(k)
                       /\ IsFiniteSet(Left(k))
                       /\ Len(Books[k].trades) = Cardinality(Left(k))
           Good == {k \in Nat : k <= N => Right(k)}
<1>0. N \in Nat /\ DOMAIN Merged = 1..N
  BY DEF Walkable
<1>1. 0 \in Good
  <2>1. Books[0].trades = << >>
    BY BooksStep DEF NoBook
  <2>2. ExitsOf(<< >>) = {} /\ Left(0) = {}
    BY DEF ExitsOf, Left
  <2>3. IsFiniteSet({}) /\ Cardinality({}) = 0 /\ Len(<< >>) = 0
    BY FS_EmptySet
  <2> QED  BY <2>1, <2>2, <2>3
<1>2. ASSUME NEW k \in Nat, k \in Good
      PROVE  k + 1 \in Good
  <2> DEFINE x == k + 1
  <2> SUFFICES ASSUME x <= N  PROVE Right(x)
    OBVIOUS
  <2>1. x \in DOMAIN Merged /\ x - 1 = k /\ k <= N /\ k \in 0..N
    BY <1>0
  <2>2. MoneyRight(Books[k], k) /\ LotsRight(Books[k], k) /\ Right(k)
    BY <1>2, <2>1, AllLotsRight, AllMoneyRight
  <2>3. /\ 1..x = 1..k \cup {x} /\ x \in 1..x
        /\ \A m \in 1..k : m \in DOMAIN Merged /\ m < x
    BY <1>0, <2>1
  <2> HIDE DEF x
  <2>4. Books[k].trades \in Seq(RoundTrips)
    BY <2>2 DEF MoneyRight
  <2>5. LotsRight(Books[k], x - 1) /\ ExitsOf(Books[k].trades) = Left(x - 1)
    BY <2>1, <2>2
  <2>6. /\ ExitsOf(AfterFill(Books[k], x).trades) = Left(x)
        /\ Len(AfterFill(Books[k], x).trades) = Len(Books[k].trades) + (IF Leaves(x) THEN 1 ELSE 0)
    BY <2>1, <2>4, <2>5, ExitStep
  <2>7. Books[x] = AfterFill(Books[k], x)
    <3>1. Books[x] = AfterFill(Books[x - 1], x)
      BY <2>1, BooksStep
    <3> QED  BY <2>1, <3>1
  <2>8. Left(x) = Left(k) \cup (IF Leaves(x) THEN {Merged[x].id} ELSE {})
    BY <2>3 DEF Left
  <2>9. Merged[x].id \notin Left(k)
    <3>1. \A m \in 1..k : Merged[m].id # Merged[x].id
      BY <2>1, <2>3
    <3> QED  BY <3>1 DEF Left
  <2>10. /\ IsFiniteSet(Left(x))
         /\ Cardinality(Left(x)) = Cardinality(Left(k)) + (IF Leaves(x) THEN 1 ELSE 0)
    <3>1. IsFiniteSet(Left(k)) /\ Cardinality(Left(k)) \in Nat
      BY <2>2, FS_CardinalityType
    <3>2. CASE Leaves(x)
      <4>1. Left(x) = Left(k) \cup {Merged[x].id}
        BY <2>8, <3>2
      <4> DEFINE y == Merged[x].id
                 before == Left(k)
      <4>2. IsFiniteSet(before \cup {y}) /\ Cardinality(before \cup {y}) = Cardinality(before) + 1
        <5>1. IsFiniteSet(before) /\ y \notin before
          BY <2>9, <3>1
        <5> HIDE DEF y, before
        <5> QED  BY <5>1, FS_AddElement
      <4> QED  BY <3>2, <4>1, <4>2
    <3>3. CASE ~Leaves(x)
      <4>1. Left(x) = Left(k)
        BY <2>8, <3>3
      <4> QED  BY <3>1, <3>3, <4>1
    <3> QED  BY <3>2, <3>3
  <2> QED  BY <2>2, <2>6, <2>7, <2>10
<1>3. N \in Good
  <2>1. Good \in SUBSET Nat
    OBVIOUS
  <2> HIDE DEF Good
  <2> QED  BY <1>0, <1>1, <1>2, <2>1, Inductive
<1> QED  BY <1>0, <1>3 DEF Book

-----------------------------------------------------------------------------
(* The history and the count *)

\* One row of each fill, and none missing.
Complete == KnownOnce /\ reported \subseteq Stored

\* Then the walk of the history finds what the account holds of the contract.
LEMMA PositionAtIsHeld ==
  ASSUME HistoryInv, Complete
  PROVE  /\ {Merged[j].id : j \in DOMAIN Merged} = Stored
         /\ \A k \in DOMAIN Merged :
              PositionAt(k) = Held(Stored, fills[Merged[k].id].contract, Merged[k].id - 1)
<1> DEFINE N == Len(Merged)
<1>1. Walkable /\ FillsTypeOK /\ Stored \in SUBSET Ids
  BY MergedIsWalkable DEF HistoryInv
<1>2. /\ N \in Nat /\ DOMAIN Merged = 1..N
      /\ \A k \in 1..N : Merged[k].id \in Nat /\ Merged[k].id \in Stored
      /\ \A k, m \in 1..N : k < m => Merged[k].id < Merged[m].id
      /\ {Merged[k].id : k \in 1..N} = Stored
      /\ \A k \in 1..N : Merged[k] \in Events
  <2>1. Stored \cup reported = Stored
    BY DEF Complete
  <2>2. /\ N \in Nat /\ DOMAIN Merged = 1..N
        /\ \A k \in 1..N : Merged[k] \in Events
    BY MergedFills
  <2>3. /\ \A k \in DOMAIN Merged : Merged[k].id \in Nat
        /\ \A k, m \in DOMAIN Merged : k < m => Merged[k].id < Merged[m].id
        /\ {Merged[k].id : k \in DOMAIN Merged} = Stored
    BY <2>1, MergedIds DEF Complete
  <2> HIDE DEF N
  <2> QED  BY <2>2, <2>3
<1>3. \A i \in Stored : i \in Nat /\ fills[i].contract \in Contracts
                       /\ fills[i].delta \in Int /\ fills[i].delta # 0
  <2>1. \A i \in Ids : i \in Nat
    BY <1>1, FillType DEF Ids
  <2> QED  BY <1>1, <2>1, FillType
<1>4. \A k \in 1..N : /\ KeyAt(k) = <<fills[Merged[k].id].contract, "cid">>
                      /\ DeltaAt(k) = fills[Merged[k].id].delta
  <2> TAKE k \in 1..N
  <2>1. Merged[k].kind # "report"
    <3>1. Merged[k].kind \in {"fill"} \cup ClosedTypes
      BY <1>2, OneEventEach DEF Complete
    <3> QED  BY <3>1 DEF ClosedTypes
  <2> QED  BY <2>1 DEF KeyAt, ContractKey, DeltaAt
\* The ids grow.
<1>5. \A k, m \in 1..N : k < m => Merged[k].id < Merged[m].id
  BY <1>2
<1>6. \A k \in 1..N : Merged[k].id \in Stored /\ Merged[k].id \in Nat
  BY <1>2
<1>7. \A i \in Stored : \E k \in 1..N : Merged[k].id = i
  BY <1>2
\* The walk under a key adds up the fills of its contract.
<1>8. ASSUME NEW c \in Contracts, NEW n \in 0..N
      PROVE  Volume(<<c, "cid">>, 1, n) - Volume(<<c, "cid">>, -1, n)
               = Net(fills, {Merged[m].id : m \in {j \in 1..n : KeyAt(j) = <<c, "cid">>}})
  <2> DEFINE key == <<c, "cid">>
             Met(i) == {Merged[m].id : m \in {j \in 1..i : KeyAt(j) = key}}
             B(i) == Volume(key, 1, i)
             C(i) == Volume(key, -1, i)
             Good == {i \in Nat : i <= N => B(i) - C(i) = Net(fills, Met(i))}
  <2>1. \A i \in 0..N : /\ Met(i) \in SUBSET Nat /\ IsFiniteSet(Met(i))
                        /\ \A j \in Met(i) : fills[j].delta \in Int
    <3> TAKE i \in 0..N
    <3>1. \A m \in 1..i : m \in 1..N
      BY <1>2
    <3>2. Met(i) \in SUBSET Ids
      BY <1>1, <1>6, <3>1
    <3>3. Len(fills) \in Nat /\ Ids = 1..Len(fills)
      BY <1>1, FillType DEF Ids
    <3> HIDE DEF Met
    <3>4. \A j \in Met(i) : fills[j].delta \in Int
      BY <1>1, <3>2, FillType
    <3> QED  BY <3>2, <3>3, <3>4, UpToIsFinite
  <2>2. 0 \in Good
    <3>1. Met(0) = {} /\ 0 \in 0..N
      BY <1>2
    <3>2. Net(fills, Met(0)) = 0
      <4> HIDE DEF Met
      <4> QED  BY <2>1, <3>1, NetAdds
    <3>3. B(0) = 0 /\ C(0) = 0
      <4> HIDE DEF key
      <4> QED  BY <1>1, <3>1, VolumeSteps
    <3> HIDE DEF Met, B, C
    <3> QED  BY <3>2, <3>3
  <2>3. ASSUME NEW i \in Nat, i \in Good
        PROVE  i + 1 \in Good
    <3> DEFINE x == i + 1
               v == Merged[x].id
               d == DeltaAt(x)
    <3> SUFFICES ASSUME x <= N  PROVE B(x) - C(x) = Net(fills, Met(x))
      OBVIOUS
    <3>1. /\ x \in 1..N /\ x \in 0..N /\ x # 0 /\ x - 1 = i /\ i \in 0..N /\ 1..x = 1..i \cup {x}
          /\ \A m \in 1..i : m \in 1..N /\ m < x
      BY <1>2
    <3>2. B(i) - C(i) = Net(fills, Met(i))
      BY <1>2, <2>3, <3>1
    <3>3. /\ B(x) = B(i) + IF KeyAt(x) = key /\ Sign(d) = 1 THEN Magnitude(d) ELSE 0
          /\ C(x) = C(i) + IF KeyAt(x) = key /\ Sign(d) = -1 THEN Magnitude(d) ELSE 0
          /\ B(i) \in Int /\ C(i) \in Int
      <4> DEFINE y == x - 1
      <4>1. /\ B(x) = B(y) + IF KeyAt(x) = key /\ Sign(d) = 1 THEN Magnitude(d) ELSE 0
            /\ C(x) = C(y) + IF KeyAt(x) = key /\ Sign(d) = -1 THEN Magnitude(d) ELSE 0
        <5> HIDE DEF key, x, N
        <5> QED  BY <1>1, <3>1, VolumeSteps DEF N
      <4>2. B(i) \in Int /\ C(i) \in Int
        <5> HIDE DEF key, N
        <5> QED  BY <1>1, <3>1, VolumeSteps DEF N
      <4>3. y = i
        BY <3>1
      <4> HIDE DEF B, C, x, y, d, key
      <4> QED  BY <4>1, <4>2, <4>3
    <3>4. /\ d \in Int /\ d # 0 /\ Sign(d) \in {1, -1} /\ Magnitude(d) \in Int
          /\ Sign(d) = 1 => d = Magnitude(d)
          /\ Sign(d) = -1 => d = 0 - Magnitude(d)
          /\ d = fills[v].delta
      <4>1. d \in Int /\ d # 0 /\ d = fills[v].delta
        BY <1>1, <1>2, <1>4, <3>1 DEF Walkable
      <4> HIDE DEF d
      <4> QED  BY <4>1, SignOf
    <3>5. CASE KeyAt(x) = key
      <4>1. v \in Met(x) /\ Met(x) \ {v} = Met(i)
        <5>1. \A m \in 1..i : Merged[m].id # v
          <6>1. \A m \in 1..i : Merged[m].id < v /\ Merged[m].id \in Nat /\ v \in Nat
            BY <1>5, <1>6, <3>1
          <6> HIDE DEF v
          <6> QED  BY <6>1
        <5> HIDE DEF x, key
        <5> QED  BY <3>1, <3>5, <5>1
      <4>2. Net(fills, Met(x)) = fills[v].delta + Net(fills, Met(x) \ {v})
        <5> HIDE DEF Met, v, x
        <5>1. Met(x) \in SUBSET Nat /\ IsFiniteSet(Met(x)) /\ \A j \in Met(x) : fills[j].delta \in Int
          BY <2>1, <3>1
        <5>2. \A j \in Met(x) : Net(fills, Met(x)) = fills[j].delta + Net(fills, Met(x) \ {j})
          BY <5>1, NetAdds
        <5> QED  BY <4>1, <5>2
      <4>3. Net(fills, Met(i)) \in Int
        <5> HIDE DEF Met
        <5> QED  BY <2>1, <3>1, NetAdds
      <4>4. Net(fills, Met(x)) = d + Net(fills, Met(i))
        <5> HIDE DEF Met, v, x, d
        <5> QED  BY <3>4, <4>1, <4>2, Zenon
      <4> DEFINE g == Net(fills, Met(i))
                 h == Net(fills, Met(x))
                 m == Magnitude(d)
      <4>5. g \in Int /\ h = d + g /\ B(i) - C(i) = g
        BY <3>2, <4>3, <4>4, Zenon
      <4> HIDE DEF Met, v, x, d, B, C, key, g, h, m
      <4>6. B(i) \in Int /\ C(i) \in Int
        BY <3>3, Zenon
      <4>7. m \in Int
        BY <3>4 DEF m
      <4>8. CASE Sign(d) = 1
        <5>1. B(x) = B(i) + m /\ C(x) = C(i) + 0 /\ d = m
          <6>1. Sign(d) # -1
            BY <4>8
          <6> QED  BY <3>3, <3>4, <3>5, <4>8, <6>1, Zenon DEF m
        <5>2. B(x) - C(x) = h
          <6>1. (B(i) + m) - (C(i) + 0) = m + (B(i) - C(i))
            BY <4>6, <4>7
          <6> QED  BY <4>5, <5>1, <6>1, Zenon
        <5> QED  BY <5>2 DEF h
      <4>9. CASE Sign(d) = -1
        <5>1. B(x) = B(i) + 0 /\ C(x) = C(i) + m /\ d = 0 - m /\ m \in Int
          <6>1. Sign(d) # 1
            BY <4>9
          <6> QED  BY <3>3, <3>4, <3>5, <4>9, <6>1, Zenon DEF m
        <5>2. B(x) - C(x) = h
          <6>1. (B(i) + 0) - (C(i) + m) = (0 - m) + (B(i) - C(i))
            BY <4>6, <4>7
          <6> QED  BY <4>5, <5>1, <6>1, Zenon
        <5> QED  BY <5>2 DEF h
      <4> QED  BY <3>4, <4>8, <4>9
    <3>6. CASE KeyAt(x) # key
      <4>1. Met(x) = Met(i)
        <5> HIDE DEF x, key
        <5> QED  BY <3>1, <3>6
      <4> HIDE DEF Met, v, x, d, B, C, key
      <4> QED  BY <3>2, <3>3, <3>6, <4>1
    <3> QED  BY <3>5, <3>6
  <2>4. n \in Good
    <3>1. Good \in SUBSET Nat /\ n \in Nat
      BY <1>2
    <3> HIDE DEF Good
    <3> QED  BY <2>2, <2>3, <3>1, Inductive
  <2>5. n <= N
    BY <1>2
  <2> QED  BY <2>4, <2>5
<1>9. ASSUME NEW k \in DOMAIN Merged
      PROVE  PositionAt(k) = Held(Stored, fills[Merged[k].id].contract, Merged[k].id - 1)
  <2> DEFINE v == Merged[k].id
             c == fills[v].contract
             met == {Merged[m].id : m \in {j \in 1..(k - 1) : KeyAt(j) = <<c, "cid">>}}
  <2>1. /\ k \in 1..N /\ k - 1 \in 0..N /\ c \in Contracts /\ KeyAt(k) = <<c, "cid">> /\ v \in Nat
        /\ \A m \in 1..N : m \in 1..(k - 1) <=> m < k
        /\ \A m \in 1..(k - 1) : m \in 1..N
    <3>1. k \in 1..N /\ v \in Stored
      BY <1>2
    <3>2. c \in Contracts /\ KeyAt(k) = <<c, "cid">> /\ v \in Nat
      BY <1>3, <1>4, <3>1
    <3> QED  BY <1>2, <3>1, <3>2
  <2>2. PositionAt(k) = Net(fills, met)
    <3> HIDE DEF c
    <3> QED  BY <1>8, <2>1 DEF PositionAt
  <2>3. met = {j \in Stored : j <= v - 1 /\ fills[j].contract = c}
    <3>1. \A m \in 1..N : m < k <=> Merged[m].id <= v - 1
      <4> TAKE m \in 1..N
      <4>1. m < k \/ m = k \/ k < m
        BY <1>2, <2>1
      <4>2. m < k => Merged[m].id < v
        BY <1>5, <2>1
      <4>3. k < m => v < Merged[m].id
        BY <1>5, <2>1
      <4>4. Merged[m].id \in Nat /\ v \in Nat /\ (m = k => Merged[m].id = v) /\ m \in Int /\ k \in Int
        BY <1>6, <2>1
      <4> HIDE DEF v
      <4> QED  BY <4>1, <4>2, <4>3, <4>4
    <3>2. \A m \in 1..N : KeyAt(m) = <<c, "cid">> <=> fills[Merged[m].id].contract = c
      <4> TAKE m \in 1..N
      <4>1. KeyAt(m) = <<fills[Merged[m].id].contract, "cid">>
        BY <1>4
      <4> HIDE DEF c
      <4> QED  BY <4>1
    <3>3. \A m \in 1..(k - 1) : m \in 1..N /\ m < k
      BY <2>1
    <3> HIDE DEF c, v, N
    <3> QED  BY <1>6, <1>7, <2>1, <3>1, <3>2, <3>3
  <2>4. Held(Stored, c, v - 1) = Net(fills, {j \in Stored : j <= v - 1 /\ fills[j].contract = c})
    BY HeldIsNet
  <2> QED  BY <2>2, <2>3, <2>4
<1>10. {Merged[j].id : j \in DOMAIN Merged} = Stored
  BY <1>2, <1>6, <1>7
<1> QED  BY <1>9, <1>10

\* So the history finds the exits among the stored fills, and both walks the trades
\* that these complete.
LEMMA HistoryAgrees ==
  ASSUME HistoryInv
  PROVE  HistoryAgreesWithCount
<1> DEFINE ev == Deduplicated(rows)
           N == Len(Merged)
<1> SUFFICES ASSUME Complete
             PROVE  /\ Len(Book.trades) = Cardinality(Exits(Stored))
                    /\ ExitsOf(Book.trades) = Exits(Stored)
                    /\ FlatExits(Book.trades) = {ev[k].id : k \in CompletedAt(ev)}
  BY DEF HistoryAgreesWithCount, ExitsOf, FlatExits, Complete
<1>1. Walkable /\ FillsTypeOK /\ Stored \in SUBSET Ids /\ Stored \subseteq Ids
  BY MergedIsWalkable DEF HistoryInv
<1>2. N \in Nat /\ DOMAIN Merged = 1..N
  BY <1>1 DEF Walkable
<1>3. Ends(N) = Trips(Stored)
  <2>1. ASSUME NEW j \in 1..N
        PROVE  /\ Merged[j].id \in Stored
               /\ Completes(PositionAt(j), DeltaAt(j)) <=> Merged[j].id \in Trips(Stored)
    <3> DEFINE i == Merged[j].id
               b == Held(Stored, fills[i].contract, i - 1)
    <3>1. i \in Stored /\ PositionAt(j) = b /\ DeltaAt(j) = fills[i].delta
      BY <1>2, PositionAtIsHeld DEF DeltaAt
    <3>2. i \in Trips(Stored) <=> Completes(b, fills[i].delta)
      <4> HIDE DEF i
      <4> QED  BY <1>1, <3>1, StoredFill
    <3> HIDE DEF b
    <3> QED  BY <3>1, <3>2
  <2>2. \A i \in Trips(Stored) : i \in Stored /\ \E j \in 1..N : Merged[j].id = i
    <3>1. \A i \in Stored : \E j \in 1..N : Merged[j].id = i
      BY <1>2, PositionAtIsHeld
    <3> QED  BY <3>1 DEF Trips
  <2> HIDE DEF N
  <2> QED  BY <2>1, <2>2 DEF Ends
<1>4. {ev[k].id : k \in CompletedAt(ev)} = Trips(Stored)
  <2>1. ASSUME NEW k \in DOMAIN ev
        PROVE  k \in CompletedAt(ev) <=> ev[k].id \in Trips(Stored)
    <3> DEFINE i == ev[k].id
               b == Held(Stored, fills[i].contract, i - 1)
    <3>1. i \in Stored /\ Position(ev, k) = b
      BY <1>1, KthFill
    <3>2. k \in CompletedAt(ev) <=> Completes(Position(ev, k), fills[i].delta)
      BY DEF CompletedAt
    <3>3. i \in Trips(Stored) <=> Completes(b, fills[i].delta)
      <4> HIDE DEF i
      <4> QED  BY <1>1, <3>1, StoredFill
    <3> HIDE DEF ev, b
    <3> QED  BY <3>1, <3>2, <3>3
  <2>2. \A i \in Trips(Stored) : \E k \in DOMAIN ev : ev[k].id = i
    <3>1. {r.id : r \in rows} = Stored /\ Stored \in SUBSET (1..Len(fills)) /\ Len(fills) \in Nat
      BY <1>1, FillType DEF Stored, Ids
    <3>2. \A i \in Stored : \E k \in DOMAIN ev : ev[k].id = i
      <4> HIDE DEF ev
      <4>1. /\ DOMAIN ev = 1..Cardinality({r.id : r \in rows})
            /\ \A i \in {r.id : r \in rows} : \E k \in 1..Cardinality({r.id : r \in rows}) : ev[k].id = i
        BY <3>1, Sorted DEF ev
      <4> QED  BY <3>1, <4>1
    <3> QED  BY <3>2 DEF Trips
  <2>3. CompletedAt(ev) \in SUBSET DOMAIN ev
    BY DEF CompletedAt
  <2> HIDE DEF ev
  <2> QED  BY <2>1, <2>2, <2>3
<1>5. Left(N) = Exits(Stored)
  <2>1. ASSUME NEW j \in 1..N
        PROVE  Merged[j].id \in Stored /\ (Leaves(j) <=> Merged[j].id \in Exits(Stored))
    <3> DEFINE i == Merged[j].id
               b == Held(Stored, fills[i].contract, i - 1)
    <3>1. i \in Stored /\ PositionAt(j) = b /\ DeltaAt(j) = fills[i].delta
      BY <1>2, PositionAtIsHeld DEF DeltaAt
    <3>2. i \in Exits(Stored) <=> Sign(fills[i].delta) = -Sign(b)
      BY <3>1 DEF Exits
    <3> HIDE DEF b
    <3> QED  BY <3>1, <3>2 DEF Leaves
  <2>2. \A i \in Exits(Stored) : i \in Stored /\ \E j \in 1..N : Merged[j].id = i
    <3>1. \A i \in Stored : \E j \in 1..N : Merged[j].id = i
      BY <1>2, PositionAtIsHeld
    <3> QED  BY <3>1 DEF Exits
  <2> HIDE DEF N
  <2> QED  BY <2>1, <2>2 DEF Left
<1>6. \A k, m \in DOMAIN Merged : k < m => Merged[k].id # Merged[m].id
  <2>1. /\ \A k \in DOMAIN Merged : Merged[k].id \in Nat
        /\ \A k, m \in DOMAIN Merged : k < m => Merged[k].id < Merged[m].id
    BY MergedIds DEF Complete
  <2> QED  BY <2>1
<1> QED  BY <1>1, <1>3, <1>4, <1>5, <1>6, FlatExitsAreEnds, ExitsAreLeft

-----------------------------------------------------------------------------
(* Every state of the history *)

LEMMA HistoryInvariance == HistorySpec => []HistoryInv
<1>1. HistoryInit => HistoryInv
  BY BoundsAssumption DEF HistoryInit, FillsInit, HistoryInv, FillsTypeOK, Stored
<1>2. HistoryInv /\ [HistoryNext]_historyVars => HistoryInv'
  <2> SUFFICES ASSUME HistoryInv, [HistoryNext]_historyVars  PROVE HistoryInv'
    OBVIOUS
  <2> USE DEF HistoryInv
  <2>0. Len(fills) \in Nat /\ fills \in Seq(Fill) /\ Len(fills) <= MaxFills /\ rows \subseteq Row
    BY FillType DEF FillsTypeOK
  <2>1. ASSUME NEW c \in Contracts, NEW d \in Deltas, Executed(c, d)
        PROVE  HistoryInv'
    <3>1. /\ fills' = Append(fills, [contract |-> c, delta |-> d]) /\ Len(fills) < MaxFills
          /\ rows' = rows /\ ordered' = ordered /\ reported' = reported
      BY <2>1 DEF Executed, Trade
    <3>2. fills' \in Seq(Fill) /\ Len(fills') = Len(fills) + 1
      BY <2>0, <3>1 DEF Fill
    <3>3. Ids \subseteq Ids'
      BY <2>0, <3>2 DEF Ids
    <3>4. Stored' = Stored
      BY <3>1 DEF Stored
    <3>5. MaxFills \in Nat
      BY BoundsAssumption
    <3> QED  BY <2>0, <3>1, <3>2, <3>3, <3>4, <3>5 DEF FillsTypeOK
  <2>2. ASSUME NEW i \in Ids, NEW kind \in {"fill", EventType[i]}, Store(i, kind)
        PROVE  HistoryInv'
    <3>1. /\ rows' = rows \cup {[id |-> i, kind |-> kind]} /\ fills' = fills
          /\ ordered' = ordered /\ reported' = reported
      BY <2>2 DEF Store
    <3>2. i \in 1..MaxFills
      BY <2>0, BoundsAssumption DEF Ids
    <3>3. [id |-> i, kind |-> kind] \in Row
      BY <3>2, EventAssumption DEF Row
    <3>4. Stored' \subseteq Stored \cup {i} /\ Ids' = Ids
      <4>1. [id |-> i, kind |-> kind].id = i
        OBVIOUS
      <4>2. Ids' = Ids
        BY <3>1 DEF Ids
      <4>3. \A r \in rows' : r.id \in Stored \cup {i}
        BY <3>1, <4>1 DEF Stored
      <4> QED  BY <4>2, <4>3 DEF Stored
    <3>5. FillsTypeOK'
      BY <2>0, <3>1, <3>3 DEF FillsTypeOK
    <3> QED  BY <3>1, <3>4, <3>5
  <2>3. ASSUME NEW i \in Ids, StoreOrder(i)
        PROVE  HistoryInv'
    BY <2>3 DEF StoreOrder, FillsTypeOK, Stored, Ids
  <2>4. ASSUME Report
        PROVE  HistoryInv'
    BY <2>4 DEF Report, FillsTypeOK, Stored, Ids
  <2>5. ASSUME UNCHANGED historyVars
        PROVE  HistoryInv'
    BY <2>5 DEF historyVars, FillsTypeOK, Stored, Ids
  <2> QED  BY <2>1, <2>2, <2>3, <2>4, <2>5 DEF HistoryNext
<1> QED  BY <1>1, <1>2, PTL DEF HistorySpec

-----------------------------------------------------------------------------
(* Theorems *)

LEMMA Invariance == Spec => []IInv
<1>1. Init => IInv
  <2> SUFFICES ASSUME Init  PROVE IInv
    OBVIOUS
  <2>1. TypeOK
    BY BoundsAssumption DEF Init, TypeOK, FillsInit, FillsTypeOK, IdleHook, IdleSync
  <2>2. Stored = {}
    BY DEF Init, FillsInit, Stored
  <2>3. Known
    BY <2>2 DEF Init, Known, IdleHook, IdleSync, FillsInit
  <2>4. Once
    BY DEF Init, Once, Holding, IdleHook
  <2>5. TripsIn(fills, Stored) = {} /\ Cardinality({}) = 0
    BY <2>2, FS_EmptySet DEF TripsIn
  <2>6. Exact
    BY <2>2, <2>5 DEF Init, Exact, Alone, NoGap, HookExact, SyncExact, Settled, IdleHook, IdleSync
  <2> QED  BY <2>1, <2>3, <2>4, <2>6 DEF IInv
<1>2. IInv /\ [Next]_vars => IInv'
  <2> SUFFICES ASSUME IInv, [Next]_vars  PROVE IInv'
    OBVIOUS
  <2>1. TypeOK' /\ Known' /\ Once'
    BY TypeStep, KnownStep, OnceStep DEF IInv
  <2>2. ASSUME orderly'
        PROVE  Exact'
    <3>1. orderly
      BY <2>2 DEF IInv, TypeOK, Next, vars, Execute, HookCheck, HookCreate, HookJudge, HookApply,
                  HookDies, SyncFetch, SyncStore, SyncCount, SyncWrite, SyncDies
    <3>2. Alone'
      BY <2>2, <3>1, AloneStep DEF IInv, Exact
    <3> QED  BY <2>2, <3>1, <3>2, ExactStep DEF IInv
  <2> QED  BY <2>1, <2>2 DEF IInv
<1> QED  BY <1>1, <1>2, PTL DEF Spec

\* Every reachable state of the trade count is well typed.
THEOREM TypeCorrect == Spec => []TypeOK
<1>1. IInv => TypeOK
  BY DEF IInv
<1> QED  BY <1>1, Invariance, PTL

\* The webhook applies no fill to the session state twice, however often it is
\* delivered and however many deliveries overlap: the unique index refuses the
\* second row, and a request that dies leaves the row behind.
THEOREM AppliedOnceCorrect == Spec => AppliedOnce
<1>1. IInv => [\A h \in Hooks : HookApply(h) => hook[h].fill \notin applied]_vars
  BY DEF IInv, Once, Holding, HookApply
<1> QED  BY <1>1, Invariance, PTL DEF Spec, AppliedOnce

\* countCanonicalEntries is right about the fills stored, whichever are missing and
\* whoever stored them: as many completed trades as the stored fills make, and as many
\* entries as trades completed and contracts still open.
THEOREM CanonicalCorrect == Spec => []CanonicalCountIsRight
<1>1. IInv => CanonicalCountIsRight
  BY CountIsTrips, EntriesAreTripsOrOpen DEF IInv, TypeOK, Known, CanonicalCountIsRight
<1> QED  BY <1>1, Invariance, PTL

\* The webhook's increments alone keep tradesCount exact, as long as nothing overlaps,
\* is missing or interrupted and each completed trade says what it made.
THEOREM OrderlyCorrect == Spec => []OrderlyCountIsExact
<1>1. IInv => OrderlyCountIsExact
  BY TripsAreIn DEF IInv, Exact, Settled, Quiet, Holding, OrderlyCountIsExact
<1> QED  BY <1>1, Invariance, PTL

\* The reconstructed trades account for all the money of the fills known, whatever they
\* cost and however exits are split, as long as each fill is known once: their P&L and
\* what the open lots cost is the cash that changed hands, and every fee is in one trade
\* or rides with an open lot.
THEOREM MoneyCorrect == HistorySpec => []MoneyIsAccountedFor
<1>1. HistoryInv => MoneyIsAccountedFor
  BY MoneyIsRight
<1> QED  BY <1>1, HistoryInvariance, PTL

\* First in, first out: under each key what is open at the end are the last units
\* bought of a long position, the last sold of a short one.
THEOREM NewestCorrect == HistorySpec => []OpenLotsAreTheNewest
<1>1. HistoryInv => OpenLotsAreTheNewest
  BY MergedIsWalkable, LotsAreNewest
<1> QED  BY <1>1, HistoryInvariance, PTL

\* reconstructRoundTrips yields one trade for each fill that takes from a position, and
\* those that left nothing open are the trades that deriveCanonicalCompletedCount counts,
\* as long as each fill is known once, by its row.
THEOREM HistoryCorrect == HistorySpec => []HistoryAgreesWithCount
<1>1. HistoryInv => HistoryAgreesWithCount
  BY HistoryAgrees
<1> QED  BY <1>1, HistoryInvariance, PTL

\* The canonical count is right whatever of the fills was stored, in whatever order,
\* not only by the webhooks and syncs of TradeCount.
THEOREM HistoryCountCorrect == HistorySpec => []CanonicalCountIsRight
<1>1. HistoryInv => CanonicalCountIsRight
  BY CountIsTrips, EntriesAreTripsOrOpen DEF HistoryInv, CanonicalCountIsRight
<1> QED  BY <1>1, HistoryInvariance, PTL

=============================================================================
