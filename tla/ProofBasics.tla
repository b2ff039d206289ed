---------------------------- MODULE ProofBasics ----------------------------
(***************************************************************************)
(* What the proofs of every module need: recursive functions over 0..n     *)
(* exist, facts about their values follow by induction, and prefixes of    *)
(* sequences compare as one expects.                                       *)
(***************************************************************************)
EXTENDS Integers, Sequences, SequencesExt, FiniteSetsExt, NaturalsInduction,
        WellFoundedInduction, SequenceTheorems, FiniteSetTheorems, TLAPS

----------------------------------------------------------------------------
(* Induction.  Stated with sets and functions in place of predicates and    *)
(* operators, the lemmas can be cited for any definition of the form        *)
(*     f[k \in 0..n] == IF k = 0 THEN base ELSE ... f[k - 1] ...            *)

\* A non-empty set of naturals has a least element.
LEMMA LeastNatural ==
  ASSUME NEW ns \in SUBSET Nat, ns # {}
  PROVE  \E x \in ns : \A y \in ns : x <= y
<1>1. \E x \in ns : \A y \in ns : ~ (<<y, x>> \in OpToRel(<, Nat))
  BY NatLessThanWellFounded, WFMin
<1>2. \A x, y \in Nat : ~ (<<y, x>> \in OpToRel(<, Nat)) => x <= y
  BY DEF OpToRel
<1> QED
  BY <1>1, <1>2

\* Induction up to n, for a set instead of a predicate.
LEMMA Reached ==
  ASSUME NEW n \in Nat, NEW T, 0 \in T, \A k \in 1..n : k - 1 \in T => k \in T
  PROVE  \A k \in 0..n : k \in T
<1> DEFINE missing == {k \in 0..n : k \notin T}
<1> SUFFICES ASSUME missing # {} PROVE FALSE
  OBVIOUS
<1>1. PICK k \in missing : \A l \in missing : k <= l
  <2>1. missing \in SUBSET Nat
    OBVIOUS
  <2> QED
    BY <2>1, LeastNatural
<1>2. k \in 1..n /\ k - 1 \in 0..n /\ ~ (k <= k - 1)
  BY <1>1
<1>3. k - 1 \in T
  BY <1>1, <1>2
<1> QED
  BY <1>1, <1>2, <1>3

\* The same for the values of a function, which all lie in S.
LEMMA ValuesIn ==
  ASSUME NEW n \in Nat, NEW S, NEW f, f[0] \in S,
         \A k \in 1..n : f[k - 1] \in S => f[k] \in S
  PROVE  \A k \in 0..n : f[k] \in S
<1> DEFINE T == {k \in 0..n : f[k] \in S}
<1>1. 0 \in T /\ \A k \in 1..n : k - 1 \in T => k \in T
  OBVIOUS
<1> HIDE DEF T
<1>2. \A k \in 0..n : k \in T
  BY <1>1, Reached
<1> QED
  BY <1>2 DEF T

\* f is the n-fold iteration of a step, given by its functions step[1], ..., step[n].
Iterates(f, n, base, step) == f[0] = base /\ \A k \in 1..n : f[k] = step[k][f[k - 1]]

\* A step applied n times from a base within a set it does not leave.
LEMMA IterationExists ==
  ASSUME NEW n \in Nat, NEW S, NEW base \in S, NEW step \in [1..n -> [S -> S]]
  PROVE  \E f \in [0..n -> S] : Iterates(f, n, base, step)
<1> DEFINE Upto(f, m) == /\ f \in [0..m -> S]
                         /\ f[0] = base
                         /\ \A k \in 1..m : f[k] = step[k][f[k - 1]]
           T == {m \in 0..n : \E f : Upto(f, m)}
<1>1. 0 \in T
  <2> DEFINE f == [k \in 0..0 |-> base]
  <2>1. f \in [0..0 -> S] /\ f[0] = base /\ 1..0 = {}
    OBVIOUS
  <2> HIDE DEF f
  <2>2. Upto(f, 0)
    BY <2>1
  <2> QED
    BY <2>2
<1>2. ASSUME NEW m \in 1..n, m - 1 \in T
      PROVE  m \in T
  <2>1. PICK f : Upto(f, m - 1)
    BY <1>2
  <2>2. f[m - 1] \in S
    BY <2>1
  <2> DEFINE g == [k \in 0..m |-> IF k = m THEN step[m][f[m - 1]] ELSE f[k]]
  <2>3. g \in [0..m -> S]
    <3>1. step[m][f[m - 1]] \in S
      BY <2>2
    <3>2. \A k \in 0..m : k # m => k \in 0..(m - 1)
      OBVIOUS
    <3> QED
      BY <2>1, <3>1, <3>2
  <2>4. g[0] = base
    BY <2>1
  <2>5. ASSUME NEW k \in 1..m
        PROVE  g[k] = step[k][g[k - 1]]
    <3>1. /\ g[k - 1] = f[k - 1]
          /\ g[k] = IF k = m THEN step[m][f[m - 1]] ELSE f[k]
      OBVIOUS
    <3> HIDE DEF g
    <3>2. CASE k = m
      BY <3>1, <3>2
    <3>3. CASE k # m
      <4>1. k \in 1..(m - 1)
        BY <3>3
      <4> QED
        BY <2>1, <3>1, <3>3, <4>1
    <3> QED
      BY <3>2, <3>3
  <2>6. Upto(g, m)
    BY <2>3, <2>4, <2>5
  <2> HIDE DEF g, Upto
  <2> QED
    BY <2>6
<1>3. n \in T
  <2> HIDE DEF T
  <2>1. \A k \in 1..n : k - 1 \in T => k \in T
    BY <1>2
  <2>2. \A k \in 0..n : k \in T
    BY <1>1, <2>1, Reached
  <2> QED
    BY <2>2
<1>4. PICK f : Upto(f, n)
  BY <1>3
<1> QED
  BY <1>4 DEF Iterates

----------------------------------------------------------------------------
(* Prefixes of a path *)

LEMMA PrefixPointwise ==
  ASSUME NEW S, NEW s \in Seq(S), NEW t \in Seq(S)
  PROVE  IsPrefix(s, t) <=> Len(s) <= Len(t) /\ \A i \in 1..Len(s) : s[i] = t[i]
<1>1. SubSeq(s, 1, Len(s)) = s
  BY SubSeqFull
<1>2. ASSUME Len(s) <= Len(t)
      PROVE  /\ SubSeq(t, 1, Len(s)) \in Seq(S)
             /\ Len(SubSeq(t, 1, Len(s))) = Len(s)
             /\ \A i \in 1..Len(s) : SubSeq(t, 1, Len(s))[i] = t[i]
  <2>1. 1 \in Int /\ Len(s) \in Nat /\ Len(t) \in Nat /\ \A i \in 1..Len(s) : t[i] \in S
    BY <1>2
  <2> DEFINE u == SubSeq(t, 1, Len(s))
  <2>2. /\ u \in Seq(S)
        /\ Len(u) = IF 1 <= Len(s) THEN Len(s) - 1 + 1 ELSE 0
        /\ \A i \in 1..(Len(s) - 1 + 1) : u[i] = t[1 + i - 1]
    BY <2>1, SubSeqProperties
  <2> HIDE DEF u
  <2>3. Len(u) = Len(s) /\ \A i \in 1..Len(s) : u[i] = t[i]
    BY <2>1, <2>2
  <2> QED
    BY <2>2, <2>3 DEF u
<1>3. ASSUME NEW u \in Seq(S)
      PROVE  s = u <=> Len(s) = Len(u) /\ \A i \in 1..Len(s) : s[i] = u[i]
  BY SeqEqual
<1> QED
  BY <1>1, <1>2, <1>3 DEF IsPrefix

LEMMA PrefixOfItself ==
  ASSUME NEW S, NEW s \in Seq(S)
  PROVE  IsPrefix(s, s) /\ IsPrefix(<<>>, s)
<1>1. <<>> \in Seq(S) /\ Len(<<>>) = 0 /\ Len(s) \in Nat
  OBVIOUS
<1>2. IsPrefix(s, s)
  <2>1. Len(s) <= Len(s) /\ \A i \in 1..Len(s) : s[i] = s[i]
    BY <1>1
  <2> QED
    BY <2>1, PrefixPointwise
<1>3. IsPrefix(<<>>, s)
  <2>1. Len(<<>>) <= Len(s) /\ \A i \in 1..Len(<<>>) : <<>>[i] = s[i]
    BY <1>1
  <2> QED
    BY <1>1, <2>1, PrefixPointwise
<1> QED
  BY <1>2, <1>3

\* Of two prefixes of a path the shorter one is a prefix of the other.
LEMMA PrefixesCompare ==
  ASSUME NEW S, NEW s \in Seq(S), NEW t \in Seq(S), NEW u \in Seq(S),
         IsPrefix(s, u), IsPrefix(t, u)
  PROVE  /\ Len(s) <= Len(t) => IsPrefix(s, t)
         /\ Len(s) = Len(t) => s = t
<1>1. /\ Len(s) <= Len(u) /\ \A i \in 1..Len(s) : s[i] = u[i]
      /\ Len(t) <= Len(u) /\ \A i \in 1..Len(t) : t[i] = u[i]
  BY PrefixPointwise
<1>2. Len(s) <= Len(t) => \A i \in 1..Len(s) : s[i] = t[i]
  BY <1>1
<1>3. Len(s) <= Len(t) => IsPrefix(s, t)
  BY <1>2, PrefixPointwise
<1>4. Len(s) = Len(t) => s = t
  BY <1>2, SeqEqual
<1> QED
  BY <1>3, <1>4

LEMMA PrefixTransitive ==
  ASSUME NEW X, NEW s \in Seq(X), NEW t \in Seq(X), NEW u \in Seq(X),
         IsPrefix(s, t), IsPrefix(t, u)
  PROVE  IsPrefix(s, u)
<1>1. /\ Len(s) <= Len(t) /\ \A i \in 1..Len(s) : s[i] = t[i]
      /\ Len(t) <= Len(u) /\ \A i \in 1..Len(t) : t[i] = u[i]
  BY PrefixPointwise
<1>2. \A i \in 1..Len(s) : i \in 1..Len(t)
  BY <1>1
<1>3. Len(s) <= Len(u) /\ \A i \in 1..Len(s) : s[i] = u[i]
  BY <1>1, <1>2
<1> QED
  BY <1>3, PrefixPointwise

LEMMA PrefixOfAppend ==
  ASSUME NEW X, NEW s \in Seq(X), NEW x \in X
  PROVE  Append(s, x) \in Seq(X) /\ IsPrefix(s, Append(s, x))
<1>1. /\ Append(s, x) \in Seq(X) /\ Len(s) <= Len(Append(s, x))
      /\ \A i \in 1..Len(s) : s[i] = Append(s, x)[i]
  OBVIOUS
<1> QED
  BY <1>1, PrefixPointwise

\* One level down from a path, towards a path below it.
LEMMA OneLevelDown ==
  ASSUME NEW X, NEW path \in Seq(X), NEW q \in Seq(X), IsStrictPrefix(path, q)
  PROVE  LET child == SubSeq(q, 1, Len(path) + 1)
         IN  /\ child \in Seq(X) /\ Len(child) = Len(path) + 1
             /\ IsPrefix(path, child) /\ IsPrefix(child, q)
<1> DEFINE child == SubSeq(q, 1, Len(path) + 1)
<1>1. /\ Len(path) <= Len(q) /\ \A i \in 1..Len(path) : path[i] = q[i]
      /\ path # q /\ Len(path) \in Nat /\ Len(q) \in Nat
  BY PrefixPointwise DEF IsStrictPrefix
<1>2. Len(path) < Len(q)
  BY <1>1, SeqEqual
<1>3. /\ child \in Seq(X) /\ Len(child) = Len(path) + 1
      /\ \A i \in 1..(Len(path) + 1) : child[i] = q[i]
  <2>1. \A i \in 1..(Len(path) + 1) : q[i] \in X
    BY <1>1, <1>2
  <2>2. /\ child \in Seq(X)
        /\ Len(child) = IF 1 <= Len(path) + 1 THEN Len(path) + 1 - 1 + 1 ELSE 0
        /\ \A i \in 1..(Len(path) + 1 - 1 + 1) : child[i] = q[1 + i - 1]
    BY <1>1, <2>1, SubSeqProperties
  <2> HIDE DEF child
  <2> QED
    BY <1>1, <2>2
<1> HIDE DEF child
<1>4. Len(path) <= Len(child) /\ \A i \in 1..Len(path) : path[i] = child[i]
  BY <1>1, <1>3
<1>5. Len(child) <= Len(q) /\ \A i \in 1..Len(child) : child[i] = q[i]
  BY <1>1, <1>2, <1>3
<1>6. IsPrefix(path, child) /\ IsPrefix(child, q)
  BY <1>3, <1>4, <1>5, PrefixPointwise
<1> QED
  BY <1>3, <1>6 DEF child

----------------------------------------------------------------------------
(* Sums over a finite set, for weights given by a function.  MapThenSumSet  *)
(* unfolds to Summed once its operator is written as a function.           *)

One(s) == CHOOSE x \in s : TRUE

\* The step of the recursion.
SumStep(w, f, s) == IF s = {} THEN 0 ELSE w[One(s)] + f[s \ {One(s)}]

Summing(w, S, f) == f = [s \in SUBSET S |-> SumStep(w, f, s)]

Summed(w, S) == (CHOOSE f : Summing(w, S, f))[S]

\* Induction on the number of elements, for the subsets of a finite set.
LEMMA SubsetsReached ==
  ASSUME NEW S, IsFiniteSet(S), NEW P \in SUBSET SUBSET S,
         {} \in P, \A s \in SUBSET S, x \in S : s \in P /\ x \notin s => s \cup {x} \in P
  PROVE  S \in P
<1> DEFINE T == {k \in Nat : \A s \in SUBSET S : Cardinality(s) = k => s \in P}
<1>1. 0 \in T
  <2>1. \A s \in SUBSET S : Cardinality(s) = 0 => s = {}
    BY FS_EmptySet, FS_Subset
  <2> QED
    BY <2>1
<1>2. ASSUME NEW k \in Nat, k > 0, k - 1 \in T
      PROVE  k \in T
  <2> SUFFICES ASSUME NEW s \in SUBSET S, Cardinality(s) = k
               PROVE  s \in P
    BY <1>2
  <2>1. IsFiniteSet(s)
    BY FS_Subset
  <2>2. PICK x : x \in s
    BY <1>2, <2>1, FS_EmptySet
  <2>3. Cardinality(s \ {x}) = k - 1
    BY <2>1, <2>2, FS_RemoveElement
  <2>4. s \ {x} \in P
    BY <1>2, <2>3
  <2>5. (s \ {x}) \cup {x} = s /\ x \in S /\ x \notin s \ {x}
    BY <2>2
  <2> QED
    BY <2>4, <2>5, Zenon
<1>3. Cardinality(S) \in Nat
  BY FS_CardinalityType
<1>4. Cardinality(S) \in T
  <2> DEFINE n == Cardinality(S)
  <2>1. n \in Nat
    BY <1>3
  <2> HIDE DEF T, n
  <2>2. \A k \in 1..n : k - 1 \in T => k \in T
    BY <1>2, <2>1
  <2>3. \A k \in 0..n : k \in T
    BY <1>1, <2>1, <2>2, Reached
  <2> QED
    BY <2>1, <2>3 DEF n
<1> QED
  BY <1>4

\* The recursive function exists...
LEMMA SummingExists ==
  ASSUME NEW S, IsFiniteSet(S), NEW w, \A x \in S : w[x] \in Nat
  PROVE  \E f \in [SUBSET S -> Nat] : Summing(w, S, f)
<1> DEFINE D(n) == {s \in SUBSET S : Cardinality(s) <= n}
           Upto(f, n) == f \in [D(n) -> Nat] /\ \A s \in D(n) : f[s] = SumStep(w, f, s)
           T == {n \in Nat : \E f : Upto(f, n)}
<1>1. \A s \in SUBSET S : IsFiniteSet(s) /\ Cardinality(s) \in Nat
  BY FS_Subset, FS_CardinalityType
<1>2. \A s \in SUBSET S : s # {} => /\ One(s) \in s
                                    /\ Cardinality(s \ {One(s)}) = Cardinality(s) - 1
  BY <1>1, FS_RemoveElement DEF One
<1>3. 0 \in T
  <2> DEFINE f == [s \in D(0) |-> 0]
  <2>1. \A s \in D(0) : s = {}
    BY <1>1, FS_EmptySet
  <2>2. \A s \in D(0) : f[s] = SumStep(w, f, s)
    BY <2>1 DEF SumStep
  <2>3. f \in [D(0) -> Nat]
    OBVIOUS
  <2> HIDE DEF f
  <2>4. Upto(f, 0)
    BY <2>2, <2>3
  <2> QED
    BY <2>4
<1>4. ASSUME NEW n \in Nat, n > 0, n - 1 \in T
      PROVE  n \in T
  <2>1. PICK f : Upto(f, n - 1)
    BY <1>4
  <2> DEFINE g == [s \in D(n) |-> SumStep(w, f, s)]
  <2>2. ASSUME NEW s \in D(n), s # {}
        PROVE  s \ {One(s)} \in D(n - 1) /\ s \ {One(s)} \in D(n) /\ One(s) \in S
    BY <1>1, <1>2, <2>2, <1>4
  <2>3. g \in [D(n) -> Nat]
    <3>1. ASSUME NEW s \in D(n)
          PROVE  SumStep(w, f, s) \in Nat
      <4>1. CASE s = {}
        BY <4>1 DEF SumStep
      <4>2. CASE s # {}
        <5>1. f[s \ {One(s)}] \in Nat /\ w[One(s)] \in Nat
          BY <2>1, <2>2, <4>2
        <5> QED
          BY <4>2, <5>1 DEF SumStep
      <4> QED
        BY <4>1, <4>2
    <3> QED
      BY <3>1
  <2>4. \A s \in D(n - 1) : s \in D(n) /\ g[s] = f[s]
    <3>1. \A s \in D(n - 1) : s \in D(n)
      BY <1>1, <1>4
    <3> QED
      BY <2>1, <3>1
  <2>5. ASSUME NEW s \in D(n)
        PROVE  g[s] = SumStep(w, g, s)
    <3>1. CASE s = {}
      BY <3>1 DEF SumStep
    <3>2. CASE s # {}
      <4>1. g[s \ {One(s)}] = f[s \ {One(s)}]
        BY <2>2, <2>4, <3>2
      <4>2. g[s] = SumStep(w, f, s)
        OBVIOUS
      <4> HIDE DEF g
      <4> QED
        BY <3>2, <4>1, <4>2 DEF SumStep
    <3> QED
      BY <3>1, <3>2
  <2> HIDE DEF g
  <2>6. Upto(g, n)
    BY <2>3, <2>5
  <2> QED
    BY <2>6
<1>5. Cardinality(S) \in T
  <2> DEFINE n == Cardinality(S)
  <2>1. n \in Nat
    BY <1>1
  <2> HIDE DEF T, n
  <2>2. \A k \in 1..n : k - 1 \in T => k \in T
    BY <1>4, <2>1
  <2>3. \A k \in 0..n : k \in T
    BY <1>3, <2>1, <2>2, Reached
  <2> QED
    BY <2>1, <2>3 DEF n
<1>6. D(Cardinality(S)) = SUBSET S
  BY FS_Subset
<1>7. PICK f : Upto(f, Cardinality(S))
  BY <1>5
<1>8. f \in [SUBSET S -> Nat] /\ \A s \in SUBSET S : f[s] = SumStep(w, f, s)
  BY <1>6, <1>7
<1>9. Summing(w, S, f)
  BY <1>8, Zenon DEF Summing
<1> QED
  BY <1>8, <1>9

\* ...and is the same for a subset.
LEMMA SummedWithin ==
  ASSUME NEW S, IsFiniteSet(S), NEW w, \A x \in S : w[x] \in Nat,
         NEW f, Summing(w, S, f), NEW s \in SUBSET S
  PROVE  Summed(w, s) = f[s]
<1>1. IsFiniteSet(s) /\ \A x \in s : w[x] \in Nat
  BY FS_Subset
<1> DEFINE g == CHOOSE e : Summing(w, s, e)
<1>2. Summing(w, s, g)
  <2>1. \E e : Summing(w, s, e)
    BY <1>1, SummingExists
  <2> QED
    BY <2>1
<1>3. Summed(w, s) = g[s]
  BY DEF Summed
<1> HIDE DEF g
<1> DEFINE P == {r \in SUBSET s : g[r] = f[r]}
           T == {k \in Nat : \A r \in SUBSET s : Cardinality(r) = k => g[r] = f[r]}
<1>4. /\ \A r \in SUBSET s : g[r] = SumStep(w, g, r)
      /\ \A r \in SUBSET S : f[r] = SumStep(w, f, r)
  <2>1. g = [r \in SUBSET s |-> SumStep(w, g, r)] /\ f = [r \in SUBSET S |-> SumStep(w, f, r)]
    BY <1>2 DEF Summing
  <2> QED
    BY <2>1, Zenon
<1>5. \A r \in SUBSET s : IsFiniteSet(r) /\ Cardinality(r) \in Nat
  BY <1>1, FS_Subset, FS_CardinalityType
<1>6. 0 \in T
  <2>1. \A r \in SUBSET s : Cardinality(r) = 0 => r = {}
    BY <1>5, FS_EmptySet
  <2>2. g[{}] = 0 /\ f[{}] = 0
    BY <1>4 DEF SumStep
  <2> QED
    BY <2>1, <2>2
<1>7. ASSUME NEW k \in Nat, k > 0, k - 1 \in T
      PROVE  k \in T
  <2> SUFFICES ASSUME NEW r \in SUBSET s, Cardinality(r) = k
               PROVE  g[r] = f[r]
    OBVIOUS
  <2>1. r # {}
    BY <1>5, <1>7, FS_EmptySet
  <2>2. One(r) \in r
    BY <2>1 DEF One
  <2>3. Cardinality(r \ {One(r)}) = k - 1
    BY <1>5, <2>2, FS_RemoveElement
  <2>4. g[r \ {One(r)}] = f[r \ {One(r)}]
    BY <1>7, <2>3
  <2>5. r \in SUBSET S
    OBVIOUS
  <2> QED
    BY <1>4, <2>1, <2>4, <2>5 DEF SumStep
<1>8. Cardinality(s) \in T
  <2> DEFINE n == Cardinality(s)
  <2>1. n \in Nat
    BY <1>5
  <2> HIDE DEF T, n
  <2>2. \A k \in 1..n : k - 1 \in T => k \in T
    BY <1>7, <2>1
  <2>3. \A k \in 0..n : k \in T
    BY <1>6, <2>1, <2>2, Reached
  <2> QED
    BY <2>1, <2>3 DEF n
<1> QED
  BY <1>3, <1>8

\* A sum is a natural number and grows by the weight of what is added.
LEMMA SumAdds ==
  ASSUME NEW S, IsFiniteSet(S), NEW w, \A x \in S : w[x] \in Nat
  PROVE  /\ Summed(w, S) \in Nat
         /\ Summed(w, {}) = 0
         /\ \A s \in SUBSET S, x \in S : x \notin s => Summed(w, s \cup {x}) = Summed(w, s) + w[x]
<1>1. PICK f \in [SUBSET S -> Nat] : Summing(w, S, f)
  BY SummingExists
<1>2. \A s \in SUBSET S : Summed(w, s) = f[s] /\ f[s] = SumStep(w, f, s) /\ f[s] \in Nat
  <2>1. f = [s \in SUBSET S |-> SumStep(w, f, s)]
    BY <1>1 DEF Summing
  <2>2. \A s \in SUBSET S : f[s] = SumStep(w, f, s)
    BY <2>1, Zenon
  <2> QED
    BY <1>1, <2>2, SummedWithin
<1>3. Summed(w, S) \in Nat /\ Summed(w, {}) = 0
  BY <1>2 DEF SumStep
<1> DEFINE T == {k \in Nat : \A s \in SUBSET S, x \in S :
                    Cardinality(s) = k /\ x \notin s => f[s \cup {x}] = f[s] + w[x]}
<1>4. \A s \in SUBSET S : IsFiniteSet(s) /\ Cardinality(s) \in Nat
  BY FS_Subset, FS_CardinalityType
<1>5. ASSUME NEW s \in SUBSET S, NEW x \in S, x \notin s, One(s \cup {x}) = x
      PROVE  f[s \cup {x}] = f[s] + w[x]
  <2> DEFINE u == s \cup {x}
  <2>1. u \in SUBSET S /\ u # {} /\ u \ {x} = s /\ One(u) = x
    BY <1>5
  <2> HIDE DEF u
  <2>2. f[u] = w[x] + f[s]
    BY <1>2, <2>1 DEF SumStep
  <2> QED
    BY <1>2, <2>2 DEF u
<1>6. 0 \in T
  <2> SUFFICES ASSUME NEW s \in SUBSET S, NEW x \in S, Cardinality(s) = 0, x \notin s
               PROVE  f[s \cup {x}] = f[s] + w[x]
    OBVIOUS
  <2>1. s = {}
    BY <1>4, FS_EmptySet
  <2>2. One(s \cup {x}) = x
    BY <2>1 DEF One
  <2> QED
    BY <1>5, <2>2
<1>7. ASSUME NEW k \in Nat, k > 0, k - 1 \in T
      PROVE  k \in T
  <2> SUFFICES ASSUME NEW s \in SUBSET S, NEW x \in S, Cardinality(s) = k, x \notin s
               PROVE  f[s \cup {x}] = f[s] + w[x]
    OBVIOUS
  <2> DEFINE u == s \cup {x}
             y == One(u)
  <2>1. CASE y = x
    BY <1>5, <2>1
  <2>2. CASE y # x
    <3>1. y \in u
      BY DEF One
    <3>2. y \in s
      BY <2>2, <3>1
    <3> DEFINE r == s \ {y}
    <3>3. Cardinality(r) = k - 1 /\ r \in SUBSET S
      BY <1>4, <3>2, FS_RemoveElement
    <3>4. y \in S /\ y \notin r /\ x \notin r /\ r \cup {y} = s /\ r \cup {x} = u \ {y}
      BY <2>2, <3>2
    <3>5. u \in SUBSET S /\ u # {}
      OBVIOUS
    <3> HIDE DEF r, u
    <3>6. f[s] = f[r] + w[y] /\ f[r \cup {x}] = f[r] + w[x]
      BY <1>7, <3>3, <3>4
    <3>7. f[u] = w[y] + f[r \cup {x}]
      BY <1>2, <3>4, <3>5 DEF SumStep
    <3>8. f[r] \in Nat /\ w[x] \in Nat /\ w[y] \in Nat
      BY <1>2, <3>3, <3>4
    <3> QED
      BY <3>6, <3>7, <3>8 DEF u
  <2> QED
    BY <2>1, <2>2
<1>8. ASSUME NEW s \in SUBSET S, NEW x \in S, x \notin s
      PROVE  f[s \cup {x}] = f[s] + w[x]
  <2> DEFINE n == Cardinality(s)
  <2>1. n \in Nat
    BY <1>4
  <2> HIDE DEF T, n
  <2>2. \A k \in 1..n : k - 1 \in T => k \in T
    BY <1>7, <2>1
  <2>3. n \in T
    <3>1. \A k \in 0..n : k \in T
      BY <1>6, <2>1, <2>2, Reached
    <3> QED
      BY <2>1, <3>1
  <2> QED
    BY <1>8, <2>3 DEF n, T
<1>9. ASSUME NEW s \in SUBSET S, NEW x \in S, x \notin s
      PROVE  Summed(w, s \cup {x}) = Summed(w, s) + w[x]
  <2>1. s \cup {x} \in SUBSET S
    OBVIOUS
  <2> QED
    BY <1>2, <1>8, <1>9, <2>1
<1> QED
  BY <1>3, <1>9

\* The sum over two disjoint sets.
LEMMA SumOfUnion ==
  ASSUME NEW S, IsFiniteSet(S), NEW w, \A x \in S : w[x] \in Nat,
         NEW A \in SUBSET S, NEW B \in SUBSET S, A \cap B = {}
  PROVE  Summed(w, A \cup B) = Summed(w, A) + Summed(w, B)
<1> DEFINE P == {s \in SUBSET B : Summed(w, A \cup s) = Summed(w, A) + Summed(w, s)}
<1>1. \A s \in SUBSET S : Summed(w, s) \in Nat
  BY SumAdds, FS_Subset
<1>2. {} \in P
  <2>1. A \cup {} = A /\ Summed(w, {}) = 0
    BY SumAdds
  <2> QED
    BY <1>1, <2>1
<1>3. ASSUME NEW s \in SUBSET B, NEW x \in B, s \in P, x \notin s
      PROVE  s \cup {x} \in P
  <2> DEFINE u == A \cup s
  <2>1. u \in SUBSET S /\ s \in SUBSET S /\ x \in S /\ x \notin u /\ A \cup (s \cup {x}) = u \cup {x}
    BY <1>3
  <2>2. Summed(w, u) = Summed(w, A) + Summed(w, s)
    BY <1>3
  <2> HIDE DEF u
  <2>3. /\ Summed(w, u \cup {x}) = Summed(w, u) + w[x]
        /\ Summed(w, s \cup {x}) = Summed(w, s) + w[x]
    BY <1>3, <2>1, SumAdds
  <2>4. Summed(w, u) \in Nat /\ Summed(w, A) \in Nat /\ Summed(w, s) \in Nat /\ w[x] \in Nat
    BY <1>1, <2>1
  <2>5. Summed(w, u \cup {x}) = Summed(w, A) + Summed(w, s \cup {x})
    BY <2>2, <2>3, <2>4
  <2>6. s \cup {x} \in SUBSET B
    OBVIOUS
  <2> QED
    BY <2>1, <2>5, <2>6
<1>4. IsFiniteSet(B)
  BY FS_Subset
<1> HIDE DEF P
<1>5. P \in SUBSET SUBSET B
  BY DEF P
<1>6. B \in P
  BY <1>2, <1>3, <1>4, <1>5, SubsetsReached
<1> QED
  BY <1>6 DEF P

\* The sum over part of a set is no larger.
LEMMA SumOfPart ==
  ASSUME NEW S, IsFiniteSet(S), NEW w, \A x \in S : w[x] \in Nat,
         NEW A \in SUBSET S
  PROVE  Summed(w, A) <= Summed(w, S)
<1>1. S \ A \in SUBSET S /\ A \cap (S \ A) = {} /\ A \cup (S \ A) = S
  OBVIOUS
<1>2. Summed(w, A \cup (S \ A)) = Summed(w, A) + Summed(w, S \ A)
  BY <1>1, SumOfUnion
<1>3. \A s \in SUBSET S : Summed(w, s) \in Nat
  BY SumAdds, FS_Subset
<1>4. Summed(w, A) \in Nat /\ Summed(w, S \ A) \in Nat
  BY <1>1, <1>3
<1>5. Summed(w, S) = Summed(w, A) + Summed(w, S \ A)
  BY <1>1, <1>2, Zenon
<1> QED
  BY <1>4, <1>5

\* The sum over an image, when no two elements have the same one.
LEMMA SumOfImage ==
  ASSUME NEW S, IsFiniteSet(S), NEW w, NEW f, NEW T, IsFiniteSet(T), NEW v,
         \A x \in S : f[x] \in T /\ v[f[x]] = w[x],
         \A x, y \in S : f[x] = f[y] => x = y,
         \A y \in T : v[y] \in Nat
  PROVE  Summed(v, {f[x] : x \in S}) = Summed(w, S)
<1> DEFINE image(s) == {f[x] : x \in s}
           P == {s \in SUBSET S : Summed(v, image(s)) = Summed(w, s)}
<1>1. \A x \in S : w[x] \in Nat
  OBVIOUS
<1>2. {} \in P
  <2>1. image({}) = {} /\ Summed(v, {}) = 0 /\ Summed(w, {}) = 0
    BY <1>1, SumAdds
  <2> QED
    BY <2>1
<1>3. ASSUME NEW s \in SUBSET S, NEW x \in S, s \in P, x \notin s
      PROVE  s \cup {x} \in P
  <2>1. /\ image(s \cup {x}) = image(s) \cup {f[x]}
        /\ image(s) \in SUBSET T /\ f[x] \in T /\ f[x] \notin image(s)
    BY <1>3
  <2>2. Summed(v, image(s)) = Summed(w, s) /\ v[f[x]] = w[x]
    BY <1>3
  <2> HIDE DEF image
  <2>3. /\ Summed(v, image(s) \cup {f[x]}) = Summed(v, image(s)) + v[f[x]]
        /\ Summed(w, s \cup {x}) = Summed(w, s) + w[x]
    BY <1>1, <1>3, <2>1, SumAdds
  <2>4. s \cup {x} \in SUBSET S
    OBVIOUS
  <2> QED
    BY <2>1, <2>2, <2>3, <2>4
<1> HIDE DEF P
<1>4. P \in SUBSET SUBSET S
  BY DEF P
<1>5. S \in P
  BY <1>2, <1>3, <1>4, SubsetsReached
<1> QED
  BY <1>5 DEF P
=============================================================================
