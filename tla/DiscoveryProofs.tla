-------------------------- MODULE DiscoveryProofs --------------------------
(***************************************************************************)
(* What the climb to the root of a store finds, for the proofs about the   *)
(* two ways of discovery (PollerProofs, CatalogProofs).                    *)
(***************************************************************************)
EXTENDS Discovery, ProofBasics

LEMMA ShortestIsThere ==
  ASSUME NEW paths \in SUBSET Seq(STRING), paths # {}
  PROVE  \E p \in paths : \A q \in paths : Len(p) <= Len(q)
<1> DEFINE lens == {Len(p) : p \in paths}
<1>1. lens \in SUBSET Nat /\ lens # {}
  <2>1. \A p \in paths : p \in Seq(STRING) /\ Len(p) \in Nat
    OBVIOUS
  <2> QED
    BY <2>1
<1>2. PICK k \in lens : \A l \in lens : k <= l
  BY <1>1, LeastNatural
<1> QED
  BY <1>2

\* The climb ends nowhere or at a prefix with metadata.
LEMMA RootIsWritten ==
  ASSUME NEW written \in SUBSET Seq(STRING), NEW n,
         \E p \in written : p # <<>> /\ IsPrefix(p, n)
  PROVE  /\ FindStoreRoot(written, n) \in written
         /\ FindStoreRoot(written, n) # NoScope
         /\ IsPrefix(FindStoreRoot(written, n), n)
<1> DEFINE found == {p \in written : p # <<>> /\ IsPrefix(p, n)}
<1>1. \E p \in found : \A q \in found : Len(p) <= Len(q)
  <2>1. found \in SUBSET Seq(STRING) /\ found # {}
    OBVIOUS
  <2> HIDE DEF found
  <2> QED
    BY <2>1, ShortestIsThere
<1>2. FindStoreRoot(written, n) \in found
  BY <1>1 DEF FindStoreRoot
<1> QED
  BY <1>2 DEF NoScope

\* The climb from a node with metadata does not end nowhere.
LEMMA RootFound ==
  ASSUME NEW written \in SUBSET Seq(STRING), NEW n \in written, n # NoScope
  PROVE  /\ FindStoreRoot(written, n) \in written
         /\ FindStoreRoot(written, n) # NoScope
         /\ IsPrefix(FindStoreRoot(written, n), n)
<1>1. n \in Seq(STRING) /\ Len(n) \in Nat
  OBVIOUS
<1>2. n # <<>> /\ IsPrefix(n, n)
  BY <1>1 DEF NoScope, IsPrefix
<1> QED
  BY <1>2, RootIsWritten

\* A scope that is its own root is the root of everything below it, and was its own root
\* before others were written.
LEMMA OwnRoot ==
  ASSUME NEW written \in SUBSET Seq(STRING), NEW s \in written, s # NoScope,
         FindStoreRoot(written, s) = s
  PROVE  /\ \A n \in Seq(STRING) : IsPrefix(s, n) => FindStoreRoot(written, n) = s
         /\ \A less \in SUBSET written : s \in less => FindStoreRoot(less, s) = s
<1> DEFINE Above(w, n) == {p \in w : p # <<>> /\ IsPrefix(p, n)}
           Outermost(w, n) == CHOOSE p \in Above(w, n) : \A q \in Above(w, n) : Len(p) <= Len(q)
<1>1. /\ s \in Seq(STRING) /\ Len(s) \in Nat /\ s # <<>> /\ IsPrefix(s, s)
      /\ \A p \in written : p \in Seq(STRING) /\ Len(p) \in Nat
  <2>1. s \in Seq(STRING) /\ s # <<>>
    BY DEF NoScope
  <2> QED
    BY <2>1, PrefixOfItself
<1>2. \A w, n : Above(w, n) # {} => FindStoreRoot(w, n) = Outermost(w, n)
  BY DEF FindStoreRoot
<1>3. \A p \in Above(written, s) : Len(s) <= Len(p)
  <2>1. s \in Above(written, s)
    BY <1>1
  <2>2. \E p \in Above(written, s) : \A q \in Above(written, s) : Len(p) <= Len(q)
    <3>1. Above(written, s) \in SUBSET Seq(STRING)
      OBVIOUS
    <3> HIDE DEF Above
    <3> QED
      BY <2>1, <3>1, ShortestIsThere
  <2>3. s = Outermost(written, s)
    BY <1>2, <2>1
  <2> HIDE DEF Above
  <2> QED
    BY <2>2, <2>3
<1>4. ASSUME NEW n \in Seq(STRING), IsPrefix(s, n)
      PROVE  FindStoreRoot(written, n) = s
  <2>1. s \in Above(written, n)
    BY <1>1, <1>4
  <2>2. \A p \in Above(written, n) : Len(s) <= Len(p) /\ (Len(p) <= Len(s) => p = s)
    <3> SUFFICES ASSUME NEW p \in Above(written, n)
                 PROVE  Len(s) <= Len(p) /\ (Len(p) <= Len(s) => p = s)
      OBVIOUS
    <3>1. /\ p \in Seq(STRING) /\ IsPrefix(p, n) /\ p # <<>> /\ p \in written
          /\ Len(p) \in Nat
      BY <1>1
    <3>2. /\ Len(p) <= Len(s) => IsPrefix(p, s)
          /\ Len(p) = Len(s) => p = s
      BY <1>1, <1>4, <3>1, PrefixesCompare
    <3>3. Len(p) <= Len(s) => Len(s) <= Len(p)
      BY <1>3, <3>1, <3>2
    <3> QED
      BY <1>1, <3>1, <3>2, <3>3
  <2>3. Outermost(written, n) = s
    <3> HIDE DEF Above
    <3> QED
      BY <2>1, <2>2
  <2> QED
    BY <1>2, <2>1, <2>3
<1>5. ASSUME NEW less \in SUBSET written, s \in less
      PROVE  FindStoreRoot(less, s) = s
  <2>1. s \in Above(less, s) /\ Above(less, s) \subseteq Above(written, s)
    BY <1>1, <1>5
  <2>2. \A p \in Above(less, s) : Len(s) <= Len(p) /\ (Len(p) <= Len(s) => p = s)
    <3> SUFFICES ASSUME NEW p \in Above(less, s)
                 PROVE  Len(s) <= Len(p) /\ (Len(p) <= Len(s) => p = s)
      OBVIOUS
    <3>1. p \in Seq(STRING) /\ IsPrefix(p, s) /\ Len(p) \in Nat /\ p \in Above(written, s)
      BY <1>1, <2>1
    <3>2. Len(p) = Len(s) => p = s
      BY <1>1, <3>1, PrefixesCompare
    <3> QED
      BY <1>1, <1>3, <3>1, <3>2
  <2>3. Outermost(less, s) = s
    <3> HIDE DEF Above
    <3> QED
      BY <2>1, <2>2
  <2> QED
    BY <1>2, <2>1, <2>3
<1> QED
  BY <1>4, <1>5
=============================================================================
