---------------------------- MODULE ResolveProofs ----------------------------
(***************************************************************************)
(* What a lookup in a trie of manifests finds, for the proofs that follow  *)
(* keys through the life of manifests (RepartitionProofs, CatalogProofs).  *)
(***************************************************************************)
EXTENDS Resolve, PartitionProofs

----------------------------------------------------------------------------
(* The trie of one manifest *)

\* Prefixes below a scope compare as they do without it.
LEMMA ScopedPrefix ==
  ASSUME NEW S, NEW scope \in Seq(S), NEW s \in Seq(S), NEW t \in Seq(S)
  PROVE  /\ scope \o s \in Seq(S)
         /\ IsPrefix(scope \o s, scope \o t) => IsPrefix(s, t)
         /\ scope \o s = scope \o t => s = t
<1> DEFINE n == Len(scope)
           x == scope \o s
           y == scope \o t
<1>1. n \in Nat /\ Len(s) \in Nat /\ Len(t) \in Nat
  OBVIOUS
<1>2. /\ x \in Seq(S) /\ Len(x) = n + Len(s)
      /\ \A i \in 1..(n + Len(s)) : x[i] = IF i <= n THEN scope[i] ELSE s[i - n]
  BY ConcatProperties
<1>3. /\ y \in Seq(S) /\ Len(y) = n + Len(t)
      /\ \A i \in 1..(n + Len(t)) : y[i] = IF i <= n THEN scope[i] ELSE t[i - n]
  BY ConcatProperties
<1>4. /\ \A i \in 1..Len(s) : x[n + i] = s[i]
      /\ \A i \in 1..Len(t) : y[n + i] = t[i]
  <2>1. \A i \in 1..Len(s) : n + i \in 1..(n + Len(s)) /\ ~ (n + i <= n) /\ (n + i) - n = i
    BY <1>1
  <2>2. \A i \in 1..Len(t) : n + i \in 1..(n + Len(t)) /\ ~ (n + i <= n) /\ (n + i) - n = i
    BY <1>1
  <2> HIDE DEF x, y
  <2> QED
    BY <1>2, <1>3, <2>1, <2>2
<1> HIDE DEF n, x, y
<1>5. ASSUME IsPrefix(x, y)
      PROVE  Len(s) <= Len(t) /\ \A i \in 1..Len(s) : s[i] = t[i]
  <2>1. Len(x) <= Len(y) /\ \A i \in 1..Len(x) : x[i] = y[i]
    BY <1>2, <1>3, <1>5, PrefixPointwise
  <2>2. Len(s) <= Len(t)
    BY <1>1, <1>2, <1>3, <2>1
  <2>3. \A i \in 1..Len(s) : n + i \in 1..Len(x) /\ i \in 1..Len(t)
    BY <1>1, <1>2, <2>2
  <2> QED
    BY <1>4, <2>1, <2>2, <2>3
<1>6. IsPrefix(x, y) => IsPrefix(s, t)
  BY <1>5, PrefixPointwise
<1>7. x = y => s = t
  <2> SUFFICES ASSUME x = y PROVE s = t
    OBVIOUS
  <2>1. IsPrefix(x, y)
    BY <1>2, PrefixOfItself
  <2>2. Len(s) = Len(t) /\ \A i \in 1..Len(s) : s[i] = t[i]
    BY <1>1, <1>2, <1>3, <1>5, <2>1
  <2> QED
    BY <2>2, SeqEqual
<1> QED
  BY <1>2, <1>6, <1>7 DEF x, y

\* Of the markers above a key there is a deepest one.
LEMMA DeepestIsThere ==
  ASSUME NEW key \in Seq(STRING), NEW paths \in SUBSET Seq(STRING), paths # {},
         \A p \in paths : IsPrefix(p, key)
  PROVE  /\ Deepest(paths) \in paths
         /\ \A p \in paths : Len(p) <= Len(Deepest(paths))
<1> DEFINE n == Len(key)
           depths == {d \in 0..n : \E p \in paths : d = n - Len(p)}
<1>1. \A p \in paths : Len(p) \in Nat /\ Len(p) <= n
  BY DEF IsPrefix
<1>2. n \in Nat
  OBVIOUS
<1> HIDE DEF n
<1>3. \A p \in paths : n - Len(p) \in depths
  BY <1>1, <1>2
<1>4. depths \in SUBSET Nat
  BY <1>2
<1> HIDE DEF depths
<1>5. depths # {}
  <2>1. PICK p \in paths : TRUE
    OBVIOUS
  <2> QED
    BY <1>3, <2>1
<1>6. PICK d \in depths : \A e \in depths : d <= e
  BY <1>4, <1>5, LeastNatural
<1>7. PICK p \in paths : d = n - Len(p)
  BY <1>6 DEF depths
<1>8. \A q \in paths : Len(q) <= Len(p)
  <2> SUFFICES ASSUME NEW q \in paths PROVE Len(q) <= Len(p)
    OBVIOUS
  <2>1. n - Len(p) <= n - Len(q)
    BY <1>3, <1>6, <1>7
  <2> QED
    BY <1>1, <1>2, <2>1
<1> QED
  BY <1>7, <1>8, Zenon DEF Deepest

LEMMA OverMarks ==
  ASSUME NEW f, NEW g
  PROVE  /\ DOMAIN Over(f, g) = DOMAIN f \cup DOMAIN g
         /\ \A x \in DOMAIN f : Over(f, g)[x] = f[x]
         /\ \A x \in DOMAIN g \ DOMAIN f : Over(f, g)[x] = g[x]
BY Zenon DEF Over

\* The paths that a manifest of a scope marks.
BlobPaths(scope, m) == {scope \o p : p \in ClaimedPrefixes(m)}
HotOnes(scope, m) == {scope \o p : p \in m.hot}

\* The markers of one manifest over those that were there.
LEMMA MainAdded ==
  ASSUME NEW t, NEW scope, NEW m
  PROVE  /\ DOMAIN AddManifest(t, scope, m).main
                = BlobPaths(scope, m) \cup HotOnes(scope, m) \cup DOMAIN t.main
         /\ \A x \in BlobPaths(scope, m) :
               AddManifest(t, scope, m).main[x] = BlobMarks(scope, m)[x]
         /\ \A x \in HotOnes(scope, m) \ BlobPaths(scope, m) :
               AddManifest(t, scope, m).main[x] = HotMarker
         /\ \A x \in DOMAIN t.main \ (BlobPaths(scope, m) \cup HotOnes(scope, m)) :
               AddManifest(t, scope, m).main[x] = t.main[x]
<1> DEFINE blobs == BlobPaths(scope, m)
           hot == HotOnes(scope, m)
           marks == BlobMarks(scope, m)
           hots == HotMarks(scope, m)
           below == Over(hots, t.main)
           main == Over(marks, below)
<1>1. AddManifest(t, scope, m).main = main
  BY DEF AddManifest
<1>2. DOMAIN marks = blobs /\ DOMAIN hots = hot /\ \A x \in hot : hots[x] = HotMarker
  BY Zenon DEF BlobMarks, HotMarks, BlobPaths, HotOnes
<1>3. /\ DOMAIN below = DOMAIN hots \cup DOMAIN t.main
      /\ \A x \in DOMAIN hots : below[x] = hots[x]
      /\ \A x \in DOMAIN t.main \ DOMAIN hots : below[x] = t.main[x]
  <2> HIDE DEF hots
  <2> QED
    BY OverMarks, Zenon
<1> HIDE DEF below
<1>4. /\ DOMAIN main = DOMAIN marks \cup DOMAIN below
      /\ \A x \in DOMAIN marks : main[x] = marks[x]
      /\ \A x \in DOMAIN below \ DOMAIN marks : main[x] = below[x]
  <2> HIDE DEF marks
  <2> QED
    BY OverMarks, Zenon
<1> HIDE DEF marks, hots, main, blobs, hot
<1>5. /\ DOMAIN main = blobs \cup hot \cup DOMAIN t.main
      /\ \A x \in blobs : main[x] = marks[x]
      /\ \A x \in hot \ blobs : main[x] = HotMarker
      /\ \A x \in DOMAIN t.main \ (blobs \cup hot) : main[x] = t.main[x]
  BY <1>2, <1>3, <1>4
<1> QED
  BY <1>1, <1>5 DEF blobs, hot, marks

\* The trie of one manifest.
LEMMA MainOfManifest ==
  ASSUME NEW scope, NEW m
  PROVE  /\ DOMAIN AddManifest(EmptyTrie, scope, m).main
              = {scope \o p : p \in ClaimedPrefixes(m)} \cup {scope \o p : p \in m.hot}
         /\ \A p \in ClaimedPrefixes(m) :
               AddManifest(EmptyTrie, scope, m).main[scope \o p] = BlobMarks(scope, m)[scope \o p]
         /\ \A path \in {scope \o p : p \in m.hot} \ {scope \o p : p \in ClaimedPrefixes(m)} :
               AddManifest(EmptyTrie, scope, m).main[path] = HotMarker
<1>1. DOMAIN EmptyTrie.main = {}
  BY DEF EmptyTrie
<1>2. /\ DOMAIN AddManifest(EmptyTrie, scope, m).main
              = BlobPaths(scope, m) \cup HotOnes(scope, m) \cup DOMAIN EmptyTrie.main
      /\ \A x \in BlobPaths(scope, m) :
            AddManifest(EmptyTrie, scope, m).main[x] = BlobMarks(scope, m)[x]
      /\ \A x \in HotOnes(scope, m) \ BlobPaths(scope, m) :
            AddManifest(EmptyTrie, scope, m).main[x] = HotMarker
  BY MainAdded
<1>3. \A p \in ClaimedPrefixes(m) : scope \o p \in BlobPaths(scope, m)
  BY DEF BlobPaths
<1> QED
  BY <1>1, <1>2, <1>3 DEF BlobPaths, HotOnes

\* b, claiming p, is what the key resolves by.
ResolvesBy(scope, m, key, b, p) ==
    /\ p \in Seq(STRING) /\ p \in Range(b.prefixes)
    /\ scope \o p # <<>> /\ IsPrefix(scope \o p, scope \o key)
    /\ ResolveKey(scope, m, key)
          = ResolveIn(b, SubSeq(scope \o key, Len(scope \o p) + 1, Len(scope \o key)))
    /\ \A q \in ClaimedPrefixes(m) :
          scope \o q # <<>> /\ IsPrefix(scope \o q, scope \o key) =>
              Len(scope \o q) <= Len(scope \o p)

LEMMA ArchivableByBlob ==
  ASSUME NEW scope \in Seq(STRING), NEW key \in Seq(STRING),
         NEW m \in ManifestFields, SoundBlobs(m.blobs),
         Archivable(ResolveKey(scope, m, key))
  PROVE  \E b \in m.blobs : \E p \in Range(b.prefixes) : ResolvesBy(scope, m, key, b, p)
<1> DEFINE trie == AddManifest(EmptyTrie, scope, m)
           path == scope \o key
           matches == Matches(trie, path)
           at == Deepest(matches)
           rest == SubSeq(path, Len(at) + 1, Len(path))
<1>1. path \in Seq(STRING)
  BY ConcatProperties
<1>2. /\ ClaimedPrefixes(m) \subseteq Seq(STRING) /\ m.hot \subseteq Seq(STRING)
  <2>1. m.hot \subseteq Seq(STRING)
    BY DEF ManifestFields
  <2>2. ASSUME NEW b \in m.blobs
        PROVE  Range(b.prefixes) \subseteq Seq(STRING)
    <3>1. b.prefixes \in Seq(Seq(STRING))
      BY DEF SoundBlobs, BlobFields
    <3> QED
      BY <3>1 DEF Range
  <2> QED
    BY <2>1, <2>2 DEF ClaimedPrefixes
<1>3. DOMAIN trie.main = {scope \o p : p \in ClaimedPrefixes(m)} \cup {scope \o p : p \in m.hot}
  BY MainOfManifest
<1>4. /\ \A p \in ClaimedPrefixes(m) : trie.main[scope \o p] = BlobMarks(scope, m)[scope \o p]
      /\ \A x \in {scope \o p : p \in m.hot} \ {scope \o p : p \in ClaimedPrefixes(m)} :
            trie.main[x] = HotMarker
  BY MainOfManifest
<1>5. ResolveKey(scope, m, key) = Lookup(trie, path)
  BY DEF ResolveKey
<1> HIDE DEF trie, path
<1>6. /\ Resolution("hot").kind # "blob" /\ Resolution("unmanaged").kind # "blob"
      /\ Resolution("pinned").kind # "blob"
  BY DEF Resolution
<1>7. /\ matches # {}
      /\ trie.main[at].kind # "hot"
      /\ Lookup(trie, path) = ResolveIn(trie.main[at].blob, rest)
  <2>1. Lookup(trie, path).kind = "blob"
    BY <1>5 DEF Archivable
  <2> HIDE DEF matches
  <2> QED
    BY <1>6, <2>1, Zenon DEF Lookup, matches
<1>8. /\ matches \subseteq DOMAIN trie.main
      /\ \A q \in matches : q # <<>> /\ IsPrefix(q, path)
      /\ \A q \in DOMAIN trie.main : q # <<>> /\ IsPrefix(q, path) => q \in matches
  BY DEF Matches
<1> HIDE DEF matches
<1>9. DOMAIN trie.main \subseteq Seq(STRING)
  <2>1. \A p \in Seq(STRING) : scope \o p \in Seq(STRING)
    BY ConcatProperties
  <2> QED
    BY <1>2, <1>3, <2>1
<1>10. at \in matches /\ \A q \in matches : Len(q) <= Len(at)
  <2>1. matches \in SUBSET Seq(STRING) /\ \A q \in matches : IsPrefix(q, path)
    BY <1>8, <1>9
  <2> QED
    BY <1>1, <1>7, <2>1, DeepestIsThere
<1> HIDE DEF at, rest
<1>11. at \in {scope \o p : p \in ClaimedPrefixes(m)}
  <2> SUFFICES ASSUME at \notin {scope \o p : p \in ClaimedPrefixes(m)} PROVE FALSE
    OBVIOUS
  <2>1. trie.main[at] = HotMarker
    BY <1>3, <1>4, <1>8, <1>10
  <2> QED
    BY <1>7, <2>1 DEF HotMarker
<1> DEFINE b == CHOOSE x \in m.blobs : \E p \in Range(x.prefixes) : scope \o p = at
<1>12. trie.main[at] = BlobMarker(b)
  <2>1. BlobMarks(scope, m)[at] = BlobMarker(b)
    BY <1>11, Zenon DEF BlobMarks
  <2> QED
    BY <1>4, <1>11, <2>1, Zenon
<1>13. b \in m.blobs /\ \E p \in Range(b.prefixes) : scope \o p = at
  <2>1. \E x \in m.blobs : \E p \in Range(x.prefixes) : scope \o p = at
    BY <1>11, Zenon DEF ClaimedPrefixes
  <2> QED
    BY <2>1, Zenon
<1> HIDE DEF b
<1>14. PICK p \in Range(b.prefixes) : scope \o p = at
  BY <1>13
<1>15. trie.main[at].blob = b
  BY <1>12 DEF BlobMarker
<1>16. p \in Seq(STRING)
  BY <1>2, <1>13, <1>14, Zenon DEF ClaimedPrefixes
<1>17. at # <<>> /\ IsPrefix(at, path)
  BY <1>8, <1>10
<1>18. ASSUME NEW q \in ClaimedPrefixes(m), scope \o q # <<>>, IsPrefix(scope \o q, path)
       PROVE  Len(scope \o q) <= Len(at)
  BY <1>3, <1>8, <1>10, <1>18
<1>19. ResolveKey(scope, m, key) = ResolveIn(b, SubSeq(path, Len(at) + 1, Len(path)))
  BY <1>5, <1>7, <1>15 DEF rest
<1>20. ResolvesBy(scope, m, key, b, p)
  BY <1>14, <1>16, <1>17, <1>18, <1>19, Zenon DEF ResolvesBy, path
<1> QED
  BY <1>13, <1>14, <1>20, Zenon

\* Adding blobs, none of them at or below a prefix that is claimed, moves no key that
\* stays archivable.
LEMMA KeyStays ==
  ASSUME NEW scope \in Seq(STRING), NEW key \in Seq(STRING),
         NEW old \in ManifestFields, SoundBlobs(old.blobs),
         NEW new \in ManifestFields, SoundBlobs(new.blobs),
         old.blobs \subseteq new.blobs,
         NEW added, new.blobs = old.blobs \cup added,
         \A p \in PrefixesOf(old.blobs), q \in PrefixesOf(added) : ~ IsPrefix(p, q),
         Archivable(ResolveKey(scope, old, key)), Archivable(ResolveKey(scope, new, key))
  PROVE  ResolveKey(scope, old, key) = ResolveKey(scope, new, key)
<1>b. PICK b \in old.blobs : \E p \in Range(b.prefixes) : ResolvesBy(scope, old, key, b, p)
  BY ArchivableByBlob
<1>1. PICK p \in Range(b.prefixes) : ResolvesBy(scope, old, key, b, p)
  BY <1>b
<1>d. PICK d \in new.blobs : \E q \in Range(d.prefixes) : ResolvesBy(scope, new, key, d, q)
  BY ArchivableByBlob
<1>2. PICK q \in Range(d.prefixes) : ResolvesBy(scope, new, key, d, q)
  BY <1>d
<1> DEFINE x == scope \o p
           y == scope \o q
           path == scope \o key
<1>3. /\ p \in Seq(STRING) /\ q \in Seq(STRING)
      /\ x # <<>> /\ IsPrefix(x, path)
      /\ y # <<>> /\ IsPrefix(y, path)
  BY <1>1, <1>2 DEF ResolvesBy
<1>4. p \in PrefixesOf(old.blobs) /\ p \in ClaimedPrefixes(new)
  BY <1>1, Zenon DEF PrefixesOf, ClaimedPrefixes
<1>5. Len(x) <= Len(y)
  BY <1>2, <1>3, <1>4, Zenon DEF ResolvesBy
<1>6. /\ x \in Seq(STRING) /\ y \in Seq(STRING) /\ path \in Seq(STRING)
      /\ Len(x) \in Nat /\ Len(y) \in Nat
  BY <1>3, ConcatProperties
<1>7. IsPrefix(x, y) /\ (Len(x) = Len(y) => x = y)
  <2> HIDE DEF x, y, path
  <2> QED
    BY <1>3, <1>5, <1>6, PrefixesCompare
<1>8. IsPrefix(p, q) /\ (x = y => p = q)
  BY <1>3, <1>7, ScopedPrefix
<1>9. d \in old.blobs
  <2>1. d \in added => q \in PrefixesOf(added)
    BY <1>2 DEF PrefixesOf
  <2> QED
    BY <1>4, <1>8, <2>1
<1>10. q \in ClaimedPrefixes(old)
  BY <1>2, <1>9, Zenon DEF ClaimedPrefixes
<1>11. Len(y) <= Len(x)
  BY <1>1, <1>3, <1>10, Zenon DEF ResolvesBy
<1>12. x = y /\ p = q
  <2> HIDE DEF x, y
  <2>1. Len(x) = Len(y)
    BY <1>5, <1>6, <1>11
  <2> QED
    BY <1>7, <1>8, <2>1
<1>13. b = d
  BY <1>1, <1>2, <1>9, <1>12 DEF SoundBlobs, Disjoint
<1> HIDE DEF x, y, path
<1> QED
  BY <1>1, <1>2, <1>12, <1>13, Zenon DEF ResolvesBy, x, y

----------------------------------------------------------------------------
(* The trie of many manifests *)

\* The function that AddAll defines recursively.
Adding(f, loaded) ==
    f = [i \in 0..Len(loaded) |->
            IF i = 0 THEN EmptyTrie
            ELSE AddManifest(f[i - 1], loaded[i].scope, loaded[i].manifest)]

LEMMA AddingExists ==
  ASSUME NEW loaded, Len(loaded) \in Nat
  PROVE  \E f : Adding(f, loaded)
<1> DEFINE n == Len(loaded)
           next(i, trie) == AddManifest(trie, loaded[i].scope, loaded[i].manifest)
           Upto(f, m) == f = [i \in 0..m |-> IF i = 0 THEN EmptyTrie ELSE next(i, f[i - 1])]
           T == {m \in 0..n : \E f : Upto(f, m)}
<1> HIDE DEF next
<1>1. 0 \in T
  <2> DEFINE f == [i \in 0..0 |-> EmptyTrie]
  <2>1. f = [i \in 0..0 |-> IF i = 0 THEN EmptyTrie ELSE next(i, f[i - 1])]
    OBVIOUS
  <2> HIDE DEF f
  <2>2. Upto(f, 0)
    BY <2>1
  <2> QED
    BY <2>2
<1>2. ASSUME NEW m \in 1..n, m - 1 \in T
      PROVE  m \in T
  <2>1. PICK f : Upto(f, m - 1)
    BY <1>2
  <2> DEFINE g == [i \in 0..m |-> IF i = m THEN next(m, f[m - 1]) ELSE f[i]]
  <2>2. ASSUME NEW i \in 0..m
        PROVE  g[i] = IF i = 0 THEN EmptyTrie ELSE next(i, g[i - 1])
    <3>1. /\ g[i] = IF i = m THEN next(m, f[m - 1]) ELSE f[i]
          /\ i # 0 => g[i - 1] = f[i - 1]
      OBVIOUS
    <3> HIDE DEF g
    <3>2. CASE i = m
      BY <3>1, <3>2
    <3>3. CASE i # m
      <4>1. i \in 0..(m - 1)
        BY <3>3
      <4>2. f[i] = IF i = 0 THEN EmptyTrie ELSE next(i, f[i - 1])
        BY <2>1, <4>1
      <4> QED
        BY <3>1, <3>3, <4>2
    <3> QED
      BY <3>2, <3>3
  <2>3. g = [i \in 0..m |-> g[i]]
    OBVIOUS
  <2> HIDE DEF g
  <2>4. Upto(g, m)
    BY <2>2, <2>3
  <2> HIDE DEF Upto
  <2> QED
    BY <2>4
<1>3. n \in T
  <2> HIDE DEF T
  <2>1. \A k \in 1..n : k - 1 \in T => k \in T
    BY <1>2
  <2>2. \A k \in 0..n : k \in T
    BY <1>1, <2>1, Reached
  <2> QED
    BY <2>2
<1>4. PICK f : Upto(f, n)
  BY <1>3
<1> QED
  BY <1>4 DEF Adding, next

\* One manifest more.
LEMMA EpochAdded ==
  ASSUME NEW trie, NEW scope, NEW m
  PROVE  /\ DOMAIN AddManifest(trie, scope, m).epochs = DOMAIN trie.epochs \cup {scope}
         /\ AddManifest(trie, scope, m).epochs[scope] = m.epoch
         /\ \A s \in DOMAIN trie.epochs \ {scope} :
               AddManifest(trie, scope, m).epochs[s] = trie.epochs[s]
<1> DEFINE one == [s \in {scope} |-> m.epoch]
           epochs == Over(one, trie.epochs)
<1>1. AddManifest(trie, scope, m).epochs = epochs
  BY DEF AddManifest
<1>2. epochs = [s \in {scope} \cup DOMAIN trie.epochs |->
                   IF s \in {scope} THEN one[s] ELSE trie.epochs[s]]
  BY DEF Over
<1> HIDE DEF epochs
<1>3. /\ DOMAIN epochs = DOMAIN trie.epochs \cup {scope}
      /\ epochs[scope] = m.epoch
      /\ \A s \in DOMAIN trie.epochs \ {scope} : epochs[s] = trie.epochs[s]
  BY <1>2
<1> QED
  BY <1>1, <1>3

\* When no two of the manifests are of one scope, each has its own epoch in the trie.
LEMMA EpochsOfAll ==
  ASSUME NEW loaded, Len(loaded) \in Nat,
         \A i, j \in 1..Len(loaded) : loaded[i].scope = loaded[j].scope => i = j,
         NEW i \in 1..Len(loaded)
  PROVE  /\ loaded[i].scope \in DOMAIN AddAll(loaded).epochs
         /\ AddAll(loaded).epochs[loaded[i].scope] = loaded[i].manifest.epoch
<1> DEFINE n == Len(loaded)
           added == CHOOSE f : Adding(f, loaded)
           Has(trie, j) == /\ loaded[j].scope \in DOMAIN trie.epochs
                           /\ trie.epochs[loaded[j].scope] = loaded[j].manifest.epoch
           T == {k \in 0..n : \A j \in 1..k : Has(added[k], j)}
<1>1. AddAll(loaded) = added[n]
  BY DEF AddAll, Adding
<1>2. Adding(added, loaded)
  BY AddingExists
<1> HIDE DEF added
<1>3. 0 \in T
  OBVIOUS
<1>4. ASSUME NEW k \in 1..n, k - 1 \in T
      PROVE  k \in T
  <2> DEFINE before == added[k - 1]
             scope == loaded[k].scope
             m == loaded[k].manifest
  <2>1. added[k] = AddManifest(before, scope, m)
    BY <1>2 DEF Adding
  <2>2. /\ DOMAIN added[k].epochs = DOMAIN before.epochs \cup {scope}
        /\ added[k].epochs[scope] = m.epoch
        /\ \A s \in DOMAIN before.epochs \ {scope} : added[k].epochs[s] = before.epochs[s]
    BY <2>1, EpochAdded
  <2>3. ASSUME NEW j \in 1..k
        PROVE  Has(added[k], j)
    <3>1. CASE j = k
      BY <2>2, <3>1
    <3>2. CASE j # k
      <4>1. j \in 1..(k - 1) /\ j \in 1..n
        BY <3>2
      <4>2. Has(before, j) /\ loaded[j].scope # scope
        BY <1>4, <3>2, <4>1
      <4> QED
        BY <2>2, <4>2
    <3> QED
      BY <3>1, <3>2
  <2> HIDE DEF Has
  <2> QED
    BY <2>3
<1>5. n \in T
  <2> HIDE DEF T
  <2>1. \A k \in 1..n : k - 1 \in T => k \in T
    BY <1>4
  <2>2. \A k \in 0..n : k \in T
    BY <1>3, <2>1, Reached
  <2> QED
    BY <2>2
<1>6. Has(added[n], i)
  BY <1>5
<1> QED
  BY <1>1, <1>6

\* Both tries say the same about a key.
SameAt(t, u, key) ==
    /\ Matches(t, key) = Matches(u, key)
    /\ \A p \in Matches(t, key) : t.main[p] = u.main[p]
    /\ {p \in t.pins : IsPrefix(p, key)} = {p \in u.pins : IsPrefix(p, key)}

LEMMA SameLookup ==
  ASSUME NEW t, NEW u, NEW key \in Seq(STRING),
         DOMAIN t.main \subseteq Seq(STRING), SameAt(t, u, key)
  PROVE  Lookup(t, key) = Lookup(u, key)
<1> DEFINE matches == Matches(t, key)
           at == Deepest(matches)
<1>1. /\ matches = Matches(u, key)
      /\ \A p \in matches : t.main[p] = u.main[p]
      /\ (\E p \in t.pins : IsPrefix(p, key)) <=> (\E p \in u.pins : IsPrefix(p, key))
  BY DEF SameAt
<1>2. matches \in SUBSET Seq(STRING) /\ \A p \in matches : IsPrefix(p, key)
  BY DEF Matches
<1> HIDE DEF matches
<1>3. matches # {} => at \in matches
  BY <1>2, DeepestIsThere
<1> HIDE DEF at
<1>4. matches # {} => t.main[at] = u.main[at]
  BY <1>1, <1>3
<1> QED
  BY <1>1, <1>4, Zenon DEF Lookup, matches, at

\* The paths a manifest says something about.
PathsOf(m) == ClaimedPrefixes(m) \cup m.hot \cup m.pinned

LEMMA PathsOfType ==
  ASSUME NEW m \in ManifestFields, SoundBlobs(m.blobs)
  PROVE  PathsOf(m) \subseteq Seq(STRING)
<1>1. m.hot \subseteq Seq(STRING) /\ m.pinned \subseteq Seq(STRING)
  BY DEF ManifestFields
<1>2. ASSUME NEW b \in m.blobs
      PROVE  Range(b.prefixes) \subseteq Seq(STRING)
  <2>1. b.prefixes \in Seq(Seq(STRING))
    BY DEF SoundBlobs, BlobFields
  <2> QED
    BY <2>1 DEF Range
<1> QED
  BY <1>1, <1>2 DEF PathsOf, ClaimedPrefixes

LEMMA BelowScope ==
  ASSUME NEW S, NEW scope \in Seq(S), NEW p \in Seq(S), NEW key \in Seq(S),
         IsPrefix(scope \o p, key)
  PROVE  IsPrefix(scope, key)
<1> DEFINE x == scope \o p
<1>1. /\ x \in Seq(S) /\ Len(x) = Len(scope) + Len(p)
      /\ \A i \in 1..(Len(scope) + Len(p)) : x[i] = IF i <= Len(scope) THEN scope[i] ELSE p[i - Len(scope)]
  BY ConcatProperties
<1>2. Len(scope) \in Nat /\ Len(p) \in Nat /\ Len(key) \in Nat
  OBVIOUS
<1> HIDE DEF x
<1>3. Len(x) <= Len(key) /\ \A i \in 1..Len(x) : x[i] = key[i]
  <2>1. IsPrefix(x, key)
    BY DEF x
  <2> QED
    BY <1>1, <2>1, PrefixPointwise
<1>4. Len(scope) <= Len(key) /\ \A i \in 1..Len(scope) : scope[i] = key[i]
  BY <1>1, <1>2, <1>3
<1> QED
  BY <1>4, PrefixPointwise

\* A manifest of a scope elsewhere says nothing about a key.
LEMMA AddedElsewhere ==
  ASSUME NEW t, NEW scope \in Seq(STRING), NEW m, PathsOf(m) \subseteq Seq(STRING),
         NEW key \in Seq(STRING), ~IsPrefix(scope, key)
  PROVE  SameAt(AddManifest(t, scope, m), t, key)
<1> DEFINE new == AddManifest(t, scope, m)
           marked == BlobPaths(scope, m) \cup HotOnes(scope, m)
<1>1. \A p \in PathsOf(m) : ~IsPrefix(scope \o p, key)
  BY BelowScope
<1>2. \A x \in marked : ~IsPrefix(x, key)
  BY <1>1 DEF PathsOf, BlobPaths, HotOnes
<1>3. /\ DOMAIN new.main = marked \cup DOMAIN t.main
      /\ \A x \in DOMAIN t.main \ marked : new.main[x] = t.main[x]
  BY MainAdded
<1>4. new.pins = t.pins \cup {scope \o p : p \in m.pinned}
  BY DEF AddManifest
<1>5. \A x \in {scope \o p : p \in m.pinned} : ~IsPrefix(x, key)
  BY <1>1 DEF PathsOf
<1> HIDE DEF new, marked
<1>6. Matches(new, key) = Matches(t, key)
  BY <1>2, <1>3 DEF Matches
<1>7. \A p \in Matches(new, key) : new.main[p] = t.main[p]
  BY <1>2, <1>3, <1>6 DEF Matches
<1>8. {p \in new.pins : IsPrefix(p, key)} = {p \in t.pins : IsPrefix(p, key)}
  BY <1>4, <1>5
<1> QED
  BY <1>6, <1>7, <1>8 DEF SameAt, new

\* Where nothing was said about a key, one more manifest says what it says alone.
LEMMA AddedHere ==
  ASSUME NEW t, NEW scope, NEW m, NEW key, SameAt(t, EmptyTrie, key)
  PROVE  SameAt(AddManifest(t, scope, m), AddManifest(EmptyTrie, scope, m), key)
<1> DEFINE new == AddManifest(t, scope, m)
           alone == AddManifest(EmptyTrie, scope, m)
           blobs == BlobPaths(scope, m)
           hot == HotOnes(scope, m)
           pinned == {scope \o p : p \in m.pinned}
<1>1. /\ DOMAIN new.main = blobs \cup hot \cup DOMAIN t.main
      /\ \A x \in blobs : new.main[x] = BlobMarks(scope, m)[x]
      /\ \A x \in hot \ blobs : new.main[x] = HotMarker
  BY MainAdded
<1>2. /\ DOMAIN alone.main = blobs \cup hot
      /\ \A x \in blobs : alone.main[x] = BlobMarks(scope, m)[x]
      /\ \A x \in hot \ blobs : alone.main[x] = HotMarker
  <2>1. DOMAIN EmptyTrie.main = {}
    BY DEF EmptyTrie
  <2>2. /\ DOMAIN alone.main = blobs \cup hot \cup DOMAIN EmptyTrie.main
        /\ \A x \in blobs : alone.main[x] = BlobMarks(scope, m)[x]
        /\ \A x \in hot \ blobs : alone.main[x] = HotMarker
    BY MainAdded
  <2> HIDE DEF alone, blobs, hot
  <2> QED
    BY <2>1, <2>2
<1>3. new.pins = t.pins \cup pinned /\ alone.pins = EmptyTrie.pins \cup pinned
  BY DEF AddManifest
<1> HIDE DEF new, alone, blobs, hot, pinned
<1>4. Matches(EmptyTrie, key) = {}
  BY DEF Matches, EmptyTrie
<1>5. \A x \in DOMAIN t.main : ~ (x # <<>> /\ IsPrefix(x, key))
  BY <1>4 DEF SameAt, Matches
<1>6. Matches(new, key) = Matches(alone, key) /\ Matches(new, key) \subseteq blobs \cup hot
  BY <1>1, <1>2, <1>5 DEF Matches
<1>7. \A p \in Matches(new, key) : new.main[p] = alone.main[p]
  BY <1>1, <1>2, <1>6
<1>8. {p \in new.pins : IsPrefix(p, key)} = {p \in alone.pins : IsPrefix(p, key)}
  BY <1>3 DEF SameAt
<1> QED
  BY <1>6, <1>7, <1>8 DEF SameAt, new, alone

\* When at most one of the manifests is of a scope above a key, it alone decides.
LEMMA OneScopeDecides ==
  ASSUME NEW loaded, Len(loaded) \in Nat, NEW key \in Seq(STRING),
         \A j \in 1..Len(loaded) : loaded[j].scope \in Seq(STRING)
                                   /\ PathsOf(loaded[j].manifest) \subseteq Seq(STRING),
         NEW i \in 0..Len(loaded),
         \A j \in 1..Len(loaded) : j # i => ~IsPrefix(loaded[j].scope, key)
  PROVE  Lookup(AddAll(loaded), key)
            = IF i = 0 THEN Lookup(EmptyTrie, key)
              ELSE Lookup(AddManifest(EmptyTrie, loaded[i].scope, loaded[i].manifest), key)
<1> DEFINE n == Len(loaded)
           added == CHOOSE f : Adding(f, loaded)
           decisive == AddManifest(EmptyTrie, loaded[i].scope, loaded[i].manifest)
           says(k) == IF i = 0 \/ k < i THEN EmptyTrie ELSE decisive
           T == {k \in 0..n : SameAt(added[k], says(k), key)
                              /\ DOMAIN added[k].main \subseteq Seq(STRING)}
<1>1. AddAll(loaded) = added[n]
  BY DEF AddAll, Adding
<1>2. Adding(added, loaded)
  BY AddingExists
<1> HIDE DEF added, decisive
<1>3. 0 \in T
  <2>1. added[0] = EmptyTrie /\ says(0) = EmptyTrie
    BY <1>2 DEF Adding
  <2>2. DOMAIN EmptyTrie.main = {}
    BY DEF EmptyTrie
  <2> QED
    BY <2>1, <2>2 DEF SameAt
<1>4. ASSUME NEW k \in 1..n, k - 1 \in T
      PROVE  k \in T
  <2> DEFINE before == added[k - 1]
             scope == loaded[k].scope
             m == loaded[k].manifest
  <2>1. added[k] = AddManifest(before, scope, m)
    BY <1>2 DEF Adding
  <2>2. /\ scope \in Seq(STRING) /\ PathsOf(m) \subseteq Seq(STRING)
        /\ SameAt(before, says(k - 1), key) /\ DOMAIN before.main \subseteq Seq(STRING)
        /\ k # i => ~IsPrefix(scope, key)
    BY <1>4
  <2>3. DOMAIN added[k].main \subseteq Seq(STRING)
    <3> HIDE DEF before, scope, m
    <3>1. DOMAIN added[k].main = BlobPaths(scope, m) \cup HotOnes(scope, m) \cup DOMAIN before.main
      BY <2>1, MainAdded
    <3>2. \A p \in PathsOf(m) : scope \o p \in Seq(STRING)
      BY <2>2, ConcatProperties
    <3> QED
      BY <2>2, <3>1, <3>2 DEF BlobPaths, HotOnes, PathsOf
  <2>4. CASE k # i
    <3>1. SameAt(added[k], before, key)
      <4> HIDE DEF before, scope, m
      <4> QED
        BY <2>1, <2>2, <2>4, AddedElsewhere
    <3>2. says(k) = says(k - 1)
      BY <2>4
    <3>3. SameAt(added[k], says(k), key)
      BY <2>2, <3>1, <3>2 DEF SameAt
    <3> QED
      BY <2>3, <3>3
  <2>5. CASE k = i
    <3>1. says(k - 1) = EmptyTrie /\ says(k) = decisive
      BY <2>5
    <3>2. SameAt(added[k], AddManifest(EmptyTrie, scope, m), key)
      <4> HIDE DEF before, scope, m
      <4> QED
        BY <2>1, <2>2, <3>1, AddedHere
    <3>3. SameAt(added[k], says(k), key)
      BY <2>5, <3>1, <3>2 DEF decisive
    <3> QED
      BY <2>3, <3>3
  <2> QED
    BY <2>4, <2>5
<1>5. n \in T
  <2> HIDE DEF T
  <2>1. \A k \in 1..n : k - 1 \in T => k \in T
    BY <1>4
  <2>2. \A k \in 0..n : k \in T
    BY <1>3, <2>1, Reached
  <2> QED
    BY <2>2
<1>6. SameAt(added[n], says(n), key) /\ DOMAIN added[n].main \subseteq Seq(STRING)
  BY <1>5
<1>7. says(n) = IF i = 0 THEN EmptyTrie ELSE decisive
  OBVIOUS
<1> HIDE DEF says
<1>8. Lookup(added[n], key) = Lookup(says(n), key)
  BY <1>6, SameLookup
<1> QED
  BY <1>1, <1>7, <1>8 DEF decisive

\* A trie with nothing in it makes no key archivable.
LEMMA EmptyTrieArchivesNothing ==
  ASSUME NEW key
  PROVE  ~Archivable(Lookup(EmptyTrie, key))
<1>1. Matches(EmptyTrie, key) = {} /\ EmptyTrie.pins = {}
  BY DEF Matches, EmptyTrie
<1> QED
  BY <1>1, Zenon DEF Lookup, Archivable, Resolution

----------------------------------------------------------------------------
(* What a consumer relies on, over the manifests of a whole bucket *)

\* What the manifests loaded mark, hold hot and pin.
MarkedBy(l) == BlobPaths(l.scope, l.manifest) \cup HotOnes(l.scope, l.manifest)
PinnedBy(l) == {l.scope \o p : p \in l.manifest.pinned}

\* A marker is hot, or that of a blob whose prefix its path is.
MarkOf(loaded, n, path, mark) ==
    \/ mark = HotMarker
    \/ \E j \in 1..n : \E b \in loaded[j].manifest.blobs : \E p \in Range(b.prefixes) :
          loaded[j].scope \o p = path /\ mark = BlobMarker(b)

LEMMA MarksOfAll ==
  ASSUME NEW loaded, Len(loaded) \in Nat
  PROVE  /\ DOMAIN AddAll(loaded).main = UNION {MarkedBy(loaded[j]) : j \in 1..Len(loaded)}
         /\ AddAll(loaded).pins = UNION {PinnedBy(loaded[j]) : j \in 1..Len(loaded)}
         /\ \A x \in DOMAIN AddAll(loaded).main :
               MarkOf(loaded, Len(loaded), x, AddAll(loaded).main[x])
<1> DEFINE n == Len(loaded)
           added == CHOOSE f : Adding(f, loaded)
           Marks(k) == UNION {MarkedBy(loaded[j]) : j \in 1..k}
           Pins(k) == UNION {PinnedBy(loaded[j]) : j \in 1..k}
           Good(k) == /\ DOMAIN added[k].main = Marks(k)
                      /\ added[k].pins = Pins(k)
                      /\ \A x \in DOMAIN added[k].main : MarkOf(loaded, k, x, added[k].main[x])
           T == {k \in 0..n : Good(k)}
<1>1. AddAll(loaded) = added[n]
  BY DEF AddAll, Adding
<1>2. Adding(added, loaded)
  BY AddingExists
<1> HIDE DEF added
<1>3. 0 \in T
  <2>1. added[0] = EmptyTrie
    BY <1>2 DEF Adding
  <2>2. DOMAIN EmptyTrie.main = {} /\ EmptyTrie.pins = {}
    BY DEF EmptyTrie
  <2>3. Marks(0) = {} /\ Pins(0) = {}
    OBVIOUS
  <2> QED
    BY <2>1, <2>2, <2>3
<1>4. ASSUME NEW k \in 1..n, k - 1 \in T
      PROVE  k \in T
  <2> DEFINE before == added[k - 1]
             scope == loaded[k].scope
             m == loaded[k].manifest
  <2>1. added[k] = AddManifest(before, scope, m)
    BY <1>2 DEF Adding
  <2>2. 1..k = (1..(k - 1)) \cup {k}
    OBVIOUS
  <2>3. Marks(k) = Marks(k - 1) \cup MarkedBy(loaded[k]) /\ Pins(k) = Pins(k - 1) \cup PinnedBy(loaded[k])
    BY <2>2
  <2>4. Good(k - 1)
    BY <1>4
  <2> HIDE DEF before, Marks, Pins
  <2>5. /\ DOMAIN added[k].main = BlobPaths(scope, m) \cup HotOnes(scope, m) \cup DOMAIN before.main
        /\ \A x \in BlobPaths(scope, m) : added[k].main[x] = BlobMarks(scope, m)[x]
        /\ \A x \in HotOnes(scope, m) \ BlobPaths(scope, m) : added[k].main[x] = HotMarker
        /\ \A x \in DOMAIN before.main \ (BlobPaths(scope, m) \cup HotOnes(scope, m)) :
              added[k].main[x] = before.main[x]
    <3> HIDE DEF scope, m
    <3> QED
      BY <2>1, MainAdded
  <2>6. DOMAIN added[k].main = Marks(k)
    BY <2>3, <2>4, <2>5 DEF MarkedBy, before
  <2>7. added[k].pins = Pins(k)
    <3>1. added[k].pins = before.pins \cup PinnedBy(loaded[k])
      BY <2>1 DEF AddManifest, PinnedBy
    <3> QED
      BY <2>3, <2>4, <3>1 DEF before
  <2>8. ASSUME NEW x \in DOMAIN added[k].main
        PROVE  MarkOf(loaded, k, x, added[k].main[x])
    <3>1. CASE x \in BlobPaths(scope, m)
      <4> DEFINE b == CHOOSE d \in m.blobs : \E p \in Range(d.prefixes) : scope \o p = x
      <4>1. \E d \in m.blobs : \E p \in Range(d.prefixes) : scope \o p = x
        BY <3>1, Zenon DEF BlobPaths, ClaimedPrefixes
      <4>2. b \in m.blobs /\ \E p \in Range(b.prefixes) : scope \o p = x
        BY <4>1, Zenon
      <4>3. BlobMarks(scope, m)[x] = BlobMarker(b)
        BY <3>1, Zenon DEF BlobMarks, BlobPaths
      <4> HIDE DEF b
      <4>4. added[k].main[x] = BlobMarker(b)
        BY <2>5, <3>1, <4>3, Zenon
      <4>5. k \in 1..k
        OBVIOUS
      <4> QED
        BY <4>2, <4>4, <4>5, Zenon DEF MarkOf
    <3>2. CASE x \in HotOnes(scope, m) \ BlobPaths(scope, m)
      BY <2>5, <3>2, Zenon DEF MarkOf
    <3>3. CASE x \in DOMAIN before.main \ (BlobPaths(scope, m) \cup HotOnes(scope, m))
      <4>1. MarkOf(loaded, k - 1, x, before.main[x])
        BY <2>4, <3>3 DEF before
      <4>2. \A j \in 1..(k - 1) : j \in 1..k
        OBVIOUS
      <4>3. added[k].main[x] = before.main[x]
        BY <2>5, <3>3, Zenon
      <4> QED
        BY <4>1, <4>2, <4>3, Zenon DEF MarkOf
    <3> QED
      BY <2>5, <3>1, <3>2, <3>3, Zenon
  <2> QED
    BY <2>6, <2>7, <2>8
<1>5. n \in T
  <2> HIDE DEF T
  <2>1. \A k \in 1..n : k - 1 \in T => k \in T
    BY <1>4
  <2>2. \A k \in 0..n : k \in T
    BY <1>3, <2>1, Reached
  <2> QED
    BY <2>2
<1> QED
  BY <1>1, <1>5

\* A pin of any manifest holds back all keys below it, whatever other manifests claim
\* there, however deep, and in whatever order they were added (resolve.py:106-109).
THEOREM PinsWin ==
  ASSUME NEW loaded, Len(loaded) \in Nat, NEW key,
         NEW i \in 1..Len(loaded), NEW pin \in loaded[i].manifest.pinned,
         IsPrefix(loaded[i].scope \o pin, key)
  PROVE  /\ ~Archivable(Lookup(AddAll(loaded), key))
         /\ key # <<>> /\ Last(key) \notin MetadataBasenames =>
               Lookup(AddAll(loaded), key).kind = "pinned"
<1> DEFINE trie == AddAll(loaded)
<1>1. trie.pins = UNION {PinnedBy(loaded[j]) : j \in 1..Len(loaded)}
  BY MarksOfAll
<1>2. loaded[i].scope \o pin \in PinnedBy(loaded[i])
  BY DEF PinnedBy
<1> HIDE DEF trie
<1>3. \E p \in trie.pins : IsPrefix(p, key)
  BY <1>1, <1>2
<1>4. /\ Lookup(trie, key) \in {Resolution("unmanaged"), Resolution("hot"), Resolution("pinned")}
      /\ key # <<>> /\ Last(key) \notin MetadataBasenames =>
            Lookup(trie, key) = Resolution("pinned")
  BY <1>3, Zenon DEF Lookup
<1>5. \A kind : Resolution(kind).kind = kind
  BY DEF Resolution
<1> QED
  BY <1>4, <1>5 DEF Archivable, trie

\* A key is archivable only through a blob that claims a prefix of it, and no manifest
\* claims, or holds hot, anything deeper above it: the deepest declaration wins over all
\* manifests, and what nobody claims is never archived (resolve.py:86-88, 188-189).
THEOREM DeepestDeclarationWins ==
  ASSUME NEW loaded, Len(loaded) \in Nat, NEW key \in Seq(STRING),
         \A j \in 1..Len(loaded) : loaded[j].scope \in Seq(STRING)
                                   /\ PathsOf(loaded[j].manifest) \subseteq Seq(STRING),
         Archivable(Lookup(AddAll(loaded), key))
  PROVE  \E j \in 1..Len(loaded) : \E b \in loaded[j].manifest.blobs : \E p \in Range(b.prefixes) :
            LET at == loaded[j].scope \o p
            IN /\ at # <<>> /\ IsPrefix(at, key)
               /\ Lookup(AddAll(loaded), key) = ResolveIn(b, SubSeq(key, Len(at) + 1, Len(key)))
               /\ \A i \in 1..Len(loaded) : \A q \in MarkedBy(loaded[i]) :
                     IsPrefix(q, key) => Len(q) <= Len(at)
<1> DEFINE trie == AddAll(loaded)
           n == Len(loaded)
           matches == Matches(trie, key)
           at == Deepest(matches)
           rest == SubSeq(key, Len(at) + 1, Len(key))
<1>1. /\ DOMAIN trie.main = UNION {MarkedBy(loaded[j]) : j \in 1..n}
      /\ \A x \in DOMAIN trie.main : MarkOf(loaded, n, x, trie.main[x])
  BY MarksOfAll
<1> HIDE DEF trie, n
<1>2. DOMAIN trie.main \subseteq Seq(STRING)
  <2>1. ASSUME NEW j \in 1..n
        PROVE  MarkedBy(loaded[j]) \subseteq Seq(STRING)
    <3>1. loaded[j].scope \in Seq(STRING) /\ PathsOf(loaded[j].manifest) \subseteq Seq(STRING)
      BY DEF n
    <3>2. \A p \in PathsOf(loaded[j].manifest) : loaded[j].scope \o p \in Seq(STRING)
      BY <3>1, ConcatProperties
    <3> QED
      BY <3>2 DEF MarkedBy, BlobPaths, HotOnes, PathsOf
  <2> QED
    BY <1>1, <2>1
<1>3. /\ Resolution("hot").kind # "blob" /\ Resolution("unmanaged").kind # "blob"
      /\ Resolution("pinned").kind # "blob"
  BY DEF Resolution
<1>4. /\ matches # {}
      /\ trie.main[at].kind # "hot"
      /\ Lookup(trie, key) = ResolveIn(trie.main[at].blob, rest)
  <2>1. Lookup(trie, key).kind = "blob"
    BY DEF Archivable, trie
  <2> HIDE DEF matches
  <2> QED
    BY <1>3, <2>1, Zenon DEF Lookup, matches
<1>5. /\ matches \subseteq DOMAIN trie.main
      /\ \A q \in matches : q # <<>> /\ IsPrefix(q, key)
      /\ \A q \in DOMAIN trie.main : q # <<>> /\ IsPrefix(q, key) => q \in matches
  BY DEF Matches
<1> HIDE DEF matches
<1>6. at \in matches /\ \A q \in matches : Len(q) <= Len(at)
  <2>1. matches \in SUBSET Seq(STRING) /\ \A q \in matches : IsPrefix(q, key)
    BY <1>2, <1>5
  <2> QED
    BY <1>4, <2>1, DeepestIsThere
<1> HIDE DEF at
<1>7. PICK j \in 1..n : \E b \in loaded[j].manifest.blobs : \E p \in Range(b.prefixes) :
         loaded[j].scope \o p = at /\ trie.main[at] = BlobMarker(b)
  <2>1. trie.main[at] # HotMarker
    BY <1>4 DEF HotMarker
  <2>2. MarkOf(loaded, n, at, trie.main[at])
    BY <1>1, <1>5, <1>6
  <2> QED
    BY <2>1, <2>2 DEF MarkOf
<1>8. PICK b \in loaded[j].manifest.blobs : \E p \in Range(b.prefixes) :
         loaded[j].scope \o p = at /\ trie.main[at] = BlobMarker(b)
  BY <1>7
<1>9. PICK p \in Range(b.prefixes) : loaded[j].scope \o p = at /\ trie.main[at] = BlobMarker(b)
  BY <1>8
<1>10. at # <<>> /\ IsPrefix(at, key) /\ at \in Seq(STRING)
  BY <1>2, <1>5, <1>6
<1>11. Lookup(trie, key) = ResolveIn(b, rest)
  BY <1>4, <1>9 DEF BlobMarker
<1>12. ASSUME NEW i \in 1..n, NEW q \in MarkedBy(loaded[i]), IsPrefix(q, key)
       PROVE  Len(q) <= Len(at)
  <2>1. q \in DOMAIN trie.main
    BY <1>1
  <2>2. CASE q = <<>>
    <3>1. Len(at) \in Nat /\ Len(<<>>) = 0
      BY <1>10
    <3> QED
      BY <2>2, <3>1
  <2>3. CASE q # <<>>
    BY <1>5, <1>6, <1>12, <2>1, <2>3
  <2> QED
    BY <2>2, <2>3
<1> QED
  BY <1>9, <1>10, <1>11, <1>12, Zenon DEF trie, n, rest
=============================================================================
