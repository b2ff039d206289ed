--------------------------- MODULE CatalogProofs ---------------------------
(***************************************************************************)
(* Proofs about Catalog, for any nodes and arrays, any depth and excluded  *)
(* names, and any number of scans, reloads and mishaps.                    *)
(***************************************************************************)
EXTENDS Catalog, ResolveProofs, DiscoveryProofs

----------------------------------------------------------------------------
(* What a run on a scope lists *)

\* A path is its scope and the path below the scope.
LEMMA BelowRestores ==
  ASSUME NEW X, NEW scope \in Seq(X), NEW path \in Seq(X), IsPrefix(scope, path)
  PROVE  Below(scope, path) \in Seq(X) /\ scope \o Below(scope, path) = path
<1>1. Len(scope) <= Len(path) /\ scope = SubSeq(path, 1, Len(scope))
  <2>1. SubSeq(scope, 1, Len(scope)) = scope
    BY SubSeqFull
  <2> QED
    BY <2>1 DEF IsPrefix
<1>2. Below(scope, path) \in Seq(X)
  BY SubSeqProperties DEF Below
<1>3. SubSeq(path, 1, Len(scope)) \o SubSeq(path, Len(scope) + 1, Len(path))
        = SubSeq(path, 1, Len(path))
  <2>1. 1 \in 1..(Len(path) + 1) /\ Len(scope) \in 0..Len(path) /\ Len(path) \in Len(scope)..Len(path)
    BY <1>1
  <2>2. Len(scope) \in (1 - 1)..Len(path)
    BY <2>1
  <2> QED
    BY <2>1, <2>2, ConcatAdjacentSubSeq
<1>4. SubSeq(path, 1, Len(path)) = path
  BY SubSeqFull
<1> QED
  BY <1>1, <1>2, <1>3, <1>4 DEF Below

LEMMA AppendAfter ==
  ASSUME NEW X, NEW s \in Seq(X), NEW t \in Seq(X), NEW x \in X
  PROVE  s \o Append(t, x) = Append(s \o t, x)
<1> DEFINE one == <<x>>
<1>1. one \in Seq(X)
  OBVIOUS
<1>2. Append(t, x) = t \o one /\ Append(s \o t, x) = (s \o t) \o one
  BY AppendIsConcat, ConcatProperties
<1> HIDE DEF one
<1>3. (s \o t) \o one = s \o (t \o one)
  BY <1>1, ConcatAssociative
<1> QED
  BY <1>2, <1>3

\* The array as a run on its scope sees it.
LEMMA SeenArray ==
  ASSUME NEW scope \in Paths, NEW a \in Range(Arrays), IsPrefix(scope, a.path)
  PROVE  LET seen == Relative(a, scope)
         IN  /\ seen \in ArrayFields
             /\ seen.path \in Paths /\ scope \o seen.path = a.path
             /\ seen.chunks = a.chunks /\ seen.shape = a.shape /\ seen.shards = a.shards
             /\ scope \o ChunkPrefix(seen) = ChunkPrefix(a)
<1> DEFINE seen == Relative(a, scope)
<1>1. IsListing(Arrays)
  BY ArraysAssumption
<1>2. a \in ArrayFields /\ a.path \in Paths
  <2>1. \A i \in DOMAIN Arrays : Arrays[i] \in ArrayFields
    BY <1>1 DEF IsListing
  <2>2. a \in ArrayFields
    BY <2>1, Zenon DEF Range
  <2>3. a.path \in Paths
    BY <1>1, ChunkPrefixType
  <2> QED
    BY <2>2, <2>3
<1>3. /\ Below(scope, a.path) \in Paths
      /\ scope \o Below(scope, a.path) = a.path
  BY <1>2, BelowRestores DEF Paths
<1>4. Below(scope, a.path) \in Seq(STRING)
  BY <1>3, PathsAreStrings
<1>5. a.coordinate \in BOOLEAN
  BY <1>2 DEF ArrayFields
<1>6. (a.coordinate /\ a.path # scope) \in BOOLEAN
  OBVIOUS
<1>7. /\ seen \in ArrayFields
      /\ seen.path = Below(scope, a.path) /\ seen.encoding = a.encoding
      /\ seen.chunks = a.chunks /\ seen.shape = a.shape /\ seen.shards = a.shards
  BY <1>2, <1>4, <1>6 DEF Relative, ArrayFields
<1> HIDE DEF seen
<1>8. scope \o Append(seen.path, "c") = Append(a.path, "c")
  <2>1. "c" \in DOMAIN Words
    BY WordsAssumption
  <2>2. scope \in Seq(DOMAIN Words) /\ seen.path \in Seq(DOMAIN Words)
    BY <1>3, <1>7 DEF Paths
  <2>3. scope \o Append(seen.path, "c") = Append(scope \o seen.path, "c")
    BY <2>1, <2>2, AppendAfter
  <2> QED
    BY <1>3, <1>7, <2>3
<1>9. scope \o ChunkPrefix(seen) = ChunkPrefix(a)
  BY <1>3, <1>7, <1>8 DEF ChunkPrefix
<1> QED
  BY <1>3, <1>7, <1>9 DEF seen

\* The arrays that a run on a scope lists.
Listable(a, scope) ==
    a.path \in written /\ IsPrefix(scope, a.path) /\ ~Excluded(Below(scope, a.path))

\* What a run lists is a listing, of arrays that are nodes, and all of them.
LEMMA ListedIsListing ==
  ASSUME NEW scope \in Paths
  PROVE  /\ IsListing(ListedUnder(scope))
         /\ {scope \o a.path : a \in Range(ListedUnder(scope))} \subseteq Nodes
         /\ \A x \in Range(ListedUnder(scope)) :
               \E a \in Range(Arrays) : Listable(a, scope) /\ x = Relative(a, scope)
         /\ \A a \in Range(Arrays) :
               Listable(a, scope) => Relative(a, scope) \in Range(ListedUnder(scope))
<1> DEFINE members == {a \in Range(Arrays) : /\ a.path \in written
                                             /\ IsPrefix(scope, a.path)
                                             /\ ~Excluded(Below(scope, a.path))}
           here == Kept(Arrays, members)
           listing == ListedUnder(scope)
<1>1. IsListing(Arrays) /\ Arrays \in Seq(ArrayFields)
  BY ArraysAssumption DEF IsListing
<1>2. \A i, j \in DOMAIN Arrays : Arrays[i] = Arrays[j] => i = j
  BY <1>1 DEF IsListing
<1>3. listing = [i \in DOMAIN here |-> Relative(here[i], scope)]
  BY DEF ListedUnder
<1> HIDE DEF listing
<1>4. /\ here \in Seq(ArrayFields)
      /\ \A i \in DOMAIN here : here[i] \in members
      /\ \A i, j \in DOMAIN here : here[i] = here[j] => i = j
      /\ \A a \in Range(Arrays) \cap members : \E i \in DOMAIN here : here[i] = a
  <2> HIDE DEF members
  <2> QED
    BY <1>1, <1>2, KeptResult
<1> HIDE DEF here
<1>5. /\ \A i \in DOMAIN here : /\ here[i] \in Range(Arrays) /\ IsPrefix(scope, here[i].path)
                                 /\ Listable(here[i], scope)
      /\ \A a \in Range(Arrays) : Listable(a, scope) => \E i \in DOMAIN here : here[i] = a
  BY <1>4 DEF Listable
<1> HIDE DEF members
<1>6. ASSUME NEW i \in DOMAIN here
      PROVE  /\ listing[i] \in ArrayFields
             /\ listing[i].path \in Paths /\ scope \o listing[i].path = here[i].path
             /\ listing[i].chunks = here[i].chunks /\ listing[i].shape = here[i].shape
             /\ listing[i].shards = here[i].shards
             /\ scope \o ChunkPrefix(listing[i]) = ChunkPrefix(here[i])
  <2>1. listing[i] = Relative(here[i], scope)
    BY <1>3
  <2> QED
    BY <1>5, <2>1, SeenArray
<1>7. DOMAIN here = 1..Len(here) /\ Len(here) \in Nat /\ DOMAIN listing = DOMAIN here
  BY <1>3, <1>4
<1>8. listing \in Seq(ArrayFields)
  <2>1. \A i \in 1..Len(here) : Relative(here[i], scope) \in ArrayFields
    BY <1>3, <1>6, <1>7
  <2> QED
    BY <1>3, <1>7, <2>1
<1>9. ASSUME NEW a \in Range(listing)
      PROVE  /\ a.path \in Seq(DOMAIN Words)
             /\ Len(a.chunks) = Len(a.shape)
             /\ a.shards # <<>> => Len(a.shards) = Len(a.shape)
             /\ scope \o a.path \in Nodes
  <2>1. PICK i \in DOMAIN here : a = listing[i]
    BY <1>7 DEF Range
  <2>2. /\ here[i] \in Range(Arrays) /\ here[i].path \in Nodes
        /\ Len(here[i].chunks) = Len(here[i].shape)
        /\ here[i].shards # <<>> => Len(here[i].shards) = Len(here[i].shape)
    BY <1>1, <1>5, ArraysAssumption DEF IsListing
  <2> QED
    BY <1>6, <2>1, <2>2 DEF Paths
<1>10. ASSUME NEW i \in DOMAIN listing, NEW j \in DOMAIN listing,
              ChunkPrefix(listing[i]) = ChunkPrefix(listing[j])
       PROVE  i = j
  <2>1. ChunkPrefix(here[i]) = ChunkPrefix(here[j])
    BY <1>6, <1>7, <1>10
  <2>2. here[i] = here[j]
    BY <1>1, <1>5, <1>7, <2>1, ChunkPrefixIdentifies
  <2> QED
    BY <1>4, <1>7, <2>2
<1>11. IsListing(listing)
  BY <1>8, <1>9, <1>10 DEF IsListing
<1>12. \A x \in Range(listing) :
         \E a \in Range(Arrays) : Listable(a, scope) /\ x = Relative(a, scope)
  BY <1>3, <1>5 DEF Range
<1>13. ASSUME NEW a \in Range(Arrays), Listable(a, scope)
       PROVE  Relative(a, scope) \in Range(listing)
  <2>1. PICK i \in DOMAIN here : here[i] = a
    BY <1>5, <1>13
  <2>2. i \in DOMAIN listing /\ listing[i] = Relative(a, scope)
    BY <1>3, <1>7, <2>1
  <2> QED
    BY <2>2 DEF Range
<1> QED
  BY <1>9, <1>11, <1>12, <1>13 DEF listing

----------------------------------------------------------------------------
(* The inductive invariant *)

\* Objects that a run or an operator may leave at a scope's location.
StoredObjects ==
    {Unreadable} \cup
    {o \in [scope: Nodes \cup {NoScope}, body: ManifestFields] : SoundBlobs(o.body.blobs)}

\* What a reload takes over.
Entries ==
    {l \in [at: Nodes, scope: Nodes, manifest: ManifestFields] :
        l.scope = l.at /\ SoundBlobs(l.manifest.blobs)}

Scans == [pc: {"idle", "walk", "list", "partition"}, known: SUBSET Nodes,
          frontier: SUBSET Seq(STRING), at: Seq(STRING)]
Loads == [pc: {"idle", "read"}, names: SUBSET Nodes, got: SUBSET Entries]
Notes == [found: SUBSET Nodes, epochs: [Nodes -> Int]]

Typed ==
    /\ written \in SUBSET Nodes /\ deleted \in SUBSET Nodes /\ recut \in SUBSET Nodes
    /\ catalog \in [Nodes -> StoredObjects] /\ listed \in [Nodes -> SUBSET Nodes]
    /\ scan \in Scans /\ load \in Loads /\ noted \in Notes
    /\ Range(index) \subseteq Entries

\* The store is partitioned, or was before its manifest was deleted.
Done(root) == \E s \in Nodes : IsPrefix(s, root) /\ (Present(s) \/ s \in deleted)

\* The stores a scan is to find, of those there when it began.
Wanted(root) ==
    /\ \E n \in noted.found : root = FindStoreRoot(noted.found, n)
    /\ IsPrefix(Root, root) /\ ~Excluded(root) /\ Depth(root) <= MaxDepth

\* The scan still has a way to it.
Ahead(root) ==
    \/ \E p \in scan.frontier : IsPrefix(p, root)
    \/ scan.pc = "list" /\ IsStrictPrefix(scan.at, root)
    \/ scan.pc = "partition" /\ IsPrefix(scan.at, root)

Scanning ==
    /\ noted.found \subseteq written
    /\ scan.pc = "idle" => noted.found = {}
    /\ \A s \in scan.known : Present(s) \/ s \in deleted
    /\ \A p \in scan.frontier : IsPrefix(Root, p) /\ Depth(p) <= MaxDepth
    /\ scan.pc = "list" => IsPrefix(Root, scan.at) /\ Depth(scan.at) < MaxDepth
    /\ scan.pc = "partition" => scan.at \in written
    /\ \A root \in noted.found : Wanted(root) => Done(root) \/ Ahead(root)

\* The manifest of s as it was when the reload began, or a later one, unless the epochs
\* of s began anew.
Recent(s, m) == s \in recut \/ m.epoch >= noted.epochs[s]

Reading ==
    /\ IsFiniteSet(load.got)
    /\ \A l, k \in load.got : l.at = k.at => l = k
    /\ \A l \in load.got : l.at \notin load.names
    /\ load.pc = "read" => \A s \in Nodes \ deleted : noted.epochs[s] > 0 =>
          \/ /\ s \in load.names /\ Present(s)
             /\ catalog[s] # Unreadable => catalog[s].scope = s /\ Recent(s, catalog[s].body)
          \/ \E l \in load.got : l.at = s /\ Recent(s, l.manifest)

\* A later manifest has the blobs of an earlier one, and others that claim nothing below.
Extends(old, new) ==
    /\ old.blobs \subseteq new.blobs
    /\ \A p \in PrefixesOf(old.blobs), q \in PrefixesOf(new.blobs \ old.blobs) : ~IsPrefix(p, q)

\* The manifest of s, unless damaged, is m or a later one.
Later(s, m) ==
    \/ catalog[s] = Unreadable
    \/ Present(s) /\ catalog[s].scope = s /\ Extends(m, catalog[s].body)

\* Whatever the service and a reload under way hold, the bucket has it, or a later one,
\* where the cut was not begun anew.
Following ==
    /\ index \in Seq(Entries)
    /\ \A i, j \in DOMAIN index : index[i].at = index[j].at => i = j
    /\ \A l \in load.got \cup Range(index) : l.at \in deleted \cup recut \/ Later(l.at, l.manifest)

\* Every bucket of a manifest made for a scope numbers the chunks of an array.
Numbered(scope, m) ==
    \A b \in m.blobs : IsBucketed(b) =>
        \E a \in Range(Arrays) :
            /\ \A p \in Range(b.prefixes) : scope \o p = ChunkPrefix(a)
            /\ b.bucket.encoding = a.encoding /\ b.bucket.index = 0

\* The manifest of s holds the array back by name or claims it.
Seen(a, s) ==
    \/ Below(s, a.path) \in catalog[s].body.hot
    \/ Claimed(Relative(a, s), catalog[s].body.blobs)

\* A manifest has a place for every array that the runs on its scope saw and were not to
\* hold back, whatever it was made for; the next run will list the array again, so that it
\* has a place also in what a forced run or one with another policy makes.  The buckets of
\* a manifest number what they claim, unless a run took it for its own when it was another
\* store's.
SeeingAt(s) ==
    /\ ~Present(s) => listed[s] = {}
    /\ \A a \in Range(Arrays) : a.path \in listed[s] => Listable(a, s)
    /\ Present(s) /\ catalog[s] # Unreadable =>
          /\ catalog[s].body.epoch # 0 /\ catalog[s].body.pinned = {}
          /\ catalog[s].scope \notin adopted => Numbered(catalog[s].scope, catalog[s].body)
          /\ \A a \in Range(Arrays) : a.path \in listed[s] => Seen(a, s)

Seeing == \A s \in Nodes : SeeingAt(s)

IInv == Typed /\ Scanning /\ Reading /\ Following /\ Seeing

LEMMA NodesArePaths == Nodes \subseteq Paths /\ Nodes \subseteq Seq(STRING)
  BY NodesAssumption, PathsAreStrings DEF Paths

LEMMA KnownObjects ==
  /\ Absent \in StoredObjects /\ Unreadable \in StoredObjects
  /\ Absent # Unreadable
  /\ Absent.body.epoch = 0 /\ SoundManifest(Absent.body)
  /\ \A o \in StoredObjects \ {Unreadable} :
        /\ o.body.epoch \in Nat /\ SoundManifest(o.body)
        /\ o.body.epoch # 0 => o # Absent
<1>1. SoundManifest(Nothing) /\ Nothing.epoch = 0
  BY NothingIsSound, NothingIsSoundManifest
<1>2. Absent.body = Nothing
  BY DEF Absent
<1>3. Absent \in StoredObjects
  BY <1>1 DEF Absent, StoredObjects, SoundManifest
<1>4. Unreadable \in StoredObjects
  BY DEF StoredObjects
<1>5. Unreadable.body.epoch = -1
  BY DEF Unreadable, Nothing
<1>6. \A o \in StoredObjects \ {Unreadable} :
        /\ o.body.epoch \in Nat /\ SoundManifest(o.body)
        /\ o.body.epoch # 0 => o # Absent
  BY <1>1, <1>2 DEF StoredObjects, SoundManifest, ManifestFields
<1> QED
  BY <1>1, <1>2, <1>3, <1>4, <1>5, <1>6

\* What a partition run does to the manifests and to the ghosts.
LEMMA RunResult ==
  ASSUME Numerals(Nat), Typed, NEW scope \in Nodes, NEW given \in PolicyFields,
         NEW force \in BOOLEAN, Run(scope, given, force)
  PROVE  /\ catalog' \in [Nodes -> StoredObjects] /\ listed' \in [Nodes -> SUBSET Nodes]
         /\ recut' \in SUBSET Nodes /\ recut \subseteq recut'
         /\ \A s \in Nodes : s # scope => catalog'[s] = catalog[s]
         /\ Present(scope)'
         /\ \/ catalog'[scope] = catalog[scope]
            \/ ~Present(scope)
            \/ /\ catalog[scope] # Unreadable
               /\ catalog'[scope].scope = scope
               /\ \/ scope \in recut'
                  \/ /\ catalog'[scope].body.epoch >= catalog[scope].body.epoch
                     /\ Extends(catalog[scope].body, catalog'[scope].body)
<1> DEFINE previous == catalog[scope].body
           base == IF force THEN Nothing ELSE previous
           listing == ListedUnder(scope)
           computed == PartitionScope(listing, given, base)
           next == IF Exists(previous) THEN Bumped(computed) ELSE computed
           policy == EffectivePolicy(given, base)
           stored == [scope |-> scope, body |-> next]
           seen == {scope \o a.path : a \in {x \in Range(listing) : ~HeldHot(x, computed.policy)}}
           unchanged == Exists(previous) /\ IsEmpty(Diff(previous, computed))
<1>1. /\ scope \in Paths /\ recut \in SUBSET Nodes
      /\ catalog \in [Nodes -> StoredObjects] /\ listed \in [Nodes -> SUBSET Nodes]
  BY NodesArePaths DEF Typed
<1>2. catalog[scope] # Unreadable /\ catalog[scope] \in StoredObjects
  BY <1>1 DEF Run, Raises
<1>3. /\ previous \in ManifestFields /\ SoundBlobs(previous.blobs)
      /\ previous.epoch \in Nat /\ (previous.epoch # 0 => catalog[scope] # Absent)
  BY <1>2, KnownObjects DEF SoundManifest
<1>4. IsListing(listing) /\ {scope \o a.path : a \in Range(listing)} \subseteq Nodes
  BY <1>1, ListedIsListing
<1>5. seen \subseteq Nodes
  BY <1>4
<1>6. /\ catalog' = IF unchanged THEN catalog ELSE [catalog EXCEPT ![scope] = stored]
      /\ listed' = [listed EXCEPT ![scope] = @ \cup seen]
      /\ recut' = IF force THEN recut \cup {s \in {scope} : Present(s) /\ catalog' # catalog}
                  ELSE recut
  BY DEF Run, Lists
<1> HIDE DEF previous, listing
<1>7. base \in ManifestFields /\ SoundBlobs(base.blobs) /\ base.epoch \in Nat
  BY <1>3, NothingIsSound
<1> HIDE DEF base
<1>8. /\ computed \in ManifestFields /\ SoundBlobs(computed.blobs)
      /\ computed.epoch = IF Exists(base) THEN base.epoch ELSE 1
      /\ computed.blobs = base.blobs \cup NewBlobs(listing, policy, base)
  BY <1>4, <1>7, ComputedIsSound
<1>9. policy \in PolicyFields
  <2>1. base.policy \in PolicyFields
    BY <1>7 DEF ManifestFields
  <2> QED
    BY <2>1, EffectivePolicyType
<1> HIDE DEF policy
<1>10. Extends(base, computed)
  <2> DEFINE new == NewBlobs(listing, policy, base)
  <2>1. \A p \in PrefixesOf(base.blobs), q \in PrefixesOf(new) : ~IsPrefix(p, q)
    BY <1>4, <1>7, <1>9, NewPrefixesAreUnclaimed
  <2>2. computed.blobs = base.blobs \cup new
    BY <1>8
  <2> HIDE DEF new, computed
  <2>3. \A q \in PrefixesOf(computed.blobs \ base.blobs) : q \in PrefixesOf(new)
    BY <2>2 DEF PrefixesOf
  <2> QED
    BY <2>1, <2>2, <2>3 DEF Extends
<1> HIDE DEF computed, seen
<1>11. /\ Bumped(computed) \in ManifestFields
       /\ Bumped(computed).epoch = computed.epoch + 1 /\ Bumped(computed).blobs = computed.blobs
  BY <1>8, BumpedType
<1>12. /\ next \in ManifestFields /\ SoundBlobs(next.blobs) /\ next.blobs = computed.blobs
       /\ next.epoch # 0 /\ next.epoch >= computed.epoch
  <2>1. computed.epoch \in Nat /\ computed.epoch # 0
    BY <1>7, <1>8 DEF Exists
  <2>2. next = Bumped(computed) \/ next = computed
    OBVIOUS
  <2> HIDE DEF next
  <2>3. /\ next \in ManifestFields /\ SoundBlobs(next.blobs) /\ next.blobs = computed.blobs
        /\ next.epoch = computed.epoch \/ next.epoch = computed.epoch + 1
    BY <1>8, <1>11, <2>2, Zenon
  <2> QED
    BY <2>1, <2>3
<1>13. ASSUME ~force
       PROVE  next.epoch >= previous.epoch /\ Extends(previous, next)
  <2>1. base = previous
    BY <1>13 DEF base
  <2>2. next.epoch >= previous.epoch
    BY <1>3, <1>8, <1>12, <2>1 DEF Exists, ManifestFields
  <2> QED
    BY <1>10, <1>12, <2>1, <2>2 DEF Extends
<1> HIDE DEF next
<1>14. /\ stored \in StoredObjects /\ stored # Absent
       /\ stored.scope = scope /\ stored.body = next
  BY <1>1, <1>12, KnownObjects DEF StoredObjects
<1> HIDE DEF stored, unchanged
<1>15. listed' \in [Nodes -> SUBSET Nodes]
  BY <1>1, <1>5, <1>6
<1>16. recut' \in SUBSET Nodes /\ recut \subseteq recut'
  BY <1>1, <1>6
<1>17. CASE unchanged
  BY <1>1, <1>3, <1>6, <1>15, <1>16, <1>17 DEF unchanged, Exists, Present, Absent
<1>18. CASE ~unchanged
  <2>1. catalog' = [catalog EXCEPT ![scope] = stored]
    BY <1>6, <1>18
  <2>2. /\ catalog' \in [Nodes -> StoredObjects] /\ catalog'[scope] = stored
        /\ \A s \in Nodes : s # scope => catalog'[s] = catalog[s]
    BY <1>1, <1>14, <2>1
  <2>3. Present(scope)'
    BY <1>14, <2>2 DEF Present, Absent
  <2>4. CASE force /\ Present(scope) /\ catalog'[scope] # catalog[scope]
    <3>1. scope \in recut'
      BY <1>6, <2>4
    <3> QED
      BY <1>2, <1>14, <1>15, <1>16, <2>2, <2>3, <3>1
  <2>5. CASE ~force
    BY <1>2, <1>13, <1>14, <1>15, <1>16, <2>2, <2>3, <2>5 DEF previous
  <2> QED
    BY <1>15, <1>16, <2>2, <2>3, <2>4, <2>5
<1> QED
  BY <1>17, <1>18

LEMMA NoPolicyType == NoPolicy \in PolicyFields
  BY DEF NoPolicy, PolicyFields

\* The climb from a node of a set ends at a node of the set.
LEMMA TargetFound ==
  ASSUME NEW found \in SUBSET Seq(STRING), NEW n \in found
  PROVE  FindStoreRoot(found, n) \in found
<1>1. CASE n # NoScope
  BY <1>1, RootFound
<1>2. CASE n = NoScope
  <2>1. \A p \in Seq(STRING) : IsPrefix(p, <<>>) => p = <<>>
    <3>1. \A p \in Seq(STRING) : Len(p) <= 0 => p = <<>>
      BY EmptySeq
    <3> QED
      BY <3>1 DEF IsPrefix
  <2>2. {p \in found : p # <<>> /\ IsPrefix(p, n)} = {}
    BY <1>2, <2>1 DEF NoScope
  <2> QED
    BY <1>2, <2>2 DEF FindStoreRoot
<1> QED
  BY <1>1, <1>2

\* Every run is one on a node, with a policy or none, forced or not.
Runs(scope, given, force) ==
    /\ Run(scope, given, force) /\ UNCHANGED <<written, deleted>>
    /\ given \in PolicyFields /\ force \in BOOLEAN

\* The scopes that may be handed over are nodes with metadata.
LEMMA RunsAreRuns ==
  ASSUME Typed, Scanning,
         \/ Partition \/ PartitionFound
         \/ \E s \in Nodes, given \in Policies, force \in BOOLEAN : PartitionByHand(s, given, force)
  PROVE  \E scope \in Nodes, given \in PolicyFields, force \in BOOLEAN : Runs(scope, given, force)
<1>1. written \in SUBSET Seq(STRING) /\ written \in SUBSET Nodes
  BY NodesArePaths DEF Typed
<1>2. CASE Partition
  <2>1. PICK scope \in {FindStoreRoot(written, n) : n \in written} : Run(scope, NoPolicy, FALSE)
    BY <1>2 DEF Partition
  <2>2. scope \in Nodes
    BY <1>1, TargetFound
  <2>3. UNCHANGED <<written, deleted>>
    BY <1>2 DEF Partition
  <2>4. Runs(scope, NoPolicy, FALSE)
    BY <2>1, <2>3, NoPolicyType DEF Runs
  <2> QED
    BY <2>2, <2>4, NoPolicyType
<1>3. CASE PartitionFound
  <2>1. Runs(scan.at, NoPolicy, FALSE) /\ scan.at \in Nodes
    BY <1>1, <1>3, NoPolicyType DEF PartitionFound, Scanning, Runs
  <2> QED
    BY <2>1, NoPolicyType
<1>4. CASE \E s \in Nodes, given \in Policies, force \in BOOLEAN : PartitionByHand(s, given, force)
  <2>1. PICK s \in Nodes, given \in Policies, force \in BOOLEAN : PartitionByHand(s, given, force)
    BY <1>4
  <2>2. Runs(s, given, force)
    BY <2>1, PoliciesAssumption DEF PartitionByHand, Runs
  <2> QED
    BY <2>2, PoliciesAssumption
<1> QED
  BY <1>2, <1>3, <1>4

----------------------------------------------------------------------------
(* What every step does to the manifests *)

\* A manifest stays or is deleted; it is kept, damaged or followed by one for its scope,
\* which is a later one unless the run was forced.
Advances ==
    /\ written \subseteq written' /\ deleted \subseteq deleted' /\ recut \subseteq recut'
    /\ \A s \in Nodes :
          /\ Present(s) => Present(s)' \/ s \in deleted'
          /\ \/ s \in deleted'
             \/ ~Present(s)
             \/ catalog'[s] \in {catalog[s], Unreadable}
             \/ /\ catalog[s] # Unreadable
                /\ catalog'[s].scope = s
                /\ \/ s \in recut'
                   \/ /\ catalog'[s].body.epoch >= catalog[s].body.epoch
                      /\ Extends(catalog[s].body, catalog'[s].body)

LEMMA StoreSteps ==
  ASSUME Numerals(Nat), Typed,
         \/ \E n \in Nodes : Write(n) \/ Delete(n) \/ Damage(n)
         \/ \E scope \in Nodes, given \in PolicyFields, force \in BOOLEAN : Runs(scope, given, force)
         \/ \E s, to \in Nodes : Misplace(s, to)
  PROVE  /\ written' \in SUBSET Nodes /\ deleted' \in SUBSET Nodes /\ recut' \in SUBSET Nodes
         /\ catalog' \in [Nodes -> StoredObjects] /\ listed' \in [Nodes -> SUBSET Nodes]
         /\ Advances
<1>0. /\ written \in SUBSET Nodes /\ deleted \in SUBSET Nodes /\ recut \in SUBSET Nodes
      /\ catalog \in [Nodes -> StoredObjects] /\ listed \in [Nodes -> SUBSET Nodes]
      /\ Absent \in StoredObjects /\ Unreadable \in StoredObjects /\ Unreadable # Absent
  BY KnownObjects DEF Typed
<1>1. ASSUME NEW n \in Nodes, Write(n)
      PROVE  /\ written' \in SUBSET Nodes /\ deleted' \in SUBSET Nodes /\ recut' \in SUBSET Nodes
             /\ catalog' \in [Nodes -> StoredObjects] /\ listed' \in [Nodes -> SUBSET Nodes]
             /\ Advances
  BY <1>0, <1>1 DEF Write, Advances, Present, Absent
<1>2. ASSUME NEW n \in Nodes, Delete(n)
      PROVE  /\ written' \in SUBSET Nodes /\ deleted' \in SUBSET Nodes /\ recut' \in SUBSET Nodes
             /\ catalog' \in [Nodes -> StoredObjects] /\ listed' \in [Nodes -> SUBSET Nodes]
             /\ Advances
  <2>1. /\ catalog' = [catalog EXCEPT ![n] = Absent] /\ written' = written
        /\ deleted' = deleted \cup {n} /\ listed' = [listed EXCEPT ![n] = {}]
        /\ recut' = recut
    BY <1>2 DEF Delete
  <2>2. \A s \in Nodes : s # n => catalog'[s] = catalog[s]
    BY <1>0, <2>1
  <2>3. Advances
    BY <2>1, <2>2 DEF Advances, Present, Absent
  <2>4. catalog' \in [Nodes -> StoredObjects]
    BY <1>0, <2>1
  <2> QED
    BY <1>0, <2>1, <2>3, <2>4
<1>3. ASSUME NEW n \in Nodes, Damage(n)
      PROVE  /\ written' \in SUBSET Nodes /\ deleted' \in SUBSET Nodes /\ recut' \in SUBSET Nodes
             /\ catalog' \in [Nodes -> StoredObjects] /\ listed' \in [Nodes -> SUBSET Nodes]
             /\ Advances
  <2>1. /\ catalog' = [catalog EXCEPT ![n] = Unreadable]
        /\ UNCHANGED <<written, deleted, listed, recut>>
    BY <1>3 DEF Damage
  <2>2. \A s \in Nodes : catalog'[s] \in {catalog[s], Unreadable}
    BY <1>0, <2>1
  <2>3. Advances
    BY <1>0, <2>1, <2>2 DEF Advances, Present, Absent
  <2> QED
    BY <1>0, <2>1, <2>3
<1>4. ASSUME NEW scope \in Nodes, NEW given \in PolicyFields, NEW force \in BOOLEAN,
             Runs(scope, given, force)
      PROVE  /\ written' \in SUBSET Nodes /\ deleted' \in SUBSET Nodes /\ recut' \in SUBSET Nodes
             /\ catalog' \in [Nodes -> StoredObjects] /\ listed' \in [Nodes -> SUBSET Nodes]
             /\ Advances
  <2>0. Run(scope, given, force) /\ UNCHANGED <<written, deleted>>
    BY <1>4 DEF Runs
  <2>1. /\ catalog' \in [Nodes -> StoredObjects] /\ listed' \in [Nodes -> SUBSET Nodes]
        /\ recut' \in SUBSET Nodes /\ recut \subseteq recut'
        /\ \A s \in Nodes : s # scope => catalog'[s] = catalog[s]
        /\ Present(scope)'
        /\ \/ catalog'[scope] = catalog[scope]
           \/ ~Present(scope)
           \/ /\ catalog[scope] # Unreadable
              /\ catalog'[scope].scope = scope
              /\ \/ scope \in recut'
                 \/ /\ catalog'[scope].body.epoch >= catalog[scope].body.epoch
                    /\ Extends(catalog[scope].body, catalog'[scope].body)
    BY <2>0, RunResult
  <2>2. Advances
    <3>1. \A s \in Nodes : s # scope => (Present(s) => Present(s)')
      BY <2>1 DEF Present, Absent
    <3> QED
      BY <2>0, <2>1, <3>1 DEF Advances
  <2> QED
    BY <1>0, <2>0, <2>1, <2>2
<1>5. ASSUME NEW s \in Nodes, NEW to \in Nodes, Misplace(s, to)
      PROVE  /\ written' \in SUBSET Nodes /\ deleted' \in SUBSET Nodes /\ recut' \in SUBSET Nodes
             /\ catalog' \in [Nodes -> StoredObjects] /\ listed' \in [Nodes -> SUBSET Nodes]
             /\ Advances
  <2>1. /\ catalog' = [catalog EXCEPT ![to] = catalog[s]] /\ ~Present(to) /\ Present(s)
        /\ UNCHANGED <<written, deleted, listed, recut>>
    BY <1>5 DEF Misplace
  <2>2. \A n \in Nodes : n # to => catalog'[n] = catalog[n]
    BY <1>0, <2>1
  <2>3. Advances
    BY <1>0, <2>1, <2>2 DEF Advances, Present, Absent
  <2>4. catalog' \in [Nodes -> StoredObjects]
    BY <1>0, <2>1
  <2> QED
    BY <1>0, <2>1, <2>3, <2>4
<1> QED
  BY <1>1, <1>2, <1>3, <1>4, <1>5

LEMMA AdvancesInPlace ==
  ASSUME UNCHANGED storeVars
  PROVE  Advances
  BY DEF storeVars, Advances, Present, Absent

----------------------------------------------------------------------------
(* Types *)

\* The place of a manifest in the order of a LIST, among those that were read.
Place(got, l) == Cardinality({k \in got : Rank[k.at] <= Rank[l.at]})

\* load_all returns every manifest it took over, each once.
LEMMA ListOrder ==
  ASSUME NEW got \in SUBSET Entries, IsFiniteSet(got),
         \A l, k \in got : l.at = k.at => l = k
  PROVE  /\ InListOrder(got) \in Seq(got)
         /\ \A l \in got : \E i \in 1..Len(InListOrder(got)) : InListOrder(got)[i] = l
         /\ \A i, j \in 1..Len(InListOrder(got)) :
               InListOrder(got)[i] = InListOrder(got)[j] => i = j
<1> DEFINE n == Cardinality(got)
           upto(l) == {k \in got : Rank[k.at] <= Rank[l.at]}
           place == [l \in got |-> Place(got, l)]
           order == InListOrder(got)
<1>1. n \in Nat
  BY FS_CardinalityType
<1>2. \A l \in got : l.at \in Nodes /\ Rank[l.at] \in Nat
  BY NodesAssumption DEF Entries
<1>3. \A l \in got : upto(l) \in SUBSET got /\ l \in upto(l) /\ IsFiniteSet(upto(l))
  <2>1. \A l \in got : upto(l) \in SUBSET got /\ l \in upto(l)
    BY <1>2
  <2> HIDE DEF upto
  <2> QED
    BY <2>1, FS_Subset
<1>4. \A l \in got : Place(got, l) = Cardinality(upto(l))
  BY DEF Place
<1>5. ASSUME NEW l \in got
      PROVE  Place(got, l) \in 1..n
  <2> HIDE DEF upto
  <2>1. Cardinality(upto(l)) \in Nat /\ Cardinality(upto(l)) <= n
    BY <1>3, FS_CardinalityType, FS_Subset
  <2>2. Cardinality(upto(l)) # 0
    BY <1>3, FS_EmptySet
  <2> QED
    BY <1>1, <1>4, <2>1, <2>2
<1>6. ASSUME NEW l \in got, NEW k \in got, Rank[l.at] < Rank[k.at]
      PROVE  Place(got, l) # Place(got, k)
  <2>1. upto(l) \in SUBSET upto(k) /\ k \in upto(k) /\ k \notin upto(l)
    BY <1>2, <1>6
  <2> HIDE DEF upto
  <2>2. Cardinality(upto(l)) # Cardinality(upto(k))
    BY <1>3, <2>1, FS_Subset
  <2> QED
    BY <1>4, <2>2
<1>7. ASSUME NEW l \in got, NEW k \in got, Place(got, l) = Place(got, k)
      PROVE  l = k
  <2>1. ~ (Rank[l.at] < Rank[k.at]) /\ ~ (Rank[k.at] < Rank[l.at])
    BY <1>6, <1>7
  <2>2. Rank[l.at] = Rank[k.at]
    BY <1>2, <2>1
  <2> QED
    BY <1>2, <2>2, NodesAssumption
<1>8. place \in Injection(got, 1..n)
  BY <1>5, <1>7 DEF Injection, IsInjective
<1>9. \A i \in 1..n : \E l \in got : Place(got, l) = i
  <2>1. IsFiniteSet(1..n) /\ Cardinality(1..n) = n
    BY <1>1, FS_Interval
  <2>2. place \in Surjection(got, 1..n)
    <3> HIDE DEF place
    <3> QED
      BY <1>8, <2>1, FS_Injection
  <2> QED
    BY <2>2 DEF Surjection
<1>10. order = [i \in 1..n |-> CHOOSE l \in got : Place(got, l) = i]
  BY DEF InListOrder, Place
<1>11. \A i \in 1..n : order[i] \in got /\ Place(got, order[i]) = i
  <2> HIDE DEF order
  <2> QED
    BY <1>9, <1>10
<1>12. order \in Seq(got) /\ Len(order) = n
  <2> HIDE DEF order
  <2> QED
    BY <1>1, <1>10, <1>11
<1>13. \A l \in got : order[Place(got, l)] = l
  BY <1>5, <1>7, <1>11
<1> HIDE DEF order
<1>14. /\ \A l \in got : \E i \in 1..Len(order) : order[i] = l
       /\ \A i, j \in 1..Len(order) : order[i] = order[j] => i = j
  BY <1>5, <1>11, <1>12, <1>13
<1> QED
  BY <1>12, <1>14 DEF order

\* Every step advances the manifests or leaves them.
LEMMA EveryStepAdvances ==
  ASSUME Numerals(Nat), Typed, Scanning, Next
  PROVE  /\ written' \in SUBSET Nodes /\ deleted' \in SUBSET Nodes /\ recut' \in SUBSET Nodes
         /\ catalog' \in [Nodes -> StoredObjects] /\ listed' \in [Nodes -> SUBSET Nodes]
         /\ Advances
<1>1. CASE \E n \in Nodes : Write(n) \/ Delete(n) \/ Damage(n)
  BY <1>1, StoreSteps
<1>2. CASE \/ Partition \/ PartitionFound
           \/ \E s \in Nodes, given \in Policies, force \in BOOLEAN : PartitionByHand(s, given, force)
  BY <1>2, RunsAreRuns, StoreSteps
<1>3. CASE \E s, to \in Nodes : Misplace(s, to)
  BY <1>3, StoreSteps
<1>4. CASE UNCHANGED storeVars
  <2>1. Advances
    BY <1>4, AdvancesInPlace
  <2> QED
    BY <1>4, <2>1 DEF storeVars, Typed
<1> QED
  BY <1>1, <1>2, <1>3, <1>4
     DEF Next, storeVars, StartScan, Visit, ListChildren, AbortScan, FinishScan,
         StartReload, ReadManifest, FailReload, Rebind

\* What the scan, the reload and their notes hold stays of its type.
LEMMA TypedPreserved ==
  ASSUME Numerals(Nat), IInv, Next
  PROVE  Typed'
<1>1. /\ written' \in SUBSET Nodes /\ deleted' \in SUBSET Nodes /\ recut' \in SUBSET Nodes
      /\ catalog' \in [Nodes -> StoredObjects] /\ listed' \in [Nodes -> SUBSET Nodes]
  BY EveryStepAdvances DEF IInv
<1>2. /\ scan \in Scans /\ load \in Loads /\ noted \in Notes /\ Range(index) \subseteq Entries
      /\ written \in SUBSET Nodes /\ catalog \in [Nodes -> StoredObjects]
      /\ Nodes \subseteq Seq(STRING) /\ NoScope \in Seq(STRING) /\ Root \in Seq(STRING)
  BY NodesArePaths, RootAssumption DEF IInv, Typed, NoScope
<1>3. IdleScan \in Scans /\ IdleLoad \in Loads /\ NothingNoted.epochs \in [Nodes -> Int]
  BY <1>2 DEF IdleScan, IdleLoad, NothingNoted, Scans, Loads
<1> SUFFICES scan' \in Scans /\ load' \in Loads /\ noted' \in Notes /\ Range(index') \subseteq Entries
  BY <1>1 DEF Typed
<1>4. CASE UNCHANGED <<scan, load, index, noted>>
  BY <1>2, <1>4
<1>5. CASE StartScan
  <2>1. /\ scan' = [pc |-> "walk", known |-> {s \in Nodes : Present(s)}, frontier |-> {Root},
                    at |-> NoScope]
        /\ noted' = [noted EXCEPT !.found = written] /\ UNCHANGED <<load, index>>
    BY <1>5 DEF StartScan, IdleScan
  <2> QED
    BY <1>2, <2>1 DEF Scans, Notes
<1>6. CASE \E path \in scan.frontier : Visit(path)
  <2>1. PICK path \in scan.frontier : Visit(path)
    BY <1>6
  <2>2. UNCHANGED <<load, index, noted>>
    BY <2>1 DEF Visit
  <2>3. path \in Seq(STRING)
    BY <1>2 DEF Scans
  <2>4. scan' \in Scans
    BY <1>2, <2>1, <2>3 DEF Visit, Scans
  <2> QED
    BY <1>2, <2>2, <2>4
<1>7. CASE ListChildren
  <2>1. Children(written, scan.at) \subseteq Seq(STRING)
    <3>1. scan.at \in Seq(STRING) /\ written \subseteq Seq(STRING)
      BY <1>2 DEF Scans
    <3> QED
      BY <3>1, OneLevelDown DEF Children
  <2>2. UNCHANGED <<load, index, noted>>
    BY <1>7 DEF ListChildren
  <2>3. scan' \in Scans
    BY <1>2, <1>7, <2>1 DEF ListChildren, Scans
  <2> QED
    BY <1>2, <2>2, <2>3
<1>8. CASE PartitionFound
  BY <1>2, <1>8 DEF PartitionFound, Scans
<1>9. CASE AbortScan \/ FinishScan
  BY <1>2, <1>3, <1>9 DEF AbortScan, FinishScan, Notes
<1>10. CASE StartReload
  <2> DEFINE epochs == [s \in Nodes |-> IF catalog[s].scope = s THEN catalog[s].body.epoch ELSE 0]
  <2>1. epochs \in [Nodes -> Int]
    <3>1. \A s \in Nodes : catalog[s].body.epoch \in Int
      <4>1. Unreadable.body.epoch = -1
        BY DEF Unreadable, Nothing
      <4> QED
        BY <1>2, <4>1, KnownObjects
    <3> QED
      BY <3>1
  <2>2. load' = [pc |-> "read", names |-> {s \in Nodes : Present(s)}, got |-> {}]
    BY <1>10 DEF StartReload
  <2>3. load' \in Loads
    BY <2>2 DEF Loads
  <2>4. noted' = [noted EXCEPT !.epochs = epochs] /\ UNCHANGED <<scan, index>>
    BY <1>10 DEF StartReload
  <2> HIDE DEF epochs
  <2> QED
    BY <1>2, <2>1, <2>3, <2>4 DEF Notes
<1>11. CASE \E s \in Nodes : ReadManifest(s)
  <2>1. PICK s \in Nodes : ReadManifest(s)
    BY <1>11
  <2> DEFINE entry == [at |-> s, scope |-> catalog[s].scope, manifest |-> catalog[s].body]
  <2>2. UNCHANGED <<scan, index, noted>>
    BY <2>1 DEF ReadManifest
  <2>3. Accepted(s, catalog[s]) => entry \in Entries
    <3>1. catalog[s] # Unreadable => SoundManifest(catalog[s].body)
      BY <1>2, KnownObjects
    <3> QED
      BY <2>1, <3>1 DEF ReadManifest, Accepted, Entries, SoundManifest
  <2>4. load' = [load EXCEPT !.names = @ \ {s},
                             !.got = IF Accepted(s, catalog[s]) THEN @ \cup {entry} ELSE @]
    BY <2>1 DEF ReadManifest
  <2>5. load' \in Loads
    <3> HIDE DEF entry
    <3> QED
      BY <1>2, <2>3, <2>4 DEF Loads
  <2> QED
    BY <1>2, <2>2, <2>5
<1>12. CASE \E s \in Nodes : FailReload(s)
  BY <1>2, <1>3, <1>12 DEF FailReload, Notes
<1>13. CASE Rebind
  <2>1. /\ index' = InListOrder(load.got) /\ load' = IdleLoad /\ UNCHANGED scan
        /\ noted' = [noted EXCEPT !.epochs = NothingNoted.epochs]
    BY <1>13 DEF Rebind
  <2>2. /\ load.got \in SUBSET Entries /\ IsFiniteSet(load.got)
        /\ \A l, k \in load.got : l.at = k.at => l = k
    BY <1>2 DEF IInv, Reading, Loads
  <2>3. InListOrder(load.got) \in Seq(load.got)
    BY <2>2, ListOrder
  <2>4. Range(index') \subseteq Entries
    BY <2>1, <2>2, <2>3 DEF Range
  <2> QED
    BY <1>2, <1>3, <2>1, <2>4 DEF Notes
<1> QED
  BY <1>4, <1>5, <1>6, <1>7, <1>8, <1>9, <1>10, <1>11, <1>12, <1>13
     DEF Next, Write, Partition, PartitionByHand, Delete, Damage, Misplace

----------------------------------------------------------------------------
(* The scan *)

LEMMA DoneStays ==
  ASSUME Advances, NEW root, Done(root)
  PROVE  Done(root)'
  BY DEF Advances, Done

LEMMA KnownStays ==
  ASSUME Advances, Typed, Scanning, NEW s \in scan.known
  PROVE  Present(s)' \/ s \in deleted'
  BY DEF Advances, Typed, Scans, Scanning

\* A step that leaves the scan alone.
LEMMA ScanWaits ==
  ASSUME Typed, Scanning, Advances, scan' = scan, noted'.found = noted.found
  PROVE  Scanning'
<1>1. \A root \in noted.found : Wanted(root)' => Wanted(root)
  BY DEF Wanted
<1>2. \A root \in noted.found : Done(root) \/ Ahead(root) => Done(root)' \/ Ahead(root)'
  BY DoneStays DEF Ahead
<1>3. noted'.found \subseteq written'
  BY DEF Scanning, Advances
<1>4. \A s \in scan'.known : Present(s)' \/ s \in deleted'
  BY KnownStays
<1>5. /\ scan.pc = "idle" => noted.found = {}
      /\ \A p \in scan.frontier : IsPrefix(Root, p) /\ Depth(p) <= MaxDepth
      /\ scan.pc = "list" => IsPrefix(Root, scan.at) /\ Depth(scan.at) < MaxDepth
      /\ scan.pc = "partition" => scan.at \in written
      /\ \A root \in noted.found : Wanted(root) => Done(root) \/ Ahead(root)
  BY DEF Scanning
<1>6. \A root \in noted'.found : Wanted(root)' => Done(root)' \/ Ahead(root)'
  BY <1>1, <1>2, <1>5
<1>7. written \subseteq written'
  BY DEF Advances
<1> QED
  BY <1>3, <1>4, <1>5, <1>6, <1>7 DEF Scanning

\* What a scan is to find holds metadata and is not excluded, nor is any prefix of it.
LEMMA WantedRoot ==
  ASSUME Typed, Scanning, NEW root \in noted.found, Wanted(root)
  PROVE  /\ root \in written /\ root \in Seq(STRING)
         /\ \A p \in Seq(STRING) : IsPrefix(p, root) => ~Excluded(p)
<1>1. root \in written /\ root \in Seq(STRING)
  BY NodesArePaths DEF Typed, Scanning
<1>2. ASSUME NEW p \in Seq(STRING), IsPrefix(p, root)
      PROVE  ~Excluded(p)
  <2>1. Len(p) <= Len(root) /\ \A i \in 1..Len(p) : p[i] = root[i]
    BY <1>1, <1>2, PrefixPointwise
  <2>2. DOMAIN p = 1..Len(p) /\ DOMAIN root = 1..Len(root)
    BY <1>1
  <2>3. \A i \in DOMAIN p : i \in DOMAIN root /\ p[i] = root[i]
    BY <1>1, <2>1, <2>2
  <2>4. ~Excluded(root)
    BY DEF Wanted
  <2> QED
    BY <2>3, <2>4 DEF Excluded
<1> QED
  BY <1>1, <1>2

LEMMA ScanStarts ==
  ASSUME Typed, Scanning, StartScan
  PROVE  Scanning'
<1>1. /\ scan' = [pc |-> "walk", known |-> {s \in Nodes : Present(s)}, frontier |-> {Root},
                  at |-> NoScope]
      /\ noted' = [noted EXCEPT !.found = written] /\ UNCHANGED storeVars
  BY DEF StartScan, IdleScan
<1>2. noted'.found = written /\ written' = written
  BY <1>1 DEF Typed, Notes, storeVars
<1>3. \A s \in scan'.known : Present(s)'
  BY <1>1 DEF Present, Absent, storeVars
<1>4. IsPrefix(Root, Root) /\ Depth(Root) = 0 /\ 0 <= MaxDepth
  <2>1. Root \in Seq(STRING) /\ Len(Root) \in Nat
    BY RootAssumption
  <2> QED
    BY <2>1, MaxDepthAssumption, PrefixOfItself DEF Depth
<1>5. \A p \in scan'.frontier : IsPrefix(Root, p) /\ Depth(p) <= MaxDepth
  BY <1>1, <1>4
<1>6. ASSUME NEW root, Wanted(root)'
      PROVE  Ahead(root)'
  BY <1>1, <1>6 DEF Wanted, Ahead
<1>7. scan'.pc = "walk"
  BY <1>1
<1> QED
  BY <1>2, <1>3, <1>5, <1>6, <1>7 DEF Scanning

\* A prefix is dropped only if it is known, or nothing wanted lies below it.
LEMMA VisitKeepsTrack ==
  ASSUME Typed, Scanning, NEW path \in scan.frontier, Visit(path),
         NEW root \in noted.found, Wanted(root), IsPrefix(path, root)
  PROVE  \/ Done(root)
         \/ scan'.pc = "list" /\ IsStrictPrefix(scan'.at, root)
         \/ scan'.pc = "partition" /\ IsPrefix(scan'.at, root)
<1> DEFINE rest == [scan EXCEPT !.frontier = @ \ {path}]
           descend == Descends(written, path, Depth(path))
           candidate == ~Excluded(path) /\ path \in written \ scan.known
<1>1. path \in Seq(STRING) /\ rest \in Scans
  BY DEF Typed, Scans
<1>2. root \in written /\ root \in Seq(STRING) /\ ~Excluded(path)
  BY <1>1, WantedRoot
<1>3. \/ descend /\ scan' = [rest EXCEPT !.pc = "list", !.at = path]
      \/ candidate /\ scan' = [rest EXCEPT !.pc = "partition", !.at = path]
      \/ ~descend /\ ~candidate /\ scan' = rest
  BY DEF Visit
<1>4. CASE descend /\ scan' = [rest EXCEPT !.pc = "list", !.at = path]
  <2>1. path # root
    BY <1>2, <1>4 DEF Descends
  <2>2. scan'.pc = "list" /\ scan'.at = path
    BY <1>1, <1>4 DEF Scans
  <2> QED
    BY <2>1, <2>2 DEF IsStrictPrefix
<1>5. CASE candidate /\ scan' = [rest EXCEPT !.pc = "partition", !.at = path]
  <2>1. scan'.pc = "partition" /\ scan'.at = path
    BY <1>1, <1>5 DEF Scans
  <2> QED
    BY <2>1
<1>6. CASE ~descend /\ ~candidate
  <2>1. CASE path \in written
    <3>1. path \in scan.known
      BY <1>2, <1>6, <2>1
    <3>2. path \in Nodes /\ (Present(path) \/ path \in deleted)
      BY <3>1 DEF Typed, Scans, Scanning
    <3> QED
      BY <3>2 DEF Done
  <2>2. CASE path \notin written
    <3>1. ~ (Depth(path) < MaxDepth)
      BY <1>2, <1>6, <2>2 DEF Descends
    <3>2. Depth(path) <= MaxDepth /\ Depth(root) <= MaxDepth
      BY DEF Scanning, Wanted
    <3>3. Len(path) \in Nat /\ Len(root) \in Nat /\ Len(Root) \in Nat /\ MaxDepth \in Nat
      BY <1>1, <1>2, RootAssumption, MaxDepthAssumption
    <3>4. Len(root) <= Len(path)
      BY <3>1, <3>2, <3>3 DEF Depth
    <3>5. Len(path) = Len(root)
      BY <3>3, <3>4 DEF IsPrefix
    <3>6. IsPrefix(root, root)
      BY <1>2, PrefixOfItself
    <3>7. path = root
      BY <1>1, <1>2, <3>5, <3>6, PrefixesCompare
    <3> QED
      BY <1>2, <2>2, <3>7
  <2> QED
    BY <2>1, <2>2
<1> QED
  BY <1>3, <1>4, <1>5, <1>6

LEMMA ScanVisits ==
  ASSUME Typed, Scanning, NEW path \in scan.frontier, Visit(path)
  PROVE  Scanning'
<1> DEFINE rest == [scan EXCEPT !.frontier = @ \ {path}]
<1>0. UNCHANGED <<storeVars, noted>>
  BY DEF Visit
<1>1. /\ scan \in Scans /\ scan.pc = "walk"
      /\ \/ /\ Descends(written, path, Depth(path))
            /\ scan' = [rest EXCEPT !.pc = "list", !.at = path]
         \/ path \in written /\ scan' = [rest EXCEPT !.pc = "partition", !.at = path]
         \/ scan' = rest
  BY DEF Visit, Typed
<1>2. /\ scan'.known = scan.known /\ scan'.frontier = scan.frontier \ {path}
      /\ scan'.pc # "idle"
      /\ scan'.pc = "list" => scan'.at = path /\ Descends(written, path, Depth(path))
      /\ scan'.pc = "partition" => scan'.at = path /\ path \in written
  BY <1>1 DEF Scans
<1>3. Advances
  BY <1>0, AdvancesInPlace
<1>4. /\ \A p \in scan.frontier : IsPrefix(Root, p) /\ Depth(p) <= MaxDepth
      /\ noted.found \subseteq written
  BY DEF Scanning
<1>5. \A s \in scan'.known : Present(s)' \/ s \in deleted'
  BY <1>2, <1>3, KnownStays
<1>6. scan'.pc = "list" => IsPrefix(Root, scan'.at) /\ Depth(scan'.at) < MaxDepth
  BY <1>2, <1>4 DEF Descends
<1>7. ASSUME NEW root \in noted.found, Wanted(root)
      PROVE  Done(root)' \/ Ahead(root)'
  <2>1. CASE Done(root)
    BY <1>3, <2>1, DoneStays
  <2>2. CASE Ahead(root)
    <3>1. PICK p \in scan.frontier : IsPrefix(p, root)
      BY <1>1, <2>2 DEF Ahead
    <3>2. CASE p = path
      <4>1. \/ Done(root)
            \/ scan'.pc = "list" /\ IsStrictPrefix(scan'.at, root)
            \/ scan'.pc = "partition" /\ IsPrefix(scan'.at, root)
        BY <1>7, <3>1, <3>2, VisitKeepsTrack
      <4> QED
        BY <1>3, <4>1, DoneStays DEF Ahead
    <3>3. CASE p # path
      BY <1>2, <3>1, <3>3 DEF Ahead
    <3> QED
      BY <3>2, <3>3
  <2> QED
    BY <1>7, <2>1, <2>2 DEF Scanning
<1>8. noted' = noted /\ written' = written
  BY <1>0 DEF storeVars
<1>9. \A root : Wanted(root)' => Wanted(root)
  BY <1>8 DEF Wanted
<1> QED
  BY <1>2, <1>4, <1>5, <1>6, <1>7, <1>8, <1>9 DEF Scanning

LEMMA ScanDescends ==
  ASSUME Typed, Scanning, ListChildren
  PROVE  Scanning'
<1> DEFINE children == Children(written, scan.at)
<1>0. UNCHANGED <<storeVars, noted>>
  BY DEF ListChildren
<1>1. /\ scan \in Scans /\ scan.pc = "list" /\ scan.at \in Seq(STRING)
      /\ scan' = [scan EXCEPT !.pc = "walk", !.at = NoScope, !.frontier = @ \cup children]
  BY DEF ListChildren, Typed, Scans
<1>2. /\ scan'.known = scan.known /\ scan'.frontier = scan.frontier \cup children
      /\ scan'.pc = "walk"
  BY <1>1 DEF Scans
<1>3. Advances
  BY <1>0, AdvancesInPlace
<1>4. /\ \A p \in scan.frontier : IsPrefix(Root, p) /\ Depth(p) <= MaxDepth
      /\ IsPrefix(Root, scan.at) /\ Depth(scan.at) < MaxDepth
      /\ noted.found \subseteq written /\ written \subseteq Seq(STRING)
  BY <1>1, NodesArePaths DEF Scanning, Typed
<1>5. \A s \in scan'.known : Present(s)' \/ s \in deleted'
  BY <1>2, <1>3, KnownStays
<1>6. ASSUME NEW child \in children
      PROVE  IsPrefix(Root, child) /\ Depth(child) <= MaxDepth
  <2>1. PICK q \in written : /\ IsStrictPrefix(scan.at, q)
                             /\ child = SubSeq(q, 1, Len(scan.at) + 1)
    BY DEF Children
  <2>2. q \in Seq(STRING)
    BY <1>4
  <2>3. /\ child \in Seq(STRING) /\ Len(child) = Len(scan.at) + 1
        /\ IsPrefix(scan.at, child)
    BY <1>1, <2>1, <2>2, OneLevelDown
  <2>4. IsPrefix(Root, child)
    BY <1>1, <1>4, <2>3, RootAssumption, PrefixTransitive
  <2>5. Depth(child) <= MaxDepth
    <3>1. Len(scan.at) \in Nat /\ Len(Root) \in Nat /\ MaxDepth \in Nat
      BY <1>1, RootAssumption, MaxDepthAssumption
    <3>2. Len(scan.at) - Len(Root) < MaxDepth
      BY <1>4 DEF Depth
    <3>3. Len(child) - Len(Root) <= MaxDepth
      BY <2>3, <3>1, <3>2
    <3> QED
      BY <3>3 DEF Depth
  <2> QED
    BY <2>4, <2>5
<1>7. ASSUME NEW root \in noted.found, Wanted(root)
      PROVE  Done(root)' \/ Ahead(root)'
  <2>1. CASE Done(root)
    BY <1>3, <2>1, DoneStays
  <2>2. CASE \E p \in scan.frontier : IsPrefix(p, root)
    BY <1>2, <2>2 DEF Ahead
  <2>3. CASE IsStrictPrefix(scan.at, root)
    <3>1. root \in written /\ root \in Seq(STRING)
      BY <1>7, WantedRoot
    <3> DEFINE child == SubSeq(root, 1, Len(scan.at) + 1)
    <3>2. IsPrefix(child, root)
      BY <1>1, <2>3, <3>1, OneLevelDown
    <3>3. child \in children
      BY <2>3, <3>1 DEF Children
    <3> HIDE DEF child, children
    <3> QED
      BY <1>2, <3>2, <3>3 DEF Ahead
  <2> QED
    BY <1>1, <1>7, <2>1, <2>2, <2>3 DEF Scanning, Ahead
<1>8. noted' = noted /\ written' = written
  BY <1>0 DEF storeVars
<1>9. \A root : Wanted(root)' => Wanted(root)
  BY <1>8 DEF Wanted
<1> HIDE DEF children
<1> QED
  BY <1>2, <1>4, <1>5, <1>6, <1>7, <1>8, <1>9 DEF Scanning

LEMMA ScanPartitions ==
  ASSUME Numerals(Nat), Typed, Scanning, PartitionFound
  PROVE  Scanning'
<1>1. /\ scan \in Scans /\ scan.pc = "partition" /\ scan.at \in Nodes /\ Run(scan.at, NoPolicy, FALSE)
      /\ scan' = [scan EXCEPT !.pc = "walk", !.at = NoScope]
      /\ UNCHANGED <<written, deleted, noted>>
  BY DEF PartitionFound, Typed, Scanning
<1>2. /\ scan'.known = scan.known /\ scan'.frontier = scan.frontier /\ scan'.pc = "walk"
  BY <1>1 DEF Scans
<1>3. Advances
  <2>1. Runs(scan.at, NoPolicy, FALSE)
    BY <1>1, NoPolicyType DEF Runs
  <2> QED
    BY <1>1, <2>1, NoPolicyType, StoreSteps
<1>4. scan.at \in Nodes /\ catalog'[scan.at] # Absent
  <2>1. ASSUME NEW at \in Nodes, Run(at, NoPolicy, FALSE)
        PROVE  catalog'[at] # Absent
    <3>1. Present(at)'
      BY <2>1, NoPolicyType, RunResult
    <3> QED
      BY <3>1 DEF Present, Absent
  <2> QED
    BY <1>1, <2>1
<1>5. \A s \in scan'.known : Present(s)' \/ s \in deleted'
  BY <1>2, <1>3, KnownStays
<1>6. ASSUME NEW root \in noted.found, Wanted(root)
      PROVE  Done(root)' \/ Ahead(root)'
  <2>1. CASE Done(root)
    BY <1>3, <2>1, DoneStays
  <2>2. CASE \E p \in scan.frontier : IsPrefix(p, root)
    BY <1>2, <2>2 DEF Ahead
  <2>3. CASE IsPrefix(scan.at, root)
    BY <1>4, <2>3 DEF Done, Present, Absent
  <2> QED
    BY <1>1, <1>6, <2>1, <2>2, <2>3 DEF Scanning, Ahead
<1>7. \A root : Wanted(root)' => Wanted(root)
  BY <1>1 DEF Wanted
<1>8. /\ \A p \in scan.frontier : IsPrefix(Root, p) /\ Depth(p) <= MaxDepth
      /\ noted.found \subseteq written
  BY DEF Scanning
<1> QED
  BY <1>1, <1>2, <1>5, <1>6, <1>7, <1>8 DEF Scanning

LEMMA ScanEnds ==
  ASSUME Typed, AbortScan \/ FinishScan
  PROVE  Scanning'
<1>1. scan' = IdleScan /\ noted' = [noted EXCEPT !.found = {}]
  BY DEF AbortScan, FinishScan
<1>2. noted'.found = {}
  BY <1>1 DEF Typed, Notes
<1>3. scan'.pc = "idle" /\ scan'.known = {} /\ scan'.frontier = {}
  BY <1>1 DEF IdleScan
<1> QED
  BY <1>2, <1>3 DEF Scanning

LEMMA ScanningPreserved ==
  ASSUME Numerals(Nat), Typed, Scanning, Next
  PROVE  Scanning'
<1>1. CASE StartScan
  BY <1>1, ScanStarts
<1>2. CASE \E path \in scan.frontier : Visit(path)
  BY <1>2, ScanVisits
<1>3. CASE ListChildren
  BY <1>3, ScanDescends
<1>4. CASE PartitionFound
  BY <1>4, ScanPartitions
<1>5. CASE AbortScan \/ FinishScan
  BY <1>5, ScanEnds
<1>6. CASE scan' = scan /\ noted'.found = noted.found
  <2>1. Advances
    BY EveryStepAdvances
  <2> QED
    BY <1>6, <2>1, ScanWaits
<1>7. noted \in Notes
  BY DEF Typed
<1>8. \/ StartScan \/ (\E path \in scan.frontier : Visit(path)) \/ ListChildren
      \/ PartitionFound \/ AbortScan \/ FinishScan
      \/ scan' = scan /\ noted'.found = noted.found
  BY <1>7 DEF Next, Write, Partition, PartitionByHand, Delete, Damage, Misplace,
              StartReload, ReadManifest, FailReload, Rebind, Notes
<1> QED
  BY <1>1, <1>2, <1>3, <1>4, <1>5, <1>6, <1>8

----------------------------------------------------------------------------
(* The reload *)

\* A step that leaves the reload alone.
LEMMA ReloadWaits ==
  ASSUME Typed, Reading, Advances, catalog' \in [Nodes -> StoredObjects],
         load' = load, noted'.epochs = noted.epochs
  PROVE  Reading'
<1>1. ASSUME load.pc = "read", NEW s \in Nodes, s \notin deleted', noted.epochs[s] > 0
      PROVE  \/ /\ s \in load.names /\ Present(s)'
                /\ catalog'[s] # Unreadable =>
                      /\ catalog'[s].scope = s
                      /\ s \in recut' \/ catalog'[s].body.epoch >= noted.epochs[s]
             \/ \E l \in load.got : /\ l.at = s
                                    /\ s \in recut' \/ l.manifest.epoch >= noted.epochs[s]
  <2>1. s \notin deleted /\ (s \in recut => s \in recut')
    BY <1>1 DEF Advances
  <2>2. CASE \E l \in load.got : l.at = s /\ Recent(s, l.manifest)
    BY <2>1, <2>2 DEF Recent
  <2>3. CASE /\ s \in load.names /\ Present(s)
             /\ catalog[s] # Unreadable => catalog[s].scope = s /\ Recent(s, catalog[s].body)
    <3>1. noted.epochs[s] \in Int
      BY DEF Typed, Notes
    <3>2. /\ Present(s)'
          /\ \/ catalog'[s] \in {catalog[s], Unreadable}
             \/ /\ catalog[s] # Unreadable /\ catalog'[s].scope = s
                /\ s \in recut' \/ catalog'[s].body.epoch >= catalog[s].body.epoch
      BY <1>1, <2>3 DEF Advances
    <3>3. CASE catalog'[s] \in {catalog[s], Unreadable}
      BY <2>1, <2>3, <3>2, <3>3 DEF Recent
    <3>4. CASE /\ catalog[s] # Unreadable /\ catalog'[s].scope = s
               /\ s \in recut' \/ catalog'[s].body.epoch >= catalog[s].body.epoch
               /\ catalog'[s] # Unreadable
      <4>1. catalog[s].body.epoch \in Int /\ catalog'[s].body.epoch \in Int
        <5>1. catalog[s].body.epoch \in Nat /\ catalog'[s].body.epoch \in Nat
          BY <3>4, KnownObjects DEF Typed
        <5> QED
          BY <5>1
      <4>2. s \in recut \/ catalog[s].body.epoch >= noted.epochs[s]
        BY <2>3, <3>4 DEF Recent
      <4>3. s \in recut' \/ catalog'[s].body.epoch >= noted.epochs[s]
        BY <2>1, <3>1, <3>4, <4>1, <4>2
      <4> QED
        BY <2>3, <3>2, <3>4, <4>3
    <3> QED
      BY <2>3, <3>2, <3>3, <3>4
  <2> QED
    BY <1>1, <2>1, <2>2, <2>3 DEF Reading
<1>2. /\ IsFiniteSet(load.got)
      /\ \A l, k \in load.got : l.at = k.at => l = k
      /\ \A l \in load.got : l.at \notin load.names
  BY DEF Reading
<1> QED
  BY <1>1, <1>2 DEF Reading, Recent, Present, Absent

LEMMA ReloadStarts ==
  ASSUME Typed, StartReload
  PROVE  Reading'
<1>1. /\ load' = [pc |-> "read", names |-> {s \in Nodes : Present(s)}, got |-> {}]
      /\ noted' = [noted EXCEPT !.epochs = [s \in Nodes |->
                      IF catalog[s].scope = s THEN catalog[s].body.epoch ELSE 0]]
      /\ catalog' = catalog
  BY DEF StartReload, storeVars
<1>2. load'.names = {s \in Nodes : Present(s)} /\ load'.got = {}
  BY <1>1
<1>3. noted'.epochs = [s \in Nodes |-> IF catalog[s].scope = s THEN catalog[s].body.epoch ELSE 0]
  BY <1>1 DEF Typed, Notes
<1>4. ASSUME NEW s \in Nodes, noted'.epochs[s] > 0
      PROVE  /\ s \in load'.names /\ Present(s)'
             /\ catalog'[s] # Unreadable => catalog'[s].scope = s /\ Recent(s, catalog[s].body)'
  <2>1. catalog[s].scope = s /\ catalog[s].body.epoch > 0
               /\ noted'.epochs[s] = catalog[s].body.epoch
    BY <1>3, <1>4
  <2>2. catalog[s] # Unreadable
    <3>1. Unreadable.body.epoch = -1
      BY DEF Unreadable, Nothing
    <3> QED
      BY <2>1, <3>1
  <2>3. Absent.body.epoch = 0 /\ catalog[s].body.epoch \in Nat
    BY <2>2, KnownObjects DEF Typed
  <2>4. Present(s)
    BY <2>1, <2>3 DEF Present
  <2> QED
    BY <1>1, <1>2, <2>1, <2>3, <2>4 DEF Recent, Present, Absent
<1>5. IsFiniteSet(load'.got)
  BY <1>2, FS_EmptySet
<1> QED
  BY <1>2, <1>4, <1>5 DEF Reading

LEMMA ReloadReads ==
  ASSUME Typed, Reading, NEW n \in Nodes, ReadManifest(n)
  PROVE  Reading'
<1> DEFINE entry == [at |-> n, scope |-> catalog[n].scope, manifest |-> catalog[n].body]
<1>1. /\ load.pc = "read" /\ n \in load.names /\ catalog[n] # Unreadable
      /\ load' = [load EXCEPT !.names = @ \ {n},
                              !.got = IF Accepted(n, catalog[n]) THEN @ \cup {entry} ELSE @]
      /\ UNCHANGED <<storeVars, noted>> /\ load \in Loads
  BY DEF ReadManifest, Typed
<1>2. entry.at = n /\ entry.manifest = catalog[n].body
  OBVIOUS
<1> HIDE DEF entry
<1>3. /\ load'.names = load.names \ {n} /\ load'.pc = "read"
      /\ load'.got = IF Accepted(n, catalog[n]) THEN load.got \cup {entry} ELSE load.got
  BY <1>1 DEF Loads
<1>4. /\ IsFiniteSet(load.got)
      /\ \A l, k \in load.got : l.at = k.at => l = k
      /\ \A l \in load.got : l.at \notin load.names
  BY DEF Reading
<1>5. IsFiniteSet(load'.got)
  BY <1>3, <1>4, FS_AddElement
<1>6. /\ \A l, k \in load'.got : l.at = k.at => l = k
      /\ \A l \in load'.got : l.at \notin load'.names
  BY <1>1, <1>2, <1>3, <1>4
<1>7. ASSUME NEW s \in Nodes, s \notin deleted, noted.epochs[s] > 0
      PROVE  \/ /\ s \in load'.names /\ Present(s)
                /\ catalog[s] # Unreadable => catalog[s].scope = s /\ Recent(s, catalog[s].body)
             \/ \E l \in load'.got : l.at = s /\ Recent(s, l.manifest)
  <2>1. CASE \E l \in load.got : l.at = s /\ Recent(s, l.manifest)
    BY <1>3, <2>1
  <2>2. CASE /\ s \in load.names /\ Present(s)
             /\ catalog[s] # Unreadable => catalog[s].scope = s /\ Recent(s, catalog[s].body)
    <3>1. CASE s = n
      <4>1. catalog[n].scope = n /\ Recent(n, catalog[n].body)
        BY <1>1, <2>2, <3>1
      <4>2. catalog[n] # Absent
        BY <2>2, <3>1 DEF Present
      <4>3. entry \in load'.got
        BY <1>3, <4>1, <4>2 DEF Accepted
      <4> QED
        BY <1>2, <3>1, <4>1, <4>3
    <3>2. CASE s # n
      BY <1>3, <2>2, <3>2
    <3> QED
      BY <3>1, <3>2
  <2> QED
    BY <1>1, <1>7, <2>1, <2>2 DEF Reading
<1>8. catalog' = catalog /\ deleted' = deleted /\ recut' = recut /\ noted' = noted
  BY <1>1 DEF storeVars
<1> QED
  BY <1>3, <1>5, <1>6, <1>7, <1>8 DEF Reading, Recent, Present, Absent

LEMMA ReadingPreserved ==
  ASSUME Numerals(Nat), Typed, Scanning, Reading, Next
  PROVE  Reading'
<1>1. CASE StartReload
  BY <1>1, ReloadStarts
<1>2. CASE \E s \in Nodes : ReadManifest(s)
  BY <1>2, ReloadReads
<1>3. CASE Rebind \/ \E s \in Nodes : FailReload(s)
  <2>1. load' = IdleLoad
    BY <1>3 DEF Rebind, FailReload
  <2>2. load'.pc = "idle" /\ load'.got = {}
    BY <2>1 DEF IdleLoad
  <2> QED
    BY <2>2, FS_EmptySet DEF Reading
<1>4. CASE load' = load /\ noted'.epochs = noted.epochs
  <2>1. Advances /\ catalog' \in [Nodes -> StoredObjects]
    BY EveryStepAdvances
  <2> QED
    BY <1>4, <2>1, ReloadWaits
<1>5. noted \in Notes
  BY DEF Typed
<1>6. \/ StartReload \/ (\E s \in Nodes : ReadManifest(s))
      \/ Rebind \/ (\E s \in Nodes : FailReload(s))
      \/ load' = load /\ noted'.epochs = noted.epochs
  BY <1>5 DEF Next, Write, Partition, PartitionByHand, Delete, Damage, Misplace,
              StartScan, Visit, ListChildren, PartitionFound, AbortScan, FinishScan, Notes
<1> QED
  BY <1>1, <1>2, <1>3, <1>4, <1>6

----------------------------------------------------------------------------
(* What the service holds *)

LEMMA ExtendsTransitive ==
  ASSUME NEW a, NEW b, NEW c, Extends(a, b), Extends(b, c)
  PROVE  Extends(a, c)
<1>1. a.blobs \subseteq b.blobs /\ b.blobs \subseteq c.blobs
  BY DEF Extends
<1>2. ASSUME NEW p \in PrefixesOf(a.blobs), NEW q \in PrefixesOf(c.blobs \ a.blobs)
      PROVE  ~IsPrefix(p, q)
  <2>1. p \in PrefixesOf(b.blobs)
    BY <1>1 DEF PrefixesOf
  <2>2. q \in PrefixesOf(b.blobs \ a.blobs) \/ q \in PrefixesOf(c.blobs \ b.blobs)
    BY DEF PrefixesOf
  <2> QED
    BY <2>1, <2>2 DEF Extends
<1> QED
  BY <1>1, <1>2 DEF Extends

LEMMA ExtendsItself ==
  ASSUME NEW a
  PROVE  Extends(a, a)
<1>1. PrefixesOf(a.blobs \ a.blobs) = {}
  BY DEF PrefixesOf
<1> QED
  BY <1>1 DEF Extends

LEMMA LaterStays ==
  ASSUME Advances, NEW s \in Nodes, NEW m, Later(s, m), s \notin deleted' \cup recut'
  PROVE  Later(s, m)'
<1>1. Present(s)
  BY KnownObjects DEF Later, Present
<1>2. /\ Present(s)'
      /\ \/ catalog'[s] \in {catalog[s], Unreadable}
         \/ /\ catalog[s] # Unreadable /\ catalog'[s].scope = s
            /\ Extends(catalog[s].body, catalog'[s].body)
  BY <1>1 DEF Advances
<1>3. CASE catalog'[s] \in {catalog[s], Unreadable}
  BY <1>2, <1>3 DEF Later
<1>4. CASE /\ catalog[s] # Unreadable /\ catalog'[s].scope = s
           /\ Extends(catalog[s].body, catalog'[s].body)
  <2>1. Extends(m, catalog[s].body)
    BY <1>4 DEF Later
  <2>2. Extends(m, catalog'[s].body)
    BY <1>4, <2>1, ExtendsTransitive
  <2> QED
    BY <1>2, <1>4, <2>2 DEF Later
<1> QED
  BY <1>2, <1>3, <1>4

LEMMA FollowingPreserved ==
  ASSUME Numerals(Nat), IInv, Next
  PROVE  Following'
<1>1. Advances
  BY EveryStepAdvances DEF IInv
<1>2. /\ index \in Seq(Entries) /\ load.got \in SUBSET Entries /\ load \in Loads
      /\ \A i, j \in DOMAIN index : index[i].at = index[j].at => i = j
      /\ \A l \in load.got \cup Range(index) : l.at \in deleted \cup recut \/ Later(l.at, l.manifest)
  BY DEF IInv, Typed, Loads, Following
<1>3. ASSUME NEW l \in load.got \cup Range(index)
      PROVE  l.at \in deleted' \cup recut' \/ Later(l.at, l.manifest)'
  <2>1. l.at \in Nodes
    BY <1>2 DEF Entries, Range
  <2> DEFINE s == l.at
             m == l.manifest
  <2>2. s \in deleted \cup recut => s \in deleted' \cup recut'
    BY <1>1 DEF Advances
  <2>3. s \notin deleted \cup recut => Later(s, m)
    BY <1>2
  <2> HIDE DEF s, m
  <2>4. s \in deleted' \cup recut' \/ Later(s, m)'
    BY <1>1, <2>1, <2>2, <2>3, LaterStays DEF s
  <2> QED
    BY <2>4 DEF s, m
<1>4. CASE index' = index /\ load'.got \subseteq load.got
  BY <1>2, <1>3, <1>4 DEF Following
<1>5. CASE Rebind
  <2>1. index' = InListOrder(load.got) /\ load'.got = {}
    BY <1>5 DEF Rebind, IdleLoad
  <2>2. IsFiniteSet(load.got) /\ \A l, k \in load.got : l.at = k.at => l = k
    BY DEF IInv, Reading
  <2>3. /\ index' \in Seq(load.got)
        /\ \A i, j \in 1..Len(index') : index'[i] = index'[j] => i = j
    BY <1>2, <2>1, <2>2, ListOrder
  <2>4. DOMAIN index' = 1..Len(index') /\ \A i \in DOMAIN index' : index'[i] \in load.got
    BY <2>3
  <2>5. index' \in Seq(Entries)
    BY <1>2, <2>3
  <2>6. ASSUME NEW i \in DOMAIN index', NEW j \in DOMAIN index', index'[i].at = index'[j].at
        PROVE  i = j
    <3>1. index'[i] = index'[j]
      BY <2>2, <2>4, <2>6
    <3> QED
      BY <2>3, <2>4, <3>1
  <2>7. \A l \in load'.got \cup Range(index') : l \in load.got
    BY <2>1, <2>4 DEF Range
  <2> QED
    BY <1>3, <2>5, <2>6, <2>7 DEF Following
<1>6. CASE \E s \in Nodes : ReadManifest(s)
  <2>1. PICK s \in Nodes : ReadManifest(s)
    BY <1>6
  <2> DEFINE entry == [at |-> s, scope |-> catalog[s].scope, manifest |-> catalog[s].body]
  <2>2. /\ load' = [load EXCEPT !.names = @ \ {s},
                                !.got = IF Accepted(s, catalog[s]) THEN @ \cup {entry} ELSE @]
        /\ UNCHANGED <<storeVars, index>>
    BY <2>1 DEF ReadManifest
  <2>3. entry.at = s /\ entry.manifest = catalog[s].body
    OBVIOUS
  <2> HIDE DEF entry
  <2>4. load'.got = IF Accepted(s, catalog[s]) THEN load.got \cup {entry} ELSE load.got
    BY <1>2, <2>2 DEF Loads
  <2>5. ASSUME Accepted(s, catalog[s]), NEW l, l = entry
        PROVE  Later(l.at, l.manifest)'
    <3>1. Present(s) /\ catalog[s].scope = s
      BY <2>5 DEF Accepted, Present
    <3>2. l.at = s /\ Extends(l.manifest, catalog[s].body)
      BY <2>3, <2>5, ExtendsItself
    <3>3. catalog' = catalog
      BY <2>2 DEF storeVars
    <3> QED
      BY <3>1, <3>2, <3>3 DEF Later, Present, Absent
  <2>6. ASSUME NEW l \in load'.got \cup Range(index')
        PROVE  l.at \in deleted' \cup recut' \/ Later(l.at, l.manifest)'
    <3>1. CASE l \in load.got \cup Range(index)
      BY <1>3, <3>1
    <3>2. CASE l = entry /\ Accepted(s, catalog[s])
      BY <2>5, <3>2
    <3> QED
      BY <2>2, <2>4, <3>1, <3>2
  <2> QED
    BY <1>2, <2>2, <2>6 DEF Following
<1>7. CASE StartReload \/ \E s \in Nodes : FailReload(s)
  <2>1. index' = index /\ load'.got = {}
    BY <1>7 DEF StartReload, FailReload, IdleLoad
  <2> QED
    BY <1>4, <2>1
<1>8. \/ Rebind \/ (\E s \in Nodes : ReadManifest(s))
      \/ StartReload \/ (\E s \in Nodes : FailReload(s))
      \/ index' = index /\ load' = load
  BY DEF Next, Write, Partition, PartitionByHand, Delete, Damage, Misplace, StartScan, Visit,
         ListChildren, PartitionFound, AbortScan, FinishScan
<1> QED
  BY <1>4, <1>5, <1>6, <1>7, <1>8

----------------------------------------------------------------------------
(* What the runs saw *)

\* What a scope's location holds, and what the runs saw there, stays.
LEMMA SeeingStays ==
  ASSUME NEW s, SeeingAt(s), catalog'[s] = catalog[s], listed'[s] = listed[s],
         adopted \subseteq adopted', written \subseteq written'
  PROVE  SeeingAt(s)'
BY DEF SeeingAt, Present, Absent, Seen, Listable

\* The buckets that a run cuts number the chunks of an array it lists.
LEMMA NewOnesAreNumbered ==
  ASSUME Numerals(Nat), NEW scope \in Paths, NEW policy \in PolicyFields,
         NEW previous, SoundBlobs(previous.blobs), Numbered(scope, previous),
         NEW next, next.blobs = previous.blobs \cup NewBlobs(ListedUnder(scope), policy, previous)
  PROVE  Numbered(scope, next)
<1> DEFINE listing == ListedUnder(scope)
           new == NewBlobs(listing, policy, previous)
<1>1. /\ IsListing(listing)
      /\ \A x \in Range(listing) :
            \E a \in Range(Arrays) : IsPrefix(scope, a.path) /\ x = Relative(a, scope)
  BY ListedIsListing DEF Listable
<1> HIDE DEF listing
<1>2. \A b \in new : Made(b, listing, policy)
  BY <1>1, NewBlobsResult DEF WellCut
<1> HIDE DEF new
<1> SUFFICES ASSUME NEW b \in next.blobs, IsBucketed(b)
             PROVE  \E a \in Range(Arrays) :
                       /\ \A p \in Range(b.prefixes) : scope \o p = ChunkPrefix(a)
                       /\ b.bucket.encoding = a.encoding /\ b.bucket.index = 0
  BY DEF Numbered
<1>3. CASE b \in previous.blobs
  BY <1>3 DEF Numbered
<1>4. CASE b \in new
  <2>1. PICK x \in Range(listing) : /\ b.prefixes = <<ChunkPrefix(x)>>
                                    /\ b.bucket = BucketFor(x, policy)
    BY <1>2, <1>4 DEF Made
  <2>2. PICK a \in Range(Arrays) : IsPrefix(scope, a.path) /\ x = Relative(a, scope)
    BY <1>1
  <2>3. scope \o ChunkPrefix(x) = ChunkPrefix(a)
    BY <2>2, SeenArray
  <2>4. x.encoding = a.encoding
    BY <2>2 DEF Relative
  <2>5. Range(b.prefixes) = {ChunkPrefix(x)}
    BY <2>1 DEF Range
  <2>6. b.bucket.encoding = x.encoding /\ b.bucket.index = 0
    BY <2>1 DEF BucketFor
  <2> QED
    BY <2>3, <2>4, <2>5, <2>6
<1> QED
  BY <1>3, <1>4 DEF new, listing

\* A run has a place for what it saw, and for what the runs before it saw.
LEMMA RunSees ==
  ASSUME Numerals(Nat), Typed, Seeing, NEW scope \in Nodes, NEW given \in PolicyFields,
         NEW force \in BOOLEAN, Runs(scope, given, force)
  PROVE  Seeing'
<1> DEFINE previous == catalog[scope].body
           base == IF force THEN Nothing ELSE previous
           listing == ListedUnder(scope)
           policy == EffectivePolicy(given, base)
           computed == PartitionScope(listing, given, base)
           next == IF Exists(previous) THEN Bumped(computed) ELSE computed
           stored == [scope |-> scope, body |-> next]
           seen == {scope \o x.path : x \in {y \in Range(listing) : ~HeldHot(y, computed.policy)}}
           unchanged == Exists(previous) /\ IsEmpty(Diff(previous, computed))
<1>1. /\ scope \in Paths
      /\ catalog \in [Nodes -> StoredObjects] /\ listed \in [Nodes -> SUBSET Nodes]
  BY NodesArePaths DEF Typed
<1>2. catalog[scope] # Unreadable /\ catalog[scope] \in StoredObjects
  BY <1>1 DEF Runs, Run, Raises
<1>3. /\ previous \in ManifestFields /\ SoundBlobs(previous.blobs)
      /\ previous.epoch # 0 => catalog[scope] # Absent
  BY <1>2, KnownObjects DEF SoundManifest
<1>4. /\ IsListing(listing)
      /\ \A x \in Range(listing) :
            \E a \in Range(Arrays) : Listable(a, scope) /\ x = Relative(a, scope)
      /\ \A a \in Range(Arrays) : Listable(a, scope) => Relative(a, scope) \in Range(listing)
  BY <1>1, ListedIsListing
<1>5. /\ catalog' = IF unchanged THEN catalog ELSE [catalog EXCEPT ![scope] = stored]
      /\ listed' = [listed EXCEPT ![scope] = @ \cup seen]
      /\ adopted \subseteq adopted' /\ written' = written
      /\ (~force /\ Present(scope) /\ catalog' # catalog /\ catalog[scope].scope # scope)
            => scope \in adopted'
  BY DEF Runs, Run, Lists
<1>6. /\ ~Present(scope) => listed[scope] = {} /\ previous = Nothing
      /\ \A a \in Range(Arrays) : a.path \in listed[scope] => Listable(a, scope)
      /\ Present(scope) =>
            /\ previous.epoch # 0 /\ previous.pinned = {}
            /\ catalog[scope].scope \notin adopted => Numbered(catalog[scope].scope, previous)
            /\ \A a \in Range(Arrays) : a.path \in listed[scope] => Seen(a, scope)
  BY <1>1, <1>2 DEF Seeing, SeeingAt, Present, Absent
<1>7. previous.pinned = {}
  BY <1>6, NothingIsSound
<1> HIDE DEF previous, listing
<1>8. base \in ManifestFields /\ SoundBlobs(base.blobs) /\ base.pinned = {}
  BY <1>3, <1>7, NothingIsSound
<1> HIDE DEF base
<1>9. policy \in PolicyFields
  <2>1. base.policy \in PolicyFields
    BY <1>8 DEF ManifestFields
  <2> QED
    BY <2>1, EffectivePolicyType
<1>10. /\ computed \in ManifestFields
       /\ computed.blobs = base.blobs \cup NewBlobs(listing, policy, base)
       /\ computed.pinned = {} /\ computed.policy = policy
  BY <1>4, <1>8, ComputedIsSound
<1>11. computed.hot = {x.path : x \in {y \in Range(listing) : Held(y, policy, base.pinned)}}
  BY DEF PartitionScope, HotPaths
<1> HIDE DEF policy, computed
<1>12. /\ next.blobs = computed.blobs /\ next.pinned = {} /\ next.hot = computed.hot
       /\ next.epoch # 0
  <2>1. /\ Bumped(computed).epoch = computed.epoch + 1 /\ Bumped(computed).blobs = computed.blobs
        /\ Bumped(computed).pinned = computed.pinned /\ Bumped(computed).hot = computed.hot
    BY <1>10, BumpedType
  <2>2. computed.epoch \in Nat
    BY <1>10 DEF ManifestFields
  <2>3. computed.epoch # 0
    <3>1. computed.epoch = IF Exists(base) THEN base.epoch ELSE 1
      BY <1>4, <1>8, ComputedIsSound DEF computed
    <3> QED
      BY <3>1 DEF Exists
  <2> QED
    BY <1>10, <2>1, <2>2, <2>3
<1>13. ASSUME NEW x \in Range(listing)
       PROVE  \/ HeldHot(x, policy) /\ x.path \in computed.hot
              \/ Claimed(x, computed.blobs)
  <2>1. CASE HeldHot(x, policy)
    BY <1>11, <2>1 DEF Held
  <2>2. CASE ~HeldHot(x, policy)
    <3>1. ~Held(x, policy, base.pinned)
      BY <1>8, <2>2 DEF Held, HeldPinned
    <3>2. Claimed(x, base.blobs \cup NewBlobs(listing, policy, base))
      BY <1>4, <1>8, <1>9, <3>1, EveryArrayClaimed
    <3> QED
      BY <1>10, <3>2
  <2> QED
    BY <2>1, <2>2
<1> HIDE DEF next, seen
\* The manifest that is there then.
<1> DEFINE now == catalog'[scope]
<1>14. \/ unchanged /\ now = catalog[scope]
       \/ ~unchanged /\ now = stored
  BY <1>1, <1>5
<1>15. ASSUME NEW a \in Range(Arrays), a.path \in seen
       PROVE  /\ Listable(a, scope) /\ Relative(a, scope) \in Range(listing)
              /\ ~HeldHot(Relative(a, scope), policy)
  <2>1. PICK x \in Range(listing) : scope \o x.path = a.path /\ ~HeldHot(x, policy)
    BY <1>10, <1>15 DEF seen
  <2>2. PICK d \in Range(Arrays) : Listable(d, scope) /\ x = Relative(d, scope)
    BY <1>4
  <2>3. d.path = a.path
    BY <1>1, <2>1, <2>2, SeenArray DEF Listable
  <2>4. d = a
    BY <2>3, ArraysAssumption
  <2> QED
    BY <2>1, <2>2, <2>4
<1>16. ASSUME NEW a \in Range(Arrays), a.path \in listed'[scope]
       PROVE  Listable(a, scope) /\ Seen(a, scope)'
  <2>1. a.path \in listed[scope] \cup seen
    BY <1>1, <1>5, <1>16
  <2>2. Listable(a, scope) /\ Relative(a, scope) \in Range(listing)
    BY <1>4, <1>6, <1>15, <2>1
  <2>3. Relative(a, scope).path = Below(scope, a.path)
    <3>1. a \in ArrayFields
      <4>1. \A i \in DOMAIN Arrays : Arrays[i] \in ArrayFields
        BY ArraysAssumption DEF IsListing
      <4> QED
        BY <4>1, Zenon DEF Range
    <3> QED
      BY <3>1 DEF Relative, ArrayFields
  <2>4. CASE now = stored
    <3>1. now.body.hot = computed.hot /\ now.body.blobs = computed.blobs
      BY <1>12, <2>4
    <3>2. \/ Relative(a, scope).path \in computed.hot
          \/ Claimed(Relative(a, scope), computed.blobs)
      BY <1>13, <2>2
    <3> QED
      BY <2>2, <2>3, <3>1, <3>2 DEF Seen
  <2>5. CASE unchanged /\ now = catalog[scope]
    <3>1. CASE a.path \in listed[scope]
      <4>1. Seen(a, scope)
        BY <1>3, <1>6, <2>5, <3>1 DEF Exists, Present
      <4> QED
        BY <2>2, <2>5, <4>1 DEF Seen
    <3>2. CASE a.path \in seen
      <4>1. computed.blobs = previous.blobs
        BY <2>5, EmptyDiff
      <4>2. Claimed(Relative(a, scope), computed.blobs)
        BY <1>13, <1>15, <3>2
      <4> QED
        BY <2>2, <2>5, <4>1, <4>2 DEF Seen, previous
    <3> QED
      BY <2>1, <3>1, <3>2
  <2> QED
    BY <1>14, <2>4, <2>5
<1>17. ASSUME now.scope \notin adopted'
       PROVE  Numbered(now.scope, now.body)
  <2>1. CASE unchanged /\ now = catalog[scope]
    <3>1. Present(scope)
      BY <1>3, <2>1 DEF Exists, Present
    <3> QED
      BY <1>5, <1>6, <1>17, <2>1, <3>1 DEF previous
  <2>2. CASE ~unchanged /\ now = stored
    <3>1. now.scope = scope /\ now.body = next
      BY <2>2
    <3>2. (~force /\ Present(scope)) => catalog[scope].scope = scope /\ scope \notin adopted
      <4>1. CASE catalog' = catalog
        BY <1>5, <1>17, <3>1, <4>1
      <4>2. CASE catalog' # catalog
        BY <1>5, <1>17, <3>1, <4>2
      <4> QED
        BY <4>1, <4>2
    <3>3. Numbered(scope, base)
      <4>1. Numbered(scope, Nothing)
        BY NothingIsSound DEF Numbered
      <4>2. CASE ~force /\ Present(scope)
        BY <1>6, <3>2, <4>2 DEF base
      <4>3. CASE force \/ ~Present(scope)
        BY <1>6, <4>1, <4>3 DEF base
      <4> QED
        BY <4>2, <4>3
    <3>4. next.blobs = base.blobs \cup NewBlobs(ListedUnder(scope), policy, base)
      BY <1>10, <1>12 DEF listing
    <3> QED
      BY <1>1, <1>8, <1>9, <3>1, <3>3, <3>4, NewOnesAreNumbered
  <2> QED
    BY <1>14, <2>1, <2>2
<1>18. now.body.epoch # 0 /\ now.body.pinned = {} /\ Present(scope)'
  <2>1. CASE unchanged /\ now = catalog[scope]
    BY <1>3, <1>7, <2>1 DEF Exists, Present, Absent, previous
  <2>2. CASE now = stored
    <3>1. now.body = next
      BY <2>2
    <3>2. Absent.body.epoch = 0
      BY KnownObjects
    <3> QED
      BY <1>12, <3>1, <3>2 DEF Present, Absent
  <2> QED
    BY <1>14, <2>1, <2>2
<1>19. SeeingAt(scope)'
  <2>1. \A a \in Range(Arrays) : a.path \in listed'[scope] => Listable(a, scope)' /\ Seen(a, scope)'
    BY <1>5, <1>16 DEF Listable
  <2> QED
    BY <1>17, <1>18, <2>1 DEF SeeingAt
<1>20. ASSUME NEW s \in Nodes, s # scope
       PROVE  SeeingAt(s)'
  <2>1. catalog'[s] = catalog[s] /\ listed'[s] = listed[s]
    BY <1>1, <1>5, <1>20
  <2> QED
    BY <1>5, <2>1, SeeingStays DEF Seeing
<1> QED
  BY <1>19, <1>20 DEF Seeing

\* Operators take a manifest with all that was seen, or move what it has to where nothing was.
LEMMA MishapsSee ==
  ASSUME Typed, Seeing,
         \/ \E n \in Nodes : Delete(n) \/ Damage(n)
         \/ \E s, to \in Nodes : Misplace(s, to)
  PROVE  Seeing'
<1>1. catalog \in [Nodes -> StoredObjects] /\ listed \in [Nodes -> SUBSET Nodes]
  BY DEF Typed
<1>2. ASSUME NEW n \in Nodes, Delete(n), NEW s \in Nodes
      PROVE  SeeingAt(s)'
  <2>1. /\ catalog' = [catalog EXCEPT ![n] = Absent] /\ listed' = [listed EXCEPT ![n] = {}]
        /\ adopted' = adopted /\ written' = written
    BY <1>2 DEF Delete
  <2>2. CASE s = n
    <3>1. catalog'[n] = Absent /\ listed'[n] = {}
      BY <1>1, <2>1
    <3> QED
      BY <2>2, <3>1 DEF SeeingAt, Present, Absent
  <2>3. CASE s # n
    <3>1. catalog'[s] = catalog[s] /\ listed'[s] = listed[s]
      BY <1>1, <2>1, <2>3
    <3> QED
      BY <2>1, <3>1, SeeingStays DEF Seeing
  <2> QED
    BY <2>2, <2>3
<1>3. ASSUME NEW n \in Nodes, Damage(n), NEW s \in Nodes
      PROVE  SeeingAt(s)'
  <2>1. catalog' = [catalog EXCEPT ![n] = Unreadable] /\ UNCHANGED <<listed, adopted, written>>
    BY <1>3 DEF Damage
  <2>2. CASE s = n
    <3>1. catalog'[n] = Unreadable /\ Unreadable # Absent
      BY <1>1, <2>1, KnownObjects
    <3>2. \A a \in Range(Arrays) : a.path \in listed'[n] => Listable(a, n)'
      BY <2>1 DEF Seeing, SeeingAt, Listable
    <3> QED
      BY <2>2, <3>1, <3>2 DEF SeeingAt, Present, Absent, Unreadable
  <2>3. CASE s # n
    <3>1. catalog'[s] = catalog[s] /\ listed'[s] = listed[s]
      BY <1>1, <2>1, <2>3
    <3> QED
      BY <2>1, <3>1, SeeingStays DEF Seeing
  <2> QED
    BY <2>2, <2>3
<1>4. ASSUME NEW n \in Nodes, NEW to \in Nodes, Misplace(n, to), NEW s \in Nodes
      PROVE  SeeingAt(s)'
  <2>1. /\ catalog' = [catalog EXCEPT ![to] = catalog[n]] /\ UNCHANGED <<listed, adopted, written>>
        /\ Present(n) /\ catalog[n] # Unreadable /\ ~Present(to)
    BY <1>4 DEF Misplace
  <2>2. CASE s = to
    <3>1. catalog'[to] = catalog[n] /\ listed'[to] = {}
      BY <1>1, <2>1 DEF Seeing, SeeingAt
    <3>2. /\ catalog[n].body.epoch # 0 /\ catalog[n].body.pinned = {}
          /\ catalog[n].scope \notin adopted => Numbered(catalog[n].scope, catalog[n].body)
      BY <2>1 DEF Seeing, SeeingAt
    <3> QED
      BY <2>1, <2>2, <3>1, <3>2 DEF SeeingAt
  <2>3. CASE s # to
    <3>1. catalog'[s] = catalog[s] /\ listed'[s] = listed[s]
      BY <1>1, <2>1, <2>3
    <3> QED
      BY <2>1, <3>1, SeeingStays DEF Seeing
  <2> QED
    BY <2>2, <2>3
<1> QED
  BY <1>2, <1>3, <1>4 DEF Seeing

LEMMA SeeingPreserved ==
  ASSUME Numerals(Nat), IInv, Next
  PROVE  Seeing'
<1>1. CASE \/ \E n \in Nodes : Delete(n) \/ Damage(n)
           \/ \E s, to \in Nodes : Misplace(s, to)
  BY <1>1, MishapsSee DEF IInv
<1>2. CASE \/ Partition \/ PartitionFound
           \/ \E s \in Nodes, given \in Policies, force \in BOOLEAN : PartitionByHand(s, given, force)
  BY <1>2, RunsAreRuns, RunSees DEF IInv
<1>3. CASE UNCHANGED <<catalog, listed, adopted>> /\ written \subseteq written'
  <2>1. \A s \in Nodes : SeeingAt(s)'
    BY <1>3, SeeingStays DEF Seeing, IInv
  <2> QED
    BY <2>1 DEF Seeing
<1> QED
  BY <1>1, <1>2, <1>3
     DEF Next, storeVars, Write, StartScan, Visit, ListChildren, AbortScan, FinishScan,
         StartReload, ReadManifest, FailReload, Rebind

----------------------------------------------------------------------------
(* What a trie, however old, says of a key *)

\* No node lies between an array and its keys.
LEMMA KeyOfArray ==
  ASSUME NEW a \in Range(Arrays)
  PROVE  /\ a.path \in Seq(STRING) /\ DataKey(a) \in Seq(STRING)
         /\ \A n \in Nodes : IsPrefix(n, DataKey(a)) <=> IsPrefix(n, a.path)
         /\ ChunkPrefix(a) \in Seq(STRING)
         /\ IsPrefix(a.path, ChunkPrefix(a)) /\ IsPrefix(ChunkPrefix(a), DataKey(a))
         /\ DataKey(a) # <<>> /\ SubSeq(DataKey(a), Len(ChunkPrefix(a)) + 1, Len(DataKey(a))) = <<"0">>
<1> DEFINE prefix == ChunkPrefix(a)
           key == DataKey(a)
<1>1. IsListing(Arrays) /\ a.path \in Nodes /\ ~\E n \in Nodes : IsStrictPrefix(a.path, n)
  BY ArraysAssumption
<1>2. /\ a.path \in Seq(STRING) /\ prefix \in Seq(STRING) /\ "c" \in STRING
  <2>1. a.path \in Paths /\ prefix \in Paths
    BY <1>1, ChunkPrefixType
  <2> QED
    BY <2>1, PathsAreStrings, WordsAssumption DEF prefix
<1>3. IsPrefix(a.path, prefix)
  <2>1. CASE a.encoding = "v3_slash"
    <3>1. prefix = Append(a.path, "c")
      BY <2>1 DEF ChunkPrefix
    <3> QED
      BY <1>2, <3>1, PrefixOfAppend
  <2>2. CASE a.encoding # "v3_slash"
    <3>1. prefix = a.path
      BY <2>2 DEF ChunkPrefix
    <3> QED
      BY <1>2, <3>1, PrefixOfItself
  <2> QED
    BY <2>1, <2>2
<1> HIDE DEF prefix
<1>4. /\ key \in Seq(STRING) /\ IsPrefix(prefix, key)
      /\ key # <<>> /\ SubSeq(key, Len(prefix) + 1, Len(key)) = <<"0">>
  <2>1. key = Append(prefix, "0")
    BY DEF DataKey, prefix
  <2>2. key \in Seq(STRING) /\ IsPrefix(prefix, key)
    BY <1>2, <2>1, ChunkAssumption, PrefixOfAppend
  <2>3. Len(key) = Len(prefix) + 1 /\ key[Len(prefix) + 1] = "0" /\ Len(prefix) \in Nat
    BY <1>2, <2>1
  <2> HIDE DEF key
  <2> DEFINE end == SubSeq(key, Len(prefix) + 1, Len(prefix) + 1)
             zero == <<"0">>
  <2>4. end \in Seq(STRING) /\ Len(end) = 1 /\ end[1] = "0"
    <3>1. Len(prefix) + 1 \in 1..Len(key) /\ \A i \in (Len(prefix) + 1)..(Len(prefix) + 1) : key[i] \in STRING
      BY <2>2, <2>3
    <3> QED
      BY <2>2, <2>3, <3>1, SubSeqProperties
  <2>5. zero \in Seq(STRING) /\ Len(zero) = 1 /\ zero[1] = "0"
    BY ChunkAssumption
  <2> HIDE DEF end, zero
  <2>6. \A i \in 1..Len(end) : end[i] = zero[i]
    BY <2>4, <2>5
  <2>7. end = zero
    BY <2>4, <2>5, <2>6, SeqEqual
  <2> QED
    BY <2>2, <2>3, <2>7 DEF end, zero
<1> HIDE DEF key
<1>5. IsPrefix(a.path, key)
  BY <1>2, <1>3, <1>4, PrefixTransitive
<1>6. ASSUME NEW n \in Nodes
      PROVE  IsPrefix(n, key) <=> IsPrefix(n, a.path)
  <2>1. n \in Seq(STRING)
    BY NodesArePaths
  <2>2. IsPrefix(n, a.path) => IsPrefix(n, key)
    BY <1>2, <1>4, <1>5, <2>1, PrefixTransitive
  <2>3. ASSUME IsPrefix(n, key)
        PROVE  IsPrefix(n, a.path)
    <3>1. Len(n) <= Len(a.path) \/ Len(a.path) <= Len(n)
      BY <1>2, <2>1
    <3>2. CASE Len(n) <= Len(a.path)
      BY <1>2, <1>4, <1>5, <2>1, <2>3, <3>2, PrefixesCompare
    <3>3. CASE Len(a.path) <= Len(n)
      <4>1. IsPrefix(a.path, n)
        BY <1>2, <1>4, <1>5, <2>1, <2>3, <3>3, PrefixesCompare
      <4>2. a.path = n
        BY <1>1, <4>1 DEF IsStrictPrefix
      <4> QED
        BY <2>1, <4>2, PrefixOfItself
    <3> QED
      BY <3>1, <3>2, <3>3
  <2> QED
    BY <2>2, <2>3
<1> QED
  BY <1>2, <1>3, <1>4, <1>6 DEF key, prefix

\* With the manifest of one scope at most above it, a key is archivable only by that one.
LEMMA DecidedByOne ==
  ASSUME NEW loaded \in Seq(Entries), NEW key \in Seq(STRING), NEW s0 \in Nodes,
         IsPrefix(s0, key),
         \A i, j \in 1..Len(loaded) : loaded[i].at = loaded[j].at => i = j,
         \A i \in 1..Len(loaded) : IsPrefix(loaded[i].at, key) => loaded[i].at = s0,
         Archivable(Lookup(AddAll(loaded), key))
  PROVE  \E i \in 1..Len(loaded) :
            /\ loaded[i].at = s0
            /\ Lookup(AddAll(loaded), key) = ResolveKey(s0, loaded[i].manifest, Below(s0, key))
<1>1. ASSUME NEW i \in 1..Len(loaded)
      PROVE  /\ loaded[i] \in Entries /\ loaded[i].scope = loaded[i].at
             /\ loaded[i].scope \in Seq(STRING)
             /\ PathsOf(loaded[i].manifest) \subseteq Seq(STRING)
  <2>1. loaded[i] \in Entries
    OBVIOUS
  <2>2. /\ loaded[i].at \in Nodes /\ loaded[i].scope = loaded[i].at
        /\ loaded[i].manifest \in ManifestFields /\ SoundBlobs(loaded[i].manifest.blobs)
    BY <2>1 DEF Entries
  <2> DEFINE m == loaded[i].manifest
  <2>3. PathsOf(m) \subseteq Seq(STRING)
    BY <2>2, PathsOfType
  <2> QED
    BY <2>1, <2>2, <2>3, NodesArePaths
<1>2. Len(loaded) \in Nat
  OBVIOUS
<1>3. ASSUME \A i \in 1..Len(loaded) : loaded[i].at # s0
      PROVE  FALSE
  <2>1. \A j \in 1..Len(loaded) : j # 0 => ~IsPrefix(loaded[j].scope, key)
    BY <1>1, <1>3
  <2> DEFINE zero == 0
  <2>2. zero \in 0..Len(loaded) /\ zero = 0
    BY <1>2
  <2>3. Lookup(AddAll(loaded), key) = Lookup(EmptyTrie, key)
    BY <1>1, <1>2, <2>1, <2>2, OneScopeDecides
  <2> QED
    BY <2>3, EmptyTrieArchivesNothing
<1>4. PICK i \in 1..Len(loaded) : loaded[i].at = s0
  BY <1>3
<1>5. i \in 0..Len(loaded) /\ i # 0
  BY <1>2
<1>6. \A j \in 1..Len(loaded) : j # i => ~IsPrefix(loaded[j].scope, key)
  BY <1>1, <1>4
<1>7. Lookup(AddAll(loaded), key)
        = Lookup(AddManifest(EmptyTrie, loaded[i].scope, loaded[i].manifest), key)
  BY <1>1, <1>2, <1>5, <1>6, OneScopeDecides
<1>8. loaded[i].scope = s0 /\ s0 \o Below(s0, key) = key
  BY <1>1, <1>4, NodesArePaths, BelowRestores
<1>9. Lookup(AddAll(loaded), key) = ResolveKey(s0, loaded[i].manifest, Below(s0, key))
  BY <1>7, <1>8, Zenon DEF ResolveKey
<1> QED
  BY <1>4, <1>9

\* What load_all makes of the manifests as they are.
LEMMA LoadedNow ==
  ASSUME Typed
  PROVE  /\ Loaded \in Seq(Entries)
         /\ \A i, j \in 1..Len(Loaded) : Loaded[i].at = Loaded[j].at => i = j
         /\ \A i \in 1..Len(Loaded) :
               LET s == Loaded[i].at
               IN /\ catalog[s] # Unreadable /\ Present(s) /\ catalog[s].scope = s
                  /\ Loaded[i].manifest = catalog[s].body
         /\ \A s \in Nodes : catalog[s] # Unreadable /\ Present(s) /\ catalog[s].scope = s =>
               \E i \in 1..Len(Loaded) : Loaded[i].at = s
<1> DEFINE readable == {n \in Nodes : catalog[n] # Unreadable /\ Accepted(n, catalog[n])}
           entry(s) == [at |-> s, scope |-> s, manifest |-> catalog[s].body]
           got == {entry(s) : s \in readable}
           order == InListOrder(got)
<1>1. Loaded = order
  BY DEF Loaded
<1>2. ASSUME NEW s \in readable
      PROVE  entry(s) \in Entries /\ Present(s)
  <2>1. catalog[s] \in StoredObjects \ {Unreadable} /\ catalog[s] # Absent
    BY DEF Typed, Accepted
  <2>2. catalog[s].body \in ManifestFields /\ SoundBlobs(catalog[s].body.blobs)
    BY <2>1 DEF StoredObjects
  <2> QED
    BY <2>1, <2>2 DEF Entries, Present
<1>3. /\ \A l \in got : l.at \in readable /\ l = entry(l.at)
      /\ \A s \in readable : entry(s) \in got /\ entry(s).at = s
  OBVIOUS
<1>4. got \in SUBSET Entries /\ \A l, k \in got : l.at = k.at => l = k
  BY <1>2, <1>3
<1>5. IsFiniteSet(got)
  <2> DEFINE f == [s \in readable |-> entry(s)]
  <2>1. IsFiniteSet(readable)
    BY NodesAssumption, FS_Subset
  <2>2. f \in Surjection(readable, got)
    BY DEF Surjection
  <2> HIDE DEF f, readable, got
  <2> QED
    BY <2>1, <2>2, FS_Surjection
<1> HIDE DEF got
<1>6. /\ order \in Seq(got)
      /\ \A l \in got : \E i \in 1..Len(order) : order[i] = l
      /\ \A i, j \in 1..Len(order) : order[i] = order[j] => i = j
  BY <1>4, <1>5, ListOrder
<1> HIDE DEF order
<1>7. \A i \in 1..Len(order) : order[i] \in got
  BY <1>6
<1>8. order \in Seq(Entries)
  BY <1>4, <1>6
<1>9. \A i, j \in 1..Len(order) : order[i].at = order[j].at => i = j
  BY <1>4, <1>6, <1>7
<1>10. ASSUME NEW i \in 1..Len(order)
       PROVE  LET s == order[i].at
              IN  /\ catalog[s] # Unreadable /\ Present(s) /\ catalog[s].scope = s
                  /\ order[i].manifest = catalog[s].body
  <2>1. order[i].at \in readable /\ order[i] = entry(order[i].at)
    BY <1>3, <1>7
  <2> QED
    BY <1>2, <2>1 DEF Accepted
<1>11. ASSUME NEW s \in Nodes, catalog[s] # Unreadable, Present(s), catalog[s].scope = s
       PROVE  \E i \in 1..Len(order) : order[i].at = s
  <2>1. s \in readable
    BY <1>11 DEF Accepted, Present
  <2>2. PICK l \in got : l.at = s
    BY <1>3, <2>1
  <2> QED
    BY <1>6, <2>2
<1> QED
  BY <1>1, <1>8, <1>9, <1>10, <1>11

\* Where one scope only has or had a say, and its manifest was not deleted, the trie has
\* that manifest or an earlier one, which moves no key.
LEMMA InvariantImpliesAgreement ==
  ASSUME IInv
  PROVE  StaleTrieAgrees
<1> SUFFICES ASSUME NEW a \in Range(Arrays),
                    Cardinality(Around(a.path)) = 1,
                    Around(a.path) \cap (deleted \cup recut) = {},
                    Archivable(Lookup(AddAll(index), DataKey(a))),
                    Archivable(Lookup(AddAll(Loaded), DataKey(a)))
             PROVE  Lookup(AddAll(index), DataKey(a)) = Lookup(AddAll(Loaded), DataKey(a))
  BY Zenon DEF StaleTrieAgrees
<1> DEFINE key == DataKey(a)
<1>1. /\ key \in Seq(STRING)
      /\ \A n \in Nodes : IsPrefix(n, key) <=> IsPrefix(n, a.path)
  BY KeyOfArray
<1>2. PICK s0 : Around(a.path) = {s0}
  <2>1. IsFiniteSet(Around(a.path))
    BY NodesAssumption, FS_Subset DEF Around
  <2> QED
    BY <2>1, FS_Singleton
<1>3. s0 \in Nodes /\ s0 \notin deleted \cup recut /\ IsPrefix(s0, key) /\ s0 \in Seq(STRING)
  BY <1>1, <1>2, NodesArePaths DEF Around
<1>4. /\ index \in Seq(Entries)
      /\ \A i, j \in 1..Len(index) : index[i].at = index[j].at => i = j
      /\ \A i \in 1..Len(index) : \/ index[i].at \in deleted \cup recut
                                  \/ Later(index[i].at, index[i].manifest)
  <2>1. /\ index \in Seq(Entries)
        /\ \A i, j \in DOMAIN index : index[i].at = index[j].at => i = j
        /\ \A l \in Range(index) : l.at \in deleted \cup recut \/ Later(l.at, l.manifest)
    BY DEF IInv, Following
  <2>2. DOMAIN index = 1..Len(index) /\ \A i \in DOMAIN index : index[i] \in Range(index)
    BY <2>1 DEF Range
  <2> QED
    BY <2>1, <2>2
<1>5. /\ Loaded \in Seq(Entries)
      /\ \A i, j \in 1..Len(Loaded) : Loaded[i].at = Loaded[j].at => i = j
      /\ \A i \in 1..Len(Loaded) :
            LET s == Loaded[i].at
            IN /\ catalog[s] # Unreadable /\ Present(s)
               /\ Loaded[i].manifest = catalog[s].body
  BY LoadedNow DEF IInv
<1> HIDE DEF key
<1>6. ASSUME NEW i \in 1..Len(index), IsPrefix(index[i].at, key)
      PROVE  index[i].at = s0
  <2>1. index[i] \in Range(index) /\ index[i] \in Entries
    BY <1>4 DEF Range
  <2>2. index[i].at \in Nodes /\ index[i].scope = index[i].at
    BY <2>1 DEF Entries
  <2>3. index[i].at \in Around(a.path)
    BY <1>1, <1>6, <2>1, <2>2 DEF Around
  <2> QED
    BY <1>2, <2>3
<1>7. ASSUME NEW i \in 1..Len(Loaded), IsPrefix(Loaded[i].at, key)
      PROVE  Loaded[i].at = s0
  <2>1. Loaded[i].at \in Nodes /\ Present(Loaded[i].at)
    BY <1>5 DEF Entries
  <2>2. Loaded[i].at \in Around(a.path)
    BY <1>1, <1>7, <2>1 DEF Around
  <2> QED
    BY <1>2, <2>2
<1> DEFINE rest == Below(s0, key)
<1>8. rest \in Seq(STRING)
  BY <1>1, <1>3, BelowRestores
<1>9. PICK i \in 1..Len(index) :
         /\ index[i].at = s0
         /\ Lookup(AddAll(index), key) = ResolveKey(s0, index[i].manifest, rest)
  <2>1. Archivable(Lookup(AddAll(index), key))
    BY DEF key
  <2> QED
    BY <1>1, <1>3, <1>4, <1>6, <2>1, DecidedByOne
<1>10. PICK j \in 1..Len(Loaded) :
          /\ Loaded[j].at = s0
          /\ Lookup(AddAll(Loaded), key) = ResolveKey(s0, Loaded[j].manifest, rest)
  <2>1. Archivable(Lookup(AddAll(Loaded), key))
    BY DEF key
  <2> HIDE DEF rest
  <2> DEFINE now == Loaded
  <2>2. /\ now \in Seq(Entries) /\ Archivable(Lookup(AddAll(now), key))
        /\ \A k, l \in 1..Len(now) : now[k].at = now[l].at => k = l
        /\ \A k \in 1..Len(now) : IsPrefix(now[k].at, key) => now[k].at = s0
    BY <1>5, <1>7, <2>1
  <2> HIDE DEF now
  <2>3. \E k \in 1..Len(now) :
            /\ now[k].at = s0
            /\ Lookup(AddAll(now), key) = ResolveKey(s0, now[k].manifest, Below(s0, key))
    BY <1>1, <1>3, <2>2, DecidedByOne
  <2> QED
    BY <2>3 DEF now, rest
<1> HIDE DEF rest
<1> DEFINE old == index[i].manifest
           new == Loaded[j].manifest
           added == new.blobs \ old.blobs
<1>11. /\ old \in ManifestFields /\ SoundBlobs(old.blobs)
       /\ new \in ManifestFields /\ SoundBlobs(new.blobs)
  <2>1. index[i] \in Entries /\ Loaded[j] \in Entries
    BY <1>4, <1>5
  <2> QED
    BY <2>1 DEF Entries
<1>12. Extends(old, new)
  BY <1>3, <1>4, <1>5, <1>9, <1>10 DEF Later
<1> HIDE DEF old, new
<1>13. /\ old.blobs \subseteq new.blobs /\ new.blobs = old.blobs \cup added
       /\ \A p \in PrefixesOf(old.blobs), q \in PrefixesOf(added) : ~IsPrefix(p, q)
  BY <1>12 DEF Extends
<1> HIDE DEF added
<1>14. Archivable(ResolveKey(s0, old, rest)) /\ Archivable(ResolveKey(s0, new, rest))
  BY <1>9, <1>10 DEF key, old, new
<1>15. ResolveKey(s0, old, rest) = ResolveKey(s0, new, rest)
  BY <1>3, <1>8, <1>11, <1>13, <1>14, KeyStays
<1> QED
  BY <1>9, <1>10, <1>15 DEF key, old, new

----------------------------------------------------------------------------
(* What a report finds unmanaged *)

\* What is below a prefix stays below it under a scope.
LEMMA PrefixUnder ==
  ASSUME NEW X, NEW s \in Seq(X), NEW p \in Seq(X), NEW q \in Seq(X), IsPrefix(p, q)
  PROVE  IsPrefix(s \o p, s \o q)
<1> DEFINE x == s \o p
           y == s \o q
           n == Len(s)
<1>1. Len(p) <= Len(q) /\ \A i \in 1..Len(p) : p[i] = q[i]
  BY PrefixPointwise
<1>2. /\ x \in Seq(X) /\ Len(x) = n + Len(p)
      /\ \A i \in 1..(n + Len(p)) : x[i] = IF i <= n THEN s[i] ELSE p[i - n]
  BY ConcatProperties
<1>3. /\ y \in Seq(X) /\ Len(y) = n + Len(q)
      /\ \A i \in 1..(n + Len(q)) : y[i] = IF i <= n THEN s[i] ELSE q[i - n]
  BY ConcatProperties
<1>4. n \in Nat /\ Len(p) \in Nat /\ Len(q) \in Nat
  OBVIOUS
<1> HIDE DEF x, y, n
<1>5. ASSUME NEW i \in 1..Len(x)
      PROVE  x[i] = y[i]
  <2>1. i \in 1..(n + Len(p)) /\ i \in 1..(n + Len(q))
    BY <1>1, <1>2, <1>4
  <2>2. i <= n \/ i - n \in 1..Len(p)
    BY <1>4, <2>1
  <2> QED
    BY <1>1, <1>2, <1>3, <2>1, <2>2
<1>6. Len(x) <= Len(y)
  BY <1>1, <1>2, <1>3, <1>4
<1> QED
  BY <1>2, <1>3, <1>5, <1>6, PrefixPointwise DEF x, y

\* A bucket for an array numbers its chunks.
LEMMA ChunkIsNumbered ==
  ASSUME NEW b, IsBucketed(b) => b.bucket.index = 0
  PROVE  ResolveIn(b, <<"0">>).kind = "blob"
<1> DEFINE rest == <<"0">>
<1>1. \A n : Instance(b, n).kind = "blob"
  BY DEF Instance
<1>2. CASE IsBucketed(b)
  <2>1. Indices[rest[1]] = <<0>> /\ rest # <<>> /\ Len(rest) = 1
    BY ChunkAssumption
  <2>2. b.bucket.index = 0
    BY <1>2
  <2> DEFINE ints == Indices[rest[1]]
  <2>3. Len(ints) = 1 /\ ints[1] = 0
    BY <2>1
  <2> HIDE DEF ints, rest
  <2>4. ChunkIndex(b.bucket, rest) = 0
    <3>1. /\ b.bucket.index + 1 = 1 /\ b.bucket.index < 1
          /\ Indices[rest[b.bucket.index + 1]] = ints
      BY <2>2 DEF ints
    <3>2. CASE b.bucket.encoding = "v2_flat"
      BY <2>1, <2>3, <3>1, <3>2, Zenon DEF ChunkIndex, ints
    <3>3. CASE b.bucket.encoding # "v2_flat"
      BY <2>1, <2>3, <3>1, <3>3, Zenon DEF ChunkIndex
    <3> QED
      BY <3>2, <3>3
  <2>5. ChunkIndex(b.bucket, rest) # NotAnInt
    BY <2>4 DEF NotAnInt
  <2> QED
    BY <1>1, <1>2, <2>5, Zenon DEF ResolveIn, rest
<1>3. CASE ~IsBucketed(b)
  BY <1>1, <1>3, Zenon DEF ResolveIn
<1> QED
  BY <1>2, <1>3

\* What numbers the chunks of an array, above a key, is that array's own.
LEMMA NumberedByOwn ==
  ASSUME NEW a \in Range(Arrays), NEW d \in Range(Arrays), IsPrefix(ChunkPrefix(d), DataKey(a))
  PROVE  d = a
<1>1. /\ DataKey(a) \in Seq(STRING)
      /\ \A n \in Nodes : IsPrefix(n, DataKey(a)) <=> IsPrefix(n, a.path)
  BY KeyOfArray
<1>2. /\ d.path \in Seq(STRING) /\ ChunkPrefix(d) \in Seq(STRING)
      /\ IsPrefix(d.path, ChunkPrefix(d))
  BY KeyOfArray
<1>3. IsPrefix(d.path, DataKey(a))
  BY <1>1, <1>2, PrefixTransitive
<1>4. d.path \in Nodes /\ a.path \in Nodes /\ ~\E n \in Nodes : IsStrictPrefix(d.path, n)
  BY ArraysAssumption
<1>5. IsPrefix(d.path, a.path)
  BY <1>1, <1>3, <1>4
<1>6. d.path = a.path
  BY <1>4, <1>5 DEF IsStrictPrefix
<1> QED
  BY <1>6, ArraysAssumption

\* A run saw the array and its manifest is in place: a reload from now has a marker for
\* its keys.
LEMMA PlacedIsMarked ==
  ASSUME IInv, NEW a \in Range(Arrays), NEW s \in Nodes, Placed(a, s)
  PROVE  Matches(AddAll(Loaded), DataKey(a)) # {}
<1> DEFINE seen == Relative(a, s)
           m == catalog[s].body
<1>1. s # <<>> /\ a.path \in listed[s] /\ catalog[s].scope = s
  BY DEF Placed, NoScope
<1>2. catalog[s] # Unreadable /\ Present(s)
  BY <1>1 DEF Unreadable, Absent, Present, NoScope
<1>3. /\ IsPrefix(s, a.path)
      /\ Below(s, a.path) \in m.hot \/ Claimed(seen, m.blobs)
  BY <1>1, <1>2 DEF IInv, Seeing, SeeingAt, Seen, Listable
<1>4. SoundManifest(m)
  BY <1>2, KnownObjects DEF IInv, Typed
<1>5. s \in Seq(STRING) /\ s \in Paths
  BY NodesArePaths
<1>6. /\ a.path \in Seq(STRING) /\ ChunkPrefix(a) \in Seq(STRING) /\ DataKey(a) \in Seq(STRING)
      /\ IsPrefix(a.path, ChunkPrefix(a)) /\ IsPrefix(ChunkPrefix(a), DataKey(a))
  BY KeyOfArray
<1> DEFINE marked(at) == /\ at \in BlobPaths(s, m) \cup HotOnes(s, m)
                         /\ at # <<>> /\ IsPrefix(at, DataKey(a))
<1>7. ASSUME Below(s, a.path) \in m.hot
      PROVE  marked(a.path)
  <2>1. s \o Below(s, a.path) = a.path
    BY <1>3, <1>5, <1>6, BelowRestores
  <2>2. a.path \in HotOnes(s, m)
    BY <1>7, <2>1 DEF HotOnes
  <2>3. a.path # <<>>
    BY <1>1, <1>3, <1>5, <1>6, EmptySeq DEF IsPrefix
  <2>4. IsPrefix(a.path, DataKey(a))
    BY <1>6, PrefixTransitive
  <2> QED
    BY <2>2, <2>3, <2>4
<1>8. ASSUME Claimed(seen, m.blobs)
      PROVE  \E at : marked(at)
  <2>1. PICK b \in m.blobs : \E p \in Range(b.prefixes) : IsPrefix(p, ChunkPrefix(seen))
    BY <1>8 DEF Claimed
  <2>2. PICK p \in Range(b.prefixes) : IsPrefix(p, ChunkPrefix(seen))
    BY <2>1
  <2>3. p \in Seq(STRING) /\ p \in ClaimedPrefixes(m)
    <3>1. p \in ClaimedPrefixes(m)
      BY DEF ClaimedPrefixes
    <3> QED
      BY <1>4, <3>1, PathsOfType DEF SoundManifest, PathsOf
  <2>4. s \o ChunkPrefix(seen) = ChunkPrefix(a) /\ ChunkPrefix(seen) \in Seq(STRING)
    <3>1. /\ seen \in ArrayFields /\ s \o ChunkPrefix(seen) = ChunkPrefix(a)
          /\ seen.path \in Paths
      BY <1>3, <1>5, SeenArray
    <3>2. seen.path \in Seq(STRING) /\ "c" \in STRING
      BY <3>1, PathsAreStrings, WordsAssumption
    <3> QED
      BY <3>1, <3>2, PrefixOfAppend DEF ChunkPrefix
  <2> DEFINE at == s \o p
  <2>5. IsPrefix(at, ChunkPrefix(a))
    <3>1. IsPrefix(s \o p, s \o ChunkPrefix(seen))
      BY <1>5, <2>2, <2>3, <2>4, PrefixUnder
    <3> QED
      BY <2>4, <3>1, Zenon
  <2>6. at \in Seq(STRING) /\ at # <<>>
    BY <1>1, <1>5, <2>3, ConcatProperties, EmptySeq
  <2>7. at \in BlobPaths(s, m)
    BY <2>3 DEF BlobPaths
  <2> HIDE DEF at
  <2>8. IsPrefix(at, DataKey(a))
    BY <1>6, <2>5, <2>6, PrefixTransitive
  <2> QED
    BY <2>6, <2>7, <2>8
<1>9. PICK at : marked(at)
  BY <1>3, <1>7, <1>8
<1>10. at \in BlobPaths(s, m) \cup HotOnes(s, m) /\ at # <<>> /\ IsPrefix(at, DataKey(a))
  BY <1>9
<1>11. PICK i \in 1..Len(Loaded) : Loaded[i].at = s
  BY <1>1, <1>2, LoadedNow DEF IInv
<1>12. Loaded[i].scope = s /\ Loaded[i].manifest = m /\ Len(Loaded) \in Nat
  <2>1. Loaded \in Seq(Entries) /\ Loaded[i].manifest = catalog[Loaded[i].at].body
    BY LoadedNow DEF IInv
  <2>2. Loaded[i] \in Entries /\ Len(Loaded) \in Nat
    BY <2>1
  <2> QED
    BY <1>11, <2>1, <2>2 DEF Entries
<1>13. at \in MarkedBy(Loaded[i])
  BY <1>10, <1>12 DEF MarkedBy
<1>14. DOMAIN AddAll(Loaded).main = UNION {MarkedBy(Loaded[j]) : j \in 1..Len(Loaded)}
  BY <1>12, MarksOfAll
<1>15. at \in DOMAIN AddAll(Loaded).main
  BY <1>13, <1>14
<1> QED
  BY <1>10, <1>15 DEF Matches

\* The markers above the keys of an array, where no run took another store's manifest for
\* its own, are hot or those of blobs that number them.
LEMMA MarkedIsManaged ==
  ASSUME IInv, NEW a \in Range(Arrays), ~Disturbed(a),
         Matches(AddAll(Loaded), DataKey(a)) # {}
  PROVE  Lookup(AddAll(Loaded), DataKey(a)).kind # "unmanaged"
<1> DEFINE key == DataKey(a)
           trie == AddAll(Loaded)
           matches == Matches(trie, key)
           at == Deepest(matches)
           rest == SubSeq(key, Len(at) + 1, Len(key))
<1>1. /\ key \in Seq(STRING) /\ key # <<>>
      /\ \A n \in Nodes : IsPrefix(n, key) <=> IsPrefix(n, a.path)
      /\ SubSeq(key, Len(ChunkPrefix(a)) + 1, Len(key)) = <<"0">>
  BY KeyOfArray
<1>2. /\ Loaded \in Seq(Entries) /\ Len(Loaded) \in Nat
      /\ \A i \in 1..Len(Loaded) :
            /\ Loaded[i] \in Entries
            /\ catalog[Loaded[i].at] # Unreadable /\ Present(Loaded[i].at)
            /\ catalog[Loaded[i].at].scope = Loaded[i].at
            /\ Loaded[i].manifest = catalog[Loaded[i].at].body
  <2>1. Loaded \in Seq(Entries)
    BY LoadedNow DEF IInv
  <2>2. Len(Loaded) \in Nat /\ \A i \in 1..Len(Loaded) : Loaded[i] \in Entries
    BY <2>1
  <2> QED
    BY <2>1, <2>2, LoadedNow DEF IInv
<1>3. /\ DOMAIN trie.main = UNION {MarkedBy(Loaded[j]) : j \in 1..Len(Loaded)}
      /\ \A x \in DOMAIN trie.main : MarkOf(Loaded, Len(Loaded), x, trie.main[x])
  BY <1>2, MarksOfAll
<1>4. DOMAIN trie.main \subseteq Seq(STRING)
  <2>1. ASSUME NEW j \in 1..Len(Loaded)
        PROVE  MarkedBy(Loaded[j]) \subseteq Seq(STRING)
    <3>1. /\ Loaded[j].scope \in Nodes
          /\ Loaded[j].manifest \in ManifestFields /\ SoundBlobs(Loaded[j].manifest.blobs)
      BY <1>2 DEF Entries
    <3> DEFINE m == Loaded[j].manifest
    <3>2. Loaded[j].scope \in Seq(STRING) /\ PathsOf(m) \subseteq Seq(STRING)
      BY <3>1, NodesArePaths, PathsOfType
    <3>3. \A p \in PathsOf(m) : Loaded[j].scope \o p \in Seq(STRING)
      BY <3>2, ConcatProperties
    <3> QED
      BY <3>3 DEF MarkedBy, BlobPaths, HotOnes, PathsOf
  <2> QED
    BY <1>3, <2>1
<1>5. /\ matches # {} /\ matches \in SUBSET Seq(STRING) /\ matches \subseteq DOMAIN trie.main
      /\ \A p \in matches : IsPrefix(p, key)
  BY <1>4 DEF Matches
<1> HIDE DEF matches
<1>6. at \in matches
  BY <1>1, <1>5, DeepestIsThere
<1> HIDE DEF at
<1>7. at \in Seq(STRING) /\ IsPrefix(at, key) /\ MarkOf(Loaded, Len(Loaded), at, trie.main[at])
  BY <1>3, <1>5, <1>6
<1>8. ASSUME trie.main[at].kind # "hot"
      PROVE  ResolveIn(trie.main[at].blob, rest).kind = "blob"
  <2>1. PICK j \in 1..Len(Loaded) : \E b \in Loaded[j].manifest.blobs : \E p \in Range(b.prefixes) :
           Loaded[j].scope \o p = at /\ trie.main[at] = BlobMarker(b)
    <3>1. trie.main[at] # HotMarker
      BY <1>8 DEF HotMarker
    <3> HIDE DEF trie
    <3> QED
      BY <1>7, <3>1, Zenon DEF MarkOf
  <2>2. PICK b \in Loaded[j].manifest.blobs : \E p \in Range(b.prefixes) :
           Loaded[j].scope \o p = at /\ trie.main[at] = BlobMarker(b)
    BY <2>1
  <2>3. PICK p \in Range(b.prefixes) : Loaded[j].scope \o p = at /\ trie.main[at] = BlobMarker(b)
    BY <2>2
  <2> DEFINE s == Loaded[j].scope
             m == Loaded[j].manifest
  <2>4. /\ s \in Nodes /\ s \in Seq(STRING) /\ m \in ManifestFields /\ SoundBlobs(m.blobs)
        /\ catalog[s] # Unreadable /\ Present(s) /\ catalog[s].scope = s /\ m = catalog[s].body
    BY <1>2, NodesArePaths DEF Entries
  <2>5. b \in m.blobs /\ p \in Range(b.prefixes) /\ s \o p = at /\ trie.main[at].blob = b
    BY <2>3 DEF BlobMarker
  <2> HIDE DEF s, m
  <2>6. p \in Seq(STRING)
    <3>1. p \in PathsOf(m)
      BY <2>5 DEF PathsOf, ClaimedPrefixes
    <3> QED
      BY <2>4, <3>1, PathsOfType
  <2>7. IsPrefix(s, a.path)
    <3>1. IsPrefix(s, key)
      <4>1. IsPrefix(s \o p, key)
        BY <1>7, <2>5
      <4> QED
        BY <1>1, <2>4, <2>6, <4>1, BelowScope
    <3> QED
      BY <1>1, <2>4, <3>1
  <2>8. Numbered(s, m)
    <3>1. s \notin adopted
      BY <2>4, <2>7 DEF Disturbed
    <3> QED
      BY <2>4, <3>1 DEF IInv, Seeing, SeeingAt
  <2>9. CASE IsBucketed(b)
    <3>1. PICK d \in Range(Arrays) : s \o p = ChunkPrefix(d) /\ b.bucket.index = 0
      BY <2>5, <2>8, <2>9 DEF Numbered
    <3>2. d = a
      BY <1>7, <2>5, <3>1, NumberedByOwn DEF key
    <3>3. rest = <<"0">>
      BY <1>1, <2>5, <3>1, <3>2
    <3>4. ResolveIn(b, <<"0">>).kind = "blob"
      BY <3>1, ChunkIsNumbered
    <3> QED
      BY <2>5, <3>3, <3>4
  <2>10. CASE ~IsBucketed(b)
    BY <2>5, <2>10 DEF ResolveIn, Instance
  <2> QED
    BY <2>9, <2>10
<1>9. \A kind : Resolution(kind).kind = kind
  BY DEF Resolution
<1>10. \/ Lookup(trie, key) \in {Resolution("hot"), Resolution("pinned")}
       \/ /\ trie.main[at].kind # "hot"
          /\ Lookup(trie, key) = ResolveIn(trie.main[at].blob, rest)
  <2> HIDE DEF key, trie
  <2> QED
    BY <1>1, <1>5, Zenon DEF Lookup, at, matches, rest
<1>11. Lookup(trie, key).kind \in {"hot", "pinned", "blob"}
  <2> HIDE DEF key, trie, rest
  <2> QED
    BY <1>8, <1>9, <1>10
<1> QED
  BY <1>11

\* The sizes that a report adds up are weights.
LEMMA SizesAreSummed ==
  ASSUME NEW S
  PROVE  MapThenSumSet(LAMBDA o : o.size, S) = Summed([o \in S |-> o.size], S)
<1> DEFINE w == [o \in S |-> o.size]
           step(f, s) == IF s = {} THEN 0 ELSE One(s).size + f[s \ {One(s)}]
           P(f) == f = [s \in SUBSET S |-> step(f, s)]
<1>1. MapThenSumSet(LAMBDA o : o.size, S) = (CHOOSE f : P(f))[S]
  BY DEF MapThenSumSet, MapThenFoldSet, One
<1>2. ASSUME NEW f, NEW s \in SUBSET S
      PROVE  step(f, s) = SumStep(w, f, s)
  <2>1. CASE s = {}
    BY <2>1 DEF SumStep
  <2>2. CASE s # {}
    <3>1. One(s) \in S
      BY <2>2 DEF One
    <3>2. w[One(s)] = One(s).size
      BY <3>1
    <3> QED
      BY <2>2, <3>2 DEF SumStep
  <2> QED
    BY <2>1, <2>2
<1> HIDE DEF step, w
<1>3. \A f : P(f) <=> Summing(w, S, f)
  <2> SUFFICES ASSUME NEW f PROVE P(f) <=> Summing(w, S, f)
    OBVIOUS
  <2>1. [s \in SUBSET S |-> step(f, s)] = [s \in SUBSET S |-> SumStep(w, f, s)]
    BY <1>2
  <2> QED
    BY <2>1 DEF Summing
<1> HIDE DEF P
<1>4. (CHOOSE f : P(f)) = (CHOOSE f : Summing(w, S, f))
  BY <1>3
<1> QED
  BY <1>1, <1>4 DEF Summed, w

\* Metadata is hot, and the data of an array that a run placed is managed.
LEMMA UnmanagedObjects ==
  ASSUME IInv, NEW o \in Objects, Lookup(AddAll(Loaded), o.key).kind = "unmanaged"
  PROVE  \E a \in Range(Arrays) :
            /\ a.path \in written
            /\ Disturbed(a) \/ ~\E s \in Nodes : Placed(a, s)
            /\ o = [key |-> DataKey(a), size |-> TotalBytes(a)]
<1>1. CASE \E n \in written : o = [key |-> Append(n, "zarr.json"), size |-> 1]
  <2>1. PICK n \in written : o = [key |-> Append(n, "zarr.json"), size |-> 1]
    BY <1>1
  <2> DEFINE key == Append(n, "zarr.json")
  <2>2. n \in Seq(DOMAIN Words)
    BY NodesAssumption DEF IInv, Typed
  <2>3. key # <<>> /\ Last(key) = "zarr.json"
    BY <2>2 DEF Last
  <2> HIDE DEF key
  <2>4. Lookup(AddAll(Loaded), key) = Resolution("hot")
    BY <2>3, BasenameAssumption, Zenon DEF Lookup
  <2>5. o.key = key
    BY <2>1 DEF key
  <2>6. Resolution("hot").kind = "hot"
    BY DEF Resolution
  <2> QED
    BY <2>4, <2>5, <2>6
<1>2. CASE \E a \in Range(Arrays) : /\ a.path \in written
                                    /\ o = [key |-> DataKey(a), size |-> TotalBytes(a)]
  <2>1. PICK a \in Range(Arrays) : /\ a.path \in written
                                   /\ o = [key |-> DataKey(a), size |-> TotalBytes(a)]
    BY <1>2
  <2>2. Lookup(AddAll(Loaded), DataKey(a)).kind = "unmanaged"
    BY <2>1
  <2>3. ASSUME ~Disturbed(a), NEW s \in Nodes, Placed(a, s)
        PROVE  FALSE
    <3>1. Matches(AddAll(Loaded), DataKey(a)) # {}
      BY <2>3, PlacedIsMarked
    <3> QED
      BY <2>2, <2>3, <3>1, MarkedIsManaged
  <2> QED
    BY <2>1, <2>3
<1> QED
  BY <1>1, <1>2, Zenon DEF Objects

\* The bytes that a report finds unmanaged are those of arrays no run placed.
LEMMA InvariantImpliesExplained ==
  ASSUME IInv
  PROVE  UnmanagedIsExplained
<1> DEFINE left == {a \in Range(Arrays) : /\ a.path \in written
                                          /\ Disturbed(a) \/ ~\E s \in Nodes : Placed(a, s)}
           object(a) == [key |-> DataKey(a), size |-> TotalBytes(a)]
           found == {o \in Objects : Lookup(AddAll(Loaded), o.key).kind = "unmanaged"}
           kept == {a \in left : object(a) \in found}
           w == Weight(Arrays)
           v == [o \in found |-> o.size]
           f == [a \in kept |-> object(a)]
<1>1. IsListing(Arrays) /\ IsFiniteSet(Range(Arrays))
  BY ArraysAssumption, ListingIsFinite
<1>2. left \in SUBSET Range(Arrays) /\ kept \in SUBSET left /\ kept \in SUBSET Range(Arrays)
  OBVIOUS
<1>3. \A a \in Range(Arrays) : w[a] = TotalBytes(a) /\ w[a] \in Nat
  BY <1>1, WeightsAreNumbers
<1>4. Report(Loaded)["unmanaged"] = MapThenSumSet(LAMBDA o : o.size, found)
  <2> DEFINE resolved == [o \in Objects |-> Lookup(AddAll(Loaded), o.key).kind]
  <2>1. {o \in Objects : resolved[o] = "unmanaged"} = found
    OBVIOUS
  <2>2. Report(Loaded)["unmanaged"]
          = MapThenSumSet(LAMBDA o : o.size, {o \in Objects : resolved[o] = "unmanaged"})
    BY DEF Report
  <2> QED
    BY <2>1, <2>2
<1>5. MapThenSumSet(LAMBDA o : o.size, found) = Summed(v, found)
  BY SizesAreSummed
<1>6. MapThenSumSet(TotalBytes, left) = Summed(w, left)
  BY BytesAreSummed
<1>7. found = {f[a] : a \in kept}
  <2>1. ASSUME NEW o \in found
        PROVE  \E a \in kept : o = object(a)
    <3>1. PICK a \in left : o = object(a)
      BY UnmanagedObjects
    <3> QED
      BY <3>1
  <2>2. \A a \in kept : f[a] = object(a) /\ f[a] \in found
    OBVIOUS
  <2> HIDE DEF f, kept, found, object
  <2> QED
    BY <2>1, <2>2
<1>8. \A a \in kept : f[a] \in found /\ v[f[a]] = w[a]
  <2>1. \A a \in kept : f[a] = object(a) /\ object(a) \in found /\ object(a).size = TotalBytes(a)
    OBVIOUS
  <2> HIDE DEF f, kept, found, object, w
  <2> QED
    BY <1>2, <1>3, <2>1
<1>9. ASSUME NEW a \in kept, NEW d \in kept, f[a] = f[d]
      PROVE  a = d
  <2>1. DataKey(a) = DataKey(d)
    <3>1. object(a) = object(d)
      BY <1>9
    <3>2. object(a).key = DataKey(a) /\ object(d).key = DataKey(d)
      OBVIOUS
    <3> HIDE DEF object
    <3> QED
      BY <3>1, <3>2
  <2>2. a \in Range(Arrays) /\ d \in Range(Arrays)
    OBVIOUS
  <2>3. IsPrefix(ChunkPrefix(d), DataKey(a))
    BY <2>1, <2>2, KeyOfArray
  <2> QED
    BY <2>2, <2>3, NumberedByOwn
<1> HIDE DEF f, v, w, found, kept, left
<1>10. IsFiniteSet(kept) /\ IsFiniteSet(left)
  BY <1>1, <1>2, FS_Subset
<1>11. IsFiniteSet(found)
  <2>1. f \in Surjection(kept, found)
    <3>1. f = [a \in kept |-> f[a]]
      BY DEF f
    <3> QED
      BY <1>7, <3>1 DEF Surjection
  <2> QED
    BY <1>10, <2>1, FS_Surjection
<1>12. \A o \in found : v[o] \in Nat
  BY <1>2, <1>3, <1>7, <1>8
<1>13. Summed(v, found) = Summed(w, kept)
  <2>1. Summed(v, {f[a] : a \in kept}) = Summed(w, kept)
    BY <1>8, <1>9, <1>10, <1>11, <1>12, SumOfImage
  <2> QED
    BY <1>7, <2>1
<1>14. Summed(w, kept) <= Summed(w, left)
  BY <1>2, <1>3, <1>10, SumOfPart
<1> QED
  BY <1>4, <1>5, <1>6, <1>13, <1>14 DEF UnmanagedIsExplained, left

----------------------------------------------------------------------------
(* The theorems *)

LEMMA InitInvariant ==
  ASSUME Init
  PROVE  IInv
<1>1. NothingNoted \in Notes /\ IdleScan \in Scans /\ IdleLoad \in Loads
  BY DEF NothingNoted, IdleScan, IdleLoad, NoScope, Notes, Scans, Loads
<1>2. /\ noted.found = {} /\ scan.pc = "idle" /\ scan.known = {} /\ scan.frontier = {}
      /\ load.pc = "idle" /\ load.got = {}
  BY DEF Init, NothingNoted, IdleScan, IdleLoad
<1>3. Range(index) = {}
  BY DEF Init, Range
<1>4. Typed
  BY <1>1, <1>3, KnownObjects, NodesAssumption DEF Init, Typed
<1>5. Scanning
  BY <1>2 DEF Scanning
<1>6. Reading
  BY <1>2, FS_EmptySet DEF Reading
<1>7. Following
  <2>1. index = <<>> /\ index \in Seq(Entries)
    BY DEF Init
  <2> QED
    BY <1>2, <1>3, <2>1 DEF Following
<1>8. Seeing
  <2>1. \A s \in Nodes : catalog[s] = Absent /\ listed[s] = {}
    BY DEF Init
  <2> QED
    BY <2>1 DEF Seeing, SeeingAt, Present
<1> QED
  BY <1>4, <1>5, <1>6, <1>7, <1>8 DEF IInv

LEMMA NextInvariant ==
  ASSUME Numerals(Nat), IInv, [Next]_vars
  PROVE  IInv'
<1>1. CASE Next
  <2>1. Typed' /\ Scanning' /\ Reading' /\ Following' /\ Seeing'
    BY <1>1, TypedPreserved, ScanningPreserved, ReadingPreserved, FollowingPreserved,
       SeeingPreserved DEF IInv
  <2> QED
    BY <2>1 DEF IInv
<1>2. CASE UNCHANGED vars
  BY <1>2 DEF IInv, vars, storeVars, Typed, Scanning, Wanted, Done, Ahead, Present, Absent,
              Reading, Recent, Following, Later, Seeing, SeeingAt, Seen, Listable
<1> QED
  BY <1>1, <1>2

\* What is found is of its type, and the scan below its root and within its depth.
LEMMA InvariantImpliesTypeOK ==
  ASSUME IInv
  PROVE  TypeOK
<1>1. /\ written \subseteq Nodes /\ deleted \subseteq Nodes /\ recut \subseteq Nodes
      /\ \A s \in Nodes : listed[s] \subseteq Nodes
      /\ scan.pc \in {"idle", "walk", "list", "partition"} /\ scan.known \subseteq Nodes
      /\ load.pc \in {"idle", "read"} /\ load.names \subseteq Nodes
      /\ scan.pc = "partition" => scan.at \in written
  BY DEF IInv, Typed, Scans, Loads, Scanning
<1>2. \A p \in scan.frontier : IsPrefix(Root, p) /\ Depth(p) \in 0..MaxDepth
  <2>1. \A p \in scan.frontier : IsPrefix(Root, p) /\ Depth(p) <= MaxDepth /\ p \in Seq(STRING)
    BY DEF IInv, Typed, Scans, Scanning
  <2>2. \A p \in Seq(STRING) : IsPrefix(Root, p) => Len(p) - Len(Root) \in Nat
    BY RootAssumption DEF IsPrefix
  <2> QED
    BY <2>1, <2>2, MaxDepthAssumption DEF Depth
<1>3. ASSUME NEW m, SoundManifest(m)
      PROVE  Valid(m)
  BY <1>3 DEF SoundManifest, SoundBlobs, Valid
<1>4. \A m \in Manifests : SoundManifest(m)
  <2>1. \A o \in {catalog[s] : s \in Nodes} \ {Unreadable} : SoundManifest(o.body)
    BY KnownObjects DEF IInv, Typed
  <2>2. \A l \in Range(index) : SoundManifest(l.manifest)
    BY DEF IInv, Typed, Entries, SoundManifest
  <2> QED
    BY <2>1, <2>2 DEF Manifests
<1> QED
  BY <1>1, <1>2, <1>3, <1>4 DEF TypeOK

\* Every manifest in the bucket and in the service's trie is valid, also those that were
\* carried over from a misplaced one, and the scan stays within its bounds.
THEOREM TypeCorrect ==
  ASSUME Numerals(Nat)
  PROVE  Spec => []TypeOK
<1>1. Init => IInv
  BY InitInvariant
<1>2. IInv /\ [Next]_vars => IInv'
  BY NextInvariant
<1>3. IInv => TypeOK
  BY InvariantImpliesTypeOK
<1> QED
  BY <1>1, <1>2, <1>3, PTL DEF Spec

\* A scan that ran to its end has partitioned every store it was to find.
THEOREM ScansAreComplete ==
  ASSUME Numerals(Nat)
  PROVE  Spec => ScanFindsStores
<1> DEFINE A == FinishScan =>
        \A n \in noted.found :
            LET root == FindStoreRoot(noted.found, n)
            IN (IsPrefix(Root, root) /\ ~Excluded(root) /\ Depth(root) <= MaxDepth) =>
                  \E s \in Nodes : IsPrefix(s, root) /\ (Present(s) \/ s \in deleted)
<1>1. Init => IInv
  BY InitInvariant
<1>2. IInv /\ [Next]_vars => IInv'
  BY NextInvariant
<1>3. ASSUME IInv, FinishScan, NEW n \in noted.found,
             IsPrefix(Root, FindStoreRoot(noted.found, n)),
             ~Excluded(FindStoreRoot(noted.found, n)),
             Depth(FindStoreRoot(noted.found, n)) <= MaxDepth
      PROVE  Done(FindStoreRoot(noted.found, n))
  <2> DEFINE root == FindStoreRoot(noted.found, n)
  <2>1. noted.found \in SUBSET Seq(STRING)
    BY <1>3, NodesArePaths DEF IInv, Typed, Notes
  <2>2. root \in noted.found
    BY <2>1, TargetFound
  <2>3. Wanted(root)
    BY <1>3 DEF Wanted
  <2>4. ~Ahead(root)
    BY <1>3 DEF FinishScan, Ahead
  <2> QED
    BY <1>3, <2>2, <2>3, <2>4 DEF IInv, Scanning
<1>4. IInv => A
  BY <1>3 DEF Done
<1>5. IInv => [A]_vars
  BY <1>4
<1>6. ScanFindsStores <=> [][A]_vars
  BY DEF ScanFindsStores
<1> QED
  BY <1>1, <1>2, <1>5, <1>6, PTL DEF Spec

\* A reload leaves no scope out that had a manifest when it began and still has one, and
\* leaves the trie at least as new for it as that was, where no forced run replaced it.
THEOREM ReloadsAreFresh ==
  ASSUME Numerals(Nat)
  PROVE  Spec => ReloadIsFresh
<1> DEFINE A == index' # index =>
        \A s \in Nodes \ deleted :
            noted.epochs[s] > 0 =>
                /\ s \in DOMAIN AddAll(index').epochs
                /\ s \in recut \/ AddAll(index').epochs[s] >= noted.epochs[s]
<1>1. Init => IInv
  BY InitInvariant
<1>2. IInv /\ [Next]_vars => IInv'
  BY NextInvariant
<1>3. ASSUME IInv, Rebind, NEW s \in Nodes \ deleted, noted.epochs[s] > 0
      PROVE  /\ s \in DOMAIN AddAll(index').epochs
             /\ s \in recut \/ AddAll(index').epochs[s] >= noted.epochs[s]
  <2> DEFINE loaded == InListOrder(load.got)
  <2>1. load.pc = "read" /\ load.names = {} /\ index' = loaded
    BY <1>3 DEF Rebind
  <2>2. /\ load.got \in SUBSET Entries /\ IsFiniteSet(load.got)
        /\ \A l, k \in load.got : l.at = k.at => l = k
    BY <1>3 DEF IInv, Typed, Loads, Reading
  <2>3. /\ loaded \in Seq(load.got)
        /\ \A l \in load.got : \E i \in 1..Len(loaded) : loaded[i] = l
        /\ \A i, j \in 1..Len(loaded) : loaded[i] = loaded[j] => i = j
    BY <2>2, ListOrder
  <2> HIDE DEF loaded
  <2>4. PICK l \in load.got : l.at = s /\ Recent(s, l.manifest)
    BY <1>3, <2>1 DEF IInv, Reading
  <2>5. PICK i \in 1..Len(loaded) : loaded[i] = l
    BY <2>3
  <2>6. \A k \in load.got : k.scope = k.at
    BY <2>2 DEF Entries
  <2>7. \A j \in 1..Len(loaded) : loaded[j] \in load.got
    BY <2>3
  <2>8. ASSUME NEW j \in 1..Len(loaded), NEW k \in 1..Len(loaded),
               loaded[j].scope = loaded[k].scope
        PROVE  j = k
    <3>1. loaded[j] \in load.got /\ loaded[k] \in load.got
      BY <2>7
    <3>2. loaded[j].at = loaded[k].at
      BY <2>6, <2>8, <3>1
    <3>3. loaded[j] = loaded[k]
      BY <2>2, <3>1, <3>2
    <3> QED
      BY <2>3, <3>3
  <2>9. Len(loaded) \in Nat
    BY <2>3
  <2>10. /\ loaded[i].scope \in DOMAIN AddAll(loaded).epochs
         /\ AddAll(loaded).epochs[loaded[i].scope] = loaded[i].manifest.epoch
    BY <2>8, <2>9, EpochsOfAll
  <2>11. loaded[i].scope = s /\ (s \in recut \/ loaded[i].manifest.epoch >= noted.epochs[s])
    BY <2>4, <2>5, <2>6 DEF Recent
  <2> QED
    BY <2>1, <2>10, <2>11
<1>4. IInv /\ [Next]_vars => A
  <2>1. [Next]_vars /\ index' # index => Rebind
    BY DEF Next, vars, storeVars, Write, Partition, PartitionByHand, Delete, Damage, Misplace,
           StartScan, Visit, ListChildren, PartitionFound, AbortScan, FinishScan, StartReload, ReadManifest, FailReload
  <2> QED
    BY <1>3, <2>1
<1>5. IInv /\ [Next]_vars => [A]_vars
  BY <1>4
<1>6. ReloadIsFresh <=> [][A]_vars
  BY DEF ReloadIsFresh
<1> QED
  BY <1>1, <1>2, <1>5, <1>6, PTL DEF Spec

\* However old the service's trie is, and with whatever policies runs were given since, it
\* gives no key another blob instance than the manifests in force do, where scopes do not
\* nest and no manifest was deleted or replaced by a forced run.
THEOREM StaleTriesAgree ==
  ASSUME Numerals(Nat)
  PROVE  Spec => []StaleTrieAgrees
<1>1. Init => IInv
  BY InitInvariant
<1>2. IInv /\ [Next]_vars => IInv'
  BY NextInvariant
<1>3. IInv => StaleTrieAgrees
  BY InvariantImpliesAgreement
<1> QED
  BY <1>1, <1>2, <1>3, PTL DEF Spec

\* What a report finds unmanaged, however the manifests were deleted, damaged, copied,
\* rewritten and recut by forced runs, is no more than the arrays that no run has placed,
\* apart from those where a run took up another store's manifest (report.py:10-13).
THEOREM UnmanagedExplained ==
  ASSUME Numerals(Nat)
  PROVE  Spec => []UnmanagedIsExplained
<1>1. Init => IInv
  BY InitInvariant
<1>2. IInv /\ [Next]_vars => IInv'
  BY NextInvariant
<1>3. IInv => UnmanagedIsExplained
  BY InvariantImpliesExplained
<1> QED
  BY <1>1, <1>2, <1>3, PTL DEF Spec
=============================================================================
