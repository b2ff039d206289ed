------------------------------ MODULE Resolve ------------------------------
(***************************************************************************)
(* The lookup of src/blobmap/resolve.py: manifests are indexed in a trie   *)
(* by absolute prefix, a key resolves to the deepest marker above it, and  *)
(* pins win whatever their depth.  A trie is a record                      *)
(* [main, pins, epochs]: `main` maps each marked path to its marker (the   *)
(* unmarked inner nodes carry no information).                             *)
(***************************************************************************)
EXTENDS Model

CONSTANTS
    MetadataBasenames,  \* METADATA_BASENAMES, always hot
    Indices             \* Indices[seg]: what int() makes of the dot-separated
                        \* pieces of a segment, NotAnInt where it raises
                        \* or is negative
NotAnInt == -1

HotMarker == [kind |-> "hot", blob |-> NoBlob]
BlobMarker(b) == [kind |-> "blob", blob |-> b]

EmptyTrie == [main |-> <<>>, pins |-> {}, epochs |-> <<>>]

----------------------------------------------------------------------------
(* Building *)

HotMarks(scope, m) == [path \in {scope \o p : p \in m.hot} |-> HotMarker]

BlobMarks(scope, m) ==
    [path \in {scope \o p : p \in ClaimedPrefixes(m)} |->
        BlobMarker(CHOOSE b \in m.blobs : \E p \in Range(b.prefixes) : scope \o p = path)]

\* Markers f written over markers g.
Over(f, g) == [x \in DOMAIN f \cup DOMAIN g |-> IF x \in DOMAIN f THEN f[x] ELSE g[x]]

\* Later insertions overwrite a marker on the same node: blobs come after the
\* hot patterns of their manifest, and a manifest after those added before it.
AddManifest(trie, scope, m) ==
    [main   |-> Over(BlobMarks(scope, m), Over(HotMarks(scope, m), trie.main)),
     pins   |-> trie.pins \cup {scope \o p : p \in m.pinned},
     epochs |-> Over([s \in {scope} |-> m.epoch], trie.epochs)]

\* `loaded` is a sequence of [scope, manifest], in the order load_all lists them.
AddAll(loaded) ==
    LET added[i \in 0..Len(loaded)] ==
            IF i = 0 THEN EmptyTrie
            ELSE AddManifest(added[i - 1], loaded[i].scope, loaded[i].manifest)
    IN added[Len(loaded)]

----------------------------------------------------------------------------
(* Lookup *)

Resolution(kind) == [kind |-> kind, instance |-> <<>>]

\* blob.instance(n): the id tier state is held against.
Instance(b, n) == [kind |-> "blob", instance |-> Append(b.id, ToString(n))]

Archivable(r) == r.kind = "blob"

\* The chunk index in the segments after the prefix, if it parses as one.
ChunkIndex(bucket, rest) ==
    IF bucket.encoding = "v2_flat"
    THEN IF rest # <<>> /\ bucket.index < Len(Indices[rest[1]])
         THEN Indices[rest[1]][bucket.index + 1] ELSE NotAnInt
    ELSE IF bucket.index < Len(rest) /\ Len(Indices[rest[bucket.index + 1]]) = 1
         THEN Indices[rest[bucket.index + 1]][1] ELSE NotAnInt

ResolveIn(b, rest) ==
    IF ~IsBucketed(b) THEN Instance(b, 0)
    ELSE IF ChunkIndex(b.bucket, rest) = NotAnInt THEN Resolution("unmanaged")
    ELSE Instance(b, ChunkIndex(b.bucket, rest) \div b.bucket.width)

\* The walk starts below the root, so a marker on the root itself is never met.
Matches(trie, key) == {p \in DOMAIN trie.main : p # <<>> /\ IsPrefix(p, key)}

Deepest(paths) == CHOOSE p \in paths : \A q \in paths : Len(q) <= Len(p)

Lookup(trie, key) ==
    IF key = <<>> THEN Resolution("unmanaged")
    ELSE IF Last(key) \in MetadataBasenames THEN Resolution("hot")
    ELSE IF \E p \in trie.pins : IsPrefix(p, key) THEN Resolution("pinned")
    ELSE IF Matches(trie, key) = {} THEN Resolution("unmanaged")
    ELSE LET at == Deepest(Matches(trie, key))
             best == trie.main[at]
         IN IF best.kind = "hot" THEN Resolution("hot")
            ELSE ResolveIn(best.blob, SubSeq(key, Len(at) + 1, Len(key)))

\* resolve(): one scope-relative key against one manifest.
ResolveKey(scope, m, key) == Lookup(AddManifest(EmptyTrie, scope, m), scope \o key)
=============================================================================
