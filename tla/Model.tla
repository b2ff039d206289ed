------------------------------- MODULE Model -------------------------------
(***************************************************************************)
(* The value types of src/blobmap/model.py: what the partitioner reads (an *)
(* array with its sizes) and what it writes (a manifest of blob            *)
(* definitions).  Everything here is a pure operator.                      *)
(*                                                                         *)
(* Representation.                                                         *)
(*  - A path, prefix or object key is the sequence of its segments, so     *)
(*    "a/b" is <<"a", "b">> and the empty prefix is <<>>.                  *)
(*  - An Array is a record [path, shape, chunks, shards, itemsize, stored, *)
(*    seen, coordinate, encoding].  shards = <<>> stands for None, and so  *)
(*    does 0 for stored and seen: read_arrays never reports a zero there   *)
(*    (hierarchy.py writes `node.stored_bytes or None`).                   *)
(*  - Sizes are in an arbitrary unit; the thresholds of a policy are in    *)
(*    the same one.                                                        *)
(*  - A blob id is the sequence of its "_"-separated words, a Blob is      *)
(*    [id, prefixes, bucket] and bucket.width = 0 stands for bucket=None.  *)
(*  - A Manifest is [epoch, blobs, hot, pinned, policy].  `hot` holds the  *)
(*    `path/**` patterns of hot_always; the `**/<basename>` patterns are   *)
(*    the same in every manifest and live in Resolve.  `pinned` holds the  *)
(*    pinned prefixes; a pin's reason, author and dates are left out.      *)
(*    The scope is a constant of the modules that need it; generated_at,   *)
(*    generated_by and provenance decide nothing and are left out.         *)
(***************************************************************************)
EXTENDS Integers, Sequences, FiniteSets, SequencesExt, FiniteSetsExt, TLC

CONSTANT DefaultPolicy  \* Policy()

\* Decimal numerals are strings, different ones for different numbers.
Numerals(ns) ==
    \A i, j \in ns : /\ ToString(i) \in STRING
                     /\ ToString(i) = ToString(j) => i = j

\* The members of a sequence that are in a set, in order: SelectSeq in a form that
\* proofs can unfold.
Kept(s, members) ==
    LET kept[i \in 0..Len(s)] ==
            IF i = 0 THEN <<>>
            ELSE IF s[i] \in members THEN Append(kept[i - 1], s[i]) ELSE kept[i - 1]
    IN kept[Len(s)]

KEY_ENCODINGS == {"v3_slash", "v2_slash", "v2_flat"}

\* The fields of Policy; check() wants positive sizes, which no property here needs.
PolicyFields == [t_max: Nat, t_min: Nat, t_hot: Nat, width_clamp: Nat, pow2_floor: Nat]

ASSUME DefaultPolicyAssumption == DefaultPolicy \in PolicyFields

\* The fields of Array.  A zarr chunk or shard has a positive extent along every dimension.
ArrayFields ==
    [path: Seq(STRING), shape: Seq(Nat), chunks: Seq(Nat \ {0}), shards: Seq(Nat \ {0}),
     itemsize: Nat \ {0}, stored: Nat, seen: Nat, coordinate: BOOLEAN,
     encoding: KEY_ENCODINGS]

----------------------------------------------------------------------------
(* Sizes of an array *)

Product(ns) ==
    LET product[n \in 0..Len(ns)] == IF n = 0 THEN 1 ELSE product[n - 1] * ns[n]
    IN product[Len(ns)]

\* Mutant: the size of a sharded array's inner chunk.
ObjectShapeInner(a) == a.chunks

\* The stored object is the shard of a sharded array, else the chunk.
ObjectShape(a) == IF a.shards # <<>> THEN a.shards ELSE a.chunks

\* Objects along each dimension, the last one possibly partial.
ObjectGrid(a) ==
    [d \in 1..Len(a.shape) |->
        (a.shape[d] + ObjectShape(a)[d] - 1) \div ObjectShape(a)[d]]

NObjects(a) == Product(ObjectGrid(a))

UncompressedObjectBytes(a) == Product(ObjectShape(a)) * a.itemsize

TotalBytes(a) ==
    IF a.stored # 0 THEN a.stored ELSE NObjects(a) * UncompressedObjectBytes(a)

\* At least 1, and averaged over the objects listed rather than the full grid.
AvgObjectBytes(a) ==
    LET seen == IF a.seen # 0 THEN a.seen ELSE NObjects(a)
    IN Max({1, TotalBytes(a) \div Max({1, seen})})

\* Where the chunk keys of an array begin.
ChunkPrefix(a) == IF a.encoding = "v3_slash" THEN Append(a.path, "c") ELSE a.path

----------------------------------------------------------------------------
(* Manifests *)

NoBucket == [index |-> 0, width |-> 0, encoding |-> "none"]

NoBlob == [id |-> <<>>, prefixes |-> <<>>, bucket |-> NoBucket]

\* The fields of Blob and its Bucket.
BucketFields ==
    [index: Nat, width: Nat, encoding: KEY_ENCODINGS \cup {NoBucket.encoding}]
BlobFields == [id: Seq(STRING), prefixes: Seq(Seq(STRING)), bucket: BucketFields]

ManifestFields ==
    [epoch: Nat, blobs: SUBSET BlobFields, hot: SUBSET Seq(STRING),
     pinned: SUBSET Seq(STRING), policy: PolicyFields]

IsBucketed(b) == b.bucket.width # 0

\* A pin applies to the keys at or below its prefix.
Covers(pin, key) == IsPrefix(pin, key)

\* What a scope with no manifest reads as.  Epochs of real manifests start at 1.
Nothing == [epoch |-> 0, blobs |-> {}, hot |-> {}, pinned |-> {}, policy |-> DefaultPolicy]

Exists(m) == m.epoch # 0

Ids(m) == {b.id : b \in m.blobs}

ClaimedPrefixes(m) == UNION {Range(b.prefixes) : b \in m.blobs}

\* Mutant: a rewrite keeps the epoch.
BumpedNot(m) == m

Bumped(m) == [m EXCEPT !.epoch = @ + 1]

\* What a consumer leaves out before archiving, besides what resolves pinned.
PinnedBlobIds(m) ==
    {b.id : b \in {d \in m.blobs :
        \E prefix \in Range(d.prefixes), pin \in m.pinned : Covers(pin, prefix)}}

\* Manifest.validate: what the resolver relies on.
WellFormed(b) ==
    /\ b.id # <<>> /\ b.prefixes # <<>>
    /\ IsBucketed(b) => /\ b.bucket.encoding \in KEY_ENCODINGS
                        /\ Len(b.prefixes) = 1
                        /\ b.bucket.width >= 1 /\ b.bucket.index >= 0

UniqueIds(blobs) == \A b, d \in blobs : b.id = d.id => b = d

Valid(m) == UniqueIds(m.blobs) /\ \A b \in m.blobs : WellFormed(b)

\* No two blobs claim the same prefix: the trie of a resolver would drop one.
Disjoint(blobs) ==
    \A b, d \in blobs : Range(b.prefixes) \cap Range(d.prefixes) # {} => b = d
=============================================================================
