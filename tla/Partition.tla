----------------------------- MODULE Partition -----------------------------
(***************************************************************************)
(* The cut of src/blobmap/partition.py: from the arrays listed under a     *)
(* scope and the manifest in effect to the next manifest, and the          *)
(* comparison of two manifests.  Pure operators, shared by the model of a  *)
(* single scope's life (Repartition) and of concurrent jobs (Service).     *)
(***************************************************************************)
EXTENDS Model

CONSTANT Words  \* Words[seg]: the lower-case words _ident keeps of a segment

ASSUME WordsAssumption ==
    /\ {"b", "root"} \cup DOMAIN Words \subseteq STRING
    /\ "c" \in DOMAIN Words
    /\ \A seg \in DOMAIN Words : Words[seg] \in Seq(STRING)

\* What read_arrays returns: every array once, and no array inside another, where
\* its chunk keys would be.
IsListing(arrays) ==
    /\ arrays \in Seq(ArrayFields)
    /\ \A a \in Range(arrays) :
          /\ a.path \in Seq(DOMAIN Words)
          /\ Len(a.chunks) = Len(a.shape)
          /\ a.shards # <<>> => Len(a.shards) = Len(a.shape)
    /\ \A i, j \in DOMAIN arrays :
          ChunkPrefix(arrays[i]) = ChunkPrefix(arrays[j]) => i = j

NoPolicy == [t_max |-> 0, t_min |-> 0, t_hot |-> 0, width_clamp |-> 0, pow2_floor |-> 0]

ASSUME APolicyAssumption == DefaultPolicy # NoPolicy

----------------------------------------------------------------------------
(* Bucket width *)

\* 1 << (w.bit_length() - 1): 1 doubled for as long as it stays within w.
PowerOfTwoBelow(w) ==
    LET doubled[k \in 0..w] ==
            IF k = 0 THEN 1
            ELSE LET half == doubled[k - 1] IN IF 2 * half <= w THEN 2 * half ELSE half
    IN doubled[w]

BucketWidth(a, policy) ==
    LET ideal == Max({1, policy.t_max \div AvgObjectBytes(a)})
        hard  == Max({1, (policy.width_clamp * policy.t_max) \div UncompressedObjectBytes(a)})
        width == Min({ideal, hard})
    IN IF width >= policy.pow2_floor THEN PowerOfTwoBelow(width) ELSE width

----------------------------------------------------------------------------
(* Blob ids *)

\* Segments and punctuation both become "_", runs of it collapse.
Ident(path) ==
    LET words == FlattenSeq([i \in DOMAIN path |-> Words[path[i]]])
    IN IF words = <<>> THEN <<"root">> ELSE words

\* Mutant: a group is named after its first member.
GroupIdFirst(prefixes) == <<"b">> \o Ident(Head(prefixes))

GroupId(prefixes) ==
    <<"b">> \o FlattenSeq([i \in DOMAIN prefixes |-> Ident(prefixes[i])])

\* Mutant: two paths that sanitise alike share an id.
UniqNot(ident, taken) == ident

\* The first of ident, ident_2, ident_3... that is free.
Uniq(ident, taken) ==
    IF ident \notin taken THEN ident
    ELSE LET free == {n \in 2..(Cardinality(taken) + 2) :
                        Append(ident, ToString(n)) \notin taken}
         IN Append(ident, ToString(Min(free)))

----------------------------------------------------------------------------
(* The cut.  An accumulator is a record [out, latest, taken, group, size]:  *)
(* the blobs made so far and the one made last, the ids in use, and the     *)
(* neighbours not yet in a blob with their bytes.                           *)

Start(taken) ==
    [out |-> {}, latest |-> NoBlob, taken |-> taken, group |-> <<>>, size |-> 0]

Blob(ident, prefixes, bucket, taken) ==
    [id |-> Uniq(ident, taken), prefixes |-> prefixes, bucket |-> bucket]

\* One more blob, by its preferred id.
Allocate(acc, ident, prefixes, bucket) ==
    LET blob == Blob(ident, prefixes, bucket, acc.taken)
    IN [out |-> acc.out \cup {blob}, latest |-> blob, taken |-> acc.taken \cup {blob.id},
        group |-> <<>>, size |-> 0]

ChunkPrefixes(arrays) == [i \in DOMAIN arrays |-> ChunkPrefix(arrays[i])]

BucketFor(a, policy) ==
    [index |-> 0, width |-> BucketWidth(a, policy), encoding |-> a.encoding]

\* An array above t_max is cut inside, by the arithmetic of a bucket.
CutLarge(arrays, large, policy, taken) ==
    LET cut[n \in 0..Len(arrays)] ==
            IF n = 0 THEN Start(taken)
            ELSE IF arrays[n] \notin large THEN cut[n - 1]
            ELSE Allocate(cut[n - 1], <<"b">> \o Ident(arrays[n].path),
                          <<ChunkPrefix(arrays[n])>>, BucketFor(arrays[n], policy))
    IN cut[Len(arrays)]

GroupBlob(acc, prefixes) == Allocate(acc, GroupId(prefixes), prefixes, NoBucket)

\* Mutant: a tail below t_min becomes a group of its own.
WithTailApart(acc) ==
    IF acc.group = <<>> THEN acc ELSE GroupBlob(acc, ChunkPrefixes(acc.group))

\* A tail below t_min is folded into the last group, whose id is given back first.
WithTail(acc) ==
    LET tail == ChunkPrefixes(acc.group)
    IN IF acc.group = <<>> THEN acc
       ELSE IF acc.out = {} THEN GroupBlob(acc, tail)
       ELSE GroupBlob([acc EXCEPT !.out = @ \ {acc.latest}, !.taken = @ \ {acc.latest.id}],
                      acc.latest.prefixes \o tail)

\* One more array: the group it joins becomes a blob when it reaches t_min.
Join(acc, a, policy) ==
    LET group == Append(acc.group, a)
        size == acc.size + TotalBytes(a)
    IN IF size >= policy.t_min THEN GroupBlob(acc, ChunkPrefixes(group))
       ELSE [acc EXCEPT !.group = group, !.size = size]

\* Neighbours are grouped until a group reaches t_min.
Coalesce(arrays, small, policy, taken) ==
    LET joined[n \in 0..Len(arrays)] ==
            IF n = 0 THEN Start(taken)
            ELSE IF arrays[n] \notin small THEN joined[n - 1]
            ELSE Join(joined[n - 1], arrays[n], policy)
    IN WithTail(joined[Len(arrays)])

\* The base case, only for a scope with no blob yet, is one blob for everything.
\* `todo` are the arrays to cut, `arrays` the listing they are met in.
Cut(arrays, todo, policy, taken, fresh) ==
    LET large == {a \in todo : TotalBytes(a) > policy.t_max}
        cut == CutLarge(arrays, large, policy, taken)
        grouped == Coalesce(arrays, todo \ large, policy, cut.taken)
    IN IF todo = {} THEN {}
       ELSE IF fresh /\ MapThenSumSet(TotalBytes, todo) <= policy.t_max
       THEN {Blob(<<"b", "root">>, << <<>> >>, NoBucket, taken)}
       ELSE cut.out \cup grouped.out

\* Mutant: a blob claims only the arrays it was made from.
ClaimedExactly(a, blobs) == \E b \in blobs : ChunkPrefix(a) \in Range(b.prefixes)

\* Mutant: an array cut inside is not claimed.
ClaimedByGroup(a, blobs) ==
    \E b \in {d \in blobs : ~IsBucketed(d)} :
        \E prefix \in Range(b.prefixes) : IsPrefix(prefix, ChunkPrefix(a))

\* Whether one of these blobs already covers the chunk keys of an array.
Claimed(a, blobs) ==
    \E b \in blobs : \E prefix \in Range(b.prefixes) : IsPrefix(prefix, ChunkPrefix(a))

\* Held back by structure: a coordinate, or not worth a row.
HeldHot(a, policy) == a.coordinate \/ TotalBytes(a) < policy.t_hot

\* Mutant: a repartition cuts below pins.
HeldPinnedNever(a, pinned) == FALSE

HeldPinned(a, pinned) == \E pin \in pinned : Covers(pin, a.path)

EffectivePolicy(given, previous) ==
    IF given # NoPolicy THEN given ELSE previous.policy

Held(a, policy, pinned) == HeldHot(a, policy) \/ HeldPinned(a, pinned)

\* What is archivable and not yet in a blob.
ToCut(arrays, policy, previous) ==
    {a \in Range(arrays) : ~Held(a, policy, previous.pinned) /\ ~Claimed(a, previous.blobs)}

NewBlobs(arrays, policy, previous) ==
    Cut(arrays, ToCut(arrays, policy, previous), policy, Ids(previous), previous.blobs = {})

HotPaths(arrays, policy, pinned) ==
    {a.path : a \in {x \in Range(arrays) : Held(x, policy, pinned)}}

\* The definitions for a scope.  `previous` is carried over: its blobs as they
\* are, its pins, its epoch.  With no previous manifest all of these are empty.
PartitionScope(arrays, given, previous) ==
    LET policy == EffectivePolicy(given, previous)
    IN [epoch  |-> IF Exists(previous) THEN previous.epoch ELSE 1,
        blobs  |-> previous.blobs \cup NewBlobs(arrays, policy, previous),
        hot    |-> HotPaths(arrays, policy, previous.pinned),
        pinned |-> previous.pinned,
        policy |-> policy]

----------------------------------------------------------------------------
(* What a repartition changed *)

\* Mutant: the arguments swapped.
DiffSwapped(old, new) ==
    [added    |-> {b \in old.blobs : b.id \notin Ids(new)},
     removed  |-> {b \in new.blobs : b.id \notin Ids(old)},
     modified |-> {b \in new.blobs : \E d \in old.blobs : d.id = b.id /\ d # b}]

Diff(old, new) ==
    [added    |-> {b \in new.blobs : b.id \notin Ids(old)},
     removed  |-> {b \in old.blobs : b.id \notin Ids(new)},
     modified |-> {b \in old.blobs : \E d \in new.blobs : d.id = b.id /\ d # b}]

IsAdditive(changes) == changes.removed = {} /\ changes.modified = {}

IsEmpty(changes) == IsAdditive(changes) /\ changes.added = {}
=============================================================================
