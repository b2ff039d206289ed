---------------------------- MODULE Repartition ----------------------------
(***************************************************************************)
(* The life of one scope's manifest under a single writer: partition_store *)
(* run again and again, with or without force, over whatever the store     *)
(* holds by then and under whatever policy is given, and pins added and    *)
(* removed in between.  Each run is one step here; Service takes the runs  *)
(* apart and interleaves them.                                             *)
(***************************************************************************)
EXTENDS Partition, Resolve

CONSTANTS
    Scope,        \* the scope's own path
    Listings,     \* the results of read_arrays: sequences of arrays, by path
    Policies,     \* the policies a caller passes, NoPolicy for None
    PinPrefixes,  \* the prefixes someone may pin
    Keys,         \* the object keys, relative to the scope, the properties look at
    MaxEpoch      \* bound: definitions change this often at most

ASSUME ScopeAssumption == Scope \in Seq(STRING) /\ Keys \subseteq Seq(STRING)
ASSUME ListingsAssumption == \A listing \in Listings : IsListing(listing)
ASSUME PoliciesAssumption == Policies \subseteq PolicyFields
ASSUME PinPrefixesAssumption == PinPrefixes \subseteq Seq(STRING)
ASSUME MaxEpochAssumption == MaxEpoch \in Nat \ {0}

VARIABLES
    manifest,  \* the manifest in effect, Nothing before the first run
    last       \* ghost: the step that led here, [kind, listing, policy]

vars == <<manifest, last>>

\* No step depends on `last` and every property reads it only in the new state of
\* a step, so states that differ in nothing else need not be told apart.
View == manifest

----------------------------------------------------------------------------

Init == /\ manifest = Nothing
        /\ last = [kind |-> "none", listing |-> <<>>, policy |-> DefaultPolicy]

Began(kind, listing, given) ==
    last' = [kind |-> kind, listing |-> listing,
             policy |-> EffectivePolicy(given, IF kind = "force" THEN Nothing
                                               ELSE manifest)]

\* partition_store(force=False): a run that adds no blob leaves the manifest as
\* it was, one that would change a blob is refused.
Repartition(listing, given) ==
    LET computed == PartitionScope(listing, given, manifest)
        changes == Diff(manifest, computed)
    IN /\ manifest.epoch < MaxEpoch
       /\ Began("repartition", listing, given)
       /\ manifest' = IF Exists(manifest) /\ IsEmpty(changes) THEN manifest
                      ELSE IF ~IsAdditive(changes) THEN manifest
                      ELSE IF Exists(manifest) THEN Bumped(computed) ELSE computed

\* partition_store(force=True): recomputed as if there were no manifest.
ForcedRun(listing, given) ==
    LET computed == PartitionScope(listing, given, Nothing)
    IN /\ Began("force", listing, given)
       /\ manifest' = IF Exists(manifest) /\ IsEmpty(Diff(manifest, computed)) THEN manifest
                      ELSE IF Exists(manifest) THEN Bumped(computed) ELSE computed

\* Mutant: the pin is stored from the bucket's root.
PinAbsolute(prefix) ==
    /\ Exists(manifest) /\ manifest.epoch < MaxEpoch
    /\ prefix \notin manifest.pinned
    /\ manifest' = Bumped([manifest EXCEPT !.pinned = @ \cup {Scope \o prefix}])
    /\ last' = [last EXCEPT !.kind = "pin"]

\* pins.add and pins.remove refuse a scope with no manifest, and what is done already.
Pin(prefix) ==
    /\ Exists(manifest) /\ manifest.epoch < MaxEpoch
    /\ prefix \notin manifest.pinned
    /\ manifest' = Bumped([manifest EXCEPT !.pinned = @ \cup {prefix}])
    /\ last' = [last EXCEPT !.kind = "pin"]

Unpin(prefix) ==
    /\ Exists(manifest) /\ manifest.epoch < MaxEpoch
    /\ prefix \in manifest.pinned
    /\ manifest' = Bumped([manifest EXCEPT !.pinned = @ \ {prefix}])
    /\ last' = [last EXCEPT !.kind = "unpin"]

Next == \/ \E listing \in Listings, given \in Policies :
              Repartition(listing, given) \/ ForcedRun(listing, given)
        \/ \E prefix \in PinPrefixes : Pin(prefix) \/ Unpin(prefix)

Spec == Init /\ [][Next]_vars

----------------------------------------------------------------------------
(* Properties *)

\* Manifests, and the blobs in them, have the fields and ranges the code gives them.
TypeOK ==
    /\ manifest \in ManifestFields
    /\ manifest.epoch <= MaxEpoch + 1
    /\ manifest.pinned \subseteq PinPrefixes

\* Whatever has been listed, pinned and forced before, the manifest in effect
\* passes its own validation (a failure would stop every later run of the scope),
\* and no two of its blobs claim the same prefix (the trie would drop one).
ManifestsValid == Valid(manifest) /\ Disjoint(manifest.blobs)

\* A run that was not forced moves no object from one blob instance to another:
\* tape addresses are held against the instance.  Objects may only begin or cease
\* to be archivable.
KeysNeverMove ==
    [][last'.kind # "force" =>
        \A key \in Keys :
            LET before == ResolveKey(Scope, manifest, key)
                after == ResolveKey(Scope, manifest', key)
            IN Archivable(before) /\ Archivable(after) => before = after]_vars

\* The words a blob is named with: those of the path of an array cut inside, or of the
\* prefixes of a group, in order.
Spelling(b) ==
    LET prefix == b.prefixes[1]
        path == IF b.bucket.encoding = "v3_slash" THEN Front(prefix) ELSE prefix
    IN IF IsBucketed(b) THEN Ident(path)
       ELSE FlattenSeq([i \in DOMAIN b.prefixes |-> Ident(b.prefixes[i])])

\* Two of these blobs claim different keys by the same words: their paths differ in
\* punctuation only, or in where one ends and the next begins.
Ambiguous(blobs) == \E b, d \in blobs : b.prefixes # d.prefixes /\ Spelling(b) = Spelling(d)

\* Even a forced run, which knows nothing of the ids given before, never gives a known
\* id to other keys unless words are ambiguous: ids are derived from the prefixes alone,
\* not from what else was listed or in which order, and a number is only added when the
\* words are in use.
IdsKeepMeaning ==
    [][\A b \in manifest.blobs, d \in manifest'.blobs :
            b.id = d.id => \/ b.prefixes = d.prefixes
                           \/ Ambiguous(manifest.blobs \cup manifest'.blobs)]_vars

BlobBytes(b, listing) ==
    MapThenSumSet(TotalBytes, {a \in Range(listing) : ChunkPrefix(a) \in Range(b.prefixes)})

NewGroups == {b \in manifest'.blobs \ manifest.blobs : ~IsBucketed(b) /\ b.prefixes # << <<>> >>}

\* A blob just cut as a group of arrays is no larger than t_max plus what
\* coalescing may add (two arrays' worth of less than t_min), and no smaller than
\* t_min unless it is the only one.
GroupSizes ==
    [][\A b \in NewGroups :
          LET size == BlobBytes(b, last'.listing)
              slack == 2 * Max({0, last'.policy.t_min - 1})
          IN /\ size <= last'.policy.t_max + slack
             /\ size >= last'.policy.t_min \/ NewGroups = {b}]_vars

\* The objects of array a that fall into one bucket of the given width, when all
\* of them are stored uncompressed.
SliceObjects(a) == Product(Tail(ObjectGrid(a)))
WorstCaseBytes(a, width) ==
    width * SliceObjects(a) * Product(IF a.shards = <<>> THEN a.chunks ELSE a.shards) * a.itemsize

InstancesBounded(arrays) ==
    \A b \in manifest'.blobs \ manifest.blobs, a \in arrays :
        IsBucketed(b) /\ b.prefixes = <<ChunkPrefix(a)>> =>
            \/ b.bucket.width = 1
            \/ WorstCaseBytes(a, b.bucket.width) <= last'.policy.width_clamp * last'.policy.t_max

\* For an array chunked along its first dimension only, one instance of a blob just
\* cut stays within width_clamp * t_max even if compression degrades to nothing.
InstanceWithinClamp ==
    [][InstancesBounded({a \in Range(last'.listing) : SliceObjects(a) = 1})]_vars

\* model.py:283 states the bound for every blob, however the array is chunked.
EveryInstanceWithinClamp ==
    [][InstancesBounded(Range(last'.listing))]_vars

\* A repartition gives no blob to an array below a pin, so it makes none that a consumer
\* has to leave out by pinned_blob_ids, save where the pin is placed on the very
\* prefix of the chunk keys: `tas/c` does not cover the array `tas`.  And it takes no
\* blob off that list.
PinnedBlobsOnlyFromPins ==
    [][last'.kind = "repartition" =>
          /\ PinnedBlobIds(manifest) \subseteq PinnedBlobIds(manifest')
          /\ \A b \in manifest'.blobs \ manifest.blobs :
                b.id \in PinnedBlobIds(manifest') =>
                    Range(b.prefixes) \cap manifest'.pinned # {}]_vars

\* Running again over the same listing with the same policy changes nothing, so a
\* run repeated after a crash or a lost reply neither cuts again nor moves the epoch.
RunsAreIdempotent ==
    [][last'.kind \in {"repartition", "force"} =>
          IsEmpty(Diff(manifest', PartitionScope(last'.listing, last'.policy, manifest')))]_vars

\* README.md:198: a dimension coordinate is never archivable.  Of the coordinates a
\* run listed, none is archivable under the manifest in effect after it.
CoordinatesNeverArchivable ==
    [][last'.kind = "repartition" =>
          \A a \in Range(last'.listing) : a.coordinate =>
              ~Archivable(ResolveKey(Scope, manifest', Append(ChunkPrefix(a), "0")))]_vars

\* model.py:344: a pin survives repartitions and "can only be removed by removing it".
PinsOnlyRemovedByRemoving ==
    [][last'.kind # "unpin" => manifest.pinned \subseteq manifest'.pinned]_vars

\* model.py:596: the epoch is bumped whenever the definitions change, which lets a
\* resolver decide by the epoch alone whether to reload.
EpochTellsDefinitionsApart ==
    [][manifest'.epoch = manifest.epoch => manifest'.blobs = manifest.blobs]_vars
=============================================================================
