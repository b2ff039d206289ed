-------------------------- MODULE RepartitionProofs --------------------------
(***************************************************************************)
(* Theorems about the life of one scope, for every set of listings,        *)
(* policies, pins and keys, and any bound on the epoch.                    *)
(***************************************************************************)
EXTENDS Repartition, ResolveProofs

----------------------------------------------------------------------------
(* The inductive invariant *)

LastFields == [kind: {"none", "repartition", "force", "pin", "unpin"},
               listing: Listings \cup {<<>>}, policy: PolicyFields]

IInv == TypeOK /\ SoundBlobs(manifest.blobs) /\ last \in LastFields

LEMMA SoundIsValid ==
  ASSUME IInv
  PROVE  ManifestsValid
BY Zenon DEF IInv, ManifestsValid, Valid, SoundBlobs

----------------------------------------------------------------------------
(* What the steps do *)

\* The manifest after a run: the one before, or what was computed with the next epoch.
LEMMA RunResult ==
  ASSUME Numerals(Nat), IInv,
         NEW listing \in Listings, NEW given \in Policies, Repartition(listing, given)
  PROVE  LET policy == EffectivePolicy(given, manifest)
             new == NewBlobs(listing, policy, manifest)
         IN  /\ last' \in LastFields
             /\ last'.kind = "repartition" /\ last'.listing = listing
             /\ last'.policy = policy /\ policy \in PolicyFields
             /\ manifest'.blobs = manifest.blobs \cup new
             /\ manifest'.pinned = manifest.pinned
             /\ \/ manifest' = manifest
                \/ /\ manifest' \in ManifestFields
                   /\ manifest'.epoch \in 1..MaxEpoch
                   /\ manifest'.policy = policy
             /\ SoundBlobs(manifest'.blobs)
<1> DEFINE computed == PartitionScope(listing, given, manifest)
           policy == EffectivePolicy(given, manifest)
           new == NewBlobs(listing, policy, manifest)
           changes == Diff(manifest, computed)
<1>1. IsListing(listing) /\ given \in PolicyFields
  BY ListingsAssumption, PoliciesAssumption
<1>2. manifest \in ManifestFields /\ SoundBlobs(manifest.blobs)
  BY DEF IInv, TypeOK
<1>3. /\ computed \in ManifestFields
      /\ computed.epoch = IF Exists(manifest) THEN manifest.epoch ELSE 1
      /\ computed.blobs = manifest.blobs \cup new
      /\ computed.pinned = manifest.pinned /\ computed.policy = policy
      /\ SoundBlobs(computed.blobs)
  BY <1>1, <1>2, ComputedIsSound
<1>4. policy \in PolicyFields
  BY <1>3 DEF ManifestFields
<1>5. IsAdditive(changes) /\ (IsEmpty(changes) <=> new = {})
  <2> HIDE DEF policy, computed
  <2>1. computed.blobs = manifest.blobs \cup NewBlobs(listing, policy, manifest)
    BY <1>3
  <2>2. IsAdditive(Diff(manifest, computed))
    BY <1>1, <1>2, <1>4, <2>1, DiffOfRun
  <2>3. IsEmpty(Diff(manifest, computed)) <=> NewBlobs(listing, policy, manifest) = {}
    BY <1>1, <1>2, <1>4, <2>1, DiffOfRun
  <2> QED
    BY <2>2, <2>3
<1>6. /\ manifest.epoch < MaxEpoch
      /\ last' = [kind |-> "repartition", listing |-> listing, policy |-> policy]
      /\ manifest' = IF Exists(manifest) /\ IsEmpty(changes) THEN manifest
                     ELSE IF ~IsAdditive(changes) THEN manifest
                     ELSE IF Exists(manifest) THEN Bumped(computed) ELSE computed
  BY DEF Repartition, Began
<1>7. /\ last'.kind = "repartition" /\ last'.listing = listing /\ last'.policy = policy
      /\ last' \in LastFields
  <2> HIDE DEF policy
  <2> QED
    BY <1>4, <1>6 DEF LastFields
<1> HIDE DEF computed, changes, policy, new
<1>8. CASE Exists(manifest) /\ IsEmpty(changes)
  <2>1. manifest' = manifest /\ new = {}
    BY <1>5, <1>6, <1>8
  <2> QED
    BY <1>2, <1>4, <1>7, <2>1 DEF policy, new
<1>9. CASE Exists(manifest) /\ ~ IsEmpty(changes)
  <2>1. manifest' = Bumped(computed)
    BY <1>5, <1>6, <1>9
  <2>2. /\ manifest' \in ManifestFields /\ manifest'.epoch = computed.epoch + 1
        /\ manifest'.blobs = computed.blobs
        /\ manifest'.pinned = computed.pinned /\ manifest'.policy = computed.policy
    BY <1>3, <2>1, BumpedType
  <2>3. manifest'.epoch \in 1..MaxEpoch
    <3>1. computed.epoch = manifest.epoch /\ manifest.epoch \in Nat
      BY <1>2, <1>3, <1>9 DEF ManifestFields
    <3> QED
      BY <1>6, <2>2, <3>1, MaxEpochAssumption
  <2> QED
    BY <1>3, <1>4, <1>7, <2>2, <2>3 DEF policy, new
<1>10. CASE ~ Exists(manifest)
  <2>1. manifest' = computed
    BY <1>5, <1>6, <1>10
  <2>2. manifest'.epoch \in 1..MaxEpoch
    BY <1>3, <1>10, <2>1, MaxEpochAssumption
  <2> QED
    BY <1>3, <1>4, <1>7, <2>1, <2>2 DEF policy, new
<1> QED
  BY <1>8, <1>9, <1>10

\* The manifest after a forced run: the one before, or what was computed from nothing.
LEMMA ForceResult ==
  ASSUME Numerals(Nat), IInv,
         NEW listing \in Listings, NEW given \in Policies, ForcedRun(listing, given)
  PROVE  LET policy == EffectivePolicy(given, Nothing)
             new == NewBlobs(listing, policy, Nothing)
         IN  /\ last' \in LastFields
             /\ last'.kind = "force" /\ last'.listing = listing
             /\ last'.policy = policy /\ policy \in PolicyFields
             /\ manifest'.blobs = new
             /\ \/ manifest' = manifest
                \/ /\ manifest' \in ManifestFields
                   /\ manifest'.epoch \in 1..(MaxEpoch + 1)
                   /\ manifest'.pinned = {} /\ manifest'.policy = policy
             /\ SoundBlobs(manifest'.blobs)
<1> DEFINE computed == PartitionScope(listing, given, Nothing)
           policy == EffectivePolicy(given, Nothing)
           new == NewBlobs(listing, policy, Nothing)
           changes == Diff(manifest, computed)
<1>1. IsListing(listing) /\ given \in PolicyFields
  BY ListingsAssumption, PoliciesAssumption
<1>2. SoundBlobs(manifest.blobs)
  BY DEF IInv
<1>3. /\ computed \in ManifestFields
      /\ computed.epoch = 1
      /\ computed.blobs = new
      /\ computed.pinned = {} /\ computed.policy = policy
      /\ SoundBlobs(computed.blobs)
  <2>1. /\ computed \in ManifestFields
        /\ computed.epoch = IF Exists(Nothing) THEN Nothing.epoch ELSE 1
        /\ computed.blobs = Nothing.blobs \cup new
        /\ computed.pinned = Nothing.pinned /\ computed.policy = policy
        /\ SoundBlobs(computed.blobs)
    <3>1. Nothing \in ManifestFields /\ SoundBlobs(Nothing.blobs)
      BY NothingIsSound
    <3> QED
      BY <1>1, <3>1, ComputedIsSound
  <2>2. ~ Exists(Nothing) /\ Nothing.blobs = {} /\ Nothing.pinned = {}
    BY NothingIsSound DEF Exists
  <2> HIDE DEF computed, new, policy
  <2> QED
    BY <2>1, <2>2
<1>4. policy \in PolicyFields
  BY <1>3 DEF ManifestFields
<1>5. /\ last' = [kind |-> "force", listing |-> listing, policy |-> policy]
      /\ manifest' = IF Exists(manifest) /\ IsEmpty(changes) THEN manifest
                     ELSE IF Exists(manifest) THEN Bumped(computed) ELSE computed
  BY DEF ForcedRun, Began
<1>6. /\ last'.kind = "force" /\ last'.listing = listing /\ last'.policy = policy
      /\ last' \in LastFields
  <2> HIDE DEF policy
  <2> QED
    BY <1>4, <1>5 DEF LastFields
<1>7. CASE Exists(manifest) /\ IsEmpty(changes)
  <2>1. manifest' = manifest
    BY <1>5, <1>7
  <2>2. computed.blobs = manifest.blobs
    BY <1>7, EmptyDiff
  <2> QED
    BY <1>2, <1>3, <1>4, <1>6, <2>1, <2>2
<1> HIDE DEF computed, changes, policy, new
<1>8. CASE Exists(manifest) /\ ~ IsEmpty(changes)
  <2>1. manifest' = Bumped(computed)
    BY <1>5, <1>8
  <2>2. /\ manifest' \in ManifestFields /\ manifest'.epoch = computed.epoch + 1
        /\ manifest'.blobs = computed.blobs
        /\ manifest'.pinned = computed.pinned /\ manifest'.policy = computed.policy
    BY <1>3, <2>1, BumpedType
  <2>3. manifest'.epoch \in 1..(MaxEpoch + 1)
    BY <1>3, <2>2, MaxEpochAssumption
  <2> QED
    BY <1>3, <1>4, <1>6, <2>2, <2>3 DEF policy, new
<1>9. CASE ~ Exists(manifest)
  <2>1. manifest' = computed
    BY <1>5, <1>9
  <2>2. manifest'.epoch \in 1..(MaxEpoch + 1)
    BY <1>3, <2>1, MaxEpochAssumption
  <2> QED
    BY <1>3, <1>4, <1>6, <2>1, <2>2 DEF policy, new
<1> QED
  BY <1>7, <1>8, <1>9

\* Pins change nothing but the pins.
LEMMA PinResult ==
  ASSUME IInv, NEW prefix \in PinPrefixes, Pin(prefix) \/ Unpin(prefix)
  PROVE  /\ manifest' \in ManifestFields
         /\ manifest'.epoch \in 1..MaxEpoch
         /\ manifest'.blobs = manifest.blobs /\ manifest'.hot = manifest.hot
         /\ manifest'.pinned \subseteq manifest.pinned \cup {prefix}
         /\ last'.kind \in {"pin", "unpin"} /\ last' \in LastFields
<1>1. manifest \in ManifestFields
  BY DEF IInv, TypeOK
<1>2. /\ manifest.epoch \in Nat /\ manifest.pinned \subseteq Seq(STRING)
      /\ prefix \in Seq(STRING)
  BY <1>1, PinPrefixesAssumption DEF ManifestFields
<1> DEFINE pins == IF Pin(prefix) THEN manifest.pinned \cup {prefix} ELSE manifest.pinned \ {prefix}
<1>3. /\ manifest' = Bumped([manifest EXCEPT !.pinned = pins])
      /\ manifest.epoch < MaxEpoch
      /\ last' = [last EXCEPT !.kind = IF Pin(prefix) THEN "pin" ELSE "unpin"]
  BY DEF Pin, Unpin
<1>4. pins \in SUBSET Seq(STRING) /\ pins \subseteq manifest.pinned \cup {prefix}
  BY <1>2
<1> HIDE DEF pins
<1>5. /\ manifest' \in ManifestFields
      /\ manifest'.epoch = manifest.epoch + 1 /\ manifest'.blobs = manifest.blobs
      /\ manifest'.pinned = pins /\ manifest'.hot = manifest.hot
  BY <1>1, <1>3, <1>4, PinnedType
<1>6. manifest'.epoch \in 1..MaxEpoch
  BY <1>2, <1>3, <1>5, MaxEpochAssumption
<1>7. last'.kind \in {"pin", "unpin"} /\ last' \in LastFields
  BY <1>3 DEF IInv, LastFields
<1> QED
  BY <1>4, <1>5, <1>6, <1>7

----------------------------------------------------------------------------
(* The invariants *)

LEMMA InitEstablishesIInv ==
  ASSUME Init
  PROVE  IInv
<1>1. manifest = Nothing
  BY DEF Init
<1>2. TypeOK
  <2>1. 0 <= MaxEpoch + 1
    BY MaxEpochAssumption
  <2> QED
    BY <1>1, <2>1, NothingIsSound, Zenon DEF TypeOK
<1>3. SoundBlobs(manifest.blobs)
  BY <1>1, NothingIsSound, Zenon
<1>4. last \in LastFields
  BY DefaultPolicyAssumption DEF Init, LastFields
<1> QED
  BY <1>2, <1>3, <1>4 DEF IInv

LEMMA NextPreservesIInv ==
  ASSUME Numerals(Nat), IInv, [Next]_vars
  PROVE  IInv'
<1>1. /\ manifest \in ManifestFields /\ manifest.epoch <= MaxEpoch + 1
      /\ manifest.pinned \subseteq PinPrefixes
  BY DEF IInv, TypeOK
<1>2. MaxEpoch \in Nat
  BY MaxEpochAssumption
<1>3. ASSUME NEW listing \in Listings, NEW given \in Policies, Repartition(listing, given)
      PROVE  IInv'
  <2>1. SoundBlobs(manifest'.blobs) /\ last' \in LastFields
    BY <1>3, RunResult
  <2>2. manifest'.pinned = manifest.pinned
    BY <1>3, RunResult
  <2>3. manifest' = manifest \/ (manifest' \in ManifestFields /\ manifest'.epoch \in 1..MaxEpoch)
    BY <1>3, RunResult
  <2>4. TypeOK'
    BY <1>1, <1>2, <2>2, <2>3 DEF TypeOK
  <2> QED
    BY <2>1, <2>4 DEF IInv
<1>4. ASSUME NEW listing \in Listings, NEW given \in Policies, ForcedRun(listing, given)
      PROVE  IInv'
  <2>1. SoundBlobs(manifest'.blobs) /\ last' \in LastFields
    BY <1>4, ForceResult
  <2>2. \/ manifest' = manifest
        \/ /\ manifest' \in ManifestFields
           /\ manifest'.epoch \in 1..(MaxEpoch + 1) /\ manifest'.pinned = {}
    BY <1>4, ForceResult
  <2>3. TypeOK'
    BY <1>1, <1>2, <2>2 DEF TypeOK
  <2> QED
    BY <2>1, <2>3 DEF IInv
<1>5. ASSUME NEW prefix \in PinPrefixes, Pin(prefix) \/ Unpin(prefix)
      PROVE  IInv'
  <2>1. /\ manifest' \in ManifestFields
        /\ manifest'.epoch \in 1..MaxEpoch
        /\ manifest'.blobs = manifest.blobs
        /\ manifest'.pinned \subseteq manifest.pinned \cup {prefix}
        /\ last' \in LastFields
    BY <1>5, PinResult
  <2>2. TypeOK'
    BY <1>1, <1>2, <2>1 DEF TypeOK
  <2> QED
    BY <2>1, <2>2 DEF IInv
<1>6. CASE UNCHANGED vars
  BY <1>6 DEF IInv, TypeOK, vars
<1> QED
  BY <1>3, <1>4, <1>5, <1>6 DEF Next

\* However often a scope is partitioned, forced, pinned and unpinned, its manifest has
\* the fields and ranges the code gives it.
THEOREM TypeCorrect ==
  ASSUME Numerals(Nat)
  PROVE  Spec => []TypeOK
<1>1. Init => IInv
  BY InitEstablishesIInv
<1>2. IInv /\ [Next]_vars => IInv'
  BY NextPreservesIInv
<1>3. IInv => TypeOK
  BY DEF IInv
<1> QED
  BY <1>1, <1>2, <1>3, PTL DEF Spec

\* Whatever is listed, under whatever policies, and in whatever order runs, forced runs
\* and pins come: every manifest passes its own validation and no two of its blobs claim
\* the same prefix.
THEOREM ManifestsAreValid ==
  ASSUME Numerals(Nat)
  PROVE  Spec => []ManifestsValid
<1>1. Init => IInv
  BY InitEstablishesIInv
<1>2. IInv /\ [Next]_vars => IInv'
  BY NextPreservesIInv
<1>3. IInv => ManifestsValid
  BY SoundIsValid
<1> QED
  BY <1>1, <1>2, <1>3, PTL DEF Spec

----------------------------------------------------------------------------
(* A second run *)

\* A run over what was just cut finds nothing to do.
LEMMA NothingLeft ==
  ASSUME Numerals(Nat), NEW listing, IsListing(listing), NEW policy \in PolicyFields,
         NEW previous, SoundBlobs(previous.blobs),
         NEW m \in ManifestFields, SoundBlobs(m.blobs),
         m.blobs = previous.blobs \cup NewBlobs(listing, policy, previous),
         previous.pinned \subseteq m.pinned,
         EffectivePolicy(policy, m) = policy
  PROVE  IsEmpty(Diff(m, PartitionScope(listing, policy, m)))
<1> DEFINE next == PartitionScope(listing, policy, m)
<1>1. ToCut(listing, policy, m) = {}
  <2> SUFFICES ASSUME NEW a \in Range(listing), ~ Held(a, policy, m.pinned)
               PROVE  Claimed(a, m.blobs)
    BY DEF ToCut
  <2>1. ~ Held(a, policy, previous.pinned)
    BY Zenon DEF Held, HeldPinned
  <2>2. Claimed(a, previous.blobs \cup NewBlobs(listing, policy, previous))
    BY <2>1, EveryArrayClaimed
  <2> QED
    BY <2>2
<1>2. NewBlobs(listing, policy, m) = {}
  BY <1>1 DEF NewBlobs, Cut
<1>3. next.blobs = m.blobs \cup NewBlobs(listing, policy, m)
  BY DEF PartitionScope
<1> HIDE DEF next
<1>4. IsEmpty(Diff(m, next)) <=> NewBlobs(listing, policy, m) = {}
  BY <1>3, DiffOfRun
<1> QED
  BY <1>2, <1>4 DEF next

LEMMA SecondRunIsEmpty ==
  ASSUME Numerals(Nat), IInv, IInv', [Next]_vars, ~ UNCHANGED vars,
         last'.kind \in {"repartition", "force"}
  PROVE  IsEmpty(Diff(manifest', PartitionScope(last'.listing, last'.policy, manifest')))
<1>1. /\ manifest' \in ManifestFields /\ SoundBlobs(manifest'.blobs)
      /\ manifest \in ManifestFields /\ SoundBlobs(manifest.blobs)
  BY DEF IInv, TypeOK
<1>2. ASSUME NEW listing \in Listings, NEW given \in Policies, Repartition(listing, given)
      PROVE  IsEmpty(Diff(manifest', PartitionScope(last'.listing, last'.policy, manifest')))
  <2> DEFINE policy == EffectivePolicy(given, manifest)
  <2>1. IsListing(listing)
    BY ListingsAssumption
  <2>2. /\ last'.listing = listing /\ last'.policy = policy /\ policy \in PolicyFields
        /\ manifest'.blobs = manifest.blobs \cup NewBlobs(listing, policy, manifest)
        /\ manifest'.pinned = manifest.pinned
        /\ manifest' = manifest \/ manifest'.policy = policy
    BY <1>2, RunResult
  <2>3. EffectivePolicy(policy, manifest') = policy
    BY <2>2, Zenon DEF EffectivePolicy
  <2> HIDE DEF policy
  <2>4. manifest.pinned \subseteq manifest'.pinned
    BY <2>2
  <2>5. IsEmpty(Diff(manifest', PartitionScope(listing, policy, manifest')))
    BY <1>1, <2>1, <2>2, <2>3, <2>4, NothingLeft
  <2> QED
    BY <2>2, <2>5
<1>3. ASSUME NEW listing \in Listings, NEW given \in Policies, ForcedRun(listing, given)
      PROVE  IsEmpty(Diff(manifest', PartitionScope(last'.listing, last'.policy, manifest')))
  <2> DEFINE policy == EffectivePolicy(given, Nothing)
             none == Nothing
  <2>1. IsListing(listing)
    BY ListingsAssumption
  <2>2. /\ last'.listing = listing /\ last'.policy = policy /\ policy \in PolicyFields
        /\ manifest'.blobs = NewBlobs(listing, policy, Nothing)
    BY <1>3, ForceResult
  <2>3. EffectivePolicy(policy, manifest') = policy
    <3>1. policy # NoPolicy
      BY NothingIsSound, APolicyAssumption, Zenon DEF EffectivePolicy
    <3> QED
      BY <3>1 DEF EffectivePolicy
  <2>4. SoundBlobs(none.blobs) /\ none.blobs = {} /\ none.pinned = {}
    BY NothingIsSound
  <2> HIDE DEF policy
  <2>5. manifest'.blobs = none.blobs \cup NewBlobs(listing, policy, none)
    BY <2>2, <2>4
  <2>6. none.pinned \subseteq manifest'.pinned
    BY <2>4
  <2> HIDE DEF none
  <2>7. IsEmpty(Diff(manifest', PartitionScope(listing, policy, manifest')))
    BY <1>1, <2>1, <2>2, <2>3, <2>4, <2>5, <2>6, NothingLeft
  <2> QED
    BY <2>2, <2>7
<1>4. ASSUME NEW prefix \in PinPrefixes, Pin(prefix) \/ Unpin(prefix)
      PROVE  FALSE
  BY <1>4, PinResult
<1> QED
  BY <1>2, <1>3, <1>4 DEF Next

----------------------------------------------------------------------------
(* Keys under pins *)

\* The prefixes of a pinned array: below the pin, or the pin itself.
LEMMA PinOnChunkPrefix ==
  ASSUME NEW listing, IsListing(listing), NEW a \in Range(listing),
         NEW pin \in Seq(STRING), ~ IsPrefix(pin, a.path), IsPrefix(pin, ChunkPrefix(a))
  PROVE  pin = ChunkPrefix(a)
<1> DEFINE path == a.path
           prefix == ChunkPrefix(a)
<1>1. path \in Seq(STRING) /\ prefix \in Seq(STRING)
  BY ChunkPrefixType, PathsAreStrings
<1>2. CASE prefix = path
  BY <1>2
<1>3. CASE prefix = Append(path, "c")
  <2>1. "c" \in STRING
    BY WordsAssumption
  <2> HIDE DEF path, prefix
  <2>2. Len(prefix) = Len(path) + 1 /\ \A i \in 1..Len(path) : prefix[i] = path[i]
    BY <1>1, <1>3, <2>1, AppendProperties
  <2>3. Len(pin) <= Len(prefix) /\ \A i \in 1..Len(pin) : pin[i] = prefix[i]
    BY <1>1, PrefixPointwise DEF prefix
  <2>4. ~ (Len(pin) <= Len(path) /\ \A i \in 1..Len(pin) : pin[i] = path[i])
    BY <1>1, PrefixPointwise DEF path
  <2>5. Len(pin) \in Nat /\ Len(path) \in Nat
    BY <1>1
  <2>6. Len(pin) = Len(prefix)
    BY <2>2, <2>3, <2>4, <2>5
  <2>7. pin = prefix
    BY <1>1, <2>3, <2>6, SeqEqual
  <2> QED
    BY <2>7 DEF prefix
<1> QED
  BY <1>2, <1>3, Zenon DEF ChunkPrefix

LEMMA RunRespectsPins ==
  ASSUME Numerals(Nat), IInv, IInv', [Next]_vars, ~ UNCHANGED vars,
         last'.kind = "repartition"
  PROVE  /\ PinnedBlobIds(manifest) \subseteq PinnedBlobIds(manifest')
         /\ \A b \in manifest'.blobs \ manifest.blobs :
               b.id \in PinnedBlobIds(manifest') =>
                   Range(b.prefixes) \cap manifest'.pinned # {}
<1>1. \E listing \in Listings, given \in Policies : Repartition(listing, given)
  <2>1. ASSUME NEW listing \in Listings, NEW given \in Policies, ForcedRun(listing, given)
        PROVE  FALSE
    BY <2>1, ForceResult
  <2>2. ASSUME NEW prefix \in PinPrefixes, Pin(prefix) \/ Unpin(prefix)
        PROVE  FALSE
    BY <2>2, PinResult
  <2> QED
    BY <2>1, <2>2 DEF Next
<1>2. PICK listing \in Listings, given \in Policies : Repartition(listing, given)
  BY <1>1
<1> DEFINE policy == EffectivePolicy(given, manifest)
           new == NewBlobs(listing, policy, manifest)
<1>3. IsListing(listing)
  BY ListingsAssumption
<1>4. /\ policy \in PolicyFields
      /\ manifest'.blobs = manifest.blobs \cup new
      /\ manifest'.pinned = manifest.pinned
      /\ SoundBlobs(manifest.blobs) /\ SoundBlobs(manifest'.blobs)
      /\ manifest.pinned \subseteq Seq(STRING)
  BY <1>2, RunResult DEF IInv, TypeOK, ManifestFields
<1>5. \/ PrefixesOf(new) = {ChunkPrefix(a) : a \in ToCut(listing, policy, manifest)}
      \/ PrefixesOf(new) = {<<>>}
  BY <1>3, <1>4, NewBlobsResult
<1> HIDE DEF policy, new
<1>6. PinnedBlobIds(manifest) \subseteq PinnedBlobIds(manifest')
  BY <1>4, Zenon DEF PinnedBlobIds
<1>7. ASSUME NEW b \in new, b.id \in PinnedBlobIds(manifest')
      PROVE  Range(b.prefixes) \cap manifest'.pinned # {}
  <2>1. PICK d \in manifest'.blobs :
           d.id = b.id /\ \E prefix \in Range(d.prefixes), pin \in manifest.pinned : IsPrefix(pin, prefix)
    BY <1>4, <1>7, Zenon DEF PinnedBlobIds, Covers
  <2>2. d = b
    BY <1>4, <2>1 DEF SoundBlobs, UniqueIds
  <2>3. PICK prefix \in Range(b.prefixes), pin \in manifest.pinned : IsPrefix(pin, prefix)
    BY <2>1, <2>2, Zenon
  <2>4. prefix \in PrefixesOf(new) /\ pin \in Seq(STRING)
    BY <1>4 DEF PrefixesOf
  <2>5. CASE prefix = <<>>
    <3>1. Len(pin) <= 0
      BY <2>3, <2>5 DEF IsPrefix
    <3>2. pin = <<>>
      BY <2>4, <3>1
    <3> QED
      BY <1>4, <2>5, <3>2
  <2>6. CASE prefix # <<>>
    <3>1. PICK a \in ToCut(listing, policy, manifest) : prefix = ChunkPrefix(a)
      BY <1>5, <2>4, <2>6
    <3>2. a \in Range(listing) /\ ~ IsPrefix(pin, a.path)
      BY <3>1, Zenon DEF ToCut, Held, HeldPinned, Covers
    <3>3. pin = prefix
      BY <1>3, <2>3, <2>4, <3>1, <3>2, PinOnChunkPrefix
    <3> QED
      BY <1>4, <3>3
  <2> QED
    BY <2>5, <2>6
<1> QED
  BY <1>4, <1>6, <1>7

----------------------------------------------------------------------------
(* Instances *)

\* The blobs a step adds were cut from the listing and under the policy it recorded.
LEMMA AddedBlobsAreMade ==
  ASSUME Numerals(Nat), IInv, [Next]_vars, NEW b \in manifest'.blobs \ manifest.blobs
  PROVE  /\ IsListing(last'.listing) /\ last'.policy \in PolicyFields
         /\ Made(b, last'.listing, last'.policy)
         /\ FairSizes(GroupsOf(manifest'.blobs \ manifest.blobs), last'.listing, last'.policy)
<1> DEFINE added == manifest'.blobs \ manifest.blobs
<1>1. ASSUME NEW listing \in Listings, NEW given \in Policies, Repartition(listing, given)
      PROVE  /\ IsListing(last'.listing) /\ last'.policy \in PolicyFields
             /\ Made(b, last'.listing, last'.policy)
             /\ FairSizes(GroupsOf(added), last'.listing, last'.policy)
  <2> DEFINE policy == EffectivePolicy(given, manifest)
             new == NewBlobs(listing, policy, manifest)
  <2>1. /\ last'.listing = listing /\ last'.policy = policy /\ policy \in PolicyFields
        /\ manifest'.blobs = manifest.blobs \cup new
        /\ IsListing(listing) /\ SoundBlobs(manifest.blobs)
    BY <1>1, RunResult, ListingsAssumption DEF IInv
  <2>2. WellCut(new, listing, policy, Ids(manifest)) /\ FairSizes(GroupsOf(new), listing, policy)
    BY <2>1, NewBlobsResult
  <2> HIDE DEF policy, new
  <2>3. b \in new /\ GroupsOf(added) \in SUBSET GroupsOf(new)
    BY <2>1 DEF GroupsOf
  <2>4. FairSizes(GroupsOf(added), listing, policy)
    BY <2>2, <2>3, FairSizesOfPart
  <2> QED
    BY <2>1, <2>2, <2>3, <2>4 DEF WellCut
<1>2. ASSUME NEW listing \in Listings, NEW given \in Policies, ForcedRun(listing, given)
      PROVE  /\ IsListing(last'.listing) /\ last'.policy \in PolicyFields
             /\ Made(b, last'.listing, last'.policy)
             /\ FairSizes(GroupsOf(added), last'.listing, last'.policy)
  <2> DEFINE none == Nothing
             policy == EffectivePolicy(given, Nothing)
             new == NewBlobs(listing, policy, none)
  <2>1. /\ last'.listing = listing /\ last'.policy = policy /\ policy \in PolicyFields
        /\ manifest'.blobs = new
        /\ IsListing(listing) /\ SoundBlobs(none.blobs)
    BY <1>2, ForceResult, ListingsAssumption, NothingIsSound
  <2> HIDE DEF none
  <2>2. WellCut(new, listing, policy, Ids(none)) /\ FairSizes(GroupsOf(new), listing, policy)
    BY <2>1, NewBlobsResult
  <2> HIDE DEF policy, new
  <2>3. b \in new /\ GroupsOf(added) \in SUBSET GroupsOf(new)
    BY <2>1 DEF GroupsOf
  <2>4. FairSizes(GroupsOf(added), listing, policy)
    BY <2>2, <2>3, FairSizesOfPart
  <2> QED
    BY <2>1, <2>2, <2>3, <2>4 DEF WellCut
<1>3. ASSUME NEW prefix \in PinPrefixes, Pin(prefix) \/ Unpin(prefix)
      PROVE  FALSE
  BY <1>3, PinResult
<1>4. CASE UNCHANGED vars
  BY <1>4 DEF vars
<1> QED
  BY <1>1, <1>2, <1>3, <1>4 DEF Next

LEMMA StepBoundsInstances ==
  ASSUME Numerals(Nat), IInv, [Next]_vars
  PROVE  InstancesBounded({a \in Range(last'.listing) : SliceObjects(a) = 1})
<1> SUFFICES ASSUME NEW b \in manifest'.blobs \ manifest.blobs,
                    NEW a \in Range(last'.listing), SliceObjects(a) = 1,
                    IsBucketed(b), b.prefixes = <<ChunkPrefix(a)>>
             PROVE  \/ b.bucket.width = 1
                    \/ WorstCaseBytes(a, b.bucket.width)
                           <= last'.policy.width_clamp * last'.policy.t_max
  BY DEF InstancesBounded
<1> DEFINE listing == last'.listing
           policy == last'.policy
           width == b.bucket.width
           bytes == Product(ObjectShape(a))
           room == policy.width_clamp * policy.t_max
<1>1. IsListing(listing) /\ policy \in PolicyFields /\ Made(b, listing, policy)
  BY AddedBlobsAreMade
<1>2. width = BucketWidth(a, policy)
  <2>1. PICK d \in Range(listing) :
           b.prefixes = <<ChunkPrefix(d)>> /\ b.bucket = BucketFor(d, policy)
    BY <1>1 DEF Made
  <2>2. ChunkPrefix(d) = ChunkPrefix(a)
    BY <2>1
  <2>3. d = a
    BY <1>1, <2>2, ChunkPrefixIdentifies
  <2> QED
    BY <2>1, <2>3 DEF BucketFor
<1> HIDE DEF listing, policy
<1>3. a \in Range(listing)
  BY DEF listing
<1>4. /\ BucketWidth(a, policy) \in Nat \ {0}
      /\ \/ BucketWidth(a, policy) = 1
         \/ BucketWidth(a, policy) * UncompressedObjectBytes(a)
                <= policy.width_clamp * policy.t_max
  BY <1>1, <1>3, BucketWidthFits
<1>5. bytes \in Nat /\ a.itemsize \in Nat
  <2>1. Product(ObjectShape(a)) \in Nat \ {0}
    BY <1>1, <1>3, SizesOfArray
  <2>2. a \in ArrayFields
    BY <1>1, <1>3 DEF IsListing, Range
  <2> QED
    BY <2>1, <2>2, Zenon DEF ArrayFields
<1>6. WorstCaseBytes(a, width) = width * SliceObjects(a) * bytes * a.itemsize
  BY Zenon DEF WorstCaseBytes, ObjectShape
<1>7. UncompressedObjectBytes(a) = bytes * a.itemsize
  BY DEF UncompressedObjectBytes
<1> HIDE DEF bytes, width
<1>8. WorstCaseBytes(a, width) = width * (bytes * a.itemsize)
  <2>1. \A w, x, y \in Nat : w * 1 * x * y = w * (x * y)
    OBVIOUS
  <2> QED
    BY <1>2, <1>4, <1>5, <1>6, <2>1
<1> QED
  BY <1>2, <1>4, <1>7, <1>8 DEF width, policy

\* The groups of a step are of the sizes the policy asks for.
StepGroupSizes ==
    \A b \in NewGroups :
        LET size == BlobBytes(b, last'.listing)
            slack == 2 * Max({0, last'.policy.t_min - 1})
        IN /\ size <= last'.policy.t_max + slack
           /\ size >= last'.policy.t_min \/ NewGroups = {b}

LEMMA StepBoundsGroups ==
  ASSUME Numerals(Nat), IInv, [Next]_vars
  PROVE  StepGroupSizes
<1> DEFINE listing == last'.listing
           policy == last'.policy
<1>1. NewGroups = GroupsOf(manifest'.blobs \ manifest.blobs)
  BY DEF NewGroups, GroupsOf
<1> SUFFICES ASSUME NEW b \in NewGroups
             PROVE  /\ BlobBytes(b, listing) <= policy.t_max + 2 * Max({0, policy.t_min - 1})
                    /\ BlobBytes(b, listing) >= policy.t_min \/ NewGroups = {b}
  BY DEF StepGroupSizes
<1>2. /\ IsListing(listing) /\ policy \in PolicyFields
      /\ FairSizes(NewGroups, listing, policy)
  <2>1. b \in manifest'.blobs \ manifest.blobs
    BY DEF NewGroups
  <2> QED
    BY <1>1, <2>1, AddedBlobsAreMade
<1> HIDE DEF listing, policy
<1>3. BlobBytes(b, listing) = GroupBytes(b.prefixes, listing)
  <2>1. BlobBytes(b, listing) = MapThenSumSet(TotalBytes, Members(b.prefixes, listing))
    BY DEF BlobBytes, Members
  <2>2. Members(b.prefixes, listing) \in SUBSET Range(listing)
    BY DEF Members
  <2> QED
    BY <2>1, <2>2, BytesAreSummed DEF GroupBytes
<1>4. /\ GroupBytes(b.prefixes, listing) <= policy.t_max + 2 * Slack(policy)
      /\ policy.t_min <= GroupBytes(b.prefixes, listing) \/ NewGroups = {b}
  BY <1>2 DEF FairSizes
<1>5. policy.t_min <= GroupBytes(b.prefixes, listing) => GroupBytes(b.prefixes, listing) >= policy.t_min
  OBVIOUS
<1> QED
  BY <1>3, <1>4, <1>5 DEF Slack

----------------------------------------------------------------------------
(* Where keys resolve to *)

\* No step but a forced run moves a key between instances.
LEMMA StepMovesNoKey ==
  ASSUME Numerals(Nat), IInv, IInv', [Next]_vars, last'.kind # "force", NEW key \in Keys,
         Archivable(ResolveKey(Scope, manifest, key)),
         Archivable(ResolveKey(Scope, manifest', key))
  PROVE  ResolveKey(Scope, manifest, key) = ResolveKey(Scope, manifest', key)
<1>1. /\ manifest \in ManifestFields /\ SoundBlobs(manifest.blobs)
      /\ manifest' \in ManifestFields /\ SoundBlobs(manifest'.blobs)
  BY DEF IInv, TypeOK
<1>2. Scope \in Seq(STRING) /\ key \in Seq(STRING)
  BY ScopeAssumption
<1>3. CASE manifest'.blobs = manifest.blobs
  <2> DEFINE added == {}
  <2>1. manifest'.blobs = manifest.blobs \cup added /\ PrefixesOf(added) = {}
    BY <1>3 DEF PrefixesOf
  <2>2. manifest.blobs \subseteq manifest'.blobs
    BY <1>3
  <2>3. \A p \in PrefixesOf(manifest.blobs), q \in PrefixesOf(added) : ~ IsPrefix(p, q)
    BY <2>1
  <2> HIDE DEF added
  <2> QED
    BY <1>1, <1>2, <2>1, <2>2, <2>3, KeyStays
<1>4. ASSUME NEW listing \in Listings, NEW given \in Policies, Repartition(listing, given)
      PROVE  ResolveKey(Scope, manifest, key) = ResolveKey(Scope, manifest', key)
  <2> DEFINE policy == EffectivePolicy(given, manifest)
             added == NewBlobs(listing, policy, manifest)
  <2>1. policy \in PolicyFields /\ manifest'.blobs = manifest.blobs \cup added
    BY <1>4, RunResult
  <2>2. IsListing(listing)
    BY ListingsAssumption
  <2> HIDE DEF policy
  <2>3. \A p \in PrefixesOf(manifest.blobs), q \in PrefixesOf(added) : ~ IsPrefix(p, q)
    BY <1>1, <2>1, <2>2, NewPrefixesAreUnclaimed
  <2> HIDE DEF added
  <2>4. manifest.blobs \subseteq manifest'.blobs
    BY <2>1
  <2> QED
    BY <1>1, <1>2, <2>1, <2>3, <2>4, KeyStays
<1>5. ASSUME NEW listing \in Listings, NEW given \in Policies, ForcedRun(listing, given)
      PROVE  FALSE
  BY <1>5, ForceResult
<1>6. ASSUME NEW prefix \in PinPrefixes, Pin(prefix) \/ Unpin(prefix)
      PROVE  manifest'.blobs = manifest.blobs
  BY <1>6, PinResult
<1>7. CASE UNCHANGED vars
  BY <1>3, <1>7 DEF vars
<1> QED
  BY <1>3, <1>4, <1>5, <1>6, <1>7 DEF Next

----------------------------------------------------------------------------
(* Names *)

\* A manifest whose blobs are named after their prefixes, or numbered because another
\* blob of the manifest has the name.
NamesOK ==
    /\ AllSpelled(manifest.blobs, IdsOf(manifest.blobs))
    /\ \A b \in manifest.blobs : b.prefixes \in Seq(Paths)

\* What a cut adds to a manifest is named in the same way.
LEMMA CutKeepsNames ==
  ASSUME Numerals(Nat), NEW listing, IsListing(listing), NEW policy \in PolicyFields,
         NEW previous, SoundBlobs(previous.blobs),
         AllSpelled(previous.blobs, IdsOf(previous.blobs)),
         \A b \in previous.blobs : b.prefixes \in Seq(Paths),
         NEW blobs, blobs = previous.blobs \cup NewBlobs(listing, policy, previous)
  PROVE  /\ AllSpelled(blobs, IdsOf(blobs))
         /\ \A b \in blobs : b.prefixes \in Seq(Paths)
<1> DEFINE new == NewBlobs(listing, policy, previous)
<1>1. NewlySpelled(new, Ids(previous))
  BY NewBlobsResult
<1>2. WellCut(new, listing, policy, Ids(previous))
  BY NewBlobsResult
<1> HIDE DEF new
<1>3. \A b \in new : b.prefixes \in Seq(Paths)
  BY <1>2 DEF WellCut, Made
<1>4. blobs = previous.blobs \cup new
  BY DEF new
<1> DEFINE ids == IdsOf(blobs)
<1>5. IdsOf(previous.blobs) \subseteq ids /\ Ids(previous) \cup IdsOf(new) \subseteq ids
  BY <1>4 DEF IdsOf, Ids
<1>6. AllSpelled(previous.blobs, ids) /\ AllSpelled(new, ids)
  <2>1. AllSpelled(new, Ids(previous) \cup IdsOf(new))
    BY <1>1 DEF NewlySpelled
  <2> HIDE DEF ids
  <2> QED
    BY <1>5, <2>1, SpelledByMore
<1> QED
  BY <1>3, <1>4, <1>6 DEF AllSpelled

LEMMA NextKeepsNames ==
  ASSUME Numerals(Nat), IInv, NamesOK, [Next]_vars
  PROVE  NamesOK'
<1>1. CASE manifest'.blobs = manifest.blobs
  BY <1>1 DEF NamesOK
<1>2. ASSUME NEW listing \in Listings, NEW given \in Policies, Repartition(listing, given)
      PROVE  NamesOK'
  <2> DEFINE policy == EffectivePolicy(given, manifest)
             blobs == manifest'.blobs
  <2>1. /\ policy \in PolicyFields
        /\ blobs = manifest.blobs \cup NewBlobs(listing, policy, manifest)
    BY <1>2, RunResult
  <2>2. IsListing(listing)
    BY ListingsAssumption
  <2>3. /\ SoundBlobs(manifest.blobs) /\ AllSpelled(manifest.blobs, IdsOf(manifest.blobs))
        /\ \A b \in manifest.blobs : b.prefixes \in Seq(Paths)
    BY DEF IInv, NamesOK
  <2> HIDE DEF policy, blobs
  <2>4. AllSpelled(blobs, IdsOf(blobs)) /\ \A b \in blobs : b.prefixes \in Seq(Paths)
    BY <2>1, <2>2, <2>3, CutKeepsNames
  <2> QED
    BY <2>4 DEF NamesOK, blobs
<1>3. ASSUME NEW listing \in Listings, NEW given \in Policies, ForcedRun(listing, given)
      PROVE  NamesOK'
  <2> DEFINE policy == EffectivePolicy(given, Nothing)
             none == Nothing
             blobs == manifest'.blobs
  <2>1. policy \in PolicyFields /\ blobs = NewBlobs(listing, policy, Nothing)
    BY <1>3, ForceResult
  <2>2. IsListing(listing)
    BY ListingsAssumption
  <2>3. SoundBlobs(none.blobs) /\ none.blobs = {}
    BY NothingIsSound
  <2>4. blobs = none.blobs \cup NewBlobs(listing, policy, none)
    BY <2>1, <2>3
  <2>5. /\ AllSpelled(none.blobs, IdsOf(none.blobs))
        /\ \A b \in none.blobs : b.prefixes \in Seq(Paths)
    BY <2>3 DEF AllSpelled
  <2> HIDE DEF policy, none, blobs
  <2>6. AllSpelled(blobs, IdsOf(blobs)) /\ \A b \in blobs : b.prefixes \in Seq(Paths)
    BY <2>1, <2>2, <2>3, <2>4, <2>5, CutKeepsNames
  <2> QED
    BY <2>6 DEF NamesOK, blobs
<1>4. ASSUME NEW prefix \in PinPrefixes, Pin(prefix) \/ Unpin(prefix)
      PROVE  manifest'.blobs = manifest.blobs
  BY <1>4, PinResult
<1>5. CASE UNCHANGED vars
  BY <1>1, <1>5 DEF vars
<1> QED
  BY <1>1, <1>2, <1>3, <1>4, <1>5 DEF Next

\* The preferred id of a blob is its words after the "b".
LEMMA StemIsSpelling ==
  ASSUME NEW b, WellFormed(b), b.prefixes \in Seq(Paths)
  PROVE  Spelling(b) \in Seq(STRING) /\ Stem(b) = <<"b">> \o Spelling(b)
<1> DEFINE prefix == b.prefixes[1]
           path == IF b.bucket.encoding = "v3_slash" THEN Front(prefix) ELSE prefix
           seqs == [i \in DOMAIN b.prefixes |-> Ident(b.prefixes[i])]
<1>1. CASE IsBucketed(b)
  <2>1. prefix \in Paths
    BY DEF WellFormed
  <2> HIDE DEF prefix
  <2>2. Front(prefix) \in Paths
    BY <2>1 DEF Front, Paths
  <2>3. path \in Seq(DOMAIN Words)
    BY <2>1, <2>2 DEF Paths
  <2> HIDE DEF path
  <2>4. Ident(path) \in Seq(STRING)
    BY <2>3, IdentType
  <2> QED
    BY <1>1, <2>4, Zenon DEF Spelling, Stem, path, prefix
<1>2. CASE ~ IsBucketed(b)
  <2>1. \A i \in DOMAIN b.prefixes : b.prefixes[i] \in Seq(DOMAIN Words)
    BY DEF Paths
  <2>2. \A i \in DOMAIN b.prefixes : Ident(b.prefixes[i]) \in Seq(STRING)
    BY <2>1, IdentType
  <2>3. seqs \in Seq(Seq(STRING))
    BY <2>2
  <2> HIDE DEF seqs
  <2>4. FlattenSeq(seqs) \in Seq(STRING)
    BY <2>3, FlattenedIn
  <2>5. Spelling(b) = FlattenSeq(seqs) /\ Stem(b) = <<"b">> \o FlattenSeq(seqs)
    BY <1>2, Zenon DEF Spelling, Stem, GroupId, seqs
  <2> QED
    BY <2>4, <2>5
<1> QED
  BY <1>1, <1>2

LEMMA SameStemSameSpelling ==
  ASSUME NEW b, WellFormed(b), b.prefixes \in Seq(Paths),
         NEW d, WellFormed(d), d.prefixes \in Seq(Paths), Stem(b) = Stem(d)
  PROVE  Spelling(b) = Spelling(d)
<1> DEFINE s == Spelling(b)
           t == Spelling(d)
           w == <<"b">>
<1>1. s \in Seq(STRING) /\ t \in Seq(STRING) /\ w \o s = w \o t
  BY StemIsSpelling
<1>2. w \in Seq(STRING)
  BY WordsAssumption
<1> HIDE DEF s, t, w
<1> QED
  BY <1>1, <1>2, ConcatSimplifications DEF s, t

\* A blob is numbered only because another one with the same words had the name.
LEMMA NumberedIsAmbiguous ==
  ASSUME Numerals(Nat), NEW blobs, SoundBlobs(blobs),
         AllSpelled(blobs, IdsOf(blobs)), \A b \in blobs : b.prefixes \in Seq(Paths),
         \E b \in blobs : b.id # Stem(b)
  PROVE  Ambiguous(blobs)
<1>1. \A b \in blobs : b.id \in Seq(STRING) /\ WellFormed(b)
  BY DEF SoundBlobs, BlobFields
<1> DEFINE numbered == {b \in blobs : b.id # Stem(b)}
           lens == {Len(b.id) : b \in numbered}
<1>2. lens \in SUBSET Nat /\ lens # {}
  <2>1. \A b \in numbered : Len(b.id) \in Nat
    BY <1>1
  <2>2. \E b \in blobs : b \in numbered
    OBVIOUS
  <2> HIDE DEF numbered
  <2> QED
    BY <2>1, <2>2
<1>3. PICK b \in numbered : \A d \in numbered : Len(b.id) <= Len(d.id)
  <2>1. \E x \in lens : \A y \in lens : x <= y
    <3> HIDE DEF lens
    <3> QED
      BY <1>2, LeastNatural
  <2> QED
    BY <2>1
<1>4. PICK k \in Nat : Stem(b) \in IdsOf(blobs) /\ b.id = Append(Stem(b), ToString(k))
  BY DEF AllSpelled, Spelled
<1>5. PICK d \in blobs : d.id = Stem(b)
  BY <1>4 DEF IdsOf
<1>6. Len(b.id) = Len(d.id) + 1 /\ Len(d.id) \in Nat
  <2>1. d.id \in Seq(STRING) /\ ToString(k) \in STRING /\ b.id = Append(d.id, ToString(k))
    BY <1>1, <1>4, <1>5 DEF Numerals
  <2> QED
    BY <2>1, AppendProperties
<1>7. d.id = Stem(d)
  BY <1>3, <1>5, <1>6
<1>8. Spelling(b) = Spelling(d)
  <2>1. Stem(b) = Stem(d)
    BY <1>5, <1>7
  <2> QED
    BY <1>1, <2>1, SameStemSameSpelling
<1>9. b.prefixes # d.prefixes
  <2>1. b # d
    BY <1>6
  <2>2. b.prefixes \in Seq(Paths) /\ b.prefixes # <<>>
    BY <1>1 DEF WellFormed
  <2>3. b.prefixes[1] \in Range(b.prefixes)
    BY <2>2 DEF Range
  <2> QED
    BY <2>1, <2>3 DEF SoundBlobs, Disjoint
<1> QED
  BY <1>8, <1>9 DEF Ambiguous

LEMMA MoreIsAmbiguous ==
  ASSUME NEW blobs, NEW more, blobs \subseteq more, Ambiguous(blobs)
  PROVE  Ambiguous(more)
BY Zenon DEF Ambiguous

LEMMA SameIdSameWords ==
  ASSUME Numerals(Nat), IInv, IInv', NamesOK, NamesOK',
         NEW b \in manifest.blobs, NEW d \in manifest'.blobs, b.id = d.id
  PROVE  \/ b.prefixes = d.prefixes
         \/ Ambiguous(manifest.blobs \cup manifest'.blobs)
<1> DEFINE old == manifest.blobs
           new == manifest'.blobs
<1>1. /\ SoundBlobs(old) /\ AllSpelled(old, IdsOf(old))
      /\ \A x \in old : x.prefixes \in Seq(Paths)
  BY DEF IInv, NamesOK
<1>2. /\ SoundBlobs(new) /\ AllSpelled(new, IdsOf(new))
      /\ \A x \in new : x.prefixes \in Seq(Paths)
  BY DEF IInv, NamesOK
<1> SUFFICES b.prefixes = d.prefixes \/ Ambiguous(old \cup new)
  OBVIOUS
<1>3. b \in old /\ d \in new
  OBVIOUS
<1> HIDE DEF old, new
<1>4. CASE b.id # Stem(b)
  <2>1. Ambiguous(old)
    BY <1>1, <1>3, <1>4, NumberedIsAmbiguous
  <2> QED
    BY <2>1, MoreIsAmbiguous
<1>5. CASE d.id # Stem(d)
  <2>1. Ambiguous(new)
    BY <1>2, <1>3, <1>5, NumberedIsAmbiguous
  <2> QED
    BY <2>1, MoreIsAmbiguous
<1>6. CASE b.id = Stem(b) /\ d.id = Stem(d)
  <2>1. WellFormed(b) /\ WellFormed(d) /\ Stem(b) = Stem(d)
    BY <1>1, <1>2, <1>3, <1>6 DEF SoundBlobs
  <2>2. Spelling(b) = Spelling(d)
    BY <1>1, <1>2, <1>3, <2>1, SameStemSameSpelling
  <2> QED
    BY <1>3, <2>2 DEF Ambiguous
<1> QED
  BY <1>4, <1>5, <1>6

----------------------------------------------------------------------------
(* The action properties *)

LEMMA InvariantHolds ==
  ASSUME Numerals(Nat)
  PROVE  Spec => []IInv
<1>1. Init => IInv
  BY InitEstablishesIInv
<1>2. IInv /\ [Next]_vars => IInv'
  BY NextPreservesIInv
<1> QED
  BY <1>1, <1>2, PTL DEF Spec

\* The tape addresses a consumer holds stay true: while no run is forced, a key that is
\* archivable before and after a step resolves to the same instance of the same blob.
THEOREM KeysStayPut ==
  ASSUME Numerals(Nat)
  PROVE  Spec => KeysNeverMove
<1> DEFINE A == last'.kind # "force" =>
                  \A key \in Keys :
                      LET before == ResolveKey(Scope, manifest, key)
                          after == ResolveKey(Scope, manifest', key)
                      IN Archivable(before) /\ Archivable(after) => before = after
<1>1. IInv /\ IInv' /\ [Next]_vars => [A]_vars
  BY StepMovesNoKey
<1>2. KeysNeverMove <=> [][A]_vars
  BY DEF KeysNeverMove
<1> QED
  BY <1>1, <1>2, InvariantHolds, PTL DEF Spec

\* A run repeated, after a crash or a lost reply, finds nothing to write.
THEOREM RerunsAreEmpty ==
  ASSUME Numerals(Nat)
  PROVE  Spec => RunsAreIdempotent
<1> DEFINE A == last'.kind \in {"repartition", "force"} =>
                  IsEmpty(Diff(manifest', PartitionScope(last'.listing, last'.policy, manifest')))
<1>1. IInv /\ IInv' /\ [Next]_vars => [A]_vars
  BY SecondRunIsEmpty
<1>2. RunsAreIdempotent <=> [][A]_vars
  BY DEF RunsAreIdempotent
<1> QED
  BY <1>1, <1>2, InvariantHolds, PTL DEF Spec

\* A repartition cuts nothing below a pin.
THEOREM PinsHoldBack ==
  ASSUME Numerals(Nat)
  PROVE  Spec => PinnedBlobsOnlyFromPins
<1> DEFINE A == last'.kind = "repartition" =>
                  /\ PinnedBlobIds(manifest) \subseteq PinnedBlobIds(manifest')
                  /\ \A b \in manifest'.blobs \ manifest.blobs :
                        b.id \in PinnedBlobIds(manifest') =>
                            Range(b.prefixes) \cap manifest'.pinned # {}
<1>1. IInv /\ IInv' /\ [Next]_vars => [A]_vars
  BY RunRespectsPins
<1>2. PinnedBlobsOnlyFromPins <=> [][A]_vars
  BY DEF PinnedBlobsOnlyFromPins
<1> QED
  BY <1>1, <1>2, InvariantHolds, PTL DEF Spec

\* One instance of a new blob never outgrows the clamp, whatever the sizes, for arrays
\* chunked along their first dimension only.
THEOREM InstancesStayWithinClamp ==
  ASSUME Numerals(Nat)
  PROVE  Spec => InstanceWithinClamp
<1> DEFINE A == InstancesBounded({a \in Range(last'.listing) : SliceObjects(a) = 1})
<1>1. IInv /\ [Next]_vars => [A]_vars
  BY StepBoundsInstances
<1>2. InstanceWithinClamp <=> [][A]_vars
  BY DEF InstanceWithinClamp
<1> QED
  BY <1>1, <1>2, InvariantHolds, PTL DEF Spec

\* A group just cut is no smaller than t_min, unless it is the only one, and no larger
\* than t_max by more than what an unfinished group and a tail can add.
THEOREM GroupsAreOfSize ==
  ASSUME Numerals(Nat)
  PROVE  Spec => GroupSizes
<1> DEFINE A == StepGroupSizes
<1>1. IInv /\ [Next]_vars => [A]_vars
  BY StepBoundsGroups
<1>2. GroupSizes <=> [][A]_vars
  BY DEF GroupSizes, StepGroupSizes
<1> QED
  BY <1>1, <1>2, InvariantHolds, PTL DEF Spec

\* An id says what its blob claims, for good: whatever is listed in whichever order, and
\* even when a run is forced and knows nothing of earlier ids, an id known before and
\* after a step stands for the same prefixes, unless two blobs spell alike.
THEOREM IdsStayWithTheirWords ==
  ASSUME Numerals(Nat)
  PROVE  Spec => IdsKeepMeaning
<1> DEFINE A == \A b \in manifest.blobs, d \in manifest'.blobs :
                  b.id = d.id => \/ b.prefixes = d.prefixes
                                 \/ Ambiguous(manifest.blobs \cup manifest'.blobs)
<1>1. Init => IInv /\ NamesOK
  <2>1. Init => manifest.blobs = {}
    BY NothingIsSound DEF Init
  <2> QED
    BY <2>1, InitEstablishesIInv DEF NamesOK, AllSpelled
<1>2. IInv /\ NamesOK /\ [Next]_vars => IInv' /\ NamesOK'
  BY NextPreservesIInv, NextKeepsNames
<1>3. IInv /\ IInv' /\ NamesOK /\ NamesOK' => [A]_vars
  BY SameIdSameWords
<1>4. IdsKeepMeaning <=> [][A]_vars
  BY DEF IdsKeepMeaning
<1> QED
  BY <1>1, <1>2, <1>3, <1>4, PTL DEF Spec
=============================================================================
