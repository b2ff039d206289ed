# A verification of blobmap in TLA+

blobmap decides where the boundaries of archivable units ("blobs") lie in zarr
stores kept in object storage. It lists a store, cuts its arrays into blob
definitions, and writes one manifest object per scope. A resolver maps any object
key to a blob instance, and other programs hold the state of each instance,
including tape addresses, against the instance's id. What must never happen is
therefore simple to state and hard to test: **an id must not come to mean other
data**, no writer may undo another's work unnoticed, and what is to stay hot must
never be archivable.

Paths below are relative to the repository; `model.py` means
`src/blobmap/model.py`, and so on.

## 1. Inventory

| Component | State it keeps | Operations | Hard behaviour | What makes it correct |
|---|---|---|---|---|
| value types, `model.py` | none (immutable) | array sizes, `bumped`, `validate`, `pinned_blob_ids` | zero, rounding, partial objects | sizes are of stored objects; a valid manifest has unique ids |
| cut, `partition.py` | none (pure) | `bucket_width`, `partition`, `diff` | long histories of legal calls; id collisions; boundaries of the thresholds | carried blobs are untouched, new ones claim only unclaimed arrays, ids follow from prefixes |
| pins, `pins.py` | pins inside the manifest | `add`, `remove`, `show` | races with partition runs and each other | a pin stays until removed |
| partition run, `service.py` | none beyond the run | `partition_store` | concurrent runs, crash between requests, lost replies, force | additive unless forced; a lost race is noticed |
| manifest objects, `manifests.py` | one object per scope | `read` (GET then HEAD), `write`, `scopes`, `load_all` | two requests that should be one; one bad object among many | body and etag belong together |
| object access, `storage.py` | none | `get_bytes`, `head`, `put_bytes`, listing | conditional puts, backends without them | a failed precondition is a `Conflict` |
| hierarchy, `hierarchy.py` | none | `read_arrays`, `find_store_root`, `detect_format` | two listings of a store that is being written | arrays with the sizes of what is really stored |
| resolver, `resolve.py` | a trie and epochs in memory | `add`, `lookup`, `resolve` | nesting of blobs, hot patterns and pins; keys that do not parse | every key has one answer; unknown means hot |
| event discovery, `discover/events.py` | cursor and pending set in SQLite | `poll_once`, `drain`, `due`, `step`, `run` | crashes between commits, out-of-order events, debounce, retries | a write noted is never forgotten, a quiet store is partitioned in the end |
| scan discovery, `discover/scan.py` | none | `scan` | a walk over a bucket that changes; known scopes read once | every store within the depth is found |
| report, `report.py` | none | `report` | counts what nobody knows of | unmanaged is what no run has seen |
| command line, `cli.py` | none | `scan --partition`, dispatch | an error ends a scan half way | a run per unknown store |
| schema, backends, theme | none | checking one document, opening stores, colours | none of their own | (not modelled) |

Interactions. `cli.py` or an `EventPoller` calls `partition_store`, which reads
the manifest (`manifests.py` through `storage.py`), lists the data twice
(`hierarchy.py`), cuts (`partition.py`) and writes the manifest conditionally.
`pins.py` reads and writes the same object. Consumers load manifests into a trie
(`resolve.py`) and rebuild it now and then. The poller meets the stores' writers
through a table of notifications that a third party fills, and itself, after a
restart, through its SQLite file. Nothing holds a lock: processes meet only in the
object store.

## 2. Modules

| Module | Models | How its state and actions correspond to the code |
|---|---|---|
| `Model` | `model.py` | operators on arrays, blobs, manifests; a path is a sequence of segments, an id a sequence of words |
| `Partition` | `partition.py` | `PartitionScope` is `partition`, with `Cut`, `Coalesce`/`WithTail`, `CutLarge`, `BucketWidth`, `Claimed`, `Uniq` for the private functions; `Diff` is `diff` |
| `Resolve` | `resolve.py` | a trie as a function from marked paths to markers; `Lookup` is `Trie.lookup` |
| `Repartition` | a scope's life with one writer | `manifest` is the stored manifest; one action per whole operation: `Repartition`, `ForcedRun` (`partition_store` without and with force), `Pin`, `Unpin` |
| `Hierarchy` | `read_arrays` and the store it reads | `version`, `count` are what the store holds; `Listing` is the result of two passes that saw different moments |
| `ManifestStore` | `manifests.py`, `storage.py`, one object | `object` is body and etag; `PutMode`, `Accepts`, `Store` are a conditional put |
| `Service` | concurrent jobs on one scope | `job[j]` holds a process's locals; one action per request: GET, HEAD, list, size and cut, put. `Crash` ends a job anywhere |
| `Register` | what a scope's manifest promises | one variable, one atomic action per operation |
| `Discovery` | `find_store_root`, `detect_format`, `excluded` and the descent of `scan` | operators on the set of nodes that have metadata |
| `Poller` | `discover/events.py`, between writers, delivery, clock and faults | `table` is the notification table, `position` and `pending` the SQLite file, `pc` to `reads` the process's locals, among them `polled`, the `now` of a poll; one action per request or SQL statement, and `StartPoll` for the time and the cursor taken before the SELECT |
| `Catalog` | all manifests of a bucket: runs of the poller and by hand (with a policy, forced), `scan --partition`, `load_all`, the rebound trie, `report` | `catalog[s]` is the object at the location of scope `s`; `scan`, `load` the locals of the two jobs, one action per request; `index` what the trie in use was built from; a partition run is one step; `listed`, `deleted`, `adopted`, `recut` and `noted` are history that properties speak of |
| `ProofBasics` | | lemmas about naturals, sequences, prefixes and finite sums that all proofs share |
| `PartitionProofs` | | lemmas about the operators of `Model` and `Partition`: what one cut makes |
| `ResolveProofs`, `DiscoveryProofs` | | lemmas about `Resolve` (what a trie answers) and `Discovery` (where a climb ends), and two theorems about tries of many manifests |
| `RepartitionProofs`, `ServiceProofs`, `PollerProofs`, `CatalogProofs` | | theorems about these four specifications, with proofs; `ServiceProofs` has the refinement of `Register` too |
| `MCRepartition`, `MCService`, `MCPoller`, `MCCatalog` | | the small instances TLC checks |

`Repartition` and `Service` share `Partition` and differ in what they vary.
`Repartition` has many different listings, policies and long histories but each
run is one step; `Service` has a tiny store but takes runs apart at every request.

`Poller` and `Catalog` stand on both: `Service` and `Register` show that a run takes
effect at one moment or not at all, provided its read is not torn (`torn_read` is the
other case), so `Catalog` makes it one step, listing included; and `Poller` keeps of it what the loop can tell: what it listed, and whether it returned, returned after
a lost race, or raised.

Abstractions worth knowing:

- Blobs, `hot_always` paths and pins of a manifest are sets: their order decides
  nothing in the code but the insertion into the trie, where `ManifestsValid`
  shows that no two blobs of a manifest compete for a prefix.
- `_ident` works on characters; `Words` gives the words it keeps of a segment,
  which is all that ids depend on.
- `partition` ends with `validate()`, which would raise. The model has no such
  branch; `ManifestsValid` shows that it is never taken.
- A listing of many pages is one step. The store's writer creates nodes in any
  order, so every mix of nodes a slow listing can see is also a listing of some
  other history. The two passes are two steps, as the code makes two listings.
- An etag is the number of the write: a new one for every write, as object stores
  give (content hashes would let two equal bodies share an etag, which harms
  nobody since the bodies are equal).
- A `Conflict` is reported for a refused put. If the object is gone, a match put
  may instead raise an error that `_is_precondition` does not recognise, so both
  outcomes are allowed.

## 3. What the runs check

Every property is stated beside its definition. In short:

**`repartition`** (`MCRepartition.cfg`), a store of five arrays any of which may be
present or absent at each run. `tas` is sharded and large, or rewritten with
`v2_flat` keys and cut along two dimensions; `z/pr` is tiny or above `t_max`; `a-b`
and `a_b` sanitise to one id; `time` is a coordinate. Pins are set on `tas` and on `tas/c`,
the prefix of its chunk keys.
- `ManifestsValid`: whatever has happened before, the manifest passes its own
  validation and no prefix is claimed twice.
- `KeysNeverMove`: without force, an archivable key that stays archivable keeps its
  blob instance. This is the property tape addresses rest on.
- `IdsKeepMeaning`: even with force, an id keeps standing for the same prefixes (though
  not for buckets of the same width, which a forced run may change), unless
  two blobs before or after the step are spelled by the same words. Paths that differ
  only in punctuation are (the code's own caveat), and so are a group of `a` and `b` and
  the array `a/b`, or `b_root` and a large array called `root`: the words of an id
  do not say where one path ends and the next begins.
- `GroupSizes`, `InstanceWithinClamp`: the sizes of new groups and, for arrays
  chunked along one dimension, of bucket instances.
- `PinnedBlobsOnlyFromPins`: a repartition never cuts below a pin, and releases no
  pinned blob. A pin on the very prefix of chunk keys is the exception: `tas/c` covers
  every key of `tas` but not the array's path, which is what `partition` asks about.
- `RunsAreIdempotent`: repeating a run changes nothing, so retries are harmless.

**`service`** (`MCService.cfg`), two processes, three operations started in all
(run, forced run, dry run, run with a coarser policy, pin, unpin), a store being
written, crashes anywhere, lost replies, one deletion of the manifest.
- `ReplacesWhatItRead`: a write that lands replaces the manifest its job computed
  from, or nothing if it found none, unless the job's read was torn: then the etag the
  job holds is not that of the body it read, and `torn_read` shows what follows.
- `NotAdditiveUnreachable`: the assertion at `service.py:121` holds: no unforced
  run would change or drop a blob, whatever it lists. In this instance only `tas` is
  ever cut, so that ids cannot collide; the theorem of section 4 covers the collisions.
  Between its two passes a run meets a store that has grown: what must survive that is
  that no blob is undone. That its sizes are those of one moment the code does not promise.

**`service_register`** (`MCServiceRegister.cfg`), the same processes under
`AtomicReadSpec`, in which nothing lands between the GET and the HEAD of one read:
they implement `Register`. Every write takes effect as one operation at the moment
the put lands, failed operations have no effect, and the manifest's blobs and pins
change only as one of the operations may. (`Register` does not know who asked; that
only a forced run starts a manifest over is `NotAdditiveUnreachable`.)

**`poller`** (`MCPoller.cfg`), a store with one array, whose metadata may be written
before the group's, a second store whose runs always fail and which is first in every
list, and chunk events. Rows become visible late and out of order, events are
delivered again and again, processes die between any two statements and start again
with their state file or without, runs raise or lose races.
- `NothingForgotten`: every write whose row the cursor has passed was listed by a run,
  or a scope it lies in is pending. Rows that become visible after a row with a higher
  id are excepted: the cursor may be past them, and the code loses them.
- `DueIsQuiet`: when the list of due scopes is made, no write read so far in a store on
  it is younger than `quiet_seconds`, but for writes that landed while the poll that read
  of them was under way. `poll_once` takes `now` before it reads the cursor and the rows
  (`events.py:158`) and every touch of the batch stores it, so such a write is younger
  than the time noted for it, by up to the length of the poll. The ghost `overlaps`
  remembers these writes until they are quiet; without the exception TLC finds the
  property violated in this instance.
- `EventuallyPartitioned`: a write whose row can be read is in the end listed by a run
  that returns, whatever crashes and failures come first, unless its store always fails.
  A run that returns after a lost race counts too (`outrun`): the code takes the scope
  for done then, though what the run listed may be in no manifest until the store is
  written again. The property does not say otherwise.

A node's metadata is written once in this model: an overwrite is another event for the
same node, of which the repeated delivery of the first stands for the effect on the
pending set, but not for a new age of the write.

**`catalog`** (`MCCatalog.cfg`), a bucket with one store of a large array and a
small one, again members first, and one in an excluded directory, whose large array
is of another key encoding. Partition runs by the poller, a scan or a reload go on while
nodes are written and one thing is done by hand: a run (`blobmap partition`), forced or
not, under a policy of its own, or a manifest is deleted, damaged or copied elsewhere.
- `StaleTrieAgrees`: the trie in use and the manifests in force never give one key two
  different blob instances, however old the trie is, whatever its reload met, and under
  whichever policies the runs in between were made. Three things begin a cut anew and are
  excepted: the deletion of the scope's manifest, a forced run that replaces it (the ghost
  `recut` remembers those), and nesting scopes. Without the exception of forced runs TLC
  finds the property violated in this instance.
- `ReloadIsFresh`: a trie rebound has every scope whose manifest was there when the reload
  began and was not deleted, and, for each, is at least as new as that manifest was,
  unless a forced run replaced it: epochs then begin again (`force_epoch`) and the trie may
  go back. A copied manifest never displaces the one of its scope.
- `ScanFindsStores`: a scan that ended has left no store of its beginning, within its
  depth and not excluded, without a manifest, though groups appeared above members it
  had not come to yet.
- `UnmanagedIsExplained`: the report's unmanaged bytes are those of arrays that no run
  under a manifest in its place has listed, or that runs had only to hold back: a run
  that adds no blob writes nothing, so it leaves a new coordinate to nobody. Excepted is
  where a run found another store's manifest and carried its blobs over, as
  `partition_store` does not ask which scope a manifest declares: its blobs may claim an
  array whose keys they cannot number, and such keys are unmanaged though a run has seen
  the array. The ghost `adopted` remembers these scopes; without the exception TLC finds
  the property violated in this instance. Forced runs and runs under another policy need
  no exception: an array that a run had to place keeps a place in every later manifest,
  if only as one held back by name.

Seven runs show a disagreement between code and documentation, each a shortest
counterexample TLC finds in seconds:

| Run | Property violated | What happens |
|---|---|---|
| `torn_read` | `NoSilentOverwrite` | a write lands between GET and HEAD (`manifests.py:97-100`); the later conditional put matches the new etag and drops that write. The manifest may also be deleted there: the HEAD then finds no etag, and the put overwrites whatever a run has written since |
| `force_pins` | `PinsOnlyRemovedByRemoving` | `--force` recomputes with `previous=None`, so pins vanish |
| `force_epoch` | `EpochTellsDefinitionsApart` | `--force` restarts the epoch: two different manifests of one scope carry epoch 2 |
| `clamp` | `EveryInstanceWithinClamp` | `bucket_width` divides by the size of one object, but a bucket holds whole slices of the first dimension |
| `poller_subarray` | `OnlyRootsHanded` | an array's event is read before its group is written: its root is itself, stays pending as such, and is handed to the partitioner although it is a sub-array by then |
| `catalog_nested` | `OwnManifestOverrides` | the array so partitioned has a manifest with `b_root` at its own path; the group's later manifest cuts inside the array and marks its chunks one level deeper, so the outer manifest wins and the keys move from `b_root_0` to `b_y_c_0` |
| `coordinate` | `CoordinatesNeverArchivable` | a run that adds no blob writes nothing, so a coordinate found later is never listed in `hot_always` and resolves to the scope's blob |

### Bounds

- `MaxEpoch = 3`: the definitions change at most twice after the first run, in any
  of the 72 listings and two policies at each step. A cut depends on the previous
  manifest only, and all claims and collisions involve two or three arrays, so
  three generations suffice for an array to be added, rewritten and met again.
  Forced runs reset the epoch and are not bounded by it.
- `MaxStarted = 3`, two jobs: enough for a write inside another job's read, and for
  a third operation on the result. `MaxDeletes = 1`: a deletion inside a read or
  before a write. `MaxObjects`: `tas` fits one blob with one object and is cut
  inside with two.
- Thresholds are small numbers (`t_max = 8` or `4`); every comparison in the cut
  has listings on both sides of it.

`MCRepartition` uses `VIEW View`: the ghost variable `last` is read by properties
only in the new state of a step and no action depends on it for `manifest`, so two
states that differ only there have the same future. `MCService` uses the symmetry
of its two identical jobs; no liveness property is checked with it.
Deadlock checking is off for `Service`, where all started operations finish, and for
`Catalog`, where bounded jobs and mishaps end. `Poller` never stops.

- `Poller`: `MaxRows = 2`, `Batch = 1`, so that a second batch is read, two rows can
  become visible in the wrong order, and a member's row and its group's, or a write and
  its repetition, meet. `Quiet = 1` tells young from quiet. `MaxFaults = 1`: one crash,
  failed run or lost race at any moment; the safety properties were also checked with
  `MaxFaults = 2` (633,618 states), where a process dies while it repeats what an earlier
  death had interrupted. Nothing in the loop depends on how many rows came before but the
  cursor. The proofs of the safety properties hold without any bound.
- `Catalog`: `MaxJobs = 1`, one scan or one reload while everything else goes on; a
  later job meets the same catalog a first one may meet, as both keep nothing but the
  trie. `MaxMishaps = 1`: one mishap at any moment of it, in particular a copy of a
  manifest to where a run then takes it up, or a run by hand during the reload that reads
  its manifest. Operators give their runs no policy, or `Coarse`, under
  which the store becomes one blob and its small array is held back. That a forced run sets
  an epoch back during a reload takes a scope at epoch 3, which is beyond these bounds
  (`force_epoch` reaches the like, and the theorem covers it). The thresholds make `y` fit
  in a group, and each store with its `x` not. The group above the members and `y` may
  come at any moment; the rest is there from the beginning, so that scans and reloads meet
  something at once. `MaxDepth = 2` is the depth of the store: one level less
  would miss it, one more would look into it. With a
  coordinate `t` added to the store the instance is too large for a routine run; all five
  properties were checked once with `t` there from the beginning (346,301 states) and with
  `t` written later (667,464), operators using `Coarse`, and `UnmanagedIsExplained` with
  three mishaps but without scans and reloads (315,267). The theorems of section 4 need none of these bounds.

### Fairness

`EventuallyPartitioned` is checked under `WF_vars(Step) /\ WF_vars(Tick)`: `run` is
a loop without a condition whose requests return or raise (`events.py:285`), and time
passes. No fairness is asked of writers, of the delivery of
events, or of faults: events may stay undelivered and faults may never come, but `MaxFaults`
says that those that do come end. Under crashes or failures without end no run need ever get
through, and the property does not hold of the code. One
weak fairness for the whole of `Step` suffices because its actions exclude each other
but for the outcomes of a handler, none of which is favoured. What is *not* shown: the
supply of events is bounded by `MaxRows`, and `drain` does not return while batches
come back full, so a stream that never lets up postpones every run.

## 4. What is proved

Five modules prove, with TLAPS, theorems about `Resolve`, `Repartition`, `Service`,
`Poller` and `Catalog` for **every** value of the constants: any listings, policies, pins, jobs,
nodes, events, sizes and bounds.

| Specification | Theorem | Property |
|---|---|---|
| `Repartition` | `TypeCorrect`, `ManifestsAreValid` | `TypeOK`, `ManifestsValid` |
| | `KeysStayPut` | `KeysNeverMove` |
| | `IdsStayWithTheirWords` | `IdsKeepMeaning` |
| | `RerunsAreEmpty` | `RunsAreIdempotent` |
| | `PinsHoldBack` | `PinnedBlobsOnlyFromPins` |
| | `InstancesStayWithinClamp`, `GroupsAreOfSize` | `InstanceWithinClamp`, `GroupSizes` |
| `Service` | `TypeCorrect` | `TypeOK` |
| | `NothingLost` | `ReplacesWhatItRead` |
| | `AdditiveUnlessForced` | `NotAdditiveUnreachable` |
| | `Implementation` | `ImplementsRegister` (with conditional updates) |
| `Poller` | `TypeCorrect` | `TypeOK` |
| | `NothingIsForgotten` | `NothingForgotten` |
| | `DueScopesAreQuiet` | `DueIsQuiet` |
| `Catalog` | `TypeCorrect` | `TypeOK` |
| | `ScansAreComplete` | `ScanFindsStores` |
| | `ReloadsAreFresh` | `ReloadIsFresh` |
| | `StaleTriesAgree` | `StaleTrieAgrees` |
| | `UnmanagedExplained` | `UnmanagedIsExplained` |
| `Resolve` | `PinsWin` | about any sequence of manifests, see below |
| | `DeepestDeclarationWins` | about any sequence of manifests, see below |

### Assumptions

Constants are only assumed to be what the code can meet, and TLC evaluates every
assumption on the instances it checks:

- `WordsAssumption`, `DefaultPolicyAssumption`, `APolicyAssumption`: what `_ident` keeps
  of a segment are strings; the default policy is a policy, and not the mark for "none
  given".
- `IsListing`, of every listing: each array once, no array at another's chunk keys, as
  many chunk sizes as dimensions, all positive. `ListingsAssumption`, `ArraysAssumption`
  ask it of constants; for `Service` it is *proved* of what the two passes return
  (`ListingIsListing`), from `LayoutAssumption`, which says of the store that nothing but
  chunks lies below an array, and `PathsAssumption`.
- `OperationsAssumption`, `ConditionalUpdateAssumption` (a Boolean), `PoliciesAssumption`,
  `PinPrefixesAssumption`, `ScopeAssumption`, `NodesAssumption`, `RootAssumption`,
  `BatchAssumption`, `BoundsAssumption`, `MaxEpochAssumption`,
  `MaxDepthAssumption`: the types of constants. `ArraysAssumption` of `Catalog` also asks
  that no node lies below an array and that arrays have different paths,
  `ChunkAssumption` that the segment `0` parses as the index 0, `BasenameAssumption` that
  `zarr.json` names a metadata object, `Catalog`'s `NodesAssumption`
  that a LIST has an order, `NoiseAssumption` that there are events of no interest.
- `Numerals(Nat)` stands in the theorems themselves: decimal numerals are strings, and
  differ when the numbers do. `ToString` is not something the provers know about; TLC
  checks the numerals up to 99 (`NumeralsAssumption`).

### The cut

`PartitionProofs` says what one cut makes. Its loops are recursive functions over the
listing; `IterationExists` (in `ProofBasics`) shows that such a function exists and
`ValuesIn`, `Reached` that what holds of the start and is kept by each round holds in
the end. What is kept is said of the accumulator:

- `Sane`: its blobs are well formed, named differently from each other and from
  everything in use, and made of the listing's chunk prefixes. Folding in the tail gives
  an id back and takes a new one (`GivenBackIsSane`, `WithTailIsSane`).
- `Grouping`: what is in blobs and what waits for one are, together and without overlap,
  the arrays met so far.
- `Sized`: no group is closed before it reaches `t_min` nor kept open after. Bytes are
  sums over sets of arrays (`Summed`, `SumAdds`), and `FairSizes` is what remains after
  the tail.
- `Named`: every blob has its preferred id (`Stem`), or a numbered one because the
  preferred one is in use by *another* blob.

`CutResult` and `NewBlobsResult` put these together: a run's new blobs are sound, claim
exactly the arrays to be cut (or are the one `b_root`), and
`NewPrefixesAreUnclaimed`: nothing at or below a prefix claimed before. `DiffOfRun`
follows: a run is additive, and its diff is empty if and only if it cut nothing.

### `Repartition`

The inductive invariant is `TypeOK` with `SoundBlobs(manifest.blobs)` and the type of
the ghost variable. `RunResult`, `ForceResult` and `PinResult` say what each action does
to a manifest that satisfies it.

- `KeysStayPut` rests on `KeyStays` (`ResolveProofs`): a trie answers by the deepest
  marker above the key, and if nothing new is claimed at or below an old prefix, the
  deepest marker above a claimed key is the old one.
- `RerunsAreEmpty`: after a run, every array not held back is claimed, so a second one
  has nothing to cut.
- `IdsStayWithTheirWords` adds `NamesOK` to the invariant. An id is numbered only
  because the plain one is another blob's; of all numbered blobs of a manifest take one
  with the shortest id, so that the blob it gave way to is not numbered itself and has
  the same words. Two blobs with plain ids have the same words when they have the same id.
- `InstancesStayWithinClamp` is arithmetic of `BucketWidth`: a power of two below the
  width is no larger.

### `Service`

`TypeOK /\ Coherent` is the inductive invariant; `Coherent` is stated in `ServiceProofs`.
Lemmas state what the pieces do to a manifest (`BumpedManifest`, `PartitionManifest`), then what each request does to the
locals of its job (`GetStep`, `HeadStep`, `ListStep`, `SizeStep`, `LastStep`).
`Coherent` is no claim about the code but what `NothingLost` needs of the ghost `at`, the
number of the write that the GET returned: a job that read the current write
(`at = object.etag`) has its body, and one that found nothing (`at = NoEtag`) holds no
manifest and no etag, so that it puts with `create`. The etag the code compares is another
variable, taken by the HEAD; the two differ in a torn read. From it,
`LandingReplacesWhatWasRead` splits on whether the job found a manifest.

`AdditiveUnlessForced` adds that every manifest stored, read or computed is sound, which
the lemmas on the cut keep up, given that what the two passes over a changing store
return is a listing.

`Implementation` adds `Prepared`: no write can land while a job is between its two
reads, so the etag a job holds is that of the body it computed from; and what is about
to be written `Follows` from that body by one operation. When the put is accepted the
body is still the stored one, hence `PutIsOneOperation`, the step of `Register`.

### `Poller`

`NothingForgotten` speaks of rows the cursor has passed, and a row is passed only after
its batch was consumed, so it is not inductive. `IInv` adds what holds inside a batch:
`Batches`, the cursor stands at a row that can be read, and the batch skips no row
visible in order; `PassedRemembered`, a write is remembered as soon as its row was
consumed, though the cursor is not saved yet; `Sources`, what is announced was written,
so that the climb from it finds a root; and `AtWork`, the run at work has listed
everything announced to the cursor below its scope, all of which is accounted for once it
has returned. The last is what lets `Clear` take a scope out of the pending set.

`DueScopesAreQuiet` needs `Debounced`: of each pending scope, what was read and lies in
it is no younger than the time noted for it, as long as the scope is its own root, or it
is among the `overlaps`. And it needs `ReadEarlier`: while a poll is under way, whatever was
read so far and is of no overlap was written before its time was taken, so that a touch,
which notes that time, keeps `Debounced` of all rows read before it.
`OwnRoot` (`DiscoveryProofs`) supplies what is needed of the climb: a scope that is its
own root is the root of everything below it, and was its own root before more was written.

### `Catalog`

- `ScansAreComplete`: `Scanning` says that each store of the beginning which the scan is
  to find is `Done`, it has a manifest around it or had one, or is still `Ahead`: at or
  below a path of the frontier, of the one being listed, or of the one being partitioned.
- `ReloadsAreFresh`: `Reading` says that a scope present at the beginning is either still
  among the names to read or was got with an epoch that is no lower, or its manifest was
  replaced by a forced run: epochs of a scope fall in no other way while it is not deleted
  (`RunResult`). In the order of the LIST a copy never displaces the original
  (`Place`, `InListOrder`).
- `StaleTriesAgree`: `Following` says that the manifest in the bucket `Extends` what the
  index and the reload hold of its scope, unless a forced run replaced it: more blobs, none
  at or below an old prefix, under whatever policy. Where one scope only has a say about a path
  (`OneScopeDecides`), two tries then answer alike by `KeyStays`.
- `UnmanagedExplained` needs `Seeing`, of the manifest at every location, whatever it was
  made for. It has a place (`Seen`) for each array that the runs at its location listed: a
  blob claims it, or it is held back by name. Runs keep this up by `CutResult`, those that
  start from nothing or go by another policy too, as each lists again what earlier ones
  listed (`Listable`); and a copy only goes where there is no manifest, so that no run has
  to be answered for. And its
  buckets number what they claim (`Numbered`), unless the scope it declares took up
  another store's manifest; of a copy this is as true as of the original. From that,
  `PlacedIsMarked` finds a marker above every chunk key of a placed array, and
  `MarkedIsManaged` that the deepest one answers for the key: it is hot, or a single
  blob, or a bucket of this very array, as nothing but chunks lies below an array. So
  the arrays of the unmanaged objects are among those excepted (`UnmanagedObjects`), and
  `SumOfImage` and `SumOfPart` (`ProofBasics`) compare the bytes.

### `Resolve`

What a consumer relies on is proved of a trie of any manifests, in any order, with no
more assumed than that their scopes and paths are sequences of segments. `MarksOfAll`
follows `AddAll`: the trie marks what its manifests mark, pins what they pin, and a
marker is hot or that of a blob whose prefix its path is.

- `PinsWin`: a key at or below a pin is never archivable, and is pinned unless it is
  metadata; a blob deeper than the pin, of another manifest too, changes nothing.
- `DeepestDeclarationWins`: an archivable key resolves by the blob at the deepest path
  that any manifest marks above it. So a key that no blob claims is not archivable.

### Only model-checked

- `EventuallyPartitioned`: liveness under fairness is beyond the proof system.
- The seven runs that violate a property show behaviours of the code and need no proof.

## 5. Not modelled, and the road ahead

Left out for good: JSON encoding and schema documents, backends and configuration,
argument parsing and presentation, logging, the call graph tool. The item size table
and the parsing of metadata are abstracted to the values they yield. `pins.show` and
`Pin.expired` only read. Of the report, the number of blobs (a set of ids, which are
unique within a scope only), the pins and `--per-bucket` are left out.

Left out by the bounds: a store at the root of a bucket, which `find_store_root` never
considers; stores inside stores beyond what members written first produce; coordinates
in nested scopes.

Left out by the models, beside what section 3 says of each property:

- `Catalog`: `--dry-run` (it changes nothing; `Service` has it), `--exclude` as an option
  (`ExcludedNames` is one constant for all runs), pins (`Repartition`, `Service`). Runs by
  hand are on prefixes that hold metadata or lie above it, among `Nodes`. An array keeps its
  size and its encoding from run to run, and one data object stands for all of an array, so
  that the third reason that `report.py:12` gives for unmanaged bytes, a layout the
  partitioner did not recognise, cannot occur; `Repartition` has the re-encoded arrays.
  `report` itself stops at a manifest it cannot read, where the model counts on without it.
- `Poller`: overwrites of one node's metadata, and a stream of events that does not end.
- `Hierarchy`: what pass two finds of arrays that pass one had not seen is dropped there, as
  in the code, and no property asks for it.

What remains: `Poller` composed with `Service` in one state space, so that the race
that `ReturnConflict` stands for is the one the two processes run.
