------------------------------ MODULE Catalog ------------------------------
(***************************************************************************)
(* The manifests of a whole bucket: stores appear and grow, partition runs *)
(* are started on them one by one (for events) and by `blobmap scan        *)
(* --partition`, which walks the bucket while all this goes on, and a      *)
(* resolving service reloads every manifest into its trie now and then.    *)
(* Operators delete, damage and misplace manifests, and start runs by hand *)
(* with a policy of their own or from scratch.                             *)
(*                                                                         *)
(* A partition run is one step, as Service and Register justify.  The scan *)
(* and the reload are taken apart at every request.                        *)
(***************************************************************************)
EXTENDS Partition, Resolve, Discovery

CONSTANTS
    Nodes,       \* groups and arrays, by absolute path
    Arrays,      \* the arrays among them, in the order of their paths, path absolute
    Early,       \* the nodes written before the model begins
    Root,        \* the prefix the scan starts at
    Rank,        \* Rank[n]: the place of n's manifest in the order of a LIST
    Policies,    \* what operators may give a run, NoPolicy if they give none
    MaxJobs,     \* bound: scans and reloads started
    MaxMishaps   \* bound: what operators do

ASSUME NodesAssumption ==
    /\ IsFiniteSet(Nodes) /\ Nodes \subseteq Seq(DOMAIN Words) /\ Early \subseteq Nodes
    /\ Rank \in [Nodes -> Nat]
    /\ \A n, m \in Nodes : Rank[n] = Rank[m] => n = m
\* An array has no nodes below it: its chunk keys are there.
ASSUME ArraysAssumption ==
    /\ IsListing(Arrays)
    /\ \A a \in Range(Arrays) : a.path \in Nodes /\ ~\E n \in Nodes : IsStrictPrefix(a.path, n)
    /\ \A a, d \in Range(Arrays) : a.path = d.path => a = d
ASSUME ChunkAssumption == "0" \in STRING /\ Indices["0"] = <<0>>
ASSUME BasenameAssumption == "zarr.json" \in MetadataBasenames
ASSUME RootAssumption == Root \in Seq(STRING)
ASSUME PoliciesAssumption == Policies \subseteq PolicyFields

VARIABLES
    written,   \* nodes with metadata
    catalog,   \* the manifest objects: catalog[s] is at the location of scope s
    scan,      \* the scan: [pc, known, frontier, at]
    load,      \* the reload: [pc, names, got]
    index,     \* the manifests in the service's trie, in the order they were added
    bounds,    \* [jobs, mishaps] so far
    listed,    \* ghost: listed[s], the arrays that runs on s saw and were not to hold back
    deleted,   \* ghost: scopes whose manifest was deleted
    adopted,   \* ghost: scopes where a run carried another store's manifest over
    recut,     \* ghost: scopes whose manifest a forced run replaced
    noted      \* ghost: [found, epochs], what the scan and the reload began with

storeVars == <<written, catalog, listed, deleted, adopted, recut>>
vars == <<storeVars, scan, load, index, bounds, noted>>

Absent == [scope |-> NoScope, body |-> Nothing]
\* Bytes that are not a manifest this version can read.
Unreadable == [scope |-> NoScope, body |-> [Nothing EXCEPT !.epoch = -1]]

Present(s) == catalog[s] # Absent

Count(what) == bounds' = [bounds EXCEPT ![what] = @ + 1]

NothingNoted == [found |-> {}, epochs |-> [s \in Nodes |-> 0]]
IdleScan == [pc |-> "idle", known |-> {}, frontier |-> {}, at |-> NoScope]
IdleLoad == [pc |-> "idle", names |-> {}, got |-> {}]

Init ==
    /\ written = Early
    /\ catalog = [s \in Nodes |-> Absent]
    /\ scan = IdleScan /\ load = IdleLoad /\ index = <<>>
    /\ bounds = [jobs |-> 0, mishaps |-> 0]
    /\ listed = [s \in Nodes |-> {}] /\ deleted = {} /\ adopted = {} /\ recut = {}
    /\ noted = NothingNoted

----------------------------------------------------------------------------
(* Stores and partition runs *)

Write(n) ==
    /\ n \notin written
    /\ written' = written \cup {n}
    /\ UNCHANGED <<catalog, listed, deleted, adopted, recut, scan, load, index, bounds, noted>>

\* read_arrays: paths become relative, and an array that is its own scope has no
\* name by which it could be a dimension coordinate.
Below(scope, path) == SubSeq(path, Len(scope) + 1, Len(path))

Relative(a, scope) ==
    [a EXCEPT !.path = Below(scope, @), !.coordinate = @ /\ a.path # scope]

ListedUnder(scope) ==
    LET here == Kept(Arrays, {a \in Range(Arrays) : /\ a.path \in written
                                                    /\ IsPrefix(scope, a.path)
                                                    /\ ~Excluded(Below(scope, a.path))})
    IN [i \in DOMAIN here |-> Relative(here[i], scope)]

\* The manifest there cannot be read, or blobs would move although nobody forced it.
Raises(scope, force, computed) ==
    \/ catalog[scope] = Unreadable
    \/ ~force /\ ~IsAdditive(Diff(catalog[scope].body, computed))

\* What the ghosts note of a run.
Lists(scope, arrays, policy, force) ==
    LET placed == {a \in Range(arrays) : ~HeldHot(a, policy)}
        rewritten == {s \in {scope} : Present(s) /\ catalog' # catalog}
        another == {s \in rewritten : catalog[s].scope # s}
    IN /\ listed' = [listed EXCEPT ![scope] = @ \cup {scope \o a.path : a \in placed}]
       /\ recut' = IF force THEN recut \cup rewritten ELSE recut
       /\ adopted' = IF force THEN adopted ELSE adopted \cup another

\* Mutant: a run leaves known scopes alone.
RunOnce(scope, given, force) ==
    LET arrays == ListedUnder(scope)
        computed == PartitionScope(arrays, given, Nothing)
    IN /\ catalog[scope] # Unreadable
       /\ catalog' = IF Present(scope) THEN catalog
                     ELSE [catalog EXCEPT ![scope] = [scope |-> scope, body |-> computed]]
       /\ Lists(scope, arrays, computed.policy, force)

\* partition_store, when it does not raise.  What it reads at the scope's location is
\* carried over whatever scope it declares, and not at all if forced; but also a forced
\* run that moves no blob leaves it as it is, and one that does counts from 1 again.
Run(scope, given, force) ==
    LET arrays == ListedUnder(scope)
        previous == catalog[scope].body
        computed == PartitionScope(arrays, given, IF force THEN Nothing ELSE previous)
        next == IF Exists(previous) THEN Bumped(computed) ELSE computed
    IN /\ ~Raises(scope, force, computed)
       /\ catalog' = IF Exists(previous) /\ IsEmpty(Diff(previous, computed)) THEN catalog
                     ELSE [catalog EXCEPT ![scope] = [scope |-> scope, body |-> next]]
       /\ Lists(scope, arrays, computed.policy, force)

\* The scopes the poller hands over: roots, as seen from a node that was written.
Partition ==
    /\ \E scope \in {FindStoreRoot(written, n) : n \in written} : Run(scope, NoPolicy, FALSE)
    /\ UNCHANGED <<written, deleted, scan, load, index, bounds, noted>>

----------------------------------------------------------------------------
(* blobmap scan --partition *)

Depth(path) == Len(path) - Len(Root)

\* The known scopes are listed once.
StartScan ==
    /\ scan.pc = "idle" /\ bounds.jobs < MaxJobs
    /\ scan' = [IdleScan EXCEPT !.pc = "walk", !.known = {s \in Nodes : Present(s)},
                                !.frontier = {Root}]
    /\ Count("jobs")
    /\ noted' = [noted EXCEPT !.found = written]
    /\ UNCHANGED <<storeVars, load, index>>

\* A store is a candidate, which is partitioned if it is not known, and not walked
\* into; any other prefix is walked into if the depth allows.
Visit(path) ==
    LET rest == [scan EXCEPT !.frontier = @ \ {path}]
        descend == Descends(written, path, Depth(path))
        candidate == ~Excluded(path) /\ path \in written \ scan.known
    IN /\ scan.pc = "walk" /\ path \in scan.frontier
       /\ \/ descend /\ scan' = [rest EXCEPT !.pc = "list", !.at = path]
          \/ candidate /\ scan' = [rest EXCEPT !.pc = "partition", !.at = path]
          \/ ~descend /\ ~candidate /\ scan' = rest
    /\ UNCHANGED <<storeVars, load, index, bounds, noted>>

\* Mutant: only children that hold metadata themselves are walked into.
ListChildrenShallow ==
    /\ scan.pc = "list"
    /\ scan' = [scan EXCEPT !.pc = "walk", !.at = NoScope,
                             !.frontier = @ \cup (Children(written, scan.at) \cap written)]
    /\ UNCHANGED <<storeVars, load, index, bounds, noted>>

ListChildren ==
    /\ scan.pc = "list"
    /\ scan' = [scan EXCEPT !.pc = "walk", !.at = NoScope,
                             !.frontier = @ \cup Children(written, scan.at)]
    /\ UNCHANGED <<storeVars, load, index, bounds, noted>>

PartitionFound ==
    /\ scan.pc = "partition"
    /\ Run(scan.at, NoPolicy, FALSE)
    /\ scan' = [scan EXCEPT !.pc = "walk", !.at = NoScope]
    /\ UNCHANGED <<written, deleted, load, index, bounds, noted>>

\* An error ends the command.
AbortScan ==
    /\ scan.pc = "partition" /\ Raises(scan.at, FALSE,
              PartitionScope(ListedUnder(scan.at), NoPolicy, catalog[scan.at].body))
    /\ scan' = IdleScan
    /\ noted' = [noted EXCEPT !.found = {}]
    /\ UNCHANGED <<storeVars, load, index, bounds>>

FinishScan ==
    /\ scan.pc = "walk" /\ scan.frontier = {}
    /\ scan' = IdleScan
    /\ noted' = [noted EXCEPT !.found = {}]
    /\ UNCHANGED <<storeVars, load, index, bounds>>

----------------------------------------------------------------------------
(* load_all and the service that rebinds its trie *)

StartReload ==
    /\ load.pc = "idle" /\ bounds.jobs < MaxJobs
    /\ load' = [pc |-> "read", names |-> {s \in Nodes : Present(s)}, got |-> {}]
    /\ Count("jobs")
    /\ noted' = [noted EXCEPT !.epochs = [s \in Nodes |->
                    IF catalog[s].scope = s THEN catalog[s].body.epoch ELSE 0]]
    /\ UNCHANGED <<storeVars, scan, index>>

\* Mutant: every manifest read is taken for what it says it is.
AcceptedAny(at, object) == object # Absent

\* A manifest that is gone, or declares another scope than its location's, is skipped.
Accepted(at, object) == object # Absent /\ object.scope = at

\* The reads run in parallel, so they complete in any order.
ReadManifest(s) ==
    /\ load.pc = "read" /\ s \in load.names
    /\ catalog[s] # Unreadable
    /\ load' = [load EXCEPT !.names = @ \ {s},
                            !.got = IF Accepted(s, catalog[s])
                                    THEN @ \cup {[at |-> s, scope |-> catalog[s].scope,
                                                  manifest |-> catalog[s].body]}
                                    ELSE @]
    /\ UNCHANGED <<storeVars, scan, index, bounds, noted>>

\* One that cannot be read makes load_all raise: the service keeps the trie it has.
FailReload(s) ==
    /\ load.pc = "read" /\ s \in load.names
    /\ catalog[s] = Unreadable
    /\ load' = IdleLoad
    /\ noted' = [noted EXCEPT !.epochs = NothingNoted.epochs]
    /\ UNCHANGED <<storeVars, scan, index, bounds>>

\* The results come in the order of the LIST: each at the place that counts those
\* listed up to it.
InListOrder(got) ==
    LET Place(l) == Cardinality({k \in got : Rank[k.at] <= Rank[l.at]})
    IN [i \in 1..Cardinality(got) |-> CHOOSE l \in got : Place(l) = i]

Rebind ==
    /\ load.pc = "read" /\ load.names = {}
    /\ index' = InListOrder(load.got)
    /\ load' = IdleLoad
    /\ noted' = [noted EXCEPT !.epochs = NothingNoted.epochs]
    /\ UNCHANGED <<storeVars, scan, bounds>>

----------------------------------------------------------------------------
(* Operators *)

Mishap == bounds.mishaps < MaxMishaps /\ Count("mishaps")

\* `blobmap partition`, or partition_store called directly, on any prefix with zarr
\* metadata at or below it.
PartitionByHand(scope, given, force) ==
    /\ Mishap
    /\ \E n \in written : IsPrefix(scope, n) /\ ~Excluded(Below(scope, n))
    /\ Run(scope, given, force)
    /\ UNCHANGED <<written, deleted, scan, load, index, noted>>

Delete(s) ==
    /\ Mishap /\ Present(s)
    /\ catalog' = [catalog EXCEPT ![s] = Absent]
    /\ deleted' = deleted \cup {s}
    /\ listed' = [listed EXCEPT ![s] = {}]
    /\ UNCHANGED <<written, adopted, recut, scan, load, index, noted>>

Damage(s) ==
    /\ Mishap /\ Present(s) /\ catalog[s] # Unreadable
    /\ catalog' = [catalog EXCEPT ![s] = Unreadable]
    /\ UNCHANGED <<written, listed, deleted, adopted, recut, scan, load, index, noted>>

\* A manifest is copied to where another store's would be.
Misplace(s, to) ==
    /\ Mishap /\ Present(s) /\ catalog[s] # Unreadable /\ ~Present(to)
    /\ catalog' = [catalog EXCEPT ![to] = catalog[s]]
    /\ UNCHANGED <<written, listed, deleted, adopted, recut, scan, load, index, noted>>

Next ==
    \/ \E n \in Nodes : Write(n) \/ ReadManifest(n) \/ FailReload(n) \/ Delete(n) \/ Damage(n)
    \/ \E s, to \in Nodes : Misplace(s, to)
    \/ \E s \in Nodes, given \in Policies, force \in BOOLEAN : PartitionByHand(s, given, force)
    \/ Partition \/ StartScan \/ (\E path \in scan.frontier : Visit(path)) \/ ListChildren
    \/ PartitionFound \/ AbortScan \/ FinishScan
    \/ StartReload \/ Rebind

Spec == Init /\ [][Next]_vars

----------------------------------------------------------------------------
(* report *)

\* What load_all makes of the manifests as they are; with one it cannot read it raises,
\* which here leaves that one out.
Loaded ==
    InListOrder({[at |-> s, scope |-> s, manifest |-> catalog[s].body] :
                    s \in {n \in Nodes : catalog[n] # Unreadable /\ Accepted(n, catalog[n])}})

DataKey(a) == Append(ChunkPrefix(a), "0")

\* One data object for each array and the metadata of every node.
Objects ==
    {[key |-> DataKey(a), size |-> TotalBytes(a)] : a \in {b \in Range(Arrays) : b.path \in written}}
    \cup {[key |-> Append(n, "zarr.json"), size |-> 1] : n \in written}

Report(loaded) ==
    LET trie == AddAll(loaded)
        resolved == [o \in Objects |-> Lookup(trie, o.key).kind]
    IN [kind \in {"blob", "hot", "pinned", "unmanaged"} |->
            MapThenSumSet(LAMBDA o : o.size, {o \in Objects : resolved[o] = kind})]

----------------------------------------------------------------------------
(* Properties *)

Manifests == {o.body : o \in {catalog[s] : s \in Nodes} \ {Unreadable}} \cup {l.manifest : l \in Range(index)}

\* Every variable has its type; the scan stays below its root and within its depth.
TypeOK ==
    /\ written \subseteq Nodes /\ deleted \subseteq Nodes /\ recut \subseteq Nodes
    /\ scan.pc \in {"idle", "walk", "list", "partition"} /\ scan.known \subseteq Nodes
    /\ \A p \in scan.frontier : IsPrefix(Root, p) /\ Depth(p) \in 0..MaxDepth
    /\ scan.pc = "partition" => scan.at \in written
    /\ load.pc \in {"idle", "read"} /\ load.names \subseteq Nodes
    /\ \A m \in Manifests : Valid(m)
    /\ \A s \in Nodes : listed[s] \subseteq Nodes

\* The scopes that have or had a say about a path.
Around(path) ==
    {s \in Nodes : IsPrefix(s, path) /\ (Present(s) \/ \E l \in Range(index) : l.scope = s)}

\* However old the service's trie is, and whatever the reload that built it ran into,
\* it never gives a key another blob instance than the manifests in force do: both may
\* only differ in whether the key is archivable at all.  This also holds across runs that
\* were given another policy.  (Not so when scopes nest, and once a manifest was deleted
\* or a forced run replaced it the cut starts anew.)
StaleTrieAgrees ==
    LET old == AddAll(index)
        current == AddAll(Loaded)
    IN \A a \in Range(Arrays) :
          (Cardinality(Around(a.path)) = 1 /\ Around(a.path) \cap (deleted \cup recut) = {}) =>
              LET before == Lookup(old, DataKey(a))
                  now == Lookup(current, DataKey(a))
              IN Archivable(before) /\ Archivable(now) => before = now

\* A reload leaves out no scope that had a manifest when it began, unless that was
\* deleted, and leaves the trie at least as new for it as it was then, whatever was
\* written, copied or damaged while its reads ran.  (A forced run that replaces a
\* manifest counts its epochs from 1 again, so the trie may then go back.)
ReloadIsFresh ==
    [][index' # index =>
        \A s \in Nodes \ deleted :
            noted.epochs[s] > 0 =>
                /\ s \in DOMAIN AddAll(index').epochs
                /\ s \in recut \/ AddAll(index').epochs[s] >= noted.epochs[s]]_vars

\* A scan that ran to its end has partitioned every store it was to find, also the ones
\* whose group appeared while it was among the members: of each node that was there when
\* it began, find_store_root's answer or a prefix of it has a manifest, or had one that
\* was deleted.
ScanFindsStores ==
    [][FinishScan =>
        \A n \in noted.found :
            LET root == FindStoreRoot(noted.found, n)
            IN (IsPrefix(Root, root) /\ ~Excluded(root) /\ Depth(root) <= MaxDepth) =>
                  \E s \in Nodes : IsPrefix(s, root) /\ (Present(s) \/ s \in deleted)]_vars

\* A run on scope s saw the array, was not to hold it back under the policy it used, and
\* the manifest of s is in place.  A run that adds no blob does not write, so one that has
\* only a new array to hold back leaves it to nobody.  Nor is a marker at the bucket's
\* root ever met.
Placed(a, s) == s # NoScope /\ a.path \in listed[s] /\ catalog[s].scope = s

\* The array lies where a run took up a manifest made for another store: its blobs may
\* claim chunk keys that they cannot number.
Disturbed(a) == \E s \in adopted : IsPrefix(s, a.path) /\ catalog[s].scope = s

\* report.py:10-13: what is unmanaged was not seen by any run: no manifest is there for it,
\* or its array was added since.  (Or its manifest is misplaced, which a run that finds
\* nothing new does not repair, or it is an array the runs had only to hold back.)  An
\* array once placed is found again whatever runs follow, also those that are given
\* another policy or forced: what they do not claim they hold back by name.
UnmanagedIsExplained ==
    Report(Loaded)["unmanaged"] <=
        MapThenSumSet(TotalBytes,
            {a \in Range(Arrays) : /\ a.path \in written
                                   /\ Disturbed(a) \/ ~\E s \in Nodes : Placed(a, s)})

\* resolve.py:86-88: a store with a manifest of its own overrides the manifests of the
\* scopes around it for its subtree.
OwnManifestOverrides ==
    LET trie == AddAll(Loaded)
    IN \A l \in Range(Loaded), a \in Range(Arrays) :
          LET own == ResolveKey(l.scope, l.manifest, Below(l.scope, DataKey(a)))
              deepest == \A k \in Range(Loaded) :
                            IsPrefix(k.scope, a.path) => Len(k.scope) <= Len(l.scope)
          IN (IsPrefix(l.scope, a.path) /\ deepest /\ own.kind # "unmanaged") =>
                Lookup(trie, DataKey(a)) = own
=============================================================================
