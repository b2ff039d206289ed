------------------------------ MODULE Service ------------------------------
(***************************************************************************)
(* Concurrent jobs on one scope: partition runs (src/blobmap/service.py)   *)
(* and pins set and removed by hand (src/blobmap/pins.py), each a separate *)
(* process with no lock between them, over one manifest object             *)
(* (ManifestStore) and one store that is being written (Hierarchy).        *)
(*                                                                         *)
(* A job is a sequence of requests; everything between two of them is one  *)
(* step with the first.                                                    *)
(*    GetManifest  GET of the manifest body                                *)
(*    HeadManifest HEAD of the manifest for its etag, then parsing         *)
(*    ListMetadata first pass over the data, with the metadata it loads    *)
(*    SizeObjects  second pass over the data, then the whole cut           *)
(*    Put...       the conditional PUT of the new manifest                 *)
(***************************************************************************)
EXTENDS Partition, ManifestStore, Hierarchy

CONSTANTS
    Jobs,         \* the processes
    Operations,   \* what a job may be asked to do: [kind, prefix, policy, force, dry_run]
    MaxStarted,   \* bound: operations started
    MaxDeletes    \* bound: manifests deleted

ASSUME OperationsAssumption ==
    \A op \in Operations : /\ op.kind \in {"partition", "pin", "unpin"}
                           /\ op.prefix \in Seq(STRING)
                           /\ op.policy \in PolicyFields

ASSUME PathsAssumption == \A n \in Nodes : Path[n] \in Seq(DOMAIN Words)

VARIABLES
    job,      \* job[j]: the locals of what j is doing, see JobFields
    started,  \* operations started so far
    deletes   \* manifests deleted so far

vars == <<object, writes, version, count, job, started, deletes>>

JobFields == {"pc", "outcome", "op", "base", "etag", "at", "metadata", "next"}
    \* base, etag   what ManifestStore.read returned, Nothing for None
    \* at           ghost: the number of the write whose body the GET returned
    \* metadata     the version of each node's metadata that pass one saw
    \* next         the manifest about to be written

NoOp == [kind |-> "none", prefix |-> <<>>, policy |-> NoPolicy, force |-> FALSE, dry_run |-> FALSE]
Unlisted == [n \in Nodes |-> 0]

Idle(outcome) ==
    [pc |-> "idle", outcome |-> outcome, op |-> NoOp, base |-> Nothing, etag |-> NoEtag,
     at |-> 0, metadata |-> Unlisted, next |-> Nothing]

Finish(j, outcome) == job' = [job EXCEPT ![j] = Idle(outcome)]

Init == /\ StoreInit
        /\ DataInit
        /\ job = [j \in Jobs |-> Idle("none")]
        /\ started = 0
        /\ deletes = 0

----------------------------------------------------------------------------
(* Reading the manifest *)

\* A partition run goes on without a manifest; pins refuse a scope with none.
GetManifest(j, op) ==
    /\ job[j].pc = "idle"
    /\ started < MaxStarted
    /\ started' = started + 1
    /\ IF object = Absent /\ op.kind # "partition"
       THEN Finish(j, "not partitioned")
       ELSE job' = [job EXCEPT ![j] =
                [Idle("none") EXCEPT !.pc = IF object = Absent THEN "list" ELSE "head",
                                     !.op = op,
                                     !.base = object.body,
                                     !.at = object.etag]]
    /\ UNCHANGED <<storeVars, dataVars, deletes>>

\* Mutant: a pin is stored as the pattern of what it covers.
RepinnedAsPattern(op, pinned) ==
    IF op.kind = "pin" THEN pinned \cup {Append(op.prefix, "**")} ELSE pinned \ {op.prefix}

Repinned(op, pinned) ==
    IF op.kind = "pin" THEN pinned \cup {op.prefix} ELSE pinned \ {op.prefix}

\* The etag is that of the object by now, None if it is gone.
HeadManifest(j) ==
    LET op == job[j].op
        pinned == job[j].base.pinned
        refused == \/ op.kind = "pin" /\ op.prefix \in pinned
                   \/ op.kind = "unpin" /\ op.prefix \notin pinned
    IN /\ job[j].pc = "head"
       /\ IF refused THEN Finish(j, "refused")
          ELSE job' = [job EXCEPT
                ![j].etag = object.etag,
                ![j].pc = IF op.kind = "partition" THEN "list" ELSE "put",
                ![j].next = IF op.kind = "partition" THEN Nothing
                            ELSE Bumped([job[j].base EXCEPT !.pinned = Repinned(op, pinned)])]
       /\ UNCHANGED <<storeVars, dataVars, started, deletes>>

----------------------------------------------------------------------------
(* Reading the data and cutting it *)

ListMetadata(j) ==
    /\ job[j].pc = "list"
    /\ IF version = Unlisted
       THEN Finish(j, "not a zarr store")
       ELSE job' = [job EXCEPT ![j].pc = "size", ![j].metadata = version]
    /\ UNCHANGED <<storeVars, dataVars, started, deletes>>

\* What partition_store computes from a listing.
Computed(j, arrays) ==
    PartitionScope(arrays, job[j].op.policy, IF job[j].op.force THEN Nothing ELSE job[j].base)

SizeObjects(j) ==
    LET base == job[j].base
        computed == Computed(j, Listing(job[j].metadata, count))
        changes == Diff(base, computed)
    IN /\ job[j].pc = "size"
       /\ IF Exists(base) /\ IsEmpty(changes) THEN Finish(j, "unchanged")
          ELSE IF ~IsAdditive(changes) /\ ~job[j].op.force THEN Finish(j, "not additive")
          ELSE IF job[j].op.dry_run THEN Finish(j, "dry run")
          ELSE job' = [job EXCEPT
                ![j].pc = "put",
                ![j].next = IF Exists(base) THEN Bumped(computed) ELSE computed]
       /\ UNCHANGED <<storeVars, dataVars, started, deletes>>

----------------------------------------------------------------------------
(* Writing the manifest *)

Mode(j) == PutMode(job[j].etag, ~Exists(job[j].base))

\* The write lands.  The reply may be lost, and then the caller sees an error.
PutAccepted(j) ==
    /\ job[j].pc = "put"
    /\ Accepts(Mode(j), job[j].etag)
    /\ Store(job[j].next)
    /\ \E outcome \in {"written", "raised"} : Finish(j, outcome)
    /\ UNCHANGED <<dataVars, started, deletes>>

\* A partition run swallows the Conflict and reports that it wrote nothing; for a
\* pin it propagates.  A match on a missing object may surface as another error.
PutRefused(j) ==
    /\ job[j].pc = "put"
    /\ ~Accepts(Mode(j), job[j].etag)
    /\ \/ job[j].op.kind = "partition" /\ Finish(j, "conflict")
       \/ (job[j].op.kind # "partition" \/ object = Absent) /\ Finish(j, "raised")
    /\ UNCHANGED <<storeVars, dataVars, started, deletes>>

\* The process dies, or a request fails; it kept everything in memory.
Crash(j) ==
    /\ job[j].pc # "idle"
    /\ Finish(j, "crashed")
    /\ UNCHANGED <<storeVars, dataVars, started, deletes>>

----------------------------------------------------------------------------
(* The surroundings *)

WriteData ==
    /\ \E n \in Nodes : WriteMetadata(n) \/ WriteObject(n)
    /\ UNCHANGED <<storeVars, job, started, deletes>>

DeleteManifest ==
    /\ deletes < MaxDeletes
    /\ Delete
    /\ deletes' = deletes + 1
    /\ UNCHANGED <<dataVars, job, started>>

JobStep(j) ==
    \/ \E op \in Operations : GetManifest(j, op)
    \/ HeadManifest(j) \/ ListMetadata(j) \/ SizeObjects(j)
    \/ PutAccepted(j) \/ PutRefused(j) \/ Crash(j)

Next == (\E j \in Jobs : JobStep(j)) \/ WriteData \/ DeleteManifest

Spec == Init /\ [][Next]_vars

----------------------------------------------------------------------------
(* Properties *)

IsManifest(m) ==
    /\ DOMAIN m = DOMAIN Nothing
    /\ m.epoch \in Nat
    /\ m.pinned \subseteq {op.prefix : op \in Operations}

Outcomes == {"none", "not partitioned", "refused", "not a zarr store", "unchanged",
             "not additive", "dry run", "written", "conflict", "raised", "crashed"}

JobOK(x) ==
    /\ DOMAIN x = JobFields
    /\ x.pc \in {"idle", "head", "list", "size", "put"}
    /\ x.outcome \in Outcomes
    /\ x.op \in Operations \/ x.pc = "idle"
    /\ IsManifest(x.base) /\ IsManifest(x.next)
    /\ x.pc = "put" => Exists(x.next)
    /\ x.etag \in Nat /\ x.at \in Nat
    /\ x.metadata \in [Nodes -> Nat]

\* Every variable has its type, and a stored manifest has a positive epoch, as
\* schema.py requires of one that is to be read again.
TypeOK ==
    /\ DOMAIN object = {"body", "etag"} /\ IsManifest(object.body) /\ object.etag \in Nat
    /\ object # Absent => Exists(object.body)
    /\ writes \in Nat /\ started \in Nat /\ deletes \in Nat
    /\ version \in [Nodes -> Nat] /\ count \in [Nodes -> Nat]
    /\ DOMAIN job = Jobs
    /\ \A j \in Jobs : JobOK(job[j])

\* This step stores the manifest of job j.
Landed(j) == job[j].pc = "put" /\ job'[j].pc = "idle" /\ writes' # writes

\* Something else was written, or the manifest was deleted, between the GET of the
\* body and the HEAD for the etag (manifests.py:97-100 reads them apart).
Torn(j) == job[j].etag # job[j].at

\* A write that lands replaces exactly the manifest its job computed from; a first
\* write replaces nothing.  The exception is a job whose read was torn.
ReplacesWhatItRead ==
    [][ConditionalUpdate => \A j \in Jobs : Landed(j) /\ ~Torn(j) => object.body = job[j].base]_vars

\* storage.py:57 and manifests.py:34 promise the same without exception: the etag
\* turns a concurrent write into an error instead of silently losing it.  What a write
\* replaces, if anything, is the manifest its job read.
NoSilentOverwrite ==
    [][ConditionalUpdate => \A j \in Jobs :
            Landed(j) /\ object # Absent => object.body = job[j].base]_vars

\* service.py:24: a run that is not forced never finds that it would change or drop
\* a blob, whatever it listed and whatever manifest it started from.
NotAdditiveUnreachable == \A j \in Jobs : job[j].outcome # "not additive"

----------------------------------------------------------------------------
(* Refinement *)

R == INSTANCE Register WITH register <- object.body,
                            PinPrefixes <- {op.prefix : op \in Operations}

\* The interleavings in which nothing lands between the GET and the HEAD of a read.
NoTornRead == \A j \in Jobs : job[j].pc = "head" => object' = object

AtomicReadSpec == Init /\ [][Next /\ NoTornRead]_vars

\* With reads that are not torn, jobs racing over conditional writes, crashing and
\* losing replies look like single operations on one register: nothing that was
\* written is lost, blobs only grow and pins only change by pin and unpin, or else the
\* write starts over as a forced run does.  (That only a forced one does is
\* NotAdditiveUnreachable.)
ImplementsRegister == R!Spec
=============================================================================
