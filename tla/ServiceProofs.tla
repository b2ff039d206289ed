--------------------------- MODULE ServiceProofs ---------------------------
(***************************************************************************)
(* Proofs about Service, for every set of jobs, operations, nodes and      *)
(* sizes, and whatever the cut makes of a listing.                         *)
(***************************************************************************)
EXTENDS Service, PartitionProofs

----------------------------------------------------------------------------
(* Manifests *)

LEMMA NothingIsManifest == IsManifest(Nothing) /\ ~Exists(Nothing)
  BY DEF IsManifest, Nothing, Exists

\* Copying a manifest with the next epoch keeps all else.
LEMMA BumpedManifest ==
  ASSUME NEW m, IsManifest(m)
  PROVE  /\ IsManifest(Bumped(m))
         /\ Exists(Bumped(m))
         /\ Bumped(m).epoch = m.epoch + 1
         /\ Bumped(m).blobs = m.blobs
         /\ Bumped(m).pinned = m.pinned
  BY DEF IsManifest, Bumped, Exists

\* A pin set or removed leaves a manifest.
LEMMA RepinnedManifest ==
  ASSUME NEW m, IsManifest(m),
         NEW pinned \in SUBSET {op.prefix : op \in Operations}
  PROVE  IsManifest([m EXCEPT !.pinned = pinned])
  BY DEF IsManifest

\* What the cut carries over from the manifest it starts from.
LEMMA PartitionManifest ==
  ASSUME NEW arrays, NEW given, NEW previous, IsManifest(previous),
         NEW new, new = PartitionScope(arrays, given, previous)
  PROVE  /\ IsManifest(new)
         /\ Exists(new)
         /\ new.epoch = IF Exists(previous) THEN previous.epoch ELSE 1
         /\ previous.blobs \subseteq new.blobs
         /\ new.pinned = previous.pinned
  BY NothingIsManifest DEF IsManifest, PartitionScope, Exists, Nothing

----------------------------------------------------------------------------
(* Jobs *)

\* A job that stops is well typed.
LEMMA IdleOK ==
  ASSUME NEW outcome \in Outcomes
  PROVE  JobOK(Idle(outcome)) /\ Idle(outcome).pc = "idle"
  BY NothingIsManifest DEF JobOK, Idle, JobFields, NoEtag, Unlisted

\* A step that replaces the locals of job j leaves the other jobs as they were.
LEMMA JobReplaced ==
  ASSUME TypeOK, NEW j \in Jobs, NEW x, JobOK(x), job' = [job EXCEPT ![j] = x]
  PROVE  /\ DOMAIN job' = Jobs
         /\ job'[j] = x
         /\ \A k \in Jobs : k # j => job'[k] = job[k]
         /\ \A k \in Jobs : JobOK(job'[k])
  BY DEF TypeOK

\* A job that stops, whatever the outcome.
LEMMA Finished ==
  ASSUME TypeOK, NEW j \in Jobs, NEW outcome \in Outcomes, Finish(j, outcome)
  PROVE  /\ DOMAIN job' = Jobs
         /\ job'[j].pc = "idle"
         /\ \A k \in Jobs : k # j => job'[k] = job[k]
         /\ \A k \in Jobs : JobOK(job'[k])
  BY IdleOK, JobReplaced DEF Finish

----------------------------------------------------------------------------
(* What each step does to the locals of its job *)

LEMMA GetStep ==
  ASSUME TypeOK, NEW j \in Jobs, NEW op \in Operations, GetManifest(j, op)
  PROVE  /\ DOMAIN job' = Jobs
         /\ \A k \in Jobs : JobOK(job'[k])
         /\ \A k \in Jobs : k # j => job'[k] = job[k]
         /\ job'[j].pc # "idle" =>
               /\ job'[j].base = object.body
               /\ job'[j].at = object.etag
               /\ job'[j].etag = NoEtag
               /\ job'[j].pc = IF object = Absent THEN "list" ELSE "head"
<1> DEFINE x == [Idle("none") EXCEPT !.pc = IF object = Absent THEN "list" ELSE "head",
                                     !.op = op, !.base = object.body, !.at = object.etag]
<1>1. CASE object = Absent /\ op.kind # "partition"
  BY <1>1, Finished DEF GetManifest, Outcomes
<1>2. CASE ~(object = Absent /\ op.kind # "partition")
  <2>1. JobOK(x)
    <3>1. JobOK(Idle("none"))
      BY IdleOK DEF Outcomes
    <3>2. IsManifest(object.body) /\ object.etag \in Nat
      BY DEF TypeOK
    <3> QED
      BY <3>1, <3>2 DEF JobOK, JobFields
  <2>2. /\ x.base = object.body /\ x.at = object.etag /\ x.etag = NoEtag
        /\ x.pc = IF object = Absent THEN "list" ELSE "head"
    BY DEF Idle
  <2>3. job' = [job EXCEPT ![j] = x]
    BY <1>2 DEF GetManifest
  <2> HIDE DEF x
  <2> QED
    BY <2>1, <2>2, <2>3, JobReplaced
<1> QED
  BY <1>1, <1>2

LEMMA HeadStep ==
  ASSUME TypeOK, NEW j \in Jobs, HeadManifest(j)
  PROVE  /\ DOMAIN job' = Jobs
         /\ \A k \in Jobs : JobOK(job'[k])
         /\ \A k \in Jobs : k # j => job'[k] = job[k]
         /\ job'[j].pc # "idle" =>
               /\ job'[j].base = job[j].base
               /\ job'[j].at = job[j].at
               /\ job'[j].etag = object.etag
               /\ job'[j].pc # "head"
<1> DEFINE op == job[j].op
           pinned == job[j].base.pinned
           refused == \/ op.kind = "pin" /\ op.prefix \in pinned
                      \/ op.kind = "unpin" /\ op.prefix \notin pinned
           repinned == Repinned(op, pinned)
           written == Bumped([job[j].base EXCEPT !.pinned = repinned])
           x == [job[j] EXCEPT !.etag = object.etag,
                               !.pc = IF op.kind = "partition" THEN "list" ELSE "put",
                               !.next = IF op.kind = "partition" THEN Nothing ELSE written]
<1>1. CASE refused
  BY <1>1, Finished DEF HeadManifest, Outcomes
<1>2. CASE ~refused
  <2>1. JobOK(job[j]) /\ job[j].pc = "head"
    BY DEF TypeOK, HeadManifest
  <2>2. op \in Operations /\ IsManifest(job[j].base)
    BY <2>1 DEF JobOK
  <2>3. repinned \in SUBSET {o.prefix : o \in Operations}
    BY <2>2 DEF IsManifest, Repinned
  <2>4. IsManifest(written) /\ Exists(written)
    BY <2>2, <2>3, RepinnedManifest, BumpedManifest
  <2>5. job' = [job EXCEPT ![j] = x]
    <3>1. job' = [job EXCEPT ![j].etag = object.etag,
                ![j].pc = IF op.kind = "partition" THEN "list" ELSE "put",
                ![j].next = IF op.kind = "partition" THEN Nothing ELSE written]
      BY <1>2 DEF HeadManifest
    <3> QED
      BY <3>1, <2>1 DEF TypeOK, JobOK, JobFields
  <2> HIDE DEF written, op
  <2>6. JobOK(x)
    BY <2>1, <2>4, NothingIsManifest DEF JobOK, JobFields, TypeOK
  <2>7. /\ x.base = job[j].base /\ x.at = job[j].at /\ x.etag = object.etag
        /\ x.pc # "head"
    BY <2>1 DEF JobOK, JobFields
  <2> HIDE DEF x
  <2> QED
    BY <2>5, <2>6, <2>7, JobReplaced
<1> QED
  BY <1>1, <1>2

LEMMA ListStep ==
  ASSUME TypeOK, NEW j \in Jobs, ListMetadata(j)
  PROVE  /\ DOMAIN job' = Jobs
         /\ \A k \in Jobs : JobOK(job'[k])
         /\ \A k \in Jobs : k # j => job'[k] = job[k]
         /\ job'[j].pc # "idle" =>
               /\ job'[j].base = job[j].base
               /\ job'[j].at = job[j].at
               /\ job'[j].etag = job[j].etag
               /\ job'[j].pc = "size"
<1> DEFINE x == [job[j] EXCEPT !.pc = "size", !.metadata = version]
<1>1. JobOK(job[j]) /\ job[j].pc = "list" /\ version \in [Nodes -> Nat] /\ DOMAIN job = Jobs
  BY DEF TypeOK, ListMetadata
<1>2. CASE version = Unlisted
  BY <1>2, Finished DEF ListMetadata, Outcomes
<1>3. CASE version # Unlisted
  <2>1. job' = [job EXCEPT ![j] = x]
    <3>1. job' = [job EXCEPT ![j].pc = "size", ![j].metadata = version]
      BY <1>3 DEF ListMetadata
    <3> QED
      BY <3>1, <1>1
  <2>2. JobOK(x)
    BY <1>1 DEF JobOK, JobFields
  <2>3. x.base = job[j].base /\ x.at = job[j].at /\ x.etag = job[j].etag /\ x.pc = "size"
    BY <1>1 DEF JobOK, JobFields
  <2> HIDE DEF x
  <2> QED
    BY <2>1, <2>2, <2>3, JobReplaced
<1> QED
  BY <1>2, <1>3

LEMMA SizeStep ==
  ASSUME TypeOK, NEW j \in Jobs, SizeObjects(j)
  PROVE  /\ DOMAIN job' = Jobs
         /\ \A k \in Jobs : JobOK(job'[k])
         /\ \A k \in Jobs : k # j => job'[k] = job[k]
         /\ job'[j].pc # "idle" =>
               /\ job'[j].base = job[j].base
               /\ job'[j].at = job[j].at
               /\ job'[j].etag = job[j].etag
               /\ job'[j].pc # "head"
<1> DEFINE base == job[j].base
           computed == Computed(j, Listing(job[j].metadata, count))
           next == IF Exists(base) THEN Bumped(computed) ELSE computed
           x == [job[j] EXCEPT !.pc = "put", !.next = next]
<1>1. JobOK(job[j]) /\ job[j].pc = "size" /\ DOMAIN job = Jobs
  BY DEF TypeOK, SizeObjects
<1>2. IsManifest(next) /\ Exists(next)
  <2>1. IsManifest(IF job[j].op.force THEN Nothing ELSE job[j].base)
    BY <1>1, NothingIsManifest DEF JobOK
  <2>2. IsManifest(computed) /\ Exists(computed)
    BY <2>1, PartitionManifest DEF Computed
  <2> QED
    BY <2>2, BumpedManifest
<1> HIDE DEF next
<1>3. CASE job' = [job EXCEPT ![j].pc = "put", ![j].next = next]
  <2>1. job' = [job EXCEPT ![j] = x]
    BY <1>3, <1>1
  <2>2. JobOK(x)
    BY <1>1, <1>2 DEF JobOK, JobFields
  <2>3. x.base = job[j].base /\ x.at = job[j].at /\ x.etag = job[j].etag /\ x.pc # "head"
    BY <1>1 DEF JobOK, JobFields
  <2> HIDE DEF x
  <2> QED
    BY <2>1, <2>2, <2>3, JobReplaced
<1>4. CASE \E outcome \in Outcomes : Finish(j, outcome)
  BY <1>4, Finished
<1> QED
  BY <1>3, <1>4 DEF SizeObjects, next, Outcomes

\* The other steps of a job end its operation.
LEMMA LastStep ==
  ASSUME TypeOK, NEW j \in Jobs, PutAccepted(j) \/ PutRefused(j) \/ Crash(j)
  PROVE  /\ DOMAIN job' = Jobs
         /\ \A k \in Jobs : JobOK(job'[k])
         /\ \A k \in Jobs : k # j => job'[k] = job[k]
         /\ job'[j].pc = "idle"
<1>1. \E outcome \in Outcomes : Finish(j, outcome)
  BY DEF PutAccepted, PutRefused, Crash, Outcomes
<1> QED
  BY <1>1, Finished

----------------------------------------------------------------------------
(* Types *)

LEMMA InitTypeOK == Init => TypeOK
<1> SUFFICES ASSUME Init PROVE TypeOK
  OBVIOUS
<1>1. \A j \in Jobs : JobOK(job[j])
  BY IdleOK DEF Init, Outcomes
<1> QED
  BY <1>1, NothingIsManifest
  DEF TypeOK, Init, StoreInit, DataInit, Absent, NoEtag

LEMMA NextTypeOK == TypeOK /\ [Next]_vars => TypeOK'
<1> SUFFICES ASSUME TypeOK, [Next]_vars PROVE TypeOK'
  OBVIOUS
<1>1. ASSUME NEW j \in Jobs, NEW op \in Operations, GetManifest(j, op) PROVE TypeOK'
  <2>1. DOMAIN job' = Jobs /\ \A k \in Jobs : JobOK(job'[k])
    BY <1>1, GetStep
  <2>2. started' = started + 1 /\ UNCHANGED <<object, writes, version, count, deletes>>
    BY <1>1, Zenon DEF GetManifest, storeVars, dataVars
  <2>3. started' \in Nat
    BY <2>2 DEF TypeOK
  <2> QED
    BY <2>1, <2>2, <2>3 DEF TypeOK, Absent
<1>2. ASSUME NEW j \in Jobs, HeadManifest(j) PROVE TypeOK'
  BY <1>2, HeadStep DEF HeadManifest, TypeOK, Absent, storeVars, dataVars
<1>3. ASSUME NEW j \in Jobs, ListMetadata(j) PROVE TypeOK'
  BY <1>3, ListStep DEF ListMetadata, TypeOK, Absent, storeVars, dataVars
<1>4. ASSUME NEW j \in Jobs, SizeObjects(j) PROVE TypeOK'
  BY <1>4, SizeStep DEF SizeObjects, TypeOK, Absent, storeVars, dataVars
<1>5. ASSUME NEW j \in Jobs, PutAccepted(j) PROVE TypeOK'
  <2>1. IsManifest(job[j].next) /\ Exists(job[j].next)
    BY <1>5 DEF PutAccepted, TypeOK, JobOK
  <2>2. DOMAIN job' = Jobs /\ \A k \in Jobs : JobOK(job'[k])
    BY <1>5, LastStep
  <2> QED
    BY <1>5, <2>1, <2>2 DEF PutAccepted, Store, TypeOK, Absent, dataVars
<1>6. ASSUME NEW j \in Jobs, PutRefused(j) \/ Crash(j) PROVE TypeOK'
  BY <1>6, LastStep DEF PutRefused, Crash, TypeOK, Absent, storeVars, dataVars
<1>7. CASE WriteData
  <2>1. version' \in [Nodes -> Nat] /\ count' \in [Nodes -> Nat]
    <3>1. PICK n \in Nodes : WriteMetadata(n) \/ WriteObject(n)
      BY <1>7 DEF WriteData
    <3>2. version \in [Nodes -> Nat] /\ count \in [Nodes -> Nat]
      BY DEF TypeOK
    <3>3. CASE WriteMetadata(n)
      BY <3>2, <3>3 DEF WriteMetadata
    <3>4. CASE WriteObject(n)
      BY <3>2, <3>4 DEF WriteObject
    <3> QED
      BY <3>1, <3>3, <3>4
  <2> QED
    BY <1>7, <2>1 DEF WriteData, TypeOK, Absent, storeVars
<1>8. CASE DeleteManifest
  BY <1>8, NothingIsManifest DEF DeleteManifest, Delete, TypeOK, Absent, NoEtag, dataVars
<1>9. CASE UNCHANGED vars
  BY <1>9 DEF vars, TypeOK, Absent
<1> QED
  BY <1>1, <1>2, <1>3, <1>4, <1>5, <1>6, <1>7, <1>8, <1>9 DEF Next, JobStep

\* The variables keep their types, and a stored manifest is one that can be read
\* again, for every set of jobs, operations and nodes.
THEOREM TypeCorrect == Spec => []TypeOK
  BY InitTypeOK, NextTypeOK, PTL DEF Spec

----------------------------------------------------------------------------
(* Etags *)

\* What the model's numbering of writes gives the proofs: the ghost `at` names the write
\* whose body a job holds, so where it is the number of what is stored, that body is
\* stored.  The etag a job compares is another matter: after a torn read it is not `at`.
Coherent ==
    /\ object.etag <= writes
    /\ object.etag = NoEtag <=> object = Absent
    /\ \A j \in Jobs : job[j].pc # "idle" =>
          /\ job[j].at <= writes /\ job[j].etag <= writes
          /\ job[j].at = object.etag => job[j].base = object.body
          /\ job[j].at = NoEtag => /\ job[j].base = Nothing /\ job[j].etag = NoEtag
                                   /\ job[j].pc # "head"
          /\ job[j].at # NoEtag => Exists(job[j].base)

\* The part of Coherent that is about the locals x of a job that is not idle.
Knows(x) ==
    /\ x.at <= writes /\ x.etag <= writes
    /\ x.at = object.etag => x.base = object.body
    /\ x.at = NoEtag => x.base = Nothing /\ x.etag = NoEtag /\ x.pc # "head"
    /\ x.at # NoEtag => Exists(x.base)

LEMMA InitCoherent == Init => Coherent
  BY DEF Init, StoreInit, Coherent, Absent, NoEtag, Idle

LEMMA NextCoherent == TypeOK /\ Coherent /\ [Next]_vars => Coherent'
<1> SUFFICES ASSUME TypeOK, Coherent, [Next]_vars PROVE Coherent'
  OBVIOUS
<1> USE DEF NoEtag
<1>0. /\ object.etag \in Nat /\ writes \in Nat
      /\ object.etag <= writes /\ (object.etag = 0 <=> object = Absent)
      /\ object # Absent => Exists(object.body)
      /\ \A k \in Jobs : job[k].at \in Nat /\ job[k].etag \in Nat
      /\ \A k \in Jobs : job[k].pc # "idle" => Knows(job[k])
  BY DEF TypeOK, JobOK, Coherent, Knows
<1>1. ASSUME NEW j \in Jobs, NEW op \in Operations, GetManifest(j, op) PROVE Coherent'
  <2>1. job'[j].pc # "idle" => Knows(job'[j])
    BY <1>0, <1>1, GetStep DEF Knows, Absent
  <2>2. \A k \in Jobs : job'[k].pc # "idle" => Knows(job'[k])
    BY <1>0, <1>1, <2>1, GetStep
  <2> QED
    BY <1>0, <1>1, <2>2 DEF GetManifest, storeVars, Knows, Coherent, Absent
<1>2. ASSUME NEW j \in Jobs, HeadManifest(j) PROVE Coherent'
  <2>1. job'[j].pc # "idle" => Knows(job'[j])
    BY <1>0, <1>2, HeadStep DEF Knows, HeadManifest
  <2>2. \A k \in Jobs : job'[k].pc # "idle" => Knows(job'[k])
    BY <1>0, <1>2, <2>1, HeadStep
  <2> QED
    BY <1>0, <1>2, <2>2 DEF HeadManifest, storeVars, Knows, Coherent, Absent
<1>3. ASSUME NEW j \in Jobs, ListMetadata(j) PROVE Coherent'
  <2>1. job'[j].pc # "idle" => Knows(job'[j])
    BY <1>0, <1>3, ListStep DEF Knows, ListMetadata
  <2>2. \A k \in Jobs : job'[k].pc # "idle" => Knows(job'[k])
    BY <1>0, <1>3, <2>1, ListStep
  <2> QED
    BY <1>0, <1>3, <2>2 DEF ListMetadata, storeVars, Knows, Coherent, Absent
<1>4. ASSUME NEW j \in Jobs, SizeObjects(j) PROVE Coherent'
  <2>1. job'[j].pc # "idle" => Knows(job'[j])
    BY <1>0, <1>4, SizeStep DEF Knows, SizeObjects
  <2>2. \A k \in Jobs : job'[k].pc # "idle" => Knows(job'[k])
    BY <1>0, <1>4, <2>1, SizeStep
  <2> QED
    BY <1>0, <1>4, <2>2 DEF SizeObjects, storeVars, Knows, Coherent, Absent
<1>5. ASSUME NEW j \in Jobs, PutAccepted(j) PROVE Coherent'
  <2>1. writes' = writes + 1 /\ object'.etag = writes + 1 /\ object' # Absent
    BY <1>0, <1>5 DEF PutAccepted, Store, Absent
  <2>2. \A k \in Jobs : job'[k].pc # "idle" => job'[k] = job[k] /\ Knows(job[k])
    BY <1>0, <1>5, LastStep
  <2>3. (object.etag = NoEtag <=> object = Absent)'
    BY <1>0, <2>1 DEF Absent
  <2> QED
    BY <1>0, <2>1, <2>2, <2>3 DEF Knows, Coherent
<1>6. ASSUME NEW j \in Jobs, PutRefused(j) \/ Crash(j) PROVE Coherent'
  <2>1. \A k \in Jobs : job'[k].pc # "idle" => job'[k] = job[k] /\ Knows(job[k])
    BY <1>0, <1>6, LastStep
  <2> QED
    BY <1>0, <1>6, <2>1 DEF PutRefused, Crash, storeVars, Knows, Coherent, Absent
<1>7. CASE WriteData
  BY <1>7 DEF WriteData, storeVars, Coherent, Absent
<1>8. CASE DeleteManifest
  <2>1. object' = Absent /\ object'.etag = 0 /\ object'.body = Nothing /\ UNCHANGED <<writes, job>>
    BY <1>8 DEF DeleteManifest, Delete, Absent
  <2> QED
    BY <1>0, <2>1 DEF Knows, Coherent, Absent
<1>9. CASE UNCHANGED vars
  BY <1>9 DEF vars, Coherent, Absent
<1> QED
  BY <1>1, <1>2, <1>3, <1>4, <1>5, <1>6, <1>7, <1>8, <1>9 DEF Next, JobStep

----------------------------------------------------------------------------
(* Conditional writes *)

LEMMA LandingReplacesWhatWasRead ==
  ASSUME TypeOK, Coherent, [Next]_vars, ConditionalUpdate,
         NEW j \in Jobs, Landed(j), ~Torn(j)
  PROVE  object.body = job[j].base
<1>1. PutAccepted(j)
  <2>1. writes' # writes
    BY DEF Landed
  <2>2. PICK k \in Jobs : PutAccepted(k)
    BY <2>1 DEF Next, JobStep, GetManifest, HeadManifest, ListMetadata, SizeObjects,
                PutRefused, Crash, WriteData, DeleteManifest, Delete, storeVars, vars
  <2>3. k # j => job'[j] = job[j]
    BY <2>2, LastStep
  <2> QED
    BY <2>2, <2>3 DEF Landed
<1>2. /\ job[j].etag = job[j].at
      /\ job[j].at = object.etag => job[j].base = object.body
      /\ job[j].at = NoEtag => job[j].base = Nothing
      /\ job[j].at # NoEtag => Exists(job[j].base)
  BY <1>1 DEF Torn, Coherent, PutAccepted
<1>3. CASE job[j].at = NoEtag
  <2>1. object = Absent
    BY <1>1, <1>2, <1>3, NothingIsManifest DEF PutAccepted, Accepts, Mode, PutMode
  <2> QED
    BY <1>2, <1>3, <2>1 DEF Absent
<1>4. CASE job[j].at # NoEtag
  BY <1>1, <1>2, <1>4 DEF PutAccepted, Accepts, Mode, PutMode
<1> QED
  BY <1>3, <1>4

\* No job loses the work of another: a write that lands replaces the manifest its
\* job computed from, unless something landed between the two requests of its read.
THEOREM NothingLost == Spec => ReplacesWhatItRead
<1>1. Init => TypeOK /\ Coherent
  BY InitTypeOK, InitCoherent
<1>2. TypeOK /\ Coherent /\ [Next]_vars => (TypeOK /\ Coherent)'
  BY NextTypeOK, NextCoherent
<1> DEFINE A == ConditionalUpdate => \A j \in Jobs : Landed(j) /\ ~Torn(j) => object.body = job[j].base
<1>3. TypeOK /\ Coherent /\ [Next]_vars => [A]_vars
  BY LandingReplacesWhatWasRead
<1>4. ReplacesWhatItRead <=> [][A]_vars
  BY DEF ReplacesWhatItRead
<1> QED
  BY <1>1, <1>2, <1>3, <1>4, PTL DEF Spec

----------------------------------------------------------------------------
(* What a job lists *)

\* The metadata a listing may see: a version that was written, or none.
Stored == {v \in [Nodes -> Nat] : \A n \in Nodes : v[n] <= Len(Layout[n])}

\* Whether a node is an array by this metadata.
ArrayIn(metadata, n) == metadata[n] # 0 /\ Layout[n][metadata[n]].kind = "array"

\* Pass one finds nodes that are arrays, and each of them once.
LEMMA FoundResult ==
  ASSUME NEW metadata
  PROVE  /\ Found(metadata) \in Seq(Nodes)
         /\ \A i \in DOMAIN Found(metadata) : ArrayIn(metadata, Found(metadata)[i])
         /\ \A i, j \in DOMAIN Found(metadata) :
               Found(metadata)[i] = Found(metadata)[j] => i = j
<1> DEFINE members == {n \in Nodes : ArrayIn(metadata, n)}
<1>1. Found(metadata) = Kept(Order, members)
  BY DEF Found, ArrayIn
<1>2. Order \in Seq(Nodes) /\ \A i, j \in DOMAIN Order : Order[i] = Order[j] => i = j
  BY LayoutAssumption
<1> HIDE DEF members
<1>3. /\ Kept(Order, members) \in Seq(Nodes)
      /\ \A i \in DOMAIN Kept(Order, members) : Kept(Order, members)[i] \in members
      /\ \A i, j \in DOMAIN Kept(Order, members) :
            Kept(Order, members)[i] = Kept(Order, members)[j] => i = j
  BY <1>2, KeptResult
<1> QED
  BY <1>1, <1>3 DEF members

LEMMA ArrayOfNode ==
  ASSUME NEW metadata \in Stored, NEW counts \in [Nodes -> Nat],
         NEW n \in Nodes, ArrayIn(metadata, n)
  PROVE  LET a == ToArray(Path[n], Layout[n][metadata[n]], counts[n], ObjectSize[n])
         IN  /\ a \in ArrayFields
             /\ a.path = Path[n] /\ Path[n] \in Paths
             /\ Len(a.chunks) = Len(a.shape)
             /\ a.shards # <<>> => Len(a.shards) = Len(a.shape)
             /\ MayBeArray(n)
<1> DEFINE meta == Layout[n][metadata[n]]
           a == ToArray(Path[n], meta, counts[n], ObjectSize[n])
<1>1. metadata[n] \in DOMAIN Layout[n] /\ meta.kind = "array"
  <2>1. Layout[n] \in Seq(MetadataFields) /\ metadata[n] \in Nat
    BY LayoutAssumption DEF Stored
  <2>2. DOMAIN Layout[n] = 1..Len(Layout[n]) /\ Len(Layout[n]) \in Nat
    BY <2>1
  <2> QED
    BY <2>1, <2>2 DEF Stored, ArrayIn
<1>2. MayBeArray(n)
  BY <1>1 DEF MayBeArray
<1>3. meta \in AlignedFields
  BY <1>1, LayoutAssumption
<1> HIDE DEF meta
<1>4. /\ meta \in MetadataFields
      /\ Len(meta.object) = Len(meta.shape)
      /\ meta.inner # <<>> => Len(meta.inner) = Len(meta.shape)
  BY <1>3 DEF AlignedFields
<1>5. /\ meta.shape \in Seq(Nat) /\ meta.object \in Seq(Nat \ {0})
      /\ meta.inner \in Seq(Nat \ {0}) /\ meta.itemsize \in Nat \ {0}
      /\ meta.encoding \in KEY_ENCODINGS /\ meta.written \in KEY_ENCODINGS
  BY <1>4 DEF MetadataFields
<1>6. counts[n] \in Nat /\ ObjectSize[n] \in Nat /\ counts[n] * ObjectSize[n] \in Nat
  BY LayoutAssumption
<1>7. Path[n] \in Paths /\ Path[n] \in Seq(STRING)
  BY PathsAssumption, PathsAreStrings DEF Paths
<1> DEFINE chunks == IF meta.inner # <<>> THEN meta.inner ELSE meta.object
           shards == IF meta.inner \notin {<<>>, meta.object} THEN meta.object ELSE <<>>
           coordinate == IsCoordinate(Path[n], meta)
           encoding == ObservedEncoding(meta, counts[n])
<1>8. chunks \in Seq(Nat \ {0}) /\ Len(chunks) = Len(meta.shape)
  BY <1>4, <1>5
<1>9. shards \in Seq(Nat \ {0}) /\ (shards # <<>> => Len(shards) = Len(meta.shape))
  BY <1>4, <1>5
<1>10. coordinate \in BOOLEAN
  BY DEF IsCoordinate
<1>11. encoding \in KEY_ENCODINGS
  BY <1>5 DEF ObservedEncoding
<1>12. a = [path |-> Path[n], shape |-> meta.shape, chunks |-> chunks, shards |-> shards,
            itemsize |-> meta.itemsize, stored |-> counts[n] * ObjectSize[n],
            seen |-> counts[n], coordinate |-> coordinate, encoding |-> encoding]
  BY DEF ToArray
<1> HIDE DEF chunks, shards, coordinate, encoding
<1>13. a \in ArrayFields
  BY <1>5, <1>6, <1>7, <1>8, <1>9, <1>10, <1>11, <1>12 DEF ArrayFields
<1>14. /\ a.path = Path[n] /\ a.chunks = chunks /\ a.shape = meta.shape
       /\ a.shards = shards
  BY <1>12
<1> QED
  BY <1>2, <1>7, <1>8, <1>9, <1>13, <1>14 DEF a, meta

\* Chunk keys of two arrays begin alike only if one array lies in the other.
LEMMA AppendedPrefix ==
  ASSUME NEW p \in Seq(STRING), NEW q \in Seq(STRING),
         \E x \in {p, Append(p, "c")} : x \in {q, Append(q, "c")}
  PROVE  IsPrefix(p, q) \/ IsPrefix(q, p)
<1>1. Append(p, "c") \in Seq(STRING) /\ Append(q, "c") \in Seq(STRING)
  BY WordsAssumption, AppendProperties
<1>2. IsPrefix(p, p) /\ IsPrefix(q, q) /\ IsPrefix(p, Append(p, "c")) /\ IsPrefix(q, Append(q, "c"))
  <2>1. ASSUME NEW s \in Seq(STRING), NEW t, t = Append(s, "c"), t \in Seq(STRING)
        PROVE  IsPrefix(s, t)
    <3>1. Len(s) <= Len(t) /\ \A i \in 1..Len(s) : s[i] = t[i]
      BY <2>1
    <3> QED
      BY <2>1, <3>1, PrefixPointwise
  <2> QED
    BY <1>1, <2>1, PrefixOfItself
<1>3. PICK x \in {p, Append(p, "c")} : x \in {q, Append(q, "c")}
  OBVIOUS
<1>4. x \in Seq(STRING) /\ IsPrefix(p, x) /\ IsPrefix(q, x)
  BY <1>1, <1>2, <1>3
<1> QED
  BY <1>4, PrefixesCompare

\* Whatever metadata and objects the two passes meet, the cut gets a listing: no two
\* arrays with the same chunk keys.
LEMMA ListingIsListing ==
  ASSUME NEW metadata \in Stored, NEW counts \in [Nodes -> Nat]
  PROVE  IsListing(Listing(metadata, counts))
<1> DEFINE found == Found(metadata)
           one(n) == ToArray(Path[n], Layout[n][metadata[n]], counts[n], ObjectSize[n])
           arrays == Listing(metadata, counts)
<1>1. /\ found \in Seq(Nodes)
      /\ \A i \in DOMAIN found : ArrayIn(metadata, found[i])
      /\ \A i, j \in DOMAIN found : found[i] = found[j] => i = j
  BY FoundResult
<1>2. arrays = [i \in DOMAIN found |-> one(found[i])]
  BY DEF Listing
<1> HIDE DEF found, arrays
<1>3. /\ DOMAIN found = 1..Len(found) /\ Len(found) \in Nat
      /\ \A i \in DOMAIN found : found[i] \in Nodes
  BY <1>1
<1>4. ASSUME NEW n \in Nodes, ArrayIn(metadata, n)
      PROVE  /\ one(n) \in ArrayFields
             /\ one(n).path = Path[n] /\ Path[n] \in Paths
             /\ Len(one(n).chunks) = Len(one(n).shape)
             /\ one(n).shards # <<>> => Len(one(n).shards) = Len(one(n).shape)
             /\ MayBeArray(n)
  BY <1>4, ArrayOfNode
<1> HIDE DEF one
<1>5. arrays \in Seq(ArrayFields)
  <2>1. \A i \in 1..Len(found) : one(found[i]) \in ArrayFields
    BY <1>1, <1>3, <1>4
  <2> QED
    BY <1>2, <1>3, <2>1
<1>6. DOMAIN arrays = DOMAIN found /\ \A i \in DOMAIN found : arrays[i] = one(found[i])
  BY <1>2
<1>7. ASSUME NEW a \in Range(arrays)
      PROVE  /\ a.path \in Seq(DOMAIN Words)
             /\ Len(a.chunks) = Len(a.shape)
             /\ a.shards # <<>> => Len(a.shards) = Len(a.shape)
  <2>1. PICK i \in DOMAIN found : a = one(found[i])
    BY <1>6 DEF Range
  <2> QED
    BY <1>1, <1>3, <1>4, <2>1 DEF Paths
<1>8. ASSUME NEW i \in DOMAIN found, NEW j \in DOMAIN found,
             ChunkPrefix(arrays[i]) = ChunkPrefix(arrays[j])
      PROVE  i = j
  <2> DEFINE p == Path[found[i]]
             q == Path[found[j]]
  <2>1. /\ p \in Paths /\ q \in Paths
        /\ arrays[i].path = p /\ arrays[j].path = q
        /\ MayBeArray(found[i]) /\ MayBeArray(found[j])
    BY <1>1, <1>3, <1>4, <1>6
  <2>2. p \in Seq(STRING) /\ q \in Seq(STRING)
    BY <2>1, PathsAreStrings
  <2>3. \E x \in {p, Append(p, "c")} : x \in {q, Append(q, "c")}
    BY <1>8, <2>1, Zenon DEF ChunkPrefix
  <2>4. IsPrefix(p, q) \/ IsPrefix(q, p)
    BY <2>2, <2>3, AppendedPrefix
  <2>5. found[i] = found[j]
    BY <1>3, <2>1, <2>4, LayoutAssumption
  <2> QED
    BY <1>1, <2>5
<1> QED
  BY <1>5, <1>6, <1>7, <1>8 DEF IsListing, arrays

----------------------------------------------------------------------------
(* What a job computes *)

\* The part of the invariant that is about the locals x of a job.
SoundJob(x) ==
    /\ SoundManifest(x.base) /\ SoundManifest(x.next)
    /\ x.metadata \in Stored
    /\ x.outcome # "not additive"

\* Every manifest that is stored or held is sound, and no version is made up: what
\* it takes for a run never to find that it would change or drop a blob.
IInv ==
    /\ TypeOK
    /\ SoundManifest(object.body)
    /\ version \in Stored
    /\ \A j \in Jobs : SoundJob(job[j])

LEMMA UnlistedIsStored == Unlisted \in Stored
<1>1. \A n \in Nodes : Layout[n] \in Seq(MetadataFields)
  BY LayoutAssumption
<1>2. \A n \in Nodes : Len(Layout[n]) \in Nat
  BY <1>1
<1> QED
  BY <1>2 DEF Unlisted, Stored

LEMMA SoundIdle ==
  ASSUME NEW outcome, outcome # "not additive"
  PROVE  SoundJob(Idle(outcome))
<1>1. Unlisted \in Stored
  BY UnlistedIsStored
<1>2. /\ Idle(outcome).base = Nothing /\ Idle(outcome).next = Nothing
      /\ Idle(outcome).metadata = Unlisted /\ Idle(outcome).outcome = outcome
  BY DEF Idle
<1> QED
  BY <1>1, <1>2, NothingIsSoundManifest DEF SoundJob

LEMMA SoundReplaced ==
  ASSUME IInv, NEW j \in Jobs, NEW x, SoundJob(x), job' = [job EXCEPT ![j] = x]
  PROVE  \A k \in Jobs : SoundJob(job'[k])
<1>1. DOMAIN job = Jobs
  BY DEF IInv, TypeOK
<1>2. \A k \in Jobs : job'[k] = IF k = j THEN x ELSE job[k]
  BY <1>1
<1> QED
  BY <1>2 DEF IInv

LEMMA SoundFinished ==
  ASSUME IInv, NEW j \in Jobs, NEW outcome, outcome # "not additive", Finish(j, outcome)
  PROVE  \A k \in Jobs : SoundJob(job'[k])
  BY SoundIdle, SoundReplaced DEF Finish

\* A run that is not forced only adds, a forced one is not asked.
LEMMA RunOfJob ==
  ASSUME Numerals(Nat), IInv, NEW j \in Jobs, job[j].pc = "size"
  PROVE  LET computed == Computed(j, Listing(job[j].metadata, count))
         IN  /\ SoundManifest(computed) /\ SoundManifest(Bumped(computed))
             /\ ~ job[j].op.force => IsAdditive(Diff(job[j].base, computed))
<1> DEFINE op == job[j].op
           listing == Listing(job[j].metadata, count)
           start == IF op.force THEN Nothing ELSE job[j].base
           policy == EffectivePolicy(op.policy, start)
           computed == PartitionScope(listing, op.policy, start)
<1>1. JobOK(job[j]) /\ SoundJob(job[j]) /\ count \in [Nodes -> Nat]
  BY DEF IInv, TypeOK
<1>2. IsListing(listing)
  BY <1>1, ListingIsListing DEF SoundJob
<1>3. op.policy \in PolicyFields
  <2>1. op \in Operations
    BY <1>1 DEF JobOK
  <2> QED
    BY <2>1, OperationsAssumption
<1>4. start \in ManifestFields /\ SoundBlobs(start.blobs)
  BY <1>1, NothingIsSoundManifest DEF SoundJob, SoundManifest
<1> HIDE DEF start, listing
<1>5. /\ computed \in ManifestFields
      /\ computed.blobs = start.blobs \cup NewBlobs(listing, policy, start)
      /\ computed.policy = policy
      /\ SoundBlobs(computed.blobs)
  BY <1>2, <1>3, <1>4, ComputedIsSound
<1>6. policy \in PolicyFields
  BY <1>5 DEF ManifestFields
<1> HIDE DEF policy, computed
<1>7. Bumped(computed) \in ManifestFields /\ Bumped(computed).blobs = computed.blobs
  BY <1>5, BumpedType
<1>8. SoundManifest(computed) /\ SoundManifest(Bumped(computed))
  BY <1>5, <1>7 DEF SoundManifest
<1>9. IsAdditive(Diff(start, computed))
  BY <1>2, <1>4, <1>5, <1>6, DiffOfRun
<1>10. ~ op.force => start = job[j].base
  BY DEF start
<1>11. Computed(j, Listing(job[j].metadata, count)) = computed
  BY DEF Computed, computed, start, listing
<1> QED
  BY <1>8, <1>9, <1>10, <1>11

----------------------------------------------------------------------------
(* The steps keep manifests sound *)

LEMMA GetKeepsSound ==
  ASSUME IInv, NEW j \in Jobs, NEW op \in Operations, GetManifest(j, op)
  PROVE  \A k \in Jobs : SoundJob(job'[k])
<1> DEFINE x == [Idle("none") EXCEPT !.pc = IF object = Absent THEN "list" ELSE "head",
                                     !.op = op, !.base = object.body, !.at = object.etag]
<1>1. CASE object = Absent /\ op.kind # "partition"
  BY <1>1, SoundFinished DEF GetManifest
<1>2. CASE ~ (object = Absent /\ op.kind # "partition")
  <2>1. job' = [job EXCEPT ![j] = x]
    BY <1>2 DEF GetManifest
  <2>2. SoundJob(Idle("none"))
    BY SoundIdle
  <2>3. /\ x.base = object.body /\ x.next = Idle("none").next
        /\ x.metadata = Idle("none").metadata /\ x.outcome = Idle("none").outcome
    BY DEF Idle
  <2>4. SoundJob(x)
    BY <2>2, <2>3 DEF SoundJob, IInv
  <2> HIDE DEF x
  <2> QED
    BY <2>1, <2>4, SoundReplaced
<1> QED
  BY <1>1, <1>2

LEMMA HeadKeepsSound ==
  ASSUME IInv, NEW j \in Jobs, HeadManifest(j)
  PROVE  \A k \in Jobs : SoundJob(job'[k])
<1> DEFINE op == job[j].op
           pinned == job[j].base.pinned
           refused == \/ op.kind = "pin" /\ op.prefix \in pinned
                      \/ op.kind = "unpin" /\ op.prefix \notin pinned
           pins == Repinned(op, pinned)
           written == Bumped([job[j].base EXCEPT !.pinned = pins])
           next == IF op.kind = "partition" THEN Nothing ELSE written
           x == [job[j] EXCEPT !.etag = object.etag,
                               !.pc = IF op.kind = "partition" THEN "list" ELSE "put",
                               !.next = next]
<1>1. CASE refused
  BY <1>1, SoundFinished DEF HeadManifest
<1>2. CASE ~ refused
  <2>1. JobOK(job[j]) /\ SoundJob(job[j]) /\ job[j].pc = "head"
    BY DEF IInv, TypeOK, HeadManifest
  <2>2. job[j].base \in ManifestFields /\ SoundBlobs(job[j].base.blobs)
    BY <2>1 DEF SoundJob, SoundManifest
  <2>3. pins \in SUBSET Seq(STRING)
    <3>1. op \in Operations
      BY <2>1 DEF JobOK
    <3> QED
      BY <2>2, <3>1, OperationsAssumption DEF Repinned, ManifestFields
  <2>4. SoundManifest(written)
    <3> HIDE DEF pins
    <3>1. written \in ManifestFields /\ written.blobs = job[j].base.blobs
      BY <2>2, <2>3, PinnedType
    <3> QED
      BY <2>2, <3>1 DEF SoundManifest
  <2>5. SoundManifest(next)
    BY <2>4, NothingIsSoundManifest
  <2>6. job' = [job EXCEPT ![j] = x]
    <3>1. job' = [job EXCEPT ![j].etag = object.etag,
                ![j].pc = IF op.kind = "partition" THEN "list" ELSE "put",
                ![j].next = next]
      BY <1>2 DEF HeadManifest
    <3> QED
      BY <3>1, <2>1 DEF IInv, TypeOK, JobOK, JobFields
  <2> HIDE DEF next
  <2>7. SoundJob(x)
    BY <2>1, <2>5 DEF SoundJob, JobOK, JobFields
  <2> HIDE DEF x
  <2> QED
    BY <2>6, <2>7, SoundReplaced
<1> QED
  BY <1>1, <1>2

LEMMA ListKeepsSound ==
  ASSUME IInv, NEW j \in Jobs, ListMetadata(j)
  PROVE  \A k \in Jobs : SoundJob(job'[k])
<1> DEFINE x == [job[j] EXCEPT !.pc = "size", !.metadata = version]
<1>1. JobOK(job[j]) /\ SoundJob(job[j]) /\ DOMAIN job = Jobs /\ version \in Stored
  BY DEF IInv, TypeOK
<1>2. CASE version = Unlisted
  BY <1>2, SoundFinished DEF ListMetadata
<1>3. CASE version # Unlisted
  <2>1. job' = [job EXCEPT ![j] = x]
    <3>1. job' = [job EXCEPT ![j].pc = "size", ![j].metadata = version]
      BY <1>3 DEF ListMetadata
    <3> QED
      BY <3>1, <1>1
  <2>2. SoundJob(x)
    BY <1>1 DEF SoundJob, JobOK, JobFields
  <2> HIDE DEF x
  <2> QED
    BY <2>1, <2>2, SoundReplaced
<1> QED
  BY <1>2, <1>3

LEMMA SizeKeepsSound ==
  ASSUME Numerals(Nat), IInv, NEW j \in Jobs, SizeObjects(j)
  PROVE  \A k \in Jobs : SoundJob(job'[k])
<1> DEFINE base == job[j].base
           computed == Computed(j, Listing(job[j].metadata, count))
           next == IF Exists(base) THEN Bumped(computed) ELSE computed
           x == [job[j] EXCEPT !.pc = "put", !.next = next]
<1>1. JobOK(job[j]) /\ SoundJob(job[j]) /\ job[j].pc = "size" /\ DOMAIN job = Jobs
  BY DEF IInv, TypeOK, SizeObjects
<1>2. /\ SoundManifest(next)
      /\ ~ job[j].op.force => IsAdditive(Diff(base, computed))
  BY <1>1, RunOfJob
<1>3. \/ job' = [job EXCEPT ![j].pc = "put", ![j].next = next]
      \/ \E outcome \in {"unchanged", "dry run"} : Finish(j, outcome)
  BY <1>2 DEF SizeObjects
<1> HIDE DEF next, computed
<1>4. CASE job' = [job EXCEPT ![j].pc = "put", ![j].next = next]
  <2>1. job' = [job EXCEPT ![j] = x]
    BY <1>4, <1>1
  <2>2. SoundJob(x)
    BY <1>1, <1>2 DEF SoundJob, JobOK, JobFields
  <2> HIDE DEF x
  <2> QED
    BY <2>1, <2>2, SoundReplaced
<1>5. CASE \E outcome \in {"unchanged", "dry run"} : Finish(j, outcome)
  BY <1>5, SoundFinished
<1> QED
  BY <1>3, <1>4, <1>5

LEMMA InitSound == Init => IInv
<1> SUFFICES ASSUME Init PROVE IInv
  OBVIOUS
<1>1. \A j \in Jobs : SoundJob(job[j])
  BY SoundIdle DEF Init
<1>2. version \in Stored
  BY UnlistedIsStored DEF Init, DataInit, Unlisted
<1>3. object.body = Nothing
  BY DEF Init, StoreInit, Absent
<1> QED
  BY <1>1, <1>2, <1>3, InitTypeOK, NothingIsSoundManifest DEF IInv

LEMMA NextSound ==
  ASSUME Numerals(Nat), IInv, [Next]_vars
  PROVE  IInv'
<1>1. TypeOK'
  BY NextTypeOK DEF IInv
<1>2. ASSUME NEW j \in Jobs,
             \/ \E op \in Operations : GetManifest(j, op)
             \/ HeadManifest(j) \/ ListMetadata(j) \/ SizeObjects(j)
      PROVE  IInv'
  <2>1. \A k \in Jobs : SoundJob(job'[k])
    BY <1>2, GetKeepsSound, HeadKeepsSound, ListKeepsSound, SizeKeepsSound
  <2>2. object' = object /\ version' = version
    BY <1>2, Zenon DEF GetManifest, HeadManifest, ListMetadata, SizeObjects, storeVars, dataVars
  <2> QED
    BY <1>1, <2>1, <2>2 DEF IInv
<1>3. ASSUME NEW j \in Jobs, PutAccepted(j)
      PROVE  IInv'
  <2>1. \A k \in Jobs : SoundJob(job'[k])
    BY <1>3, SoundFinished DEF PutAccepted
  <2>2. object'.body = job[j].next /\ version' = version
    BY <1>3 DEF PutAccepted, Store, dataVars
  <2>3. SoundManifest(job[j].next)
    BY DEF IInv, SoundJob
  <2> QED
    BY <1>1, <2>1, <2>2, <2>3 DEF IInv
<1>4. ASSUME NEW j \in Jobs, PutRefused(j) \/ Crash(j)
      PROVE  IInv'
  <2>1. \A k \in Jobs : SoundJob(job'[k])
    BY <1>4, SoundFinished DEF PutRefused, Crash
  <2>2. object' = object /\ version' = version
    BY <1>4 DEF PutRefused, Crash, storeVars, dataVars
  <2> QED
    BY <1>1, <2>1, <2>2 DEF IInv
<1>5. CASE WriteData
  <2>1. PICK n \in Nodes : WriteMetadata(n) \/ WriteObject(n)
    BY <1>5 DEF WriteData
  <2>2. version \in Stored /\ Layout[n] \in Seq(MetadataFields)
    BY LayoutAssumption DEF IInv
  <2>3. version' \in Stored
    BY <2>1, <2>2 DEF WriteMetadata, WriteObject, Stored
  <2>4. object' = object /\ job' = job
    BY <1>5 DEF WriteData, storeVars
  <2> QED
    BY <1>1, <2>3, <2>4 DEF IInv
<1>6. CASE DeleteManifest
  <2>1. object'.body = Nothing /\ version' = version /\ job' = job
    BY <1>6 DEF DeleteManifest, Delete, Absent, dataVars
  <2> QED
    BY <1>1, <2>1, NothingIsSoundManifest DEF IInv
<1>7. CASE UNCHANGED vars
  BY <1>1, <1>7 DEF IInv, vars
<1> QED
  BY <1>2, <1>3, <1>4, <1>5, <1>6, <1>7 DEF Next, JobStep

\* However jobs, writers and operators interleave, and whatever a job that listed a
\* half-written store has stored before, a run that is not forced never finds that it
\* would change or drop a blob: the branch of service.run that says so is dead.
THEOREM AdditiveUnlessForced ==
  ASSUME Numerals(Nat)
  PROVE  Spec => []NotAdditiveUnreachable
<1>1. Init => IInv
  BY InitSound
<1>2. IInv /\ [Next]_vars => IInv'
  BY NextSound
<1>3. IInv => NotAdditiveUnreachable
  BY DEF IInv, SoundJob, NotAdditiveUnreachable
<1> QED
  BY <1>1, <1>2, <1>3, PTL DEF Spec

----------------------------------------------------------------------------
(* The refinement of Register, when no read is torn and the backend has     *)
(* conditional updates                                                      *)

\* Manifest n follows from manifest m by one operation.
Follows(m, n) ==
    \/ /\ ~Exists(m)
       /\ n.epoch = 1 /\ n.pinned = {}
    \/ /\ Exists(m)
       /\ n.epoch = 2 /\ n.pinned = {}
    \/ /\ Exists(m)
       /\ n.epoch = m.epoch + 1 /\ n.pinned = m.pinned
       /\ m.blobs \subseteq n.blobs /\ m.blobs # n.blobs
    \/ /\ Exists(m)
       /\ \E op \in Operations :
             \/ /\ op.prefix \notin m.pinned
                /\ n = Bumped([m EXCEPT !.pinned = m.pinned \cup {op.prefix}])
             \/ /\ op.prefix \in m.pinned
                /\ n = Bumped([m EXCEPT !.pinned = m.pinned \ {op.prefix}])

\* With no torn read, a job holds the etag of what it read.
Untorn(x, current) ==
    /\ x.pc = "head" => x.at = current
    /\ x.pc \in {"list", "size", "put"} => x.etag = x.at
    /\ x.pc = "put" => Follows(x.base, x.next)

Prepared == \A j \in Jobs : Untorn(job[j], object.etag)

----------------------------------------------------------------------------
(* What is about to be written *)

\* A run that changes something, and only adds, adds a blob.
LEMMA AdditiveGrows ==
  ASSUME NEW old, NEW new, old.blobs \subseteq new.blobs,
         ~IsEmpty(Diff(old, new)), IsAdditive(Diff(old, new))
  PROVE  old.blobs # new.blobs
<1>1. PICK b \in new.blobs : b.id \notin Ids(old)
  BY DEF IsEmpty, Diff
<1>2. b \notin old.blobs
  BY <1>1 DEF Ids
<1> QED
  BY <1>1, <1>2

LEMMA SizeFollows ==
  ASSUME TypeOK, Coherent, NEW j \in Jobs, SizeObjects(j), job'[j].pc # "idle"
  PROVE  job'[j].pc = "put" /\ Follows(job'[j].base, job'[j].next)
<1> DEFINE base == job[j].base
           force == job[j].op.force
           computed == Computed(j, Listing(job[j].metadata, count))
           next == IF Exists(base) THEN Bumped(computed) ELSE computed
           changes == Diff(base, computed)
<1>1. JobOK(job[j]) /\ DOMAIN job = Jobs /\ IsManifest(base)
  BY DEF TypeOK, JobOK
<1>2. /\ ~(Exists(base) /\ IsEmpty(changes))
      /\ IsAdditive(changes) \/ force
      /\ job' = [job EXCEPT ![j].pc = "put", ![j].next = next]
  <2>1. \A outcome \in Outcomes : ~Finish(j, outcome)
    BY Finished
  <2> QED
    BY <2>1 DEF SizeObjects, Outcomes
<1>3. job'[j].pc = "put" /\ job'[j].next = next /\ job'[j].base = base
  BY <1>1, <1>2 DEF JobOK, JobFields
<1>4. job[j].pc # "idle"
  BY DEF SizeObjects
<1>5. CASE force
  <2>1. computed = PartitionScope(Listing(job[j].metadata, count), job[j].op.policy, Nothing)
    BY <1>5 DEF Computed
  <2>2. IsManifest(computed) /\ computed.epoch = 1 /\ computed.pinned = {}
    <3>1. Nothing.pinned = {}
      BY DEF Nothing
    <3> QED
      BY <2>1, <3>1, NothingIsManifest, PartitionManifest
  <2> HIDE DEF computed
  <2>3. next.pinned = {} /\ next.epoch = IF Exists(base) THEN 2 ELSE 1
    BY <2>2, BumpedManifest
  <2> QED
    BY <1>3, <2>3 DEF Follows
<1>6. CASE ~force
  <2>1. computed = PartitionScope(Listing(job[j].metadata, count), job[j].op.policy, base)
    BY <1>6 DEF Computed
  <2>2. /\ IsManifest(computed) /\ base.blobs \subseteq computed.blobs
        /\ computed.pinned = base.pinned
        /\ computed.epoch = IF Exists(base) THEN base.epoch ELSE 1
    BY <1>1, <2>1, PartitionManifest
  <2>3. Exists(base) => base.blobs # computed.blobs
    BY <1>2, <1>6, <2>2, AdditiveGrows
  <2> HIDE DEF computed
  <2>4. CASE Exists(base)
    <3>1. /\ next.epoch = base.epoch + 1 /\ next.pinned = base.pinned
          /\ next.blobs = computed.blobs
      BY <2>2, <2>4, BumpedManifest
    <3> QED
      BY <1>3, <2>2, <2>3, <2>4, <3>1 DEF Follows
  <2>5. CASE ~Exists(base)
    <3>1. base.pinned = {}
      <4>1. base = Nothing
        BY <2>5, <1>4 DEF Coherent
      <4> QED
        BY <4>1 DEF Nothing
    <3> QED
      BY <1>3, <2>2, <2>5, <3>1 DEF Follows
  <2> QED
    BY <2>4, <2>5
<1> QED
  BY <1>3, <1>5, <1>6

LEMMA HeadFollows ==
  ASSUME TypeOK, Coherent, NEW j \in Jobs, HeadManifest(j), job'[j].pc # "idle"
  PROVE  job'[j].pc \in {"list", "put"} /\ (job'[j].pc = "put" => Follows(job'[j].base, job'[j].next))
<1> DEFINE op == job[j].op
           base == job[j].base
           written == Bumped([base EXCEPT !.pinned = Repinned(op, base.pinned)])
<1>1. JobOK(job[j]) /\ DOMAIN job = Jobs /\ IsManifest(base) /\ op \in Operations
  BY DEF TypeOK, JobOK, HeadManifest
<1>2. Exists(base)
  BY DEF Coherent, HeadManifest
<1>3. /\ ~(op.kind = "pin" /\ op.prefix \in base.pinned)
      /\ ~(op.kind = "unpin" /\ op.prefix \notin base.pinned)
      /\ job' = [job EXCEPT ![j].etag = object.etag,
                ![j].pc = IF op.kind = "partition" THEN "list" ELSE "put",
                ![j].next = IF op.kind = "partition" THEN Nothing ELSE written]
  <2>1. ~Finish(j, "refused")
    BY Finished DEF Outcomes
  <2> QED
    BY <2>1 DEF HeadManifest
<1> HIDE DEF written
<1>4. /\ job'[j].pc = IF op.kind = "partition" THEN "list" ELSE "put"
      /\ job'[j].base = base
      /\ op.kind # "partition" => job'[j].next = written
  BY <1>1, <1>3 DEF JobOK, JobFields
<1>5. CASE op.kind = "partition"
  BY <1>4, <1>5
<1>6. CASE op.kind = "pin"
  <2>1. written = Bumped([base EXCEPT !.pinned = base.pinned \cup {op.prefix}])
    BY <1>6 DEF written, Repinned
  <2> QED
    BY <1>1, <1>2, <1>3, <1>4, <1>6, <2>1 DEF Follows
<1>7. CASE op.kind = "unpin"
  <2>1. written = Bumped([base EXCEPT !.pinned = base.pinned \ {op.prefix}])
    BY <1>7 DEF written, Repinned
  <2> QED
    BY <1>1, <1>2, <1>3, <1>4, <1>7, <2>1 DEF Follows
<1> QED
  BY <1>1, <1>5, <1>6, <1>7, OperationsAssumption

----------------------------------------------------------------------------
(* The invariant *)

LEMMA InitPrepared == Init => Prepared
  BY DEF Init, Prepared, Untorn, Idle

LEMMA NextPrepared ==
  TypeOK /\ Coherent /\ Prepared /\ [Next /\ NoTornRead]_vars => Prepared'
<1> SUFFICES ASSUME TypeOK, Coherent, Prepared, [Next /\ NoTornRead]_vars PROVE Prepared'
  OBVIOUS
<1>1. \A k \in Jobs : Untorn(job[k], object.etag)
  BY DEF Prepared
<1>2. CASE UNCHANGED vars
  BY <1>1, <1>2 DEF vars, Prepared
<1> SUFFICES ASSUME Next, NoTornRead PROVE Prepared'
  BY <1>2
\* A job that does not move keeps what it holds.
<1>3. ASSUME NEW k \in Jobs, job'[k] = job[k] PROVE Untorn(job'[k], object'.etag)
  <2>1. job[k].pc = "head" => object' = object
    BY DEF NoTornRead
  <2> QED
    BY <1>1, <1>3, <2>1 DEF Untorn
<1>4. ASSUME NEW j \in Jobs, Untorn(job'[j], object'.etag),
             \A k \in Jobs : k # j => job'[k] = job[k]
      PROVE  Prepared'
  BY <1>3, <1>4 DEF Prepared
<1>5. ASSUME NEW j \in Jobs, NEW op \in Operations, GetManifest(j, op) PROVE Prepared'
  <2>1. object' = object
    BY <1>5, Zenon DEF GetManifest, storeVars
  <2>2. Untorn(job'[j], object'.etag)
    BY <1>5, <2>1, GetStep DEF Untorn, Absent
  <2> QED
    BY <1>4, <1>5, <2>2, GetStep
<1>6. ASSUME NEW j \in Jobs, HeadManifest(j) PROVE Prepared'
  <2>1. object' = object /\ job[j].pc = "head"
    BY <1>6 DEF HeadManifest, storeVars
  <2>2. job[j].at = object.etag
    BY <1>1, <2>1 DEF Untorn
  <2>3. Untorn(job'[j], object'.etag)
    BY <1>6, <2>1, <2>2, HeadStep, HeadFollows DEF Untorn
  <2> QED
    BY <1>4, <1>6, <2>3, HeadStep
<1>7. ASSUME NEW j \in Jobs, ListMetadata(j) PROVE Prepared'
  <2>1. object' = object /\ job[j].pc = "list"
    BY <1>7 DEF ListMetadata, storeVars
  <2>2. job[j].etag = job[j].at
    BY <1>1, <2>1 DEF Untorn
  <2>3. Untorn(job'[j], object'.etag)
    BY <1>7, <2>1, <2>2, ListStep DEF Untorn
  <2> QED
    BY <1>4, <1>7, <2>3, ListStep
<1>8. ASSUME NEW j \in Jobs, SizeObjects(j) PROVE Prepared'
  <2>1. job[j].pc = "size"
    BY <1>8 DEF SizeObjects
  <2>2. job[j].etag = job[j].at
    BY <1>1, <2>1 DEF Untorn
  <2>3. Untorn(job'[j], object'.etag)
    BY <1>8, <2>1, <2>2, SizeStep, SizeFollows DEF Untorn
  <2> QED
    BY <1>4, <1>8, <2>3, SizeStep
<1>9. ASSUME NEW j \in Jobs, PutAccepted(j) \/ PutRefused(j) \/ Crash(j) PROVE Prepared'
  <2>1. Untorn(job'[j], object'.etag)
    BY <1>9, LastStep DEF Untorn
  <2> QED
    BY <1>4, <1>9, <2>1, LastStep
<1>10. CASE WriteData \/ DeleteManifest
  <2>1. job' = job
    BY <1>10 DEF WriteData, DeleteManifest
  <2> QED
    BY <1>3, <2>1 DEF Prepared
<1> QED
  BY <1>5, <1>6, <1>7, <1>8, <1>9, <1>10 DEF Next, JobStep

----------------------------------------------------------------------------
(* The refinement *)

\* A put that lands is one operation on the register.
LEMMA PutIsOneOperation ==
  ASSUME TypeOK, Coherent, Prepared, [Next]_vars, ConditionalUpdate,
         NEW j \in Jobs, PutAccepted(j)
  PROVE  R!Next
<1>1. /\ job[j].pc = "put" /\ job[j].etag = job[j].at /\ Follows(job[j].base, job[j].next)
      /\ object'.body = job[j].next
  BY DEF Prepared, Untorn, PutAccepted, Store
<1>2. Landed(j) /\ ~Torn(j)
  <2>1. writes' # writes
    BY DEF PutAccepted, Store, TypeOK
  <2> QED
    BY <1>1, <2>1, LastStep DEF Landed, Torn
<1>3. object.body = job[j].base
  BY <1>2, LandingReplacesWhatWasRead
<1>4. Follows(object.body, object'.body)
  BY <1>1, <1>3
<1> QED
  BY <1>4 DEF Follows, R!Next, R!First, R!Recut, R!Extend, R!Pin, R!Unpin, R!Repin, R!Exists,
              R!Bumped, Exists, Bumped

LEMMA StepRefines ==
  ASSUME TypeOK, Coherent, Prepared, [Next /\ NoTornRead]_vars, ConditionalUpdate
  PROVE  [R!Next]_(object.body)
<1>1. ASSUME NEW j \in Jobs, PutAccepted(j) PROVE R!Next
  BY <1>1, PutIsOneOperation
<1>2. CASE DeleteManifest
  BY <1>2 DEF DeleteManifest, Delete, Absent, R!Next, R!Delete, R!Nothing, Nothing
<1>3. ASSUME NEW j \in Jobs, NEW op \in Operations, GetManifest(j, op) PROVE object' = object
  BY <1>3, Zenon DEF GetManifest, storeVars
<1>4. ASSUME NEW j \in Jobs, HeadManifest(j) PROVE object' = object
  BY <1>4, Zenon DEF HeadManifest, storeVars
<1>5. ASSUME NEW j \in Jobs, SizeObjects(j) PROVE object' = object
  BY <1>5, Zenon DEF SizeObjects, storeVars
<1>6. ASSUME NEW j \in Jobs, ListMetadata(j) \/ PutRefused(j) \/ Crash(j) PROVE object' = object
  BY <1>6 DEF ListMetadata, PutRefused, Crash, storeVars
<1>7. CASE WriteData \/ UNCHANGED vars
  BY <1>7 DEF WriteData, storeVars, vars
<1> QED
  BY <1>1, <1>2, <1>3, <1>4, <1>5, <1>6, <1>7 DEF Next, JobStep

\* Jobs that race over one manifest with conditional writes, crash anywhere and lose
\* replies look, to whoever reads the manifest, like operations done one at a time,
\* as long as no write lands between the two requests of a read.
THEOREM Implementation == ConditionalUpdate => (AtomicReadSpec => ImplementsRegister)
<1> SUFFICES ASSUME ConditionalUpdate PROVE AtomicReadSpec => R!Spec
  BY DEF ImplementsRegister
<1>1. Init => TypeOK /\ Coherent /\ Prepared
  BY InitTypeOK, InitCoherent, InitPrepared
<1>2. TypeOK /\ Coherent /\ Prepared /\ [Next /\ NoTornRead]_vars
        => (TypeOK /\ Coherent /\ Prepared)'
  BY NextTypeOK, NextCoherent, NextPrepared
<1>3. Init => R!Init
  BY DEF Init, StoreInit, Absent, R!Init, R!Nothing, Nothing
<1>4. TypeOK /\ Coherent /\ Prepared /\ [Next /\ NoTornRead]_vars => [R!Next]_(object.body)
  BY StepRefines
<1> QED
  BY <1>1, <1>2, <1>3, <1>4, PTL DEF AtomicReadSpec, R!Spec
=============================================================================
