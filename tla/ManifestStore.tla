--------------------------- MODULE ManifestStore ---------------------------
(***************************************************************************)
(* The manifest object of one scope, as src/blobmap/manifests.py reads and *)
(* writes it through src/blobmap/storage.py.  An etag is the number of the *)
(* write that stored the object, so it never comes back; NoEtag is None.   *)
(***************************************************************************)
EXTENDS Model

CONSTANT ConditionalUpdate
    \* Whether the backend has If-Match updates.  Without them (LocalStore)
    \* put_bytes warns and overwrites.

ASSUME ConditionalUpdateAssumption == ConditionalUpdate \in BOOLEAN

VARIABLES
    object,  \* [body, etag]: the stored object, Absent if there is none
    writes   \* how many writes have landed

storeVars == <<object, writes>>

NoEtag == 0
Absent == [body |-> Nothing, etag |-> NoEtag]

StoreInit == object = Absent /\ writes = 0

----------------------------------------------------------------------------

\* Mutant: a first write takes no precondition.
PutModeUnguarded(etag, expectAbsent) == IF etag # NoEtag THEN "match" ELSE "overwrite"

\* The precondition put_bytes asks the backend for.
PutMode(etag, expectAbsent) ==
    IF expectAbsent THEN "create" ELSE IF etag # NoEtag THEN "match" ELSE "overwrite"

\* Whether the backend accepts the put.
Accepts(mode, etag) ==
    \/ mode = "create" /\ object = Absent
    \/ mode = "match" /\ (ConditionalUpdate => object.etag = etag)
    \/ mode = "overwrite"

Store(manifest) ==
    /\ writes' = writes + 1
    /\ object' = [body |-> manifest, etag |-> writes + 1]

\* An operator deletes the manifest object, as docs/schema.md advises for one that
\* an older schema wrote.
Delete ==
    /\ object # Absent
    /\ object' = Absent
    /\ UNCHANGED writes
=============================================================================
