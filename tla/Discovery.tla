----------------------------- MODULE Discovery -----------------------------
(***************************************************************************)
(* Where a store begins: the two ways of finding out, climbing from a node *)
(* whose metadata was written (find_store_root in hierarchy.py, for        *)
(* events) and descending from a prefix (discover/scan.py).  `written` is  *)
(* the set of the nodes with a metadata object, of either format.          *)
(***************************************************************************)
EXTENDS Model

CONSTANTS
    ExcludedNames,  \* DEFAULT_EXCLUDE
    MaxDepth        \* max_depth of a scan

ASSUME MaxDepthAssumption == MaxDepth \in Nat

\* No scope.  The bucket itself, <<>>, is one the climb never considers.
NoScope == <<>>

Excluded(path) == \E i \in DOMAIN path : path[i] \in ExcludedNames

----------------------------------------------------------------------------
(* Climbing *)

\* The outermost prefix on the way up that holds metadata.
FindStoreRoot(written, node) ==
    LET found == {p \in written : p # <<>> /\ IsPrefix(p, node)}
    IN IF found = {} THEN NoScope
       ELSE CHOOSE p \in found : \A q \in found : Len(p) <= Len(q)

----------------------------------------------------------------------------
(* Descending *)

\* What a delimited LIST finds one level below a prefix.
Children(written, path) ==
    {SubSeq(p, 1, Len(path) + 1) :
        p \in {q \in written : IsStrictPrefix(path, q)}}

\* Mutant: one level too many.
DescendsFurther(written, path, depth) == ~Excluded(path) /\ path \notin written /\ depth <= MaxDepth

\* A prefix is searched below unless it is excluded, a store, or as deep as the
\* budget allows.
Descends(written, path, depth) == ~Excluded(path) /\ path \notin written /\ depth < MaxDepth
=============================================================================
