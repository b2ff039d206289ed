----------------------------- MODULE Hierarchy -----------------------------
(***************************************************************************)
(* What src/blobmap/hierarchy.py makes of a zarr store: read_arrays lists  *)
(* the scope twice, once for the metadata objects of its nodes and once to *)
(* add up the sizes of the data objects below each array.                  *)
(*                                                                         *)
(* A node's parsed metadata is a record [kind, shape, object, inner,       *)
(* itemsize, dims, encoding, written]: `object` is the declared chunk grid,*)
(* `inner` the chunk shape of a sharding codec or <<>>, `dims` the value   *)
(* of _ARRAY_DIMENSIONS or <<>>, `encoding` the declared key encoding and  *)
(* `written` the one the writer of the chunks really used.                 *)
(***************************************************************************)
EXTENDS Model

CONSTANTS
    Nodes,       \* the groups and arrays of the store
    Path,        \* Path[n]: a node's path relative to the scope
    Order,       \* the nodes in the order of their paths
    Layout,      \* Layout[n]: the successive metadata of a node, oldest first
    ObjectSize,  \* ObjectSize[n]: the stored size of one of its data objects
    MaxObjects   \* bound: MaxObjects[n] data objects of a node

\* The fields of a node's parsed metadata.
MetadataFields ==
    [kind: {"group", "array"}, shape: Seq(Nat), object: Seq(Nat \ {0}),
     inner: Seq(Nat \ {0}), itemsize: Nat \ {0}, dims: Seq(STRING),
     encoding: KEY_ENCODINGS, written: KEY_ENCODINGS]

\* Chunks and inner chunks extend along the dimensions of their array.
AlignedFields ==
    {meta \in MetadataFields : /\ Len(meta.object) = Len(meta.shape)
                               /\ meta.inner # <<>> => Len(meta.inner) = Len(meta.shape)}

\* Whether some metadata of a node makes it an array.
MayBeArray(n) == \E i \in DOMAIN Layout[n] : Layout[n][i].kind = "array"

\* Stores as zarr's writers make them: every node at one place of the order, chunks
\* of as many dimensions as their array, and nothing below an array but its chunks.
ASSUME LayoutAssumption ==
    /\ Order \in Seq(Nodes)
    /\ \A i, j \in DOMAIN Order : Order[i] = Order[j] => i = j
    /\ \A n \in Nodes :
          /\ ObjectSize[n] \in Nat
          /\ Layout[n] \in Seq(MetadataFields)
          /\ \A i \in DOMAIN Layout[n] : Layout[n][i].kind = "array" =>
                Layout[n][i] \in AlignedFields
    /\ \A n, m \in Nodes :
          n # m /\ MayBeArray(n) /\ MayBeArray(m) => ~IsPrefix(Path[n], Path[m])

VARIABLES
    version,  \* version[n]: which of Layout[n] is stored, 0 for none
    count     \* count[n]: data objects stored for n

dataVars == <<version, count>>

DataInit == /\ version = [n \in Nodes |-> 0]
            /\ count = [n \in Nodes |-> 0]

\* The store's writer: it creates or rewrites a node's metadata object, and adds
\* data objects, in any order and at any time.
WriteMetadata(n) ==
    /\ version[n] < Len(Layout[n])
    /\ version' = [version EXCEPT ![n] = @ + 1]
    /\ UNCHANGED count

WriteObject(n) ==
    /\ count[n] < MaxObjects[n]
    /\ count' = [count EXCEPT ![n] = @ + 1]
    /\ UNCHANGED version

----------------------------------------------------------------------------

\* The keys win over the declared encoding, but only decisive ones count: for a
\* one-dimensional array both v2 encodings write the same key.
ObservedEncoding(meta, seen) ==
    IF seen > 0 /\ (meta.written = "v3_slash" \/ Len(meta.shape) > 1)
    THEN meta.written ELSE meta.encoding

\* A dimension coordinate is one-dimensional and named after its dimension.
IsCoordinate(path, meta) ==
    Len(meta.shape) = 1 /\ path # <<>> /\ meta.dims = <<Last(path)>>

ToArray(path, meta, seen, size) ==
    [path       |-> path,
     shape      |-> meta.shape,
     chunks     |-> IF meta.inner # <<>> THEN meta.inner ELSE meta.object,
     shards     |-> IF meta.inner \notin {<<>>, meta.object} THEN meta.object ELSE <<>>,
     itemsize   |-> meta.itemsize,
     stored     |-> seen * size,
     seen       |-> seen,
     coordinate |-> IsCoordinate(path, meta),
     encoding   |-> ObservedEncoding(meta, seen)]

\* The nodes that pass one finds to be arrays, in order.
Found(metadata) ==
    Kept(Order, {n \in Nodes : metadata[n] # 0 /\ Layout[n][metadata[n]].kind = "array"})

\* The result of the two passes: the arrays of pass one, with the objects that pass
\* two counted for them.
Listing(metadata, counts) ==
    [i \in DOMAIN Found(metadata) |->
        LET n == Found(metadata)[i]
        IN ToArray(Path[n], Layout[n][metadata[n]], counts[n], ObjectSize[n])]
=============================================================================
