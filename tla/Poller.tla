------------------------------- MODULE Poller -------------------------------
(***************************************************************************)
(* Event discovery: the loop of src/blobmap/discover/events.py, which reads *)
(* a notification table through a cursor, notes the stores that were       *)
(* written, waits until one has been quiet and hands it to partition_store. *)
(* Around it are the writer of the stores, the delivery of notifications   *)
(* into the table, the clock, and faults.                                  *)
(*                                                                         *)
(* The cursor and the pending set are in SQLite, each statement committed  *)
(* by itself; everything else the process knows is lost with it.  One step *)
(* is one request or statement with what is computed from it:              *)
(*    StartPoll    the time of the poll and the cursor, after the sleep or *)
(*                 the start                                               *)
(*    Select       the SELECT of a batch                                   *)
(*    Consume      one row: the climb to its store's root, and the touch   *)
(*    SavePosition the cursor, and after the last batch the due scopes, or *)
(*                 else the time of the next poll                          *)
(*    ListStore, Return...  partition_store on the first due scope, of     *)
(*                 which only what it listed and how it ended matter here; *)
(*                 Service takes it apart                                  *)
(*    Clear        the DELETE from the pending set                         *)
(*                                                                         *)
(* Times are ages, counted up to quiet_seconds, beyond which they decide   *)
(* nothing.                                                                *)
(***************************************************************************)
EXTENDS Discovery

CONSTANTS
    Nodes,             \* the nodes of all stores, as absolute paths
    Rank,              \* Rank[n]: n's place in the order of SQLite's ORDER BY
    Noise,             \* events other than a user's creation of a metadata object
    IgnorePrincipals,  \* PollConfig.ignore_principals
    Broken,            \* scopes whose handler always raises
    Batch,             \* PollConfig.batch
    Quiet,             \* PollConfig.quiet_seconds
    MaxRows,           \* bound: rows of the notification table
    MaxFaults          \* bound: crashes, failed runs and lost races

ASSUME NodesAssumption ==
    /\ IsFiniteSet(Nodes) /\ Nodes \subseteq Seq(STRING)
    /\ Rank \in [Nodes -> Nat]
ASSUME BatchAssumption == Batch \in Nat \ {0} /\ Quiet \in Nat
ASSUME BoundsAssumption == MaxRows \in Nat /\ MaxFaults \in Nat

VARIABLES
    age,       \* age[n]: since n's metadata was written, Never if it was not
    spool,     \* events not yet delivered
    table,     \* the rows by id, [event, state]
    position,  \* the cursor: the last id consumed
    pending,   \* pending[s]: since s was last seen written, Never if not pending
    pc,        \* where the loop is
    rows,      \* ids of the batch still to consume
    polled,    \* poll_once's now: since it was taken, Never outside poll_once
    reached,   \* poll_once's own position
    full,      \* whether the batch was full
    due,       \* the due scopes still to hand over, the first of them at work
    reads,     \* the nodes the handler's run listed
    listed,    \* ghost: nodes taken into account by a run that got through
    outrun,    \* ghost: nodes listed by a run that lost a race for the manifest
    overlaps,  \* ghost: nodes written while the poll that read of them last was under
               \* way, until they are quiet
    faults     \* faults so far

storeVars == <<age, spool>>
stateVars == <<position, pending>>
localVars == <<pc, polled, rows, reached, full, due, reads>>
ghostVars == <<listed, outrun, overlaps>>
vars == <<storeVars, table, stateVars, localVars, ghostVars, faults>>

Never == -1

Written == {n \in Nodes : age[n] # Never}

Init ==
    /\ age = [n \in Nodes |-> Never] /\ spool = {} /\ table = <<>>
    /\ position = 0 /\ pending = [s \in Nodes |-> Never]
    /\ pc = "handle" /\ polled = Never /\ rows = {} /\ reached = 0 /\ full = FALSE
    /\ due = {} /\ reads = {}
    /\ listed = {} /\ outrun = {} /\ overlaps = {} /\ faults = 0

----------------------------------------------------------------------------
(* Stores, notifications, time *)

Created(n) == [node |-> n, object |-> "metadata", name |-> "created", principal |-> "user"]

\* A node's metadata is written; members may come before their group.
Write(n) ==
    /\ age[n] = Never
    /\ age' = [age EXCEPT ![n] = 0]
    /\ spool' = spool \cup {Created(n)}
    /\ UNCHANGED <<table, stateVars, localVars, ghostVars, faults>>

Visible(id) == table[id].state # "open"

\* An event is inserted into the table: it has an id, and is visible once its
\* transaction commits.  The spool delivers at least once.
Insert(e) ==
    /\ Len(table) < MaxRows
    /\ table' = Append(table, [event |-> e, state |-> "open"])
    /\ spool' \in {spool, spool \ {e}}
    /\ UNCHANGED <<age, stateVars, localVars, ghostVars, faults>>

\* "late": a row with a higher id was visible before, and the cursor may be past it.
Commit(id) ==
    /\ ~Visible(id)
    /\ table' = [table EXCEPT ![id].state =
            IF \E later \in DOMAIN table : later > id /\ Visible(later) THEN "late" ELSE "visible"]
    /\ UNCHANGED <<storeVars, stateVars, localVars, ghostVars, faults>>

Older(a) == IF a \in {Never, Quiet} THEN a ELSE a + 1

Tick ==
    /\ age' = [n \in Nodes |-> Older(age[n])]
    /\ pending' = [s \in Nodes |-> Older(pending[s])]
    /\ polled' = Older(polled)
    /\ overlaps' = {n \in overlaps : age'[n] # Quiet}
    /\ UNCHANGED <<spool, table, position, pc, rows, reached, full, due, reads, listed, outrun, faults>>

----------------------------------------------------------------------------
(* poll_once, drain *)

\* The parent of a metadata object; chunks are nobody's business here.
StoreOf(e) == IF e.object = "metadata" THEN e.node ELSE NoScope

Interesting(e) ==
    /\ e.principal \notin IgnorePrincipals
    /\ e.name = "created"
    /\ StoreOf(e) # NoScope

ASSUME NoiseAssumption == \A e \in Noise : ~Interesting(e)

\* Mutant: the last row is read again.
UnreadAgain == {id \in DOMAIN table : Visible(id) /\ id >= position}

Unread == {id \in DOMAIN table : Visible(id) /\ id > position}

\* ORDER BY id LIMIT batch
Lowest(ids, n) == {id \in ids : Cardinality({i \in ids : i <= id}) <= n}

\* Every due scope had its turn, or the process has just begun.  The time of a poll is
\* taken before it reads anything, and stands for all that it reads.
StartPoll ==
    /\ pc = "handle" /\ due = {}
    /\ pc' = "poll"
    /\ polled' = 0
    /\ reached' = position
    /\ UNCHANGED <<storeVars, table, stateVars, rows, full, due, reads, ghostVars, faults>>

\* Mutant: the cursor moves before the batch is consumed.
SelectAndSave ==
    /\ pc = "poll"
    /\ pc' = "read"
    /\ rows' = Lowest(Unread, Batch)
    /\ full' = (Cardinality(Unread) >= Batch)
    /\ position' = Max(rows' \cup {position})
    /\ UNCHANGED <<storeVars, table, pending, polled, reached, due, reads, ghostVars, faults>>

Select ==
    /\ pc = "poll"
    /\ pc' = "read"
    /\ rows' = Lowest(Unread, Batch)
    /\ full' = (Cardinality(Unread) >= Batch)
    /\ UNCHANGED <<storeVars, table, stateVars, polled, reached, due, reads, ghostVars, faults>>

\* Mutant: a scope that is pending keeps its time.
TouchedOnce(scope) == [pending EXCEPT ![scope] = IF @ = Never THEN polled ELSE @]

Touched(scope) == [pending EXCEPT ![scope] = polled]

\* Of the writes read, those younger than the poll.
Overlapping(n) == IF age[n] < polled THEN overlaps \cup {n} ELSE overlaps \ {n}

Consume ==
    /\ pc = "read" /\ rows # {}
    /\ LET id == Min(rows)
           e == table[id].event
           scope == FindStoreRoot(Written, StoreOf(e))
       IN /\ rows' = rows \ {id}
          /\ reached' = id
          /\ pending' = IF Interesting(e) /\ scope # NoScope THEN Touched(scope) ELSE pending
          /\ overlaps' = IF Interesting(e) THEN Overlapping(e.node) ELSE overlaps
    /\ UNCHANGED <<storeVars, table, position, pc, polled, full, due, reads, listed, outrun, faults>>

Due == {s \in Nodes : pending[s] = Quiet}

First(scopes) == CHOOSE s \in scopes : \A o \in scopes : Rank[s] <= Rank[o]

\* A short batch ends the drain, and what has been quiet is due.
SavePosition ==
    /\ pc = "read" /\ rows = {}
    /\ position' = reached
    /\ IF full THEN pc' = "poll" /\ polled' = 0 /\ UNCHANGED <<reached, due>>
       ELSE pc' = "handle" /\ polled' = Never /\ reached' = 0 /\ due' = Due
    /\ full' = FALSE
    /\ UNCHANGED <<storeVars, table, pending, rows, reads, ghostVars, faults>>

----------------------------------------------------------------------------
(* step: the handler on each due scope *)

ListStore ==
    /\ pc = "handle" /\ due # {} /\ First(due) \notin Broken
    /\ pc' = "put"
    /\ reads' = {n \in Written : IsPrefix(First(due), n)}
    /\ UNCHANGED <<storeVars, table, stateVars, polled, rows, reached, full, due, ghostVars, faults>>

\* The run returns: the manifest it wrote, or the unchanged one, accounts for
\* everything it listed.
ReturnDone ==
    /\ pc = "put"
    /\ pc' = "clear"
    /\ listed' = listed \cup reads
    /\ UNCHANGED <<storeVars, table, stateVars, polled, rows, reached, full, due, reads, outrun, overlaps, faults>>

\* The run returns as well when the manifest changed underneath it: partition_store
\* swallows the Conflict and reports written=False, which step ignores.
ReturnConflict ==
    /\ pc = "put" /\ faults < MaxFaults
    /\ faults' = faults + 1
    /\ pc' = "clear"
    /\ outrun' = outrun \cup reads
    /\ UNCHANGED <<storeVars, table, stateVars, polled, rows, reached, full, due, reads, listed, overlaps>>

\* Mutant: a failing handler ends the step's loop.
RaiseAndBreak ==
    /\ pc \in {"handle", "put"} /\ due # {}
    /\ \/ First(due) \in Broken /\ UNCHANGED faults
       \/ faults < MaxFaults /\ faults' = faults + 1
    /\ pc' = "handle" /\ due' = {} /\ reads' = {}
    /\ UNCHANGED <<storeVars, table, stateVars, polled, rows, reached, full, ghostVars>>

\* A handler that raised is logged; its scope stays pending, the others follow.
Raise ==
    /\ pc \in {"handle", "put"} /\ due # {}
    /\ \/ First(due) \in Broken /\ UNCHANGED faults
       \/ faults < MaxFaults /\ faults' = faults + 1
    /\ pc' = "handle" /\ due' = due \ {First(due)} /\ reads' = {}
    /\ UNCHANGED <<storeVars, table, stateVars, polled, rows, reached, full, ghostVars>>

Clear ==
    /\ pc = "clear"
    /\ pending' = [pending EXCEPT ![First(due)] = Never]
    /\ pc' = "handle" /\ due' = due \ {First(due)} /\ reads' = {}
    /\ UNCHANGED <<storeVars, table, position, polled, rows, reached, full, ghostVars, faults>>

\* The process dies, also when root_of raises, which nothing catches, and starts
\* again on the state file it left or on a fresh one, the default being in memory.
Crash ==
    /\ faults < MaxFaults
    /\ faults' = faults + 1
    /\ pc' = "handle" /\ polled' = Never /\ rows' = {} /\ reached' = 0 /\ full' = FALSE
    /\ due' = {} /\ reads' = {}
    /\ \/ UNCHANGED stateVars
       \/ position' = 0 /\ pending' = [s \in Nodes |-> Never]
    /\ UNCHANGED <<storeVars, table, ghostVars>>

Step == \/ StartPoll \/ Select \/ Consume \/ SavePosition
        \/ ListStore \/ ReturnDone \/ ReturnConflict \/ Raise \/ Clear

Next == \/ \E n \in Nodes : Write(n)
        \/ \E e \in spool \cup Noise : Insert(e)
        \/ \E id \in DOMAIN table : Commit(id)
        \/ Tick \/ Step \/ Crash

Spec == Init /\ [][Next]_vars

\* The loop never blocks: every request returns or raises.  Time passes.  No fairness is
\* asked of writers, of delivery or of faults; faults end at MaxFaults.
Fairness == WF_vars(Step) /\ WF_vars(Tick)

FairSpec == Spec /\ Fairness

----------------------------------------------------------------------------
(* Properties *)

Age == {Never} \cup 0..Quiet

Events == {Created(n) : n \in Nodes} \cup Noise

\* Every variable has its type; a batch is made of rows that can be read, beyond the
\* cursor and beyond what was consumed of the batch already.
TypeOK ==
    /\ age \in [Nodes -> Age] /\ pending \in [Nodes -> Age] /\ polled \in Age
    /\ spool \subseteq Events
    /\ table \in Seq([event : Events, state : {"open", "visible", "late"}])
    /\ position \in 0..Len(table) /\ reached \in 0..Len(table)
    /\ rows \subseteq {id \in DOMAIN table : Visible(id) /\ id > reached}
    /\ pc # "read" => rows = {}
    /\ pc = "poll" => reached = position
    /\ pc \in {"poll", "read", "handle", "put", "clear"}
    /\ polled = Never <=> pc \notin {"poll", "read"}
    /\ full \in BOOLEAN /\ faults \in 0..MaxFaults
    /\ due \subseteq Nodes
    /\ pc \in {"put", "clear"} => due # {}
    /\ reads \subseteq Nodes /\ listed \subseteq Nodes /\ outrun \subseteq Nodes
    /\ overlaps \subseteq Nodes

\* What the table said about n has not been lost: a run has accounted for n, or a
\* scope n lies in is still pending.
Remembered(n) ==
    \/ n \in listed \cup outrun
    \/ \E s \in Nodes : IsPrefix(s, n) /\ pending[s] # Never

\* Rows a cursor can rely on: they were visible before any row with a higher id.
Announces(id, n) ==
    table[id].state = "visible" /\ Interesting(table[id].event) /\ table[id].event.node = n

\* Whatever the process was doing when it died, and however often it did, a write the
\* cursor has passed is accounted for or still pending: the cursor is saved only after
\* the whole batch was touched, and a scope is cleared only after a run that listed it.
NothingForgotten ==
    \A id \in DOMAIN table, n \in Nodes :
        id <= position /\ Announces(id, n) => Remembered(n)

\* events.py:211: a store is found due only if it has been quiet: none of the writes
\* in it that were read is younger than quiet_seconds, whatever came between them, but
\* for those that landed while the poll that read of them was under way: its time is
\* taken before its SELECT, and for them the quiet is short by what the poll took.
\* (Not so either for a scope that was a root when it was touched and is one no more:
\* later writes below it touch the new root.  And writes not yet delivered decide nothing.)
DueIsQuiet ==
    [][pc = "read" /\ pc' = "handle" =>
        \A s \in due', id \in 1..position', n \in Nodes \ overlaps :
            FindStoreRoot(Written, s) = s /\ Announces(id, n) /\ IsPrefix(s, n)
                => age[n] = Quiet]_vars

Unlucky(n) == \E s \in Broken : IsPrefix(s, n)

\* A write whose row can be read is in the end accounted for by a partition run, though
\* processes die, runs fail, the state file is lost and other stores fail for ever; or
\* else a run that had listed it lost a race, and nothing runs again.
EventuallyPartitioned ==
    \A n \in Nodes :
        (~Unlucky(n) /\ \E id \in DOMAIN table : id > position /\ Announces(id, n))
            ~> n \in listed \cup outrun

\* design.md:111, events.py:91: with root_of, no sub-array is handed to the partitioner:
\* the scope a run is started for is the outermost prefix with metadata.
OnlyRootsHanded ==
    [][pc = "handle" /\ pc' = "put" => FindStoreRoot(Written, First(due)) = First(due)]_vars
=============================================================================
