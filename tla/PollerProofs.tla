---------------------------- MODULE PollerProofs ----------------------------
(***************************************************************************)
(* Proofs about Poller, for any nodes, events, batch size, quiet time and  *)
(* number of faults.                                                       *)
(***************************************************************************)
EXTENDS Poller, DiscoveryProofs, FiniteSetTheorems

----------------------------------------------------------------------------
(* Operators *)

\* What Min picks.
LEMMA MinIsLeast ==
  ASSUME NEW ids \in SUBSET Nat, ids # {}
  PROVE  Min(ids) \in ids /\ \A id \in ids : Min(ids) <= id
  BY LeastNatural DEF Min

\* What First picks.
LEMMA FirstIsMember ==
  ASSUME NEW scopes \in SUBSET Nodes, scopes # {}
  PROVE  First(scopes) \in scopes
<1> DEFINE ranks == {Rank[s] : s \in scopes}
<1>1. ranks \in SUBSET Nat /\ ranks # {}
  BY NodesAssumption
<1>2. PICK k \in ranks : \A l \in ranks : k <= l
  BY <1>1, LeastNatural
<1> QED
  BY <1>2 DEF First

\* LIMIT takes lower ids before higher ones.
LEMMA LowestIsLower ==
  ASSUME NEW ids \in SUBSET Nat, IsFiniteSet(ids), NEW n \in Nat,
         NEW high \in Lowest(ids, n), NEW low \in ids, low < high
  PROVE  low \in Lowest(ids, n)
<1> DEFINE Upto(k) == {i \in ids : i <= k}
<1>1. Upto(low) \in SUBSET Upto(high)
  <2>1. high \in ids /\ high \in Nat /\ low \in Nat
    BY DEF Lowest
  <2>2. \A i \in Upto(low) : i \in Nat /\ i <= high
    BY <2>1
  <2> QED
    BY <2>2
<1>2. IsFiniteSet(Upto(high))
  BY FS_Subset
<1>3. /\ Cardinality(Upto(low)) <= Cardinality(Upto(high))
      /\ Cardinality(Upto(high)) \in Nat /\ Cardinality(Upto(low)) \in Nat
  BY <1>1, <1>2, FS_Subset, FS_CardinalityType
<1>4. Cardinality(Upto(high)) <= n
  BY DEF Lowest
<1> QED
  BY <1>3, <1>4 DEF Lowest

----------------------------------------------------------------------------
(* Types *)

LEMMA TypeInit == Init => TypeOK
<1> SUFFICES ASSUME Init PROVE TypeOK
  OBVIOUS
<1>1. /\ age \in [Nodes -> Age] /\ pending \in [Nodes -> Age]
      /\ spool \subseteq Events
  BY DEF Init, Age
<1>2. table \in Seq([event : Events, state : {"open", "visible", "late"}])
  BY DEF Init
<1>3. Len(table) = 0
  BY DEF Init
<1>4. faults \in 0..MaxFaults
  BY BoundsAssumption DEF Init
<1>5. full \in BOOLEAN
  BY DEF Init
<1>6. /\ position \in 0..Len(table) /\ reached \in 0..Len(table)
      /\ rows = {} /\ pc = "handle" /\ polled = Never /\ due = {} /\ reads = {}
      /\ listed = {} /\ outrun = {} /\ overlaps = {}
  BY <1>3 DEF Init
<1> QED
  BY <1>1, <1>2, <1>4, <1>5, <1>6 DEF TypeOK, Age

\* Growing a table or the visibility of a row takes nothing readable away.
LEMMA TypeStep == TypeOK /\ [Next]_vars => TypeOK'
<1> SUFFICES ASSUME TypeOK, [Next]_vars PROVE TypeOK'
  OBVIOUS
<1> USE BoundsAssumption, BatchAssumption
<1>1. ASSUME NEW n \in Nodes, Write(n) PROVE TypeOK'
  BY <1>1 DEF TypeOK, Write, Age, Events, Visible, stateVars, localVars, ghostVars
<1>2. ASSUME NEW e \in spool \cup Noise, Insert(e) PROVE TypeOK'
  <2>1. e \in Events /\ spool' \subseteq Events
    BY <1>2 DEF TypeOK, Events, Insert
  <2>2. table' \in Seq([event : Events, state : {"open", "visible", "late"}])
    BY <1>2, <2>1 DEF TypeOK, Insert
  <2>3. /\ Len(table') = Len(table) + 1
        /\ \A id \in DOMAIN table : id \in DOMAIN table' /\ table'[id] = table[id]
    BY <1>2 DEF TypeOK, Insert
  <2> QED
    BY <1>2, <2>1, <2>2, <2>3 DEF TypeOK, Insert, Visible, stateVars, localVars, ghostVars
<1>3. ASSUME NEW id \in DOMAIN table, Commit(id) PROVE TypeOK'
  <2>1. table' \in Seq([event : Events, state : {"open", "visible", "late"}])
    <3>1. PICK new \in {"late", "visible"} : table' = [table EXCEPT ![id].state = new]
      BY <1>3 DEF Commit
    <3> DEFINE Row == [event : Events, state : {"open", "visible", "late"}]
    <3>2. table[id] \in Row
      <4>1. table \in Seq(Row)
        BY DEF TypeOK
      <4> HIDE DEF Row
      <4> QED
        BY <4>1
    <3>3. [table[id] EXCEPT !.state = new] \in Row
      BY <3>2
    <3> QED
      BY <3>1, <3>3 DEF TypeOK
  <2>2. /\ Len(table') = Len(table)
        /\ DOMAIN table' = DOMAIN table
        /\ \A i \in DOMAIN table : Visible(i) => table'[i].state # "open"
    BY <1>3 DEF TypeOK, Commit, Visible
  <2> QED
    BY <1>3, <2>1, <2>2 DEF TypeOK, Commit, Visible, storeVars, stateVars, localVars, ghostVars
<1>4. ASSUME Tick PROVE TypeOK'
  <2>1. /\ age' \in [Nodes -> Age] /\ pending' \in [Nodes -> Age] /\ polled' \in Age
        /\ polled' = Never <=> polled = Never
    BY <1>4 DEF TypeOK, Tick, Older, Age, Never
  <2>2. overlaps' \subseteq Nodes
    BY <1>4 DEF TypeOK, Tick
  <2> QED
    BY <1>4, <2>1, <2>2 DEF TypeOK, Tick, Visible
<1>5. ASSUME Select PROVE TypeOK'
  <2>1. /\ rows' = Lowest(Unread, Batch) /\ pc' = "read" /\ pc = "poll"
        /\ UNCHANGED <<storeVars, table, stateVars, polled, reached, due, reads, ghostVars, faults>>
    BY <1>5 DEF Select
  <2>2. reached = position
    BY <2>1 DEF TypeOK
  <2>3. rows' \subseteq {id \in DOMAIN table : Visible(id) /\ id > reached}
    BY <2>1, <2>2 DEF Lowest, Unread
  <2>4. full' \in BOOLEAN
    <3>1. full' = (Cardinality(Unread) >= Batch)
      BY <1>5 DEF Select
    <3> QED
      BY <3>1
  <2> QED
    BY <2>1, <2>3, <2>4 DEF TypeOK, Visible, storeVars, stateVars, ghostVars
<1>6. ASSUME Consume PROVE TypeOK'
  <2>1. rows \in SUBSET Nat
    BY DEF TypeOK
  <2>2. Min(rows) \in rows /\ \A id \in rows : Min(rows) <= id
    BY <1>6, <2>1, MinIsLeast DEF Consume
  <2>3. pending' \in [Nodes -> Age]
    <3> DEFINE scope == FindStoreRoot(Written, StoreOf(table[Min(rows)].event))
    <3>1. scope # NoScope => scope \in Nodes
      <4>1. Written \in SUBSET Seq(STRING) /\ Written \subseteq Nodes
        BY NodesAssumption DEF Written
      <4>2. CASE \E p \in Written : p # <<>> /\ IsPrefix(p, StoreOf(table[Min(rows)].event))
        BY <4>1, <4>2, RootIsWritten
      <4>3. CASE ~ \E p \in Written : p # <<>> /\ IsPrefix(p, StoreOf(table[Min(rows)].event))
        BY <4>3 DEF FindStoreRoot
      <4> QED
        BY <4>2, <4>3
    <3> QED
      BY <1>6, <3>1 DEF Consume, Touched, TypeOK, Age
  <2>4. /\ rows' = rows \ {Min(rows)} /\ reached' = Min(rows)
        /\ pc = "read"
        /\ UNCHANGED <<storeVars, table, position, pc, polled, full, due, reads, listed, outrun, faults>>
    BY <1>6 DEF Consume
  <2>5. reached' \in 0..Len(table)
    BY <2>2, <2>4 DEF TypeOK
  <2>6. \A id \in rows' : id \in DOMAIN table /\ Visible(id) /\ id > reached'
    <3>1. \A id \in rows : id \in DOMAIN table /\ Visible(id) /\ id \in Nat
      BY <2>1 DEF TypeOK
    <3>2. \A id \in rows : id # Min(rows) => id > Min(rows)
      <4> DEFINE m == Min(rows)
      <4>1. m \in Nat /\ \A id \in rows : id \in Nat /\ m <= id
        BY <2>1, <2>2
      <4> HIDE DEF m
      <4>2. \A id \in rows : id # m => id > m
        BY <4>1
      <4> QED
        BY <4>2 DEF m
    <3>3. rows' \subseteq rows /\ Min(rows) \notin rows' /\ reached' = Min(rows)
      BY <2>4
    <3> QED
      BY <3>1, <3>2, <3>3
  <2>7. overlaps' \subseteq Nodes
    <3> DEFINE e == table[Min(rows)].event
    <3>1. e \in Events
      <4>1. Min(rows) \in DOMAIN table
        BY <2>2 DEF TypeOK
      <4> DEFINE Row == [event : Events, state : {"open", "visible", "late"}]
      <4>2. table \in Seq(Row)
        BY DEF TypeOK
      <4>3. table[Min(rows)] \in Row
        <5> HIDE DEF Row
        <5> QED
          BY <4>1, <4>2
      <4> QED
        BY <4>3
    <3>2. Interesting(e) => e.node \in Nodes
      BY <3>1, NoiseAssumption DEF Events, Created
    <3>3. overlaps' = IF Interesting(e) THEN Overlapping(e.node) ELSE overlaps
      BY <1>6 DEF Consume
    <3> HIDE DEF e
    <3> QED
      BY <3>2, <3>3 DEF Overlapping, TypeOK
  <2> HIDE DEF Consume
  <2> QED
    BY <2>3, <2>4, <2>5, <2>6, <2>7 DEF TypeOK, Visible, storeVars
<1>7. ASSUME SavePosition PROVE TypeOK'
  <2>1. pc' \in {"poll", "handle"} /\ due' \subseteq Nodes
    BY <1>7 DEF TypeOK, SavePosition, Due
  <2>2. Len(table) \in Nat
    BY DEF TypeOK
  <2>3. /\ position' \in 0..Len(table) /\ reached' \in 0..Len(table) /\ rows' = {}
    BY <1>7, <2>2 DEF TypeOK, SavePosition
  <2>4. full' \in BOOLEAN
    BY <1>7, Zenon DEF SavePosition
  <2>5. /\ polled' \in Age /\ (polled' = Never <=> pc' \notin {"poll", "read"})
        /\ pc' = "poll" => reached' = position'
    BY <1>7 DEF SavePosition, Age, Never
  <2>6. UNCHANGED <<storeVars, table, pending, reads, ghostVars, faults>>
    BY <1>7 DEF SavePosition
  <2> QED
    BY <2>1, <2>3, <2>4, <2>5, <2>6 DEF TypeOK, storeVars, ghostVars
<1>8. ASSUME ListStore PROVE TypeOK'
  BY <1>8 DEF TypeOK, ListStore, Written, Visible, storeVars, stateVars, ghostVars
<1>9. ASSUME ReturnDone PROVE TypeOK'
  BY <1>9 DEF TypeOK, ReturnDone, Visible, storeVars, stateVars
<1>10. ASSUME ReturnConflict PROVE TypeOK'
  BY <1>10 DEF TypeOK, ReturnConflict, Visible, storeVars, stateVars
<1>11. ASSUME Raise PROVE TypeOK'
  BY <1>11 DEF TypeOK, Raise, Visible, storeVars, stateVars, ghostVars
<1>12. ASSUME Clear PROVE TypeOK'
  BY <1>12 DEF TypeOK, Clear, Age, Visible, storeVars, ghostVars
<1>13. ASSUME StartPoll PROVE TypeOK'
  BY <1>13 DEF TypeOK, StartPoll, Age, Never, Visible, storeVars, stateVars, ghostVars
<1>14. ASSUME Crash PROVE TypeOK'
  <2>1. Len(table) \in Nat
    BY DEF TypeOK
  <2>2. position' \in 0..Len(table) /\ pending' \in [Nodes -> Age]
    BY <1>14, <2>1 DEF TypeOK, Crash, Age, stateVars
  <2>3. faults' \in 0..MaxFaults
    BY <1>14 DEF TypeOK, Crash
  <2>4. full' \in BOOLEAN
    BY <1>14, Zenon DEF Crash
  <2>5. /\ UNCHANGED <<age, spool, table, listed, outrun, overlaps>> /\ pc' = "handle" /\ polled' = Never
        /\ rows' = {} /\ reached' = 0 /\ due' = {} /\ reads' = {}
    BY <1>14 DEF Crash, storeVars, ghostVars
  <2> QED
    BY <2>1, <2>2, <2>3, <2>4, <2>5 DEF TypeOK, Age
<1>15. ASSUME UNCHANGED vars PROVE TypeOK'
  BY <1>15 DEF TypeOK, Visible, vars, storeVars, stateVars, localVars, ghostVars
<1> QED
  BY <1>1, <1>2, <1>3, <1>4, <1>5, <1>6, <1>7, <1>8, <1>9, <1>10, <1>11, <1>12, <1>13, <1>14, <1>15
  DEF Next, Step

\* Every variable keeps its type, and no batch holds a row that is not committed or
\* was consumed before.
THEOREM TypeCorrect == Spec => []TypeOK
  BY TypeInit, TypeStep, PTL DEF Spec

----------------------------------------------------------------------------
(* Nothing is forgotten *)

\* The cursor is at a row that can be read, and the batch has every row up to its
\* last that the cursor may rely on.
Batches ==
    /\ position = 0 \/ Visible(position)
    /\ pc = "read" => /\ position <= reached
                      /\ reached = 0 \/ Visible(reached)
                      /\ \A id \in DOMAIN table, last \in rows :
                            reached < id /\ id < last /\ table[id].state = "visible" => id \in rows

\* Creations are announced of nodes that were written.
Sources ==
    /\ \A e \in spool : e \in Noise \/ \E n \in Written : e = Created(n)
    /\ \A id \in DOMAIN table :
          table[id].event \in Noise \/ \E n \in Written : table[id].event = Created(n)

\* What the cursor, saved or not, has passed.
Passed(id) == id <= position \/ (pc = "read" /\ id <= reached)

PassedRemembered ==
    \A id \in DOMAIN table, n \in Nodes : Passed(id) /\ Announces(id, n) => Remembered(n)

\* The run at work listed everything announced to the cursor below its scope, and once
\* it has returned all of that is accounted for.
AtWork ==
    /\ pc \in {"put", "clear"} =>
          \A id \in DOMAIN table, n \in Nodes :
              id <= position /\ Announces(id, n) /\ IsPrefix(First(due), n) => n \in reads
    /\ pc = "clear" => reads \subseteq listed \cup outrun

IInv == TypeOK /\ Batches /\ Sources /\ PassedRemembered /\ AtWork

LEMMA IInvInit == Init => IInv
<1> SUFFICES ASSUME Init PROVE IInv
  OBVIOUS
<1>1. table = <<>> /\ spool = {} /\ rows = {} /\ position = 0 /\ pc = "handle"
  BY DEF Init
<1>2. DOMAIN table = {}
  BY <1>1
<1> QED
  BY <1>1, <1>2, TypeInit DEF IInv, Batches, Sources, PassedRemembered, AtWork

\* Rows are only added and committed, and a row that becomes readable in its turn has
\* no readable row above it.
LEMMA TableGrows ==
  ASSUME TypeOK, [Next]_vars
  PROVE  /\ \A id \in DOMAIN table :
               /\ id \in DOMAIN table'
               /\ table'[id].event = table[id].event
               /\ Visible(id) => table'[id] = table[id]
         /\ \A id \in DOMAIN table' : table'[id].state = "visible" =>
               /\ id \in DOMAIN table
               /\ \/ table[id].state = "visible"
                  \/ ~Visible(id) /\ \A later \in DOMAIN table : Visible(later) => later < id
<1> DEFINE Grown == /\ \A id \in DOMAIN table :
                          /\ id \in DOMAIN table'
                          /\ table'[id].event = table[id].event
                          /\ Visible(id) => table'[id] = table[id]
                    /\ \A id \in DOMAIN table' : table'[id].state = "visible" =>
                          /\ id \in DOMAIN table
                          /\ \/ table[id].state = "visible"
                             \/ ~Visible(id) /\ \A later \in DOMAIN table : Visible(later) => later < id
<1>1. ASSUME UNCHANGED table PROVE Grown
  BY <1>1 DEF Visible
<1>2. ASSUME NEW e \in spool \cup Noise, Insert(e) PROVE Grown
  <2>1. /\ DOMAIN table' = DOMAIN table \cup {Len(table) + 1}
        /\ \A id \in DOMAIN table : table'[id] = table[id]
        /\ table'[Len(table) + 1].state = "open"
    BY <1>2 DEF TypeOK, Insert
  <2> QED
    BY <2>1 DEF Visible
<1>3. ASSUME NEW id \in DOMAIN table, Commit(id) PROVE Grown
  <2>1. PICK new \in {"late", "visible"} :
          /\ table' = [table EXCEPT ![id].state = new]
          /\ new = "visible" => ~ \E later \in DOMAIN table : later > id /\ Visible(later)
    BY <1>3 DEF Commit
  <2>2. /\ DOMAIN table' = DOMAIN table
        /\ \A i \in DOMAIN table : i # id => table'[i] = table[i]
        /\ table'[id].event = table[id].event /\ table'[id].state = new
    <3> DEFINE Row == [event : Events, state : {"open", "visible", "late"}]
    <3>1. table \in Seq(Row)
      BY DEF TypeOK
    <3>2. /\ DOMAIN table' = DOMAIN table
          /\ \A i \in DOMAIN table : i # id => table'[i] = table[i]
          /\ table'[id] = [table[id] EXCEPT !.state = new]
      BY <2>1
    <3>3. table[id] \in Row
      <4> HIDE DEF Row
      <4> QED
        BY <3>1
    <3>4. /\ [table[id] EXCEPT !.state = new].event = table[id].event
          /\ [table[id] EXCEPT !.state = new].state = new
      BY <3>3
    <3> QED
      BY <3>2, <3>4
  <2>3. DOMAIN table \subseteq Nat
    BY DEF TypeOK
  <2>4. ~Visible(id)
    BY <1>3 DEF Commit
  <2>5. new = "visible" => \A later \in DOMAIN table : Visible(later) => later < id
    BY <2>1, <2>3, <2>4
  <2> QED
    BY <2>2, <2>4, <2>5 DEF Visible
<1> HIDE DEF Grown
<1>4. Grown
  BY <1>1, <1>2, <1>3 DEF Next, Step, Write, Tick, Select, Consume, SavePosition, ListStore,
     ReturnDone, ReturnConflict, Raise, Clear, StartPoll, Crash, vars
<1> QED
  BY <1>4 DEF Grown

\* Metadata stays.
LEMMA WrittenGrows ==
  ASSUME TypeOK, [Next]_vars
  PROVE  \A n \in Written : n \in Written'
<1>1. ASSUME NEW n \in Nodes, Write(n) PROVE \A m \in Written : m \in Written'
  BY <1>1 DEF Write, Written, TypeOK, Never
<1>2. ASSUME Tick PROVE \A m \in Written : m \in Written'
  <2>1. \A m \in Nodes : age[m] # Never => age'[m] # Never
    BY <1>2, BatchAssumption DEF Tick, TypeOK, Age, Never, Older
  <2> QED
    BY <2>1 DEF Written
<1>3. ASSUME UNCHANGED age PROVE \A m \in Written : m \in Written'
  BY <1>3 DEF Written
<1> QED
  BY <1>1, <1>2, <1>3 DEF Next, Step, Insert, Commit, Select, Consume, SavePosition, ListStore,
     ReturnDone, ReturnConflict, Raise, Clear, StartPoll, Crash, vars, storeVars

LEMMA SourcesStep ==
  ASSUME IInv, [Next]_vars
  PROVE  Sources'
<1>0. TypeOK /\ Sources
  BY DEF IInv
<1>1. \A e : (\E n \in Written : e = Created(n)) => \E n \in Written' : e = Created(n)
  BY <1>0, WrittenGrows
<1>2. ASSUME NEW n \in Nodes, Write(n) PROVE Sources'
  <2>1. n \in Written' /\ table' = table /\ spool' = spool \cup {Created(n)}
    BY <1>0, <1>2 DEF Write, Written, TypeOK, Never
  <2> QED
    BY <1>0, <1>1, <2>1 DEF Sources
<1>3. ASSUME NEW e \in spool \cup Noise, Insert(e) PROVE Sources'
  <2>1. /\ DOMAIN table' = DOMAIN table \cup {Len(table) + 1}
        /\ \A id \in DOMAIN table : table'[id].event = table[id].event
        /\ table'[Len(table) + 1].event = e
    BY <1>0, <1>3 DEF TypeOK, Insert
  <2>2. spool' \subseteq spool
    BY <1>3 DEF Insert
  <2> QED
    BY <1>0, <1>1, <2>1, <2>2 DEF Sources
<1>4. ASSUME NEW id \in DOMAIN table, Commit(id) PROVE Sources'
  <2>1. DOMAIN table' = DOMAIN table
    BY <1>4 DEF Commit
  <2>2. spool' = spool
    BY <1>4 DEF Commit, storeVars
  <2> QED
    BY <1>0, <1>1, <2>1, <2>2, TableGrows DEF Sources
<1>5. ASSUME UNCHANGED <<spool, table>> PROVE Sources'
  BY <1>0, <1>1, <1>5 DEF Sources
<1> QED
  BY <1>2, <1>3, <1>4, <1>5 DEF Next, Step, Tick, Select, Consume, SavePosition, ListStore,
     ReturnDone, ReturnConflict, Raise, Clear, StartPoll, Crash, vars, storeVars

\* A row that becomes readable in its turn is above every readable row.
LEMMA NothingNewBelow ==
  ASSUME TypeOK, [Next]_vars,
         NEW id \in DOMAIN table', NEW mark \in DOMAIN table,
         Visible(mark), id <= mark, table'[id].state = "visible"
  PROVE  id \in DOMAIN table /\ table'[id] = table[id]
<1>1. DOMAIN table \subseteq Nat
  BY DEF TypeOK
<1>2. id \in DOMAIN table
  BY TableGrows
<1>3. \/ table[id].state = "visible"
      \/ ~Visible(id) /\ \A later \in DOMAIN table : Visible(later) => later < id
  BY TableGrows
<1>4. table[id].state = "visible"
  BY <1>1, <1>2, <1>3
<1>5. Visible(id)
  BY <1>4 DEF Visible
<1> QED
  BY <1>2, <1>5, TableGrows

\* A creation in the table is of a node with metadata, which is not the bucket.
LEMMA Announced ==
  ASSUME Sources, NEW id \in DOMAIN table, NEW n \in Nodes, Announces(id, n)
  PROVE  n \in Written /\ StoreOf(table[id].event) = n /\ n # NoScope
<1>1. Interesting(table[id].event) /\ table[id].event.node = n
  BY DEF Announces
<1>2. PICK m \in Written : table[id].event = Created(m)
  BY <1>1, NoiseAssumption DEF Sources
<1>3. Created(m).node = m /\ Created(m).object = "metadata"
  BY DEF Created
<1>4. m = n /\ StoreOf(table[id].event) = n
  BY <1>1, <1>2, <1>3 DEF StoreOf
<1> QED
  BY <1>1, <1>2, <1>4 DEF Interesting

LEMMA BatchesStep ==
  ASSUME IInv, [Next]_vars
  PROVE  Batches'
<1>0. TypeOK /\ Batches
  BY DEF IInv
<1>1. DOMAIN table \subseteq Nat /\ IsFiniteSet(DOMAIN table)
  <2>1. Len(table) \in Nat /\ DOMAIN table = 1..Len(table)
    BY <1>0 DEF TypeOK
  <2> QED
    BY <2>1, FS_Interval
<1>2. /\ \A id \in rows : id \in DOMAIN table /\ Visible(id) /\ reached < id
      /\ position \in Nat /\ reached \in Nat
      /\ position # 0 => position \in DOMAIN table
      /\ reached # 0 => reached \in DOMAIN table
  BY <1>0 DEF TypeOK
<1>3. \A id \in DOMAIN table : Visible(id) => Visible(id)'
  BY <1>0, TableGrows DEF Visible
<1>4. ASSUME UNCHANGED <<position, pc, rows, reached>> PROVE Batches'
  <2>1. position' = 0 \/ Visible(position)'
    BY <1>0, <1>2, <1>3, <1>4 DEF Batches, Visible
  <2>2. ASSUME pc = "read" PROVE position <= reached /\ (reached' = 0 \/ Visible(reached)')
    BY <1>0, <1>2, <1>3, <1>4, <2>2 DEF Batches, Visible
  <2>3. ASSUME pc = "read", NEW id \in DOMAIN table', NEW last \in rows,
               reached < id, id < last, table'[id].state = "visible"
        PROVE  id \in rows
    <3>1. last \in DOMAIN table /\ Visible(last) /\ last \in Nat
      BY <1>1, <1>2
    <3>2. id \in DOMAIN table
      BY <1>0, <2>3, TableGrows
    <3>3. id <= last
      BY <1>1, <2>3, <3>1, <3>2
    <3>4. table'[id] = table[id]
      BY <1>0, <2>3, <3>1, <3>3, NothingNewBelow
    <3> QED
      BY <1>0, <2>3, <3>2, <3>4 DEF Batches
  <2> QED
    BY <1>4, <2>1, <2>2, <2>3 DEF Batches, Visible
<1>5. ASSUME Select PROVE Batches'
  <2>1. /\ rows' = Lowest(Unread, Batch) /\ reached' = position
        /\ UNCHANGED <<table, position>>
    BY <1>0, <1>5 DEF Select, stateVars, TypeOK
  <2>2. Unread \in SUBSET Nat /\ IsFiniteSet(Unread)
    BY <1>1, FS_Subset DEF Unread
  <2>3. ASSUME NEW id \in DOMAIN table, NEW last \in rows',
               position < id, id < last, table[id].state = "visible"
        PROVE  id \in rows'
    <3>1. id \in Unread
      BY <2>3 DEF Unread, Visible
    <3> QED
      BY <2>1, <2>2, <2>3, <3>1, BatchAssumption, LowestIsLower
  <2>4. position <= position /\ (position = 0 \/ Visible(position))
    BY <1>0, <1>2 DEF Batches
  <2> QED
    BY <2>1, <2>3, <2>4 DEF Batches, Visible
<1>6. ASSUME Consume PROVE Batches'
  <2>1. /\ rows' = rows \ {Min(rows)} /\ reached' = Min(rows) /\ pc = "read" /\ rows # {}
        /\ UNCHANGED <<table, position, pc>>
    BY <1>6 DEF Consume
  <2>2. rows \in SUBSET Nat
    BY <1>1, <1>2
  <2>3. PICK m \in Nat : m = Min(rows) /\ m \in rows /\ \A id \in rows : m <= id
    BY <2>1, <2>2, MinIsLeast
  <2>4. /\ reached < m /\ position <= m /\ Visible(m)
    BY <1>0, <1>2, <2>1, <2>3 DEF Batches
  <2>5. ASSUME NEW id \in DOMAIN table, NEW last \in rows',
               m < id, id < last, table[id].state = "visible"
        PROVE  id \in rows'
    <3>1. reached < id /\ id # m /\ last \in rows
      BY <1>1, <1>2, <2>1, <2>4, <2>5
    <3> QED
      BY <1>0, <2>1, <2>3, <2>5, <3>1 DEF Batches
  <2>6. reached' = m /\ table' = table /\ position' = position
    BY <2>1, <2>3
  <2> QED
    BY <1>0, <2>4, <2>5, <2>6 DEF Batches, Visible
<1>7. ASSUME SavePosition PROVE Batches'
  <2>1. pc = "read" /\ pc' # "read" /\ position' = reached /\ table' = table
    BY <1>7 DEF SavePosition
  <2> QED
    BY <1>0, <2>1 DEF Batches, Visible
<1>8. ASSUME pc' # "read", table' = table, position' \in {0, position} PROVE Batches'
  BY <1>0, <1>8 DEF Batches, Visible
<1> QED
  BY <1>4, <1>5, <1>6, <1>7, <1>8 DEF Next, Step, Write, Insert, Commit, Tick, ListStore, ReturnDone,
     ReturnConflict, Raise, Clear, StartPoll, Crash, vars, storeVars, stateVars, localVars, ghostVars

\* The environment adds nothing behind the cursor.
LEMMA PassedKept ==
  ASSUME IInv, [Next]_vars, UNCHANGED <<position, pc, reached>>,
         NEW id \in DOMAIN table', NEW n \in Nodes, Announces(id, n)'
  PROVE  /\ Passed(id)' => id \in DOMAIN table /\ Passed(id) /\ Announces(id, n)
         /\ id <= position => id \in DOMAIN table /\ Announces(id, n)
<1>1. /\ position \in Nat /\ reached \in Nat
      /\ position # 0 => position \in DOMAIN table /\ Visible(position)
      /\ pc = "read" /\ reached # 0 => reached \in DOMAIN table /\ Visible(reached)
  BY DEF IInv, TypeOK, Batches
<1>2. id \in Nat \ {0} /\ table'[id].state = "visible"
  <2>1. id \in DOMAIN table
    BY TableGrows DEF IInv, Announces
  <2> QED
    BY <2>1 DEF IInv, TypeOK, Announces
<1>3. ASSUME NEW mark \in DOMAIN table, Visible(mark), id <= mark
      PROVE  id \in DOMAIN table /\ Announces(id, n)
  <2>1. id \in DOMAIN table /\ table'[id] = table[id]
    BY <1>2, <1>3, NothingNewBelow DEF IInv
  <2> QED
    BY <2>1 DEF Announces
<1>4. id <= position => id \in DOMAIN table /\ Announces(id, n)
  BY <1>1, <1>2, <1>3
<1>5. pc = "read" /\ id <= reached => id \in DOMAIN table /\ Announces(id, n)
  BY <1>1, <1>2, <1>3
<1>6. Passed(id)' => Passed(id)
  BY DEF Passed
<1> QED
  BY <1>4, <1>5, <1>6 DEF Passed

LEMMA PassedStep ==
  ASSUME IInv, [Next]_vars
  PROVE  PassedRemembered'
<1>0. TypeOK /\ Batches /\ Sources /\ PassedRemembered /\ AtWork
  BY DEF IInv
<1>1. /\ \A id \in DOMAIN table : id \in Nat \ {0}
      /\ position \in Nat /\ reached \in Nat
  BY <1>0 DEF TypeOK
<1>2. ASSUME UNCHANGED <<position, pc, reached>>,
             \A n \in Nodes : Remembered(n) => Remembered(n)'
      PROVE  PassedRemembered'
  BY <1>0, <1>2, PassedKept DEF PassedRemembered
<1>3. ASSUME UNCHANGED <<listed, outrun>>,
             \A s \in Nodes : pending[s] # Never => pending'[s] # Never
      PROVE  \A n \in Nodes : Remembered(n) => Remembered(n)'
  BY <1>3 DEF Remembered
<1>4. ASSUME Tick PROVE PassedRemembered'
  <2>1. \A s \in Nodes : pending[s] # Never => pending'[s] # Never
    BY <1>0, <1>4, BatchAssumption DEF Tick, TypeOK, Age, Never, Older
  <2>2. UNCHANGED <<position, pc, reached, listed, outrun>>
    BY <1>4 DEF Tick, localVars, ghostVars
  <2> QED
    BY <1>2, <1>3, <2>1, <2>2
<1>5. ASSUME UNCHANGED <<position, pc, reached, pending, listed, outrun>> PROVE PassedRemembered'
  BY <1>2, <1>3, <1>5
<1>6. ASSUME UNCHANGED <<table, pending>>, listed \subseteq listed', outrun \subseteq outrun',
             \A id \in DOMAIN table : Passed(id)' => Passed(id)
      PROVE  PassedRemembered'
  <2>1. \A n \in Nodes : Remembered(n) => Remembered(n)'
    BY <1>6 DEF Remembered
  <2> QED
    BY <1>0, <1>6, <2>1 DEF PassedRemembered, Announces
<1>7. ASSUME Select PROVE PassedRemembered'
  <2>1. \A id \in DOMAIN table : Passed(id)' => Passed(id)
    BY <1>0, <1>1, <1>7 DEF Select, Passed, stateVars, TypeOK
  <2> QED
    BY <1>6, <1>7, <2>1 DEF Select, stateVars, ghostVars
<1>8. ASSUME Consume PROVE PassedRemembered'
  <2> DEFINE e == table[Min(rows)].event
             scope == FindStoreRoot(Written, StoreOf(e))
  <2>1. /\ rows # {} /\ pc = "read" /\ reached' = Min(rows)
        /\ pending' = IF Interesting(e) /\ scope # NoScope THEN Touched(scope) ELSE pending
        /\ UNCHANGED <<table, position, pc, listed, outrun>>
    BY <1>8 DEF Consume
  <2>2. rows \in SUBSET Nat
    BY <1>0 DEF TypeOK
  <2>3. PICK m \in Nat : m = Min(rows) /\ m \in rows /\ \A id \in rows : m <= id
    BY <2>1, <2>2, MinIsLeast
  <2>4. reached' = m /\ m \in DOMAIN table
    BY <1>0, <2>1, <2>3 DEF TypeOK
  <2>5. \A s \in Nodes : pending[s] # Never => pending'[s] # Never
    BY <1>0, <2>1 DEF TypeOK, Touched
  <2>6. ASSUME NEW id \in DOMAIN table, NEW n \in Nodes, id = m, Announces(id, n)
        PROVE  Remembered(n)'
    <3>1. n \in Written /\ StoreOf(e) = n /\ n # NoScope /\ Interesting(e)
      BY <1>0, <2>3, <2>6, Announced DEF Announces
    <3>2. Written \in SUBSET Seq(STRING) /\ Written \subseteq Nodes
      BY NodesAssumption DEF Written
    <3>3. scope \in Nodes /\ scope # NoScope /\ IsPrefix(scope, n)
      BY <3>1, <3>2, RootFound
    <3>4. pending' = Touched(scope)
      BY <2>1, <3>1, <3>3
    <3>5. pending'[scope] # Never
      BY <1>0, <2>1, <3>3, <3>4 DEF TypeOK, Touched
    <3> QED
      BY <3>3, <3>5 DEF Remembered
  <2>7. ASSUME NEW id \in DOMAIN table, NEW n \in Nodes, Announces(id, n), Passed(id)', id # m
        PROVE  Passed(id)
    <3>1. id <= position \/ id <= m
      BY <2>1, <2>4, <2>7 DEF Passed
    <3>2. id <= m => ~ (reached < id)
      <4>1. SUFFICES ASSUME id < m, reached < id PROVE FALSE
        BY <1>1, <2>3, <2>7
      <4>2. id \in rows
        BY <1>0, <2>1, <2>3, <2>7, <4>1 DEF Batches, Announces
      <4> QED
        BY <1>1, <2>3, <4>1, <4>2
    <3> QED
      BY <1>1, <2>1, <3>1, <3>2 DEF Passed
  <2>8. \A n \in Nodes : Remembered(n) => Remembered(n)'
    BY <1>3, <2>1, <2>5
  <2> HIDE DEF e, scope
  <2>9. ASSUME NEW id \in DOMAIN table', NEW n \in Nodes, Passed(id)', Announces(id, n)'
        PROVE  Remembered(n)'
    <3>1. id \in DOMAIN table /\ Announces(id, n)
      BY <2>1, <2>9 DEF Announces
    <3>2. CASE id = m
      BY <2>6, <3>1, <3>2
    <3>3. CASE id # m
      <4>1. Passed(id)
        BY <2>7, <2>9, <3>1, <3>3
      <4> QED
        BY <1>0, <2>8, <3>1, <4>1 DEF PassedRemembered
    <3> QED
      BY <3>2, <3>3
  <2> QED
    BY <2>9 DEF PassedRemembered
<1>9. ASSUME SavePosition PROVE PassedRemembered'
  <2>1. pc = "read" /\ pc' # "read" /\ position' = reached /\ UNCHANGED <<table, pending, listed, outrun>>
    BY <1>9 DEF SavePosition, ghostVars
  <2>2. \A id \in DOMAIN table : Passed(id)' => Passed(id)
    BY <2>1 DEF Passed
  <2> QED
    BY <1>6, <2>1, <2>2
<1>10. ASSUME UNCHANGED <<table, pending, position>>, listed \subseteq listed', outrun \subseteq outrun',
              pc' # "read"
       PROVE  PassedRemembered'
  <2>1. \A id \in DOMAIN table : Passed(id)' => Passed(id)
    BY <1>10 DEF Passed
  <2> QED
    BY <1>6, <1>10, <2>1
<1>11. ASSUME Clear PROVE PassedRemembered'
  <2>1. /\ pc = "clear" /\ pc' = "handle"
        /\ pending' = [pending EXCEPT ![First(due)] = Never]
        /\ UNCHANGED <<table, position, listed, outrun>>
    BY <1>11 DEF Clear, ghostVars
  <2>2. ASSUME NEW id \in DOMAIN table, NEW n \in Nodes, id <= position, Announces(id, n)
        PROVE  Remembered(n)'
    <3>1. Remembered(n)
      BY <1>0, <2>2 DEF PassedRemembered, Passed
    <3>2. IsPrefix(First(due), n) => n \in listed \cup outrun
      BY <1>0, <2>1, <2>2 DEF AtWork
    <3>3. \A s \in Nodes : s # First(due) => pending'[s] = pending[s]
      BY <1>0, <2>1 DEF TypeOK
    <3> QED
      BY <2>1, <3>1, <3>2, <3>3 DEF Remembered
  <2>3. ASSUME NEW id \in DOMAIN table', NEW n \in Nodes, Passed(id)', Announces(id, n)'
        PROVE  Remembered(n)'
    <3>1. id \in DOMAIN table /\ id <= position /\ Announces(id, n)
      BY <2>1, <2>3 DEF Passed, Announces
    <3> QED
      BY <2>2, <3>1
  <2> QED
    BY <2>3 DEF PassedRemembered
<1>12. ASSUME Crash PROVE PassedRemembered'
  <2>1. /\ pc' = "handle"
        /\ UNCHANGED <<position, pending>> \/ position' = 0
        /\ UNCHANGED <<table, listed, outrun>>
    BY <1>12 DEF Crash, stateVars, ghostVars
  <2>2. CASE UNCHANGED <<position, pending>>
    BY <1>10, <2>1, <2>2
  <2>3. CASE position' = 0
    <3>1. \A id \in DOMAIN table' : ~Passed(id)'
      BY <1>1, <2>1, <2>3 DEF Passed
    <3> QED
      BY <3>1 DEF PassedRemembered
  <2> QED
    BY <2>1, <2>2, <2>3
<1> QED
  BY <1>4, <1>5, <1>7, <1>8, <1>9, <1>10, <1>11, <1>12 DEF Next, Step, Write, Insert, Commit, ListStore,
     ReturnDone, ReturnConflict, Raise, StartPoll, vars, storeVars, stateVars, localVars, ghostVars

LEMMA AtWorkStep ==
  ASSUME IInv, [Next]_vars
  PROVE  AtWork'
<1>0. TypeOK /\ Sources /\ AtWork
  BY DEF IInv
<1>1. ASSUME UNCHANGED <<position, pc, reached, due, reads, listed, outrun>> PROVE AtWork'
  <2>1. ASSUME pc \in {"put", "clear"}, NEW id \in DOMAIN table', NEW n \in Nodes,
               id <= position, Announces(id, n)', IsPrefix(First(due), n)
        PROVE  n \in reads
    <3>1. id \in DOMAIN table /\ Announces(id, n)
      BY <1>1, <2>1, PassedKept
    <3> QED
      BY <1>0, <2>1, <3>1 DEF AtWork
  <2> QED
    BY <1>0, <1>1, <2>1 DEF AtWork
<1>2. ASSUME ListStore PROVE AtWork'
  <2>1. /\ pc' = "put" /\ reads' = {n \in Written : IsPrefix(First(due), n)}
        /\ UNCHANGED <<table, position, due>>
    BY <1>2 DEF ListStore, stateVars
  <2>2. \A id \in DOMAIN table, n \in Nodes : Announces(id, n) => n \in Written
    BY <1>0, Announced
  <2> QED
    BY <2>1, <2>2 DEF AtWork, Announces
<1>3. ASSUME ReturnDone PROVE AtWork'
  BY <1>0, <1>3 DEF ReturnDone, AtWork, Announces, stateVars
<1>4. ASSUME ReturnConflict PROVE AtWork'
  BY <1>0, <1>4 DEF ReturnConflict, AtWork, Announces, stateVars
<1>5. ASSUME pc' \notin {"put", "clear"} PROVE AtWork'
  BY <1>5 DEF AtWork
<1>6. SavePosition => pc' \notin {"put", "clear"}
  BY DEF SavePosition
<1>7. Consume => pc' \notin {"put", "clear"}
  BY DEF Consume
<1> QED
  BY <1>1, <1>2, <1>3, <1>4, <1>5, <1>6, <1>7 DEF Next, Step, Write, Insert, Commit, Tick, Select,
     Raise, Clear, StartPoll, Crash, vars, storeVars, stateVars, localVars, ghostVars

LEMMA IInvStep == IInv /\ [Next]_vars => IInv'
<1> SUFFICES ASSUME IInv, [Next]_vars PROVE IInv'
  OBVIOUS
<1>1. TypeOK'
  BY TypeStep DEF IInv
<1> QED
  BY <1>1, BatchesStep, SourcesStep, PassedStep, AtWorkStep DEF IInv

\* No write the cursor has passed is forgotten, whatever the batch size, the stores and
\* the number of crashes, failed runs and lost races.
THEOREM NothingIsForgotten == Spec => []NothingForgotten
<1>1. IInv => NothingForgotten
  BY DEF IInv, PassedRemembered, Passed, NothingForgotten
<1> QED
  BY <1>1, IInvInit, IInvStep, PTL DEF Spec

----------------------------------------------------------------------------
(* What is due is quiet *)

\* A write that was read and did not overlap is no younger than the poll under way.
ReadEarlier ==
    \A id \in DOMAIN table, n \in Nodes \ overlaps :
        Passed(id) /\ Announces(id, n) /\ polled # Never => polled <= age[n]

\* What is pending is a scope with metadata, and one that is still its own root was
\* touched since, or when, any write below it was read that did not overlap.
Debounced ==
    /\ \A s \in Nodes : pending[s] # Never => s \in Written /\ s # NoScope
    /\ \A id \in DOMAIN table, n \in Nodes \ overlaps, s \in Nodes :
          /\ Passed(id) /\ Announces(id, n) /\ IsPrefix(s, n)
          /\ FindStoreRoot(Written, s) = s /\ pending[s] # Never
          => pending[s] <= age[n]

\* Both ages go up together.
LEMMA OlderKeepsOrder ==
  ASSUME NEW a \in Age, NEW b \in Age
  PROVE  /\ Older(a) \in Age /\ (Older(a) = Never <=> a = Never)
         /\ a # Never /\ a <= b => Older(a) <= Older(b)
BY BatchAssumption DEF Age, Older, Never

LEMMA DebouncedStep ==
  ASSUME IInv, Debounced, ReadEarlier, [Next]_vars
  PROVE  Debounced' /\ ReadEarlier'
<1>0. /\ TypeOK /\ Batches /\ Sources
      /\ age \in [Nodes -> Age] /\ pending \in [Nodes -> Age] /\ polled \in Age
      /\ Written \in SUBSET Seq(STRING) /\ Written \in SUBSET Nodes
  BY NodesAssumption DEF IInv, TypeOK, Written
<1>1. \A id \in DOMAIN table, n \in Nodes : Announces(id, n) => n \in Written /\ age[n] >= 0
  <2>1. \A n \in Written : age[n] >= 0
    BY <1>0 DEF Written, Age, Never
  <2> QED
    BY <1>0, <2>1, Announced
\* A step that reads no row, leaves what is pending or drops it, and lets the poll be,
\* ends it or begins one.
<1>2. ASSUME UNCHANGED <<age, table, overlaps>>, polled' \in {polled, 0, Never},
             \A s \in Nodes : pending'[s] \in {pending[s], Never},
             \A id \in DOMAIN table : Passed(id)' => Passed(id)
      PROVE  Debounced' /\ ReadEarlier'
  <2>1. Written' = Written
    BY <1>2 DEF Written
  <2>2. \A s \in Nodes : pending'[s] # Never => pending'[s] = pending[s]
    BY <1>2
  <2>3. \A id \in DOMAIN table, n \in Nodes : Announces(id, n)' => Announces(id, n)
    BY <1>2 DEF Announces
  <2>4. Debounced'
    BY <1>2, <2>1, <2>2, <2>3 DEF Debounced
  <2>5. ReadEarlier'
    <3>1. ASSUME NEW id \in DOMAIN table, NEW n \in Nodes \ overlaps,
                 Passed(id), Announces(id, n), polled' # Never
          PROVE  polled' <= age[n]
      <4>1. age[n] >= 0
        BY <1>1, <3>1
      <4>2. polled # Never => polled <= age[n]
        BY <3>1 DEF ReadEarlier
      <4> QED
        BY <1>2, <3>1, <4>1, <4>2
    <3> QED
      BY <1>2, <2>3, <3>1 DEF ReadEarlier
  <2> QED
    BY <2>4, <2>5
\* A step of the environment.
<1>3. ASSUME UNCHANGED <<position, pc, reached, pending, polled, overlaps>>,
             \A n \in Written : n \in Written' /\ age'[n] = age[n],
             Written' \in SUBSET Nodes
      PROVE  Debounced' /\ ReadEarlier'
  <2>1. \A s \in Nodes : pending'[s] # Never => s \in Written' /\ s # NoScope
    BY <1>3 DEF Debounced
  <2>2. ASSUME NEW id \in DOMAIN table', NEW n \in Nodes \ overlaps, NEW s \in Nodes,
               Passed(id)', Announces(id, n)', IsPrefix(s, n),
               FindStoreRoot(Written', s) = s, pending[s] # Never
        PROVE  pending[s] <= age'[n]
    <3>1. id \in DOMAIN table /\ Passed(id) /\ Announces(id, n)
      BY <1>3, <2>2, PassedKept
    <3>2. n \in Written /\ s \in Written /\ s # NoScope
      BY <1>1, <2>2, <3>1 DEF Debounced
    <3> DEFINE more == Written'
               less == Written
    <3>3. /\ more \in SUBSET Seq(STRING) /\ s \in more /\ FindStoreRoot(more, s) = s
          /\ less \in SUBSET more /\ s \in less
      BY <1>3, <2>2, <3>2, NodesAssumption
    <3> HIDE DEF more, less
    <3>4. FindStoreRoot(less, s) = s
      BY <3>2, <3>3, OwnRoot
    <3>5. pending[s] <= age[n]
      BY <2>2, <3>1, <3>4 DEF Debounced, less
    <3> QED
      BY <1>3, <3>2, <3>5
  <2>3. ASSUME NEW id \in DOMAIN table', NEW n \in Nodes \ overlaps,
               Passed(id)', Announces(id, n)', polled # Never
        PROVE  polled <= age'[n]
    <3>1. id \in DOMAIN table /\ Passed(id) /\ Announces(id, n)
      BY <1>3, <2>3, PassedKept
    <3>2. n \in Written /\ polled <= age[n]
      BY <1>1, <2>3, <3>1 DEF ReadEarlier
    <3> QED
      BY <1>3, <3>2
  <2> QED
    BY <1>3, <2>1, <2>2, <2>3 DEF Debounced, ReadEarlier
<1>4. ASSUME NEW n \in Nodes, Write(n) PROVE Debounced' /\ ReadEarlier'
  <2>1. /\ age[n] = Never /\ age' = [age EXCEPT ![n] = 0]
        /\ UNCHANGED <<position, pc, reached, pending, polled, overlaps>>
    BY <1>4 DEF Write, stateVars, localVars, ghostVars
  <2>2. \A m \in Written : m \in Written' /\ age'[m] = age[m]
    BY <1>0, <2>1 DEF Written
  <2>3. Written' \in SUBSET Nodes
    BY DEF Written
  <2> QED
    BY <1>3, <2>1, <2>2, <2>3
<1>5. ASSUME UNCHANGED <<age, position, pc, reached, pending, polled, overlaps>>
      PROVE  Debounced' /\ ReadEarlier'
  <2>1. Written' = Written
    BY <1>5 DEF Written
  <2> QED
    BY <1>0, <1>3, <1>5, <2>1
<1>6. ASSUME Tick PROVE Debounced' /\ ReadEarlier'
  <2>1. /\ age' = [n \in Nodes |-> Older(age[n])]
        /\ pending' = [s \in Nodes |-> Older(pending[s])]
        /\ polled' = Older(polled)
        /\ overlaps' = {n \in overlaps : age'[n] # Quiet}
        /\ UNCHANGED <<table, position, pc, reached>>
    BY <1>6 DEF Tick
  <2>2. \A n \in Nodes : /\ age'[n] = Older(age[n]) /\ (age'[n] = Never <=> age[n] = Never)
                         /\ pending'[n] = Older(pending[n]) /\ pending'[n] \in Age
                         /\ (pending'[n] = Never <=> pending[n] = Never)
    BY <1>0, <2>1, OlderKeepsOrder
  <2>3. polled' \in Age /\ (polled' = Never <=> polled = Never)
    BY <1>0, <2>1, OlderKeepsOrder
  <2>4. Written' = Written
    BY <2>2 DEF Written
  <2>5. \A n \in Nodes \ overlaps' : n \notin overlaps \/ age'[n] = Quiet
    BY <2>1
  <2>6. \A a \in Age : a <= Quiet
    BY BatchAssumption DEF Age, Never
  <2>7. ASSUME NEW id \in DOMAIN table, NEW n \in Nodes \ overlaps', NEW s \in Nodes,
               Passed(id), Announces(id, n), IsPrefix(s, n),
               FindStoreRoot(Written, s) = s, pending[s] # Never
        PROVE  pending'[s] <= age'[n]
    <3>1. CASE n \notin overlaps
      <4>1. pending[s] <= age[n]
        BY <2>7, <3>1 DEF Debounced
      <4> QED
        BY <1>0, <2>2, <2>7, <4>1, OlderKeepsOrder
    <3>2. CASE age'[n] = Quiet
      BY <2>2, <2>6, <3>2
    <3> QED
      BY <2>5, <3>1, <3>2
  <2>8. ASSUME NEW id \in DOMAIN table, NEW n \in Nodes \ overlaps',
               Passed(id), Announces(id, n), polled # Never
        PROVE  polled' <= age'[n]
    <3>1. CASE n \notin overlaps
      <4>1. polled <= age[n]
        BY <2>8, <3>1 DEF ReadEarlier
      <4> QED
        BY <1>0, <2>1, <2>2, <2>8, <4>1, OlderKeepsOrder
    <3>2. CASE age'[n] = Quiet
      BY <2>3, <2>6, <3>2
    <3> QED
      BY <2>5, <3>1, <3>2
  <2>9. \A id \in DOMAIN table, n \in Nodes :
            (Passed(id)' <=> Passed(id)) /\ (Announces(id, n)' <=> Announces(id, n))
    BY <2>1 DEF Passed, Announces
  <2>10. Debounced'
    BY <2>1, <2>2, <2>4, <2>7, <2>9 DEF Debounced
  <2>11. ReadEarlier'
    BY <2>1, <2>3, <2>8, <2>9 DEF ReadEarlier
  <2> QED
    BY <2>10, <2>11
<1>7. ASSUME Consume PROVE Debounced' /\ ReadEarlier'
  <2> DEFINE e == table[Min(rows)].event
             root == FindStoreRoot(Written, StoreOf(e))
  <2>1. /\ rows # {} /\ pc = "read" /\ reached' = Min(rows)
        /\ pending' = IF Interesting(e) /\ root # NoScope THEN Touched(root) ELSE pending
        /\ overlaps' = IF Interesting(e) THEN Overlapping(e.node) ELSE overlaps
        /\ UNCHANGED <<age, table, position, pc, polled>>
    BY <1>7 DEF Consume, storeVars
  <2>2. rows \in SUBSET Nat
    BY <1>0 DEF TypeOK
  <2>3. PICK m \in Nat : m = Min(rows) /\ m \in rows /\ \A id \in rows : m <= id
    BY <2>1, <2>2, MinIsLeast
  <2>4. reached' = m /\ m \in DOMAIN table
    BY <1>0, <2>1, <2>3 DEF TypeOK
  <2>5. Written' = Written
    BY <2>1 DEF Written
  <2>6. root # NoScope => root \in Written
    <3>1. (\E p \in Written : p # <<>> /\ IsPrefix(p, StoreOf(e))) => root \in Written
      BY <1>0, RootIsWritten
    <3>2. ~ (\E p \in Written : p # <<>> /\ IsPrefix(p, StoreOf(e))) => root = NoScope
      BY DEF FindStoreRoot
    <3> QED
      BY <3>1, <3>2
  <2>7. \A s \in Nodes : \/ pending'[s] = pending[s]
                         \/ pending'[s] = polled /\ s \in Written /\ s # NoScope
    <3> HIDE DEF root, e
    <3> QED
      BY <1>0, <2>1, <2>6 DEF Touched
  <2>8. polled # Never
    BY <1>0, <2>1 DEF TypeOK
  \* The node the row is about: unless it overlaps, the poll is no younger than its write,
  \* and its root now has the time of the poll.
  <2>9. ASSUME NEW n \in Nodes \ overlaps', NEW s \in Nodes, Interesting(e), e.node = n,
               n \in Written, age[n] >= 0
        PROVE  /\ polled <= age[n]
               /\ IsPrefix(s, n) /\ FindStoreRoot(Written, s) = s /\ pending'[s] # Never
                     => pending'[s] = polled
    <3>1. overlaps' = Overlapping(n)
      BY <2>1, <2>9
    <3>2. polled <= age[n]
      BY <1>0, <2>9, <3>1 DEF Overlapping, Age, Never
    <3>3. ASSUME IsPrefix(s, n), FindStoreRoot(Written, s) = s, pending'[s] # Never
          PROVE  pending'[s] = polled
      <4>1. StoreOf(e) = n
        BY <2>9 DEF Interesting, StoreOf
      <4>2. s \in Written /\ s # NoScope
        BY <2>7, <3>3 DEF Debounced
      <4>3. root = s
        BY <1>0, <2>9, <3>3, <4>1, <4>2, OwnRoot
      <4>4. pending' = Touched(s)
        BY <2>1, <2>9, <4>2, <4>3
      <4> QED
        BY <1>0, <4>4 DEF Touched
    <3> QED
      BY <3>2, <3>3
  <2>10. ASSUME NEW id \in DOMAIN table, NEW n \in Nodes, Announces(id, n), Passed(id)', id # m
        PROVE  Passed(id)
    <3>1. id <= position \/ id <= m
      BY <2>1, <2>4, <2>10 DEF Passed
    <3>2. id \in Nat /\ reached \in Nat
      BY <1>0 DEF TypeOK
    <3>3. id <= m => ~ (reached < id)
      <4>1. SUFFICES ASSUME id < m, reached < id PROVE FALSE
        BY <2>3, <2>10, <3>2
      <4>2. id \in rows
        BY <1>0, <2>1, <2>3, <2>10, <4>1 DEF Batches, Announces
      <4> QED
        BY <2>3, <3>2, <4>1, <4>2
    <3> QED
      BY <2>1, <3>1, <3>2, <3>3 DEF Passed
  <2>11. ASSUME NEW n \in Nodes \ overlaps', ~ (Interesting(e) /\ e.node = n)
         PROVE  n \notin overlaps
    BY <2>1, <2>11 DEF Overlapping
  <2>12. ASSUME NEW id \in DOMAIN table, id = m, NEW n \in Nodes, Announces(id, n)
         PROVE  Interesting(e) /\ e.node = n
    BY <2>3, <2>12 DEF Announces
  <2> HIDE DEF e, root
  <2>13. ASSUME NEW id \in DOMAIN table, NEW n \in Nodes \ overlaps',
                Passed(id)', Announces(id, n)
         PROVE  polled <= age[n]
    <3>1. n \in Written /\ age[n] >= 0
      BY <1>1, <2>13
    <3>2. CASE Interesting(e) /\ e.node = n
      BY <2>9, <2>13, <3>1, <3>2
    <3>3. CASE ~ (Interesting(e) /\ e.node = n)
      <4>1. id # m
        BY <2>12, <2>13, <3>3
      <4>2. n \notin overlaps /\ Passed(id)
        BY <2>10, <2>11, <2>13, <3>3, <4>1
      <4> QED
        BY <2>8, <2>13, <4>2 DEF ReadEarlier
    <3> QED
      BY <3>2, <3>3
  <2>14. ASSUME NEW id \in DOMAIN table, NEW n \in Nodes \ overlaps', NEW s \in Nodes,
                Passed(id)', Announces(id, n), IsPrefix(s, n),
                FindStoreRoot(Written, s) = s, pending'[s] # Never
         PROVE  pending'[s] <= age[n]
    <3>1. polled <= age[n]
      BY <2>13, <2>14
    <3>2. CASE Interesting(e) /\ e.node = n
      <4>1. n \in Written /\ age[n] >= 0
        BY <1>1, <2>14
      <4> QED
        BY <2>9, <2>14, <3>1, <3>2, <4>1
    <3>3. CASE ~ (Interesting(e) /\ e.node = n) /\ pending'[s] = pending[s]
      <4>1. id # m
        BY <2>12, <2>14, <3>3
      <4>2. n \notin overlaps /\ Passed(id)
        BY <2>10, <2>11, <2>14, <3>3, <4>1
      <4> QED
        BY <2>14, <3>3, <4>2 DEF Debounced
    <3> QED
      BY <2>7, <3>1, <3>2, <3>3
  <2>15. \A id \in DOMAIN table, n \in Nodes : Announces(id, n)' => Announces(id, n)
    BY <2>1 DEF Announces
  <2>16. \A s \in Nodes : pending'[s] # Never => s \in Written /\ s # NoScope
    BY <2>7 DEF Debounced
  <2>17. Debounced'
    BY <2>1, <2>5, <2>14, <2>15, <2>16 DEF Debounced
  <2>18. ReadEarlier'
    BY <2>1, <2>13, <2>15 DEF ReadEarlier
  <2> QED
    BY <2>17, <2>18
<1>8. ASSUME Select PROVE Debounced' /\ ReadEarlier'
  <2>1. \A id \in DOMAIN table : Passed(id)' => Passed(id)
    BY <1>0, <1>8 DEF Select, Passed, stateVars, TypeOK
  <2> QED
    BY <1>2, <1>8, <2>1 DEF Select, stateVars, storeVars, ghostVars
<1>9. ASSUME SavePosition PROVE Debounced' /\ ReadEarlier'
  <2>1. /\ pc = "read" /\ pc' # "read" /\ position' = reached
        /\ polled' \in {0, Never}
        /\ UNCHANGED <<age, table, pending, overlaps>>
    BY <1>9 DEF SavePosition, storeVars, ghostVars
  <2>2. \A id \in DOMAIN table : Passed(id)' => Passed(id)
    BY <2>1 DEF Passed
  <2> QED
    BY <1>2, <2>1, <2>2
<1>10. ASSUME UNCHANGED <<age, table, position, overlaps>>, polled' \in {polled, 0, Never}, pc' # "read",
              \A s \in Nodes : pending'[s] \in {pending[s], Never}
       PROVE  Debounced' /\ ReadEarlier'
  <2>1. \A id \in DOMAIN table : Passed(id)' => Passed(id)
    BY <1>10 DEF Passed
  <2> QED
    BY <1>2, <1>10, <2>1
<1>11. ASSUME Clear PROVE Debounced' /\ ReadEarlier'
  <2>1. /\ pending' = [pending EXCEPT ![First(due)] = Never] /\ pc' # "read"
        /\ UNCHANGED <<age, table, position, overlaps, polled>>
    BY <1>11 DEF Clear, storeVars, ghostVars
  <2>2. \A s \in Nodes : pending'[s] \in {pending[s], Never}
    BY <1>0, <2>1
  <2> QED
    BY <1>10, <2>1, <2>2
<1>12. ASSUME Crash PROVE Debounced' /\ ReadEarlier'
  <2>1. /\ pc' # "read" /\ polled' = Never /\ UNCHANGED <<age, table, overlaps>>
        /\ \/ UNCHANGED <<position, pending>>
           \/ pending' = [s \in Nodes |-> Never]
    BY <1>12 DEF Crash, storeVars, stateVars, ghostVars
  <2>2. CASE UNCHANGED <<position, pending>>
    BY <1>10, <2>1, <2>2
  <2>3. CASE pending' = [s \in Nodes |-> Never]
    <3>1. \A s \in Nodes : pending'[s] = Never
      BY <2>3
    <3> QED
      BY <2>1, <3>1 DEF Debounced, ReadEarlier
  <2> QED
    BY <2>1, <2>2, <2>3
<1>13. ASSUME StartPoll PROVE Debounced' /\ ReadEarlier'
  <2>1. pc' # "read" /\ polled' = 0 /\ UNCHANGED <<age, table, position, pending, overlaps>>
    BY <1>13 DEF StartPoll, storeVars, stateVars, ghostVars
  <2> QED
    BY <1>10, <2>1
<1> QED
  BY <1>4, <1>5, <1>6, <1>7, <1>8, <1>9, <1>10, <1>11, <1>12, <1>13
  DEF Next, Step, Insert, Commit, ListStore, ReturnDone, ReturnConflict, Raise, vars,
      storeVars, stateVars, localVars, ghostVars

\* A store is found due only if none of the writes in it that were read is younger than
\* quiet_seconds, whatever came between them, also crashes and restarts, but for writes
\* that landed while the poll that read of them last was under way.
THEOREM DueScopesAreQuiet == Spec => DueIsQuiet
<1> DEFINE A == pc = "read" /\ pc' = "handle" =>
        \A s \in due', id \in 1..position', n \in Nodes \ overlaps :
            FindStoreRoot(Written, s) = s /\ Announces(id, n) /\ IsPrefix(s, n)
                => age[n] = Quiet
<1>1. Init => IInv /\ Debounced /\ ReadEarlier
  <2>1. Init => Debounced /\ ReadEarlier
    BY DEF Init, Debounced, ReadEarlier
  <2> QED
    BY <2>1, IInvInit
<1>2. IInv /\ Debounced /\ ReadEarlier /\ [Next]_vars => (IInv /\ Debounced /\ ReadEarlier)'
  BY IInvStep, DebouncedStep
<1>3. ASSUME IInv, Debounced, pc = "read", pc' = "handle", [Next]_vars,
             NEW s \in due', NEW id \in 1..position', NEW n \in Nodes \ overlaps,
             FindStoreRoot(Written, s) = s, Announces(id, n), IsPrefix(s, n)
      PROVE  age[n] = Quiet
  <2>1. SavePosition \/ Crash
    BY <1>3 DEF Next, Step, Write, Insert, Commit, Tick, Select, Consume, ListStore, ReturnDone,
       ReturnConflict, Raise, Clear, StartPoll, vars, localVars
  <2>2. SavePosition
    BY <1>3, <2>1 DEF Crash
  <2>3. due' = Due /\ position' = reached
    BY <1>3, <2>2 DEF SavePosition
  <2>4. s \in Nodes /\ pending[s] = Quiet
    BY <2>3 DEF Due
  <2>5. id \in DOMAIN table /\ Passed(id)
    BY <1>3, <2>3 DEF IInv, TypeOK, Passed
  <2>6. pending[s] # Never
    BY <2>4, BatchAssumption DEF Never
  <2>7. Quiet <= age[n]
    BY <1>3, <2>4, <2>5, <2>6 DEF Debounced
  <2> QED
    BY <1>3, <2>7, BatchAssumption DEF IInv, TypeOK, Age, Never
<1>4. IInv /\ Debounced /\ [Next]_vars => [A]_vars
  BY <1>3
<1>5. DueIsQuiet <=> [][A]_vars
  BY DEF DueIsQuiet
<1> QED
  BY <1>1, <1>2, <1>4, <1>5, PTL DEF Spec
=============================================================================
