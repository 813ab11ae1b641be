----------------------- MODULE SchemaMigration_proofs -----------------------
(* Proofs about SchemaMigration, for any number of servers, consoles and commands, any
   contents of the two tables and any number of edits and crashes. *)
EXTENDS SchemaMigration, TLAPS

USE MigrationAssumption

\* Where a process may be sent.
LEMMA GotoType ==
  ASSUME NEW p \in Processes, NEW phase \in Phases, NEW t \in Tables,
         at \in [Processes -> Phases], on \in [Processes -> Tables], Goto(p, phase, t)
  PROVE  at' \in [Processes -> Phases] /\ on' \in [Processes -> Tables]
BY DEF Goto

\* The same for the step to the other table.
LEMMA OnwardType ==
  ASSUME NEW p \in Processes, NEW phase \in Phases, NEW next \in Phases,
         at \in [Processes -> Phases], on \in [Processes -> Tables], Onward(p, phase, next)
  PROVE  at' \in [Processes -> Phases] /\ on' \in [Processes -> Tables]
BY GotoType DEF Onward, Tables

\* The contents of a table are functions from ids to items.
LEMMA TabsAre ==
  /\ NoRows \in Tabs
  /\ \A I \in SUBSET Ids : [I -> Items] \subseteq Tabs
  /\ \A f \in Tabs : /\ DOMAIN f \subseteq Ids
                     /\ f \in [DOMAIN f -> Items]
                     /\ Range(f) \subseteq Items
<1>1. NoRows \in [{} -> Items]
  BY DEF NoRows
<1>2. \A I \in SUBSET Ids : [I -> Items] \subseteq Tabs
  BY DEF Tabs
<1>3. ASSUME NEW f \in Tabs
      PROVE  DOMAIN f \subseteq Ids /\ f \in [DOMAIN f -> Items] /\ Range(f) \subseteq Items
  BY <1>3 DEF Tabs, Range
<1> QED
  BY <1>1, <1>2, <1>3

\* What a copy yields are contents of a table again, and so is the merged table.
LEMMA MergedType ==
  ASSUME TypeOK, NEW t \in Tables
  PROVE  Merged(t) \in Tabs
<1>1. rows[t] \in Tabs /\ legacy[t] \in Tabs
  BY DEF TypeOK
<1>2. Carried(t) \in [DOMAIN Carried(t) -> Items] /\ DOMAIN Carried(t) \subseteq Ids
  BY <1>1, TabsAre DEF Carried
<1>3. Merged(t) \in [DOMAIN rows[t] \cup DOMAIN Carried(t) -> Items]
  BY <1>1, <1>2, TabsAre DEF Merged
<1>4. DOMAIN rows[t] \cup DOMAIN Carried(t) \in SUBSET Ids
  BY <1>1, <1>2, TabsAre
<1> QED
  BY <1>3, <1>4, TabsAre

\* The databases of earlier releases are well typed.
LEMMA InitType == Init => TypeOK
<1> SUFFICES ASSUME Init PROVE TypeOK
  OBVIOUS
<1>1. rows \in [Tables -> Tabs] /\ legacy \in [Tables -> Tabs]
  BY TabsAre DEF Init
<1>2. owed \in [Tables -> SUBSET Items]
  BY <1>1, TabsAre DEF Init
<1>3. /\ version \in {"none", "old", "current"}
      /\ shape \in [Tables -> {"absent", "old", "new"}]
      /\ staged \subseteq Tables
      /\ \A t \in Tables : /\ shape[t] = "absent" => rows[t] = NoRows
                           /\ t \notin staged => legacy[t] = NoRows
  BY DEF Init
<1>4. /\ at \in [Processes -> Phases] /\ on \in [Processes -> Tables]
      /\ pending \in [Processes -> SUBSET Tables] /\ serving \subseteq Processes
  BY DEF Init, Phases, Tables
<1>5. edits \in 0..MaxEdits /\ stops \in 0..MaxStops
  BY DEF Init
<1>6. {quiet, overlapped, failed, upgraded} \subseteq BOOLEAN
  BY DEF Init
<1> QED
  BY <1>1, <1>2, <1>3, <1>4, <1>5, <1>6 DEF TypeOK

\* A failing statement touches nothing but the process.
LEMMA FailType ==
  ASSUME TypeOK, NEW p \in Processes, Fail(p)
  PROVE  TypeOK'
<1>1. at' \in [Processes -> Phases] /\ on' \in [Processes -> Tables]
  BY GotoType DEF TypeOK, Fail, End, Phases, Tables
<1>2. pending' \in [Processes -> SUBSET Tables]
  BY DEF TypeOK, Fail, End
<1> QED
  BY <1>1, <1>2 DEF TypeOK, Fail, database

\* The statements that read, and those of the schema script.
LEMMA ScriptType ==
  ASSUME TypeOK, NEW p \in Processes,
         CheckLegacy(p) \/ CheckTable(p) \/ CheckColumns(p) \/ SetVersion(p)
           \/ Create(p) \/ Index(p)
  PROVE  TypeOK'
<1>0. Phases = {"idle", "legacy", "table", "columns", "rename", "script", "create",
                "index", "finish"}
  BY DEF Phases
<1>1. at' \in [Processes -> Phases] /\ on' \in [Processes -> Tables]
  <2>1. at \in [Processes -> Phases] /\ on \in [Processes -> Tables]
    BY DEF TypeOK
  <2>2. on[p] \in Tables /\ Grants \in Tables
    BY <2>1 DEF Tables
  <2>3. \/ \E phase \in Phases, t \in Tables : Goto(p, phase, t)
        \/ \E phase \in Phases, next \in Phases : Onward(p, phase, next)
    BY <1>0, <2>2 DEF CheckLegacy, CheckTable, CheckColumns, SetVersion, Create, Index
  <2> QED
    BY <2>1, <2>3, GotoType, OnwardType
<1>2. pending' \in [Processes -> SUBSET Tables]
  BY DEF TypeOK, CheckLegacy, CheckTable, CheckColumns, SetVersion, Create, Index
<1>3. /\ version' \in {"none", "old", "current"}
      /\ shape' \in [Tables -> {"absent", "old", "new"}]
      /\ \A t \in Tables : shape'[t] = "absent" => shape[t] = "absent"
  BY DEF TypeOK, CheckLegacy, CheckTable, CheckColumns, SetVersion, Create, Index, database
<1>4. UNCHANGED <<rows, staged, legacy, serving, edits, stops, history>>
  BY DEF CheckLegacy, CheckTable, CheckColumns, SetVersion, Create, Index, database
<1> QED
  BY <1>1, <1>2, <1>3, <1>4 DEF TypeOK, history

\* The table that is renamed is gone, with its rows in the copy.
LEMMA RenameType ==
  ASSUME TypeOK, NEW p \in Processes, Rename(p)
  PROVE  TypeOK'
<1>1. at' \in [Processes -> Phases] /\ on' \in [Processes -> Tables]
  BY OnwardType DEF TypeOK, Rename, Phases
<1>2. pending' \in [Processes -> SUBSET Tables]
  BY DEF TypeOK, Rename
<1>3. rows' \in [Tables -> Tabs] /\ legacy' \in [Tables -> Tabs]
  BY TabsAre DEF TypeOK, Rename
<1>4. /\ shape' \in [Tables -> {"absent", "old", "new"}]
      /\ staged' \subseteq Tables
      /\ \A t \in Tables : /\ shape'[t] = "absent" => rows'[t] = NoRows
                           /\ t \notin staged' => legacy'[t] = NoRows
  BY DEF TypeOK, Rename
<1> QED
  BY <1>1, <1>2, <1>3, <1>4 DEF TypeOK, Rename, history

\* The copies are merged and dropped.
LEMMA FinishType ==
  ASSUME TypeOK, NEW p \in Processes, Finish(p)
  PROVE  TypeOK'
<1>1. at' \in [Processes -> Phases] /\ on' \in [Processes -> Tables]
  BY GotoType DEF TypeOK, Finish, End, Phases, Tables
<1>2. pending' \in [Processes -> SUBSET Tables]
  BY DEF TypeOK, Finish, End
<1>3. rows' \in [Tables -> Tabs] /\ legacy' \in [Tables -> Tabs]
  BY MergedType, TabsAre DEF TypeOK, Finish
<1>4. /\ shape' \in [Tables -> {"absent", "old", "new"}]
      /\ staged' \subseteq Tables
      /\ \A t \in Tables : /\ shape'[t] = "absent" => rows'[t] = NoRows
                           /\ t \notin staged' => legacy'[t] = NoRows
  BY DEF TypeOK, Finish, CanFinish
<1>5. serving' \subseteq Processes
  BY DEF TypeOK, Finish
<1> QED
  BY <1>1, <1>2, <1>3, <1>4, <1>5 DEF TypeOK, Finish

\* Beginning, stopping and starting a query server.
LEMMA ProcessType ==
  ASSUME TypeOK, NEW p \in Processes, Begin(p) \/ StartServer(p) \/ Stop(p)
  PROVE  TypeOK'
<1>1. CASE Begin(p)
  <2>1. at' \in [Processes -> Phases] /\ on' \in [Processes -> Tables]
    BY <1>1, GotoType DEF TypeOK, Begin, Phases, Tables
  <2>2. version' \in {"none", "old", "current"}
    BY <1>1 DEF TypeOK, Begin
  <2>3. overlapped' \in BOOLEAN
    BY <1>1 DEF Begin
  <2> QED
    BY <1>1, <2>1, <2>2, <2>3 DEF TypeOK, Begin
<1>2. CASE StartServer(p)
  BY <1>2 DEF TypeOK, StartServer, database, local, history
<1>3. CASE Stop(p)
  <2>1. at' \in [Processes -> Phases] /\ on' \in [Processes -> Tables]
    BY <1>3, GotoType DEF TypeOK, Stop, End, Phases, Tables
  <2>2. pending' \in [Processes -> SUBSET Tables] /\ serving' \subseteq Processes
    BY <1>3 DEF TypeOK, Stop, End
  <2>3. stops' \in 0..MaxStops
    BY <1>3 DEF TypeOK, Stop
  <2> QED
    BY <1>3, <2>1, <2>2, <2>3 DEF TypeOK, Stop, database, history
<1> QED
  BY <1>1, <1>2, <1>3

\* An edit leaves contents of a table.
LEMMA EditType ==
  ASSUME TypeOK, NEW t \in Tables, NEW contents \in Tabs, NEW items \in SUBSET Items,
         Edit(t, contents, items)
  PROVE  TypeOK'
<1>1. rows' \in [Tables -> Tabs] /\ owed' \in [Tables -> SUBSET Items]
  BY DEF TypeOK, Edit
<1>2. \A u \in Tables : shape'[u] = "absent" => rows'[u] = NoRows
  BY DEF TypeOK, Edit
<1>3. edits' \in 0..MaxEdits
  BY DEF TypeOK, Edit
<1>4. quiet' \in BOOLEAN
  BY DEF Edit
<1> QED
  BY <1>1, <1>2, <1>3, <1>4 DEF TypeOK, Edit, local

\* What an insert leaves in the table.
LEMMA InsertType ==
  ASSUME TypeOK, NEW t \in Tables, NEW id \in Ids, NEW item \in Items
  PROVE  /\ [i \in DOMAIN rows[t] \cup {id} |-> IF i = id THEN item ELSE rows[t][i]] \in Tabs
         /\ owed[t] \cup {item} \in SUBSET Items
<1>1. rows[t] \in Tabs /\ owed[t] \in SUBSET Items
  BY DEF TypeOK
<1>2. DOMAIN rows[t] \cup {id} \in SUBSET Ids
  BY <1>1, TabsAre
<1>3. [i \in DOMAIN rows[t] \cup {id} |-> IF i = id THEN item ELSE rows[t][i]]
        \in [DOMAIN rows[t] \cup {id} -> Items]
  BY <1>1, TabsAre
<1> QED
  BY <1>1, <1>2, <1>3, TabsAre

\* What a deletion leaves.
LEMMA DeleteType ==
  ASSUME TypeOK, NEW id \in Ids
  PROVE  LET rest == Restrict(rows[Grants], DOMAIN rows[Grants] \ {id})
         IN  /\ rest \in Tabs
             /\ Range(rest) \cup (owed[Grants] \ {rows[Grants][id]}) \in SUBSET Items
<1> DEFINE rest == Restrict(rows[Grants], DOMAIN rows[Grants] \ {id})
<1>1. rows[Grants] \in Tabs /\ owed[Grants] \in SUBSET Items
  BY DEF TypeOK, Tables
<1>2. DOMAIN rows[Grants] \ {id} \in SUBSET Ids
  BY <1>1, TabsAre
<1>3. rest \in [DOMAIN rows[Grants] \ {id} -> Items]
  BY <1>1, TabsAre DEF Restrict
<1>4. rest \in Tabs
  BY <1>2, <1>3, TabsAre
<1> QED
  BY <1>1, <1>4, TabsAre

\* No step leaves the types.
LEMMA NextType == TypeOK /\ [Next]_vars => TypeOK'
<1> SUFFICES ASSUME TypeOK, [Next]_vars PROVE TypeOK'
  OBVIOUS
<1>1. ASSUME NEW p \in Processes, Begin(p) \/ StartServer(p) \/ Stop(p) PROVE TypeOK'
  BY <1>1, ProcessType
<1>2. ASSUME NEW p \in Processes, Statement(p) PROVE TypeOK'
  <2>1. CASE RenameFails(p) \/ IndexFails(p) \/ FinishFails(p)
    BY <2>1, FailType DEF RenameFails, IndexFails, FinishFails
  <2> QED
    BY <1>2, <2>1, ScriptType, RenameType, FinishType DEF Statement
<1>3. ASSUME NEW t \in Tables, NEW id \in Ids, NEW item \in Items, Insert(t, id, item)
      PROVE  TypeOK'
  BY <1>3, InsertType, EditType DEF Insert
<1>4. ASSUME NEW id \in Ids, DeleteGrant(id) PROVE TypeOK'
  BY <1>4, DeleteType, EditType DEF DeleteGrant, Tables
<1>5. CASE UNCHANGED vars
  BY <1>5 DEF TypeOK, vars, database, local, history
<1> QED
  BY <1>1, <1>2, <1>3, <1>4, <1>5 DEF Next

\* Type correctness: at any moment of any number of upgrades, edits and crashes a table
\* that has been renamed away is empty and a copy that has been dropped is gone.
THEOREM TypeCorrect == Spec => []TypeOK
  BY InitType, NextType, PTL DEF Spec

-----------------------------------------------------------------------------
\* A table that no edit has touched since its shape was old: a copy can hold all of it,
\* and while one exists the table in its place is empty.
Outdated(t) ==
  /\ Kept(t) \subseteq OldItems
  /\ owed[t] = Kept(t)
  /\ t \in staged => rows[t] = NoRows

\* A table in the new shape that no upgrade will ever rename again.
Migrated(t) ==
  /\ shape[t] = "new" /\ t \notin staged
  /\ owed[t] = Range(rows[t])
  /\ \A p \in Processes : ~(at[p] = "rename" /\ on[p] = t)

KeepInv == quiet => \A t \in Tables : Outdated(t) \/ Migrated(t)

\* The empty table.
LEMMA RangeNoRows == DOMAIN NoRows = {} /\ Range(NoRows) = {}
BY DEF NoRows, Range

\* A database that has just been opened: old tables are outdated, new ones migrated.
LEMMA InitKeep == Init => KeepInv
<1> SUFFICES ASSUME Init, NEW t \in Tables PROVE Outdated(t) \/ Migrated(t)
  BY DEF KeepInv
<1>1. legacy[t] = NoRows /\ staged = {} /\ owed[t] = Range(rows[t])
  BY DEF Init
<1>2. Kept(t) = Range(rows[t])
  BY <1>1, RangeNoRows DEF Kept
<1>3. CASE shape[t] = "new"
  BY <1>1, <1>3 DEF Init, Migrated
<1>4. CASE shape[t] # "new"
  <2>1. Range(rows[t]) \subseteq OldItems
    BY <1>4, RangeNoRows DEF Init
  <2> QED
    BY <1>1, <1>2, <2>1 DEF Outdated
<1> QED
  BY <1>3, <1>4

\* Steps that leave the rows and send nobody to a rename of a table in the new shape.
LEMMA FrameKeep ==
  ASSUME KeepInv,
         UNCHANGED <<rows, staged, legacy, owed, quiet>>,
         \A t \in Tables : shape[t] = "new" => shape'[t] = "new",
         \A p \in Processes : at'[p] = "rename" =>
           \/ at[p] = "rename" /\ on'[p] = on[p]
           \/ shape[on'[p]] # "new"
  PROVE  KeepInv'
<1> SUFFICES ASSUME quiet, NEW t \in Tables PROVE Outdated(t)' \/ Migrated(t)'
  BY DEF KeepInv
<1>1. CASE Outdated(t)
  BY <1>1 DEF Outdated, Kept
<1>2. CASE Migrated(t)
  BY <1>2 DEF Migrated
<1> QED
  BY <1>1, <1>2 DEF KeepInv

\* A process that moves to another statement than a rename is covered by the frame.
LEMMA MoveKeep ==
  ASSUME TypeOK, NEW p \in Processes, NEW phase \in Phases \ {"rename"}, NEW t \in Tables,
         Goto(p, phase, t)
  PROVE  \A q \in Processes : at'[q] = "rename" => at[q] = "rename" /\ on'[q] = on[q]
BY DEF TypeOK, Goto

\* The reads, the script, failures, starts and stops rename nothing and move no row.
LEMMA ControlKeep ==
  ASSUME TypeOK, KeepInv, NEW p \in Processes,
         \/ Begin(p) \/ StartServer(p) \/ Stop(p) \/ CheckLegacy(p) \/ CheckTable(p)
         \/ CheckColumns(p) \/ SetVersion(p) \/ Create(p) \/ Index(p) \/ Fail(p)
  PROVE  KeepInv'
<1>1. UNCHANGED <<rows, staged, legacy, owed, quiet>>
  BY DEF Begin, StartServer, Stop, CheckLegacy, CheckTable, CheckColumns, SetVersion, Create,
         Index, Fail, database, history
<1>2. \A t \in Tables : shape[t] = "new" => shape'[t] = "new"
  BY DEF Begin, StartServer, Stop, CheckLegacy, CheckTable, CheckColumns, SetVersion, Create,
         Index, Fail, database, TypeOK
<1>3. CASE StartServer(p)
  BY <1>1, <1>2, <1>3, FrameKeep DEF StartServer, local
<1>4. CASE CheckColumns(p) /\ shape[on[p]] # "new"
  <2>1. \A q \in Processes : at'[q] = "rename" =>
          \/ at[q] = "rename" /\ on'[q] = on[q]
          \/ shape[on'[q]] # "new"
    BY <1>4 DEF CheckColumns, Goto, TypeOK
  <2> QED
    BY <1>1, <1>2, <2>1, FrameKeep
<1>5. CASE ~StartServer(p) /\ ~(CheckColumns(p) /\ shape[on[p]] # "new")
  <2>1. \E phase \in Phases \ {"rename"}, t \in Tables : Goto(p, phase, t)
    <3>1. {"idle", "legacy", "table", "columns", "script", "create", "index", "finish"}
            \subseteq Phases \ {"rename"}
      BY DEF Phases
    <3>2. Grants \in Tables /\ Steps \in Tables /\ on[p] \in Tables
      BY DEF Tables, TypeOK
    <3> QED
      BY <1>5, <3>1, <3>2 DEF Begin, Stop, CheckLegacy, CheckTable, CheckColumns, SetVersion,
         Create, Index, Fail, End, Onward
  <2> QED
    BY <1>1, <1>2, <2>1, MoveKeep, FrameKeep
<1> QED
  BY <1>3, <1>4, <1>5

\* Only an outdated table is renamed, and its rows are in the copy then.
LEMMA RenameKeep ==
  ASSUME TypeOK, KeepInv, NEW p \in Processes, Rename(p)
  PROVE  KeepInv'
<1> SUFFICES ASSUME quiet, NEW t \in Tables PROVE Outdated(t)' \/ Migrated(t)'
  BY DEF KeepInv, Rename, history
<1>1. Outdated(t) \/ Migrated(t)
  BY DEF KeepInv
<1>2. on[p] \in Tables /\ at[p] = "rename" /\ owed' = owed
  BY DEF TypeOK, Rename, history
<1>3. CASE t = on[p]
  <2>1. Outdated(t) /\ t \notin staged
    BY <1>1, <1>2, <1>3 DEF Migrated, Rename
  <2>2. legacy[t] = NoRows
    BY <2>1 DEF TypeOK
  <2>3. rows'[t] = NoRows /\ legacy'[t] = rows[t]
    BY <1>3 DEF Rename, TypeOK
  <2>4. Kept(t)' = Kept(t)
    BY <2>2, <2>3, RangeNoRows DEF Kept
  <2> QED
    BY <1>2, <2>1, <2>3, <2>4 DEF Outdated
<1>4. CASE t # on[p]
  <2>1. rows'[t] = rows[t] /\ legacy'[t] = legacy[t] /\ shape'[t] = shape[t]
        /\ (t \in staged' <=> t \in staged)
    BY <1>4 DEF Rename, TypeOK
  <2>2. Kept(t)' = Kept(t)
    BY <2>1 DEF Kept
  <2>3. \A q \in Processes : at'[q] = "rename" => at[q] = "rename" /\ on'[q] = on[q]
    <3>1. \E phase \in Phases \ {"rename"}, u \in Tables : Goto(p, phase, u)
      BY DEF Rename, Onward, Phases, Tables
    <3> QED
      BY <3>1, MoveKeep
  <2> QED
    BY <1>1, <1>2, <2>1, <2>2, <2>3 DEF Outdated, Migrated
<1> QED
  BY <1>3, <1>4

\* The copy of an outdated table into the empty one yields the same rows.
LEMMA CarriedWhole ==
  ASSUME TypeOK, NEW t \in Tables, Outdated(t), t \in staged
  PROVE  Range(Merged(t)) = Kept(t)
<1>1. rows[t] = NoRows /\ Range(legacy[t]) \subseteq OldItems
  BY DEF Outdated, Kept
<1>2. Kept(t) = Range(legacy[t])
  BY <1>1, RangeNoRows DEF Kept
<1>3. \A i \in DOMAIN legacy[t] : legacy[t][i] \in OldItems
  BY <1>1 DEF Range
<1>4. DOMAIN Carried(t) = DOMAIN legacy[t]
      /\ \A i \in DOMAIN legacy[t] : Carried(t)[i] = legacy[t][i]
  BY <1>3 DEF Carried
<1>5. DOMAIN Merged(t) = DOMAIN legacy[t]
      /\ \A i \in DOMAIN legacy[t] : Merged(t)[i] = legacy[t][i]
  BY <1>1, <1>4, RangeNoRows DEF Merged
<1>6. Range(Merged(t)) = Range(legacy[t])
  BY <1>5 DEF Range
<1> QED
  BY <1>2, <1>6

\* A finished copy is that of an outdated table; a migrated one has no copy to finish.
LEMMA FinishKeep ==
  ASSUME TypeOK, KeepInv, NEW p \in Processes, Finish(p)
  PROVE  KeepInv'
<1> SUFFICES ASSUME quiet, NEW t \in Tables PROVE Outdated(t)' \/ Migrated(t)'
  BY DEF KeepInv, Finish
<1>1. Outdated(t) \/ Migrated(t)
  BY DEF KeepInv
<1>2. owed' = owed /\ shape' = shape
  BY DEF Finish
<1>3. CASE t \in pending[p]
  <2>1. t \in staged /\ Outdated(t)
    BY <1>1, <1>3 DEF Finish, CanFinish, Migrated
  <2>2. rows'[t] = Merged(t) /\ legacy'[t] = NoRows /\ t \notin staged'
    BY <1>3 DEF Finish
  <2>3. Kept(t)' = Kept(t)
    BY <2>1, <2>2, CarriedWhole, RangeNoRows DEF Kept
  <2> QED
    BY <1>2, <2>1, <2>2, <2>3 DEF Outdated
<1>4. CASE t \notin pending[p]
  <2>1. rows'[t] = rows[t] /\ legacy'[t] = legacy[t] /\ (t \in staged' <=> t \in staged)
    BY <1>4 DEF Finish
  <2>2. Kept(t)' = Kept(t)
    BY <2>1 DEF Kept
  <2>3. \A q \in Processes : at'[q] = "rename" => at[q] = "rename" /\ on'[q] = on[q]
    BY MoveKeep DEF Finish, End, Phases, Tables
  <2> QED
    BY <1>1, <1>2, <2>1, <2>2, <2>3 DEF Outdated, Migrated
<1> QED
  BY <1>3, <1>4

\* An edit of a settled database finds the table it edits migrated, and changes what
\* is owed as it changes the rows.
LEMMA EditKeep ==
  ASSUME TypeOK, KeepInv, NEW t \in Tables, NEW contents, NEW items,
         Edit(t, contents, items),
         owed[t] = Range(rows[t]) => items = Range(contents)
  PROVE  KeepInv'
<1> SUFFICES ASSUME quiet, Settled, NEW u \in Tables PROVE Outdated(u)' \/ Migrated(u)'
  BY DEF KeepInv, Edit
<1>1. Outdated(u) \/ Migrated(u)
  BY DEF KeepInv
<1>2. /\ shape' = shape /\ staged' = staged /\ legacy' = legacy /\ at' = at /\ on' = on
      /\ shape[t] = "new"
      /\ rows' = [rows EXCEPT ![t] = contents] /\ owed' = [owed EXCEPT ![t] = items]
  BY DEF Edit, local
<1>3. CASE u = t
  <2>1. t \notin staged /\ \A q \in Processes : at[q] # "rename"
    BY DEF Settled, Busy
  <2>2. legacy[t] = NoRows
    BY <2>1 DEF TypeOK
  <2>3. owed[t] = Range(rows[t])
    BY <1>1, <1>3, <2>2, RangeNoRows DEF Outdated, Migrated, Kept
  <2>4. rows'[t] = contents /\ owed'[t] = items
    BY <1>2 DEF TypeOK
  <2> QED
    BY <1>2, <1>3, <2>1, <2>3, <2>4 DEF Migrated
<1>4. CASE u # t
  <2>1. rows'[u] = rows[u] /\ owed'[u] = owed[u]
    BY <1>2, <1>4 DEF TypeOK
  <2> QED
    BY <1>1, <1>2, <2>1 DEF Outdated, Migrated, Kept
<1> QED
  BY <1>3, <1>4

\* Inserting adds the item to the rows.
LEMMA InsertKeep ==
  ASSUME TypeOK, KeepInv, NEW t \in Tables, NEW id \in Ids, NEW item \in Items,
         Insert(t, id, item)
  PROVE  KeepInv'
<1> DEFINE contents == [i \in DOMAIN rows[t] \cup {id} |-> IF i = id THEN item ELSE rows[t][i]]
<1>1. id \notin DOMAIN rows[t]
  <2>1. \A j \in DOMAIN rows[t] : j < id
    BY DEF Insert
  <2>2. ~(id < id)
    BY DEF Ids
  <2> QED
    BY <2>1, <2>2
<1>2. Range(contents) = Range(rows[t]) \cup {item}
  BY <1>1 DEF Range
<1>3. Edit(t, contents, owed[t] \cup {item})
  BY DEF Insert
<1> QED
  BY <1>2, <1>3, EditKeep

\* Deleting leaves what the remaining rows say.
LEMMA DeleteKeep ==
  ASSUME TypeOK, KeepInv, NEW id \in Ids, DeleteGrant(id)
  PROVE  KeepInv'
<1> DEFINE rest == Restrict(rows[Grants], DOMAIN rows[Grants] \ {id})
           items == Range(rest) \cup (owed[Grants] \ {rows[Grants][id]})
<1>1. id \in DOMAIN rows[Grants] /\ Edit(Grants, rest, items)
  BY DEF DeleteGrant
<1>2. ASSUME owed[Grants] = Range(rows[Grants]) PROVE items = Range(rest)
  BY <1>1, <1>2 DEF Range, Restrict
<1>3. Grants \in Tables
  BY DEF Tables
<1> QED
  BY <1>1, <1>2, <1>3, EditKeep

\* Every step keeps the invariant.
LEMMA NextKeep == TypeOK /\ KeepInv /\ [Next]_vars => KeepInv'
<1> SUFFICES ASSUME TypeOK, KeepInv, [Next]_vars PROVE KeepInv'
  OBVIOUS
<1>1. ASSUME NEW p \in Processes, Begin(p) \/ StartServer(p) \/ Stop(p) PROVE KeepInv'
  BY <1>1, ControlKeep
<1>2. ASSUME NEW p \in Processes, Statement(p) PROVE KeepInv'
  <2>1. CASE RenameFails(p) \/ IndexFails(p) \/ FinishFails(p)
    BY <2>1, ControlKeep DEF RenameFails, IndexFails, FinishFails
  <2> QED
    BY <1>2, <2>1, ControlKeep, RenameKeep, FinishKeep DEF Statement
<1>3. ASSUME NEW t \in Tables, NEW id \in Ids, NEW item \in Items, Insert(t, id, item)
      PROVE  KeepInv'
  BY <1>3, InsertKeep
<1>4. ASSUME NEW id \in Ids, DeleteGrant(id) PROVE KeepInv'
  BY <1>4, DeleteKeep
<1>5. CASE UNCHANGED vars
  BY <1>5 DEF KeepInv, Outdated, Migrated, Kept, vars, database, local, history
<1> QED
  BY <1>1, <1>2, <1>3, <1>4, <1>5 DEF Next

\* No grant and no planning step is lost and no deleted grant comes back, for any number
\* of concurrent upgrades, crashes at any statement and later edits, as long as none of
\* the edits falls into an unfinished upgrade.
THEOREM UpgradesKeepRows == Spec => []UpgradeKeepsRows
<1>1. TypeOK /\ KeepInv => UpgradeKeepsRows
  <2> SUFFICES ASSUME TypeOK, KeepInv, quiet, NEW t \in Tables PROVE owed[t] = Kept(t)
    BY DEF UpgradeKeepsRows
  <2>1. CASE Migrated(t)
    BY <2>1, RangeNoRows DEF Migrated, Kept, TypeOK
  <2> QED
    BY <2>1 DEF KeepInv, Outdated
<1> QED
  BY <1>1, InitType, NextType, InitKeep, NextKeep, PTL DEF Spec

-----------------------------------------------------------------------------
\* The check of table t is behind p.
Checked(p, t) ==
  at[p] \in {"legacy", "table", "columns", "rename"} => on[p] = Steps /\ t = Grants

\* What a sole process p knows of table t at each of its statements.
Knows(p, t) ==
  /\ t \in pending[p] => Checked(p, t)
  /\ Checked(p, t) => (t \in pending[p] <=> t \in staged)
                      /\ (t \notin staged => shape[t] # "old")
  /\ at[p] \in {"table", "columns", "rename"} /\ on[p] = t => t \notin staged
  /\ at[p] \in {"columns", "rename"} /\ on[p] = t => shape[t] # "absent"
  /\ at[p] = "rename" /\ on[p] = t => shape[t] # "new"
  /\ at[p] = "create" /\ on[p] = Steps /\ t = Grants => shape[t] = "new"
  /\ at[p] \in {"index", "finish"} => shape[t] = "new"

Sole ==
  /\ \A p, q \in Processes : Busy(p) /\ Busy(q) => p = q
  /\ \A p \in Processes : Busy(p) => \A t \in Tables : Knows(p, t)
  /\ \A t \in Tables : t \in staged => shape[t] # "old"
  /\ \A p \in Processes : ~Busy(p) => pending[p] = {}
  /\ ~failed
  /\ upgraded => staged = {} /\ \A t \in Tables : shape[t] = "new"

SoleInv == ~overlapped => Sole

\* Nobody is busy in a database just opened.
LEMMA InitSole == Init => SoleInv
BY DEF Init, SoleInv, Sole, Busy

\* One process is started where nobody is busy, and knows nothing yet.
LEMMA BeginSole ==
  ASSUME TypeOK, SoleInv, NEW p \in Processes, Begin(p)
  PROVE  SoleInv'
<1> SUFFICES ASSUME ~overlapped' PROVE Sole'
  BY DEF SoleInv
<1>1. ~overlapped /\ \A q \in Processes : ~Busy(q)
  BY DEF Begin, TypeOK
<1>2. Sole
  BY <1>1 DEF SoleInv
<1>3. /\ at' = [at EXCEPT ![p] = "legacy"] /\ on' = [on EXCEPT ![p] = Grants]
      /\ UNCHANGED <<shape, staged, pending, failed, upgraded>>
  BY DEF Begin, Goto
<1>4. \A q \in Processes : Busy(q)' => q = p
  BY <1>1, <1>3 DEF Busy, TypeOK
<1>5. pending[p] = {} /\ at'[p] = "legacy" /\ on'[p] = Grants
  BY <1>1, <1>2, <1>3 DEF Sole, TypeOK
<1>6. \A t \in Tables : Knows(p, t)'
  BY <1>3, <1>5 DEF Knows, Checked, Grants, Steps
<1> QED
  BY <1>1, <1>2, <1>3, <1>4, <1>5, <1>6 DEF Sole, Busy

\* A step of the sole process p that leaves it knowing what it must know.
LEMMA StatementSole ==
  ASSUME TypeOK, Sole, NEW p \in Processes, Busy(p),
         \A q \in Processes \ {p} : at'[q] = at[q] /\ pending'[q] = pending[q],
         Busy(p)' => \A t \in Tables : Knows(p, t)',
         ~Busy(p)' => pending'[p] = {},
         \A t \in Tables : t \in staged' => shape'[t] # "old",
         ~failed',
         upgraded' => staged' = {} /\ \A t \in Tables : shape'[t] = "new"
  PROVE  Sole'
<1>1. \A q \in Processes : Busy(q)' => q = p
  BY DEF Sole, Busy
<1>2. \A q \in Processes : ~Busy(q)' => pending'[q] = {}
  BY DEF Sole, Busy
<1> QED
  BY <1>1, <1>2 DEF Sole

\* The checks of the sole process find what is there.
LEMMA ChecksSole ==
  ASSUME TypeOK, Sole, NEW p \in Processes,
         CheckLegacy(p) \/ CheckTable(p) \/ CheckColumns(p)
  PROVE  Sole'
<1>1. Busy(p) /\ on[p] \in Tables /\ Grants # Steps
  BY DEF CheckLegacy, CheckTable, CheckColumns, Busy, TypeOK, Grants, Steps
<1>2. UNCHANGED <<shape, staged, failed, upgraded>>
  BY DEF CheckLegacy, CheckTable, CheckColumns, database, history
<1>3. \A t \in Tables : Knows(p, t)
  BY <1>1 DEF Sole
<1>4. ASSUME NEW t \in Tables PROVE Knows(p, t)'
  <2>1. CASE CheckLegacy(p)
    BY <1>1, <1>2, <1>3, <2>1 DEF CheckLegacy, Onward, Goto, Knows, Checked, TypeOK, Tables
  <2>2. CASE CheckTable(p)
    BY <1>1, <1>2, <1>3, <2>2 DEF CheckTable, Onward, Goto, Knows, Checked, TypeOK, Tables
  <2>3. CASE CheckColumns(p)
    BY <1>1, <1>2, <1>3, <2>3 DEF CheckColumns, Onward, Goto, Knows, Checked, TypeOK, Tables
  <2> QED
    BY <2>1, <2>2, <2>3
<1>5. /\ Busy(p)'
      /\ \A q \in Processes \ {p} : at'[q] = at[q] /\ pending'[q] = pending[q]
  BY <1>1 DEF CheckLegacy, CheckTable, CheckColumns, Onward, Goto, Busy, TypeOK
<1> QED
  BY <1>1, <1>2, <1>4, <1>5, StatementSole DEF Sole

\* It renames an old table only, and then has a copy to finish.
LEMMA RenameSole ==
  ASSUME TypeOK, Sole, NEW p \in Processes, Rename(p)
  PROVE  Sole'
<1>1. Busy(p) /\ on[p] \in Tables /\ Grants # Steps /\ at[p] = "rename"
  BY DEF Rename, Busy, TypeOK, Grants, Steps
<1>2. \A t \in Tables : Knows(p, t)
  BY <1>1 DEF Sole
<1>3. /\ shape' = [shape EXCEPT ![on[p]] = "absent"]
      /\ staged' = staged \cup {on[p]}
      /\ pending' = [pending EXCEPT ![p] = @ \cup {on[p]}]
      /\ failed' = failed /\ upgraded' = upgraded
  BY DEF Rename, history
<1>4. shape[on[p]] = "old" /\ ~upgraded
  BY <1>1, <1>2 DEF Knows, TypeOK, Rename, Sole
<1>5. ASSUME NEW t \in Tables PROVE Knows(p, t)'
  BY <1>1, <1>2, <1>3 DEF Rename, Onward, Goto, Knows, Checked, TypeOK, Tables
<1>6. /\ Busy(p)'
      /\ \A q \in Processes \ {p} : at'[q] = at[q] /\ pending'[q] = pending[q]
      /\ \A t \in Tables : t \in staged' => shape'[t] # "old"
  BY <1>1, <1>3 DEF Rename, Onward, Goto, Busy, TypeOK, Sole
<1> QED
  BY <1>1, <1>3, <1>4, <1>5, <1>6, StatementSole DEF Sole

\* The script gives every table the new shape.
LEMMA ScriptSole ==
  ASSUME TypeOK, Sole, NEW p \in Processes, SetVersion(p) \/ Create(p) \/ Index(p)
  PROVE  Sole'
<1>1. Busy(p) /\ on[p] \in Tables /\ Grants # Steps
  BY DEF SetVersion, Create, Index, Busy, TypeOK, Grants, Steps
<1>2. \A t \in Tables : Knows(p, t)
  BY <1>1 DEF Sole
<1>3. UNCHANGED <<staged, pending, failed, upgraded>>
  BY DEF SetVersion, Create, Index, database, history
<1>4. ASSUME NEW t \in Tables PROVE Knows(p, t)'
  <2>1. CASE SetVersion(p)
    BY <1>1, <1>2, <1>3, <2>1 DEF SetVersion, Goto, Knows, Checked, TypeOK, Tables
  <2>2. CASE Create(p)
    <3>1. shape[on[p]] # "old"
      BY <1>1, <1>2, <2>2 DEF Create, Knows, Checked, Sole
    <3> QED
      BY <1>1, <1>2, <1>3, <2>2, <3>1 DEF Create, Onward, Goto, Knows, Checked, TypeOK, Tables
  <2>3. CASE Index(p)
    BY <1>1, <1>2, <1>3, <2>3 DEF Index, Onward, Goto, Knows, Checked, TypeOK, Tables, database
  <2> QED
    BY <2>1, <2>2, <2>3
<1>5. /\ Busy(p)'
      /\ \A q \in Processes \ {p} : at'[q] = at[q] /\ pending'[q] = pending[q]
      /\ \A t \in Tables : shape'[t] \in {shape[t], "new"}
  BY <1>1, <1>3 DEF SetVersion, Create, Index, Onward, Goto, Busy, TypeOK, database
<1> QED
  BY <1>1, <1>3, <1>4, <1>5, StatementSole DEF Sole

\* At the end nothing is left over.
LEMMA FinishSole ==
  ASSUME TypeOK, Sole, NEW p \in Processes, Finish(p)
  PROVE  Sole'
<1>1. Busy(p) /\ at[p] = "finish"
  BY DEF Finish, Busy
<1>2. \A t \in Tables : shape[t] = "new" /\ (t \in pending[p] <=> t \in staged)
  BY <1>1 DEF Sole, Knows, Checked
<1>3. staged' = {} /\ shape' = shape
  BY <1>2 DEF Finish, TypeOK
<1>4. /\ ~Busy(p)' /\ pending'[p] = {}
      /\ \A q \in Processes \ {p} : at'[q] = at[q] /\ pending'[q] = pending[q]
  BY DEF Finish, End, Goto, Busy, TypeOK
<1> QED
  BY <1>1, <1>2, <1>3, <1>4, StatementSole DEF Finish, Sole

\* None of its statements can fail.
LEMMA NoFailure ==
  ASSUME TypeOK, Sole, NEW p \in Processes
  PROVE  ~RenameFails(p) /\ ~IndexFails(p) /\ ~FinishFails(p)
<1>1. ASSUME Busy(p) PROVE \A t \in Tables : Knows(p, t)
  BY <1>1 DEF Sole
<1>2. on[p] \in Tables /\ pending[p] \subseteq Tables
  BY DEF TypeOK
<1>3. ~RenameFails(p)
  BY <1>1, <1>2 DEF RenameFails, Busy, Knows
<1>4. ~IndexFails(p)
  BY <1>1, <1>2 DEF IndexFails, Busy, Knows
<1>5. ~FinishFails(p)
  BY <1>1, <1>2 DEF FinishFails, CanFinish, Busy, Knows, Checked
<1> QED
  BY <1>3, <1>4, <1>5

\* Every step keeps the invariant.
LEMMA NextSole == TypeOK /\ SoleInv /\ [Next]_vars => SoleInv'
<1> SUFFICES ASSUME TypeOK, SoleInv, [Next]_vars PROVE SoleInv'
  OBVIOUS
<1>1. ASSUME NEW p \in Processes, Begin(p) PROVE SoleInv'
  BY <1>1, BeginSole
<1>2. ASSUME NEW p \in Processes, Statement(p), ~overlapped' PROVE Sole'
  <2>1. ~overlapped
    BY <1>2 DEF Statement, CheckLegacy, CheckTable, CheckColumns, Rename, RenameFails,
         SetVersion, Create, Index, IndexFails, Finish, FinishFails, Fail, history
  <2>2. Sole
    BY <2>1 DEF SoleInv
  <2> QED
    BY <1>2, <2>2, ChecksSole, RenameSole, ScriptSole, FinishSole, NoFailure DEF Statement
<1>3. ASSUME NEW p \in Processes, Stop(p), ~overlapped' PROVE Sole'
  <2>1. Sole /\ Busy(p)
    BY <1>3 DEF SoleInv, Stop, history
  <2>2. UNCHANGED <<shape, staged, failed, upgraded>>
    BY <1>3 DEF Stop, database, history
  <2>3. /\ ~Busy(p)' /\ pending'[p] = {}
        /\ \A q \in Processes \ {p} : at'[q] = at[q] /\ pending'[q] = pending[q]
    BY <1>3 DEF Stop, End, Goto, Busy, TypeOK
  <2> QED
    BY <2>1, <2>2, <2>3, StatementSole DEF Sole
<1>4. ASSUME UNCHANGED <<shape, staged, at, on, pending, overlapped, failed, upgraded>>
      PROVE  SoleInv'
  BY <1>4 DEF SoleInv, Sole, Knows, Checked, Busy
<1>5. ASSUME NEW p \in Processes, StartServer(p) PROVE SoleInv'
  BY <1>4, <1>5 DEF StartServer, database, local, history
<1>6. ASSUME NEW t, NEW contents, NEW items, Edit(t, contents, items) PROVE SoleInv'
  BY <1>4, <1>6 DEF Edit, local
<1>7. CASE UNCHANGED vars
  BY <1>4, <1>7 DEF vars, database, local, history
<1> QED
  BY <1>1, <1>2, <1>3, <1>5, <1>6, <1>7 DEF Next, SoleInv, Insert, DeleteGrant

\* An upgrade no other overlaps is resumable: none of its statements fails on whatever
\* interrupted ones left, and when it has succeeded both tables are rebuilt.
THEOREM SoleUpgrades == Spec => [](SoleUpgradeCompletes /\ SoleUpgradeNeverFails)
<1>1. SoleInv => SoleUpgradeCompletes /\ SoleUpgradeNeverFails
  BY DEF SoleInv, Sole, SoleUpgradeCompletes, SoleUpgradeNeverFails
<1> QED
  BY <1>1, InitType, NextType, InitSole, NextSole, PTL DEF Spec

\* In particular no statement of db.py's initialisation meets a table or column it
\* does not expect while one process upgrades at a time.
THEOREM SoleUpgradesNeverFail == Spec => []SoleUpgradeNeverFails
BY SoleUpgrades, PTL

=============================================================================
