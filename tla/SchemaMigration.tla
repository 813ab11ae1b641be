--------------------------- MODULE SchemaMigration ---------------------------
(* The upgrade of a deployed database, db.initialize_schema: two tables are renamed
   out of the way, recreated by the schema script, filled from their legacy copies and
   the copies dropped. sqlite3 commits each statement up to the copy by itself; the
   copy and the drop of both tables are one transaction. Every start of the console,
   every import and every health check runs it, several at once if it so happens, and
   it may end between any two statements. The query server only looks at
   schema_version, which the script sets before the tables are there. *)
EXTENDS Integers, Functions

CONSTANTS Servers,    \* query servers: they check the version, and upgrade when asked
                      \* for their health
          Consoles,   \* they upgrade when they start
          Commands,   \* imports and the like: they upgrade and end
          Items,      \* what a row says (a grant, a planning step)
          OldItems,   \* items the old shape can hold (no user grant, no turn id)
          NoTurn,     \* a step after its turn id was replaced by a synthetic one
          MaxId,      \* bound on row ids
          MaxEdits,   \* bound on inserts and deletes of a behaviour
          MaxStops    \* bound on crashes and lock timeouts of a behaviour

ASSUME MigrationAssumption ==
  /\ Servers \cap (Consoles \cup Commands) = {} /\ Consoles \cap Commands = {}
  /\ OldItems \subseteq Items
  /\ NoTurn \in OldItems
  /\ {MaxId, MaxEdits, MaxStops} \subseteq Nat

Processes == Servers \cup Consoles \cup Commands
Grants == "permission_grants"
Steps == "agent_steps"
Tables == {Grants, Steps}
Ids == 1..MaxId
Tabs == UNION {[I -> Items] : I \in SUBSET Ids}   \* contents of a table, by id
NoRows == [i \in {} |-> NoTurn]

VARIABLES version,  \* schema_version: "none" (no file), "old" or "current"
          shape,    \* shape[t]: "absent", "old" or "new"
          rows,     \* rows[t]: the rows of table t
          staged,   \* the tables whose *_legacy copy exists
          legacy,   \* legacy[t]: the rows of that copy
          at, on,   \* at[p]: the statement p is about to run, on[p]: its table
          pending,  \* pending[p]: the copies p has promised to finish
          serving,  \* the servers and consoles that answer requests
          edits, stops,
          owed,       \* history: owed[t], the items written and not deleted
          quiet,      \* history: no row was edited while an upgrade was unfinished
          overlapped, \* history: two processes have been initialising at once
          failed,     \* history: a statement of an upgrade has failed
          upgraded    \* history: an initialisation has succeeded

database == <<version, shape, rows, staged, legacy>>
local == <<at, on, pending>>
history == <<owed, quiet, overlapped, failed, upgraded>>
vars == <<database, local, serving, edits, stops, history>>

Phases == {"idle", "legacy", "table", "columns", "rename", "script", "create",
           "index", "finish"}

Busy(p) == at[p] # "idle"
\* No initialisation runs and no copy is left over.
Settled == staged = {} /\ \A p \in Processes : ~Busy(p)

\* The databases releases have left behind: any mix of shapes under an old version,
\* the new shapes under the current one, or no file at all.
Init ==
  /\ version \in {"none", "old", "current"}
  /\ shape \in [Tables -> {"absent", "old", "new"}]
  /\ version = "none" => \A t \in Tables : shape[t] = "absent"
  /\ version = "current" => \A t \in Tables : shape[t] = "new"
  /\ rows \in [Tables -> {f \in Tabs : IsInjective(f)}]
  /\ \A t \in Tables : /\ shape[t] = "absent" => rows[t] = NoRows
                       /\ shape[t] = "old" => Range(rows[t]) \subseteq OldItems
  /\ staged = {} /\ legacy = [t \in Tables |-> NoRows]
  /\ at = [p \in Processes |-> "idle"] /\ on = [p \in Processes |-> Grants]
  /\ pending = [p \in Processes |-> {}] /\ serving = {} /\ edits = 0 /\ stops = 0
  /\ owed = [t \in Tables |-> Range(rows[t])]
  /\ quiet = TRUE /\ overlapped = FALSE /\ failed = FALSE /\ upgraded = FALSE

Goto(p, phase, t) == at' = [at EXCEPT ![p] = phase] /\ on' = [on EXCEPT ![p] = t]
\* The same statement for the second table, or the next statement for the first.
Onward(p, phase, next) ==
  IF on[p] = Grants THEN Goto(p, phase, Steps) ELSE Goto(p, next, Grants)

End(p) == Goto(p, "idle", Grants) /\ pending' = [pending EXCEPT ![p] = {}]

\* A statement raises: the initialisation ends, its open transaction is rolled back.
Fail(p) ==
  /\ End(p)
  /\ failed' = TRUE
  /\ UNCHANGED <<database, serving, edits, stops, owed, quiet, overlapped, upgraded>>

\* A console starts, a command runs, a query server is asked for its health or finds no
\* file when it starts.
Begin(p) ==
  /\ ~Busy(p)
  /\ p \in Servers => p \in serving \/ version = "none"
  /\ version' = IF version = "none" THEN "old" ELSE version
  /\ Goto(p, "legacy", Grants)
  /\ overlapped' = (overlapped \/ \E q \in Processes : Busy(q))
  /\ UNCHANGED <<shape, rows, staged, legacy, pending, serving, edits, stops,
                 owed, quiet, failed, upgraded>>

\* The query server starts: it checks the version and upgrades nothing.
StartServer(p) ==
  /\ p \in Servers \ serving
  /\ ~Busy(p)
  /\ version = "current"
  /\ serving' = serving \cup {p}
  /\ UNCHANGED <<database, local, edits, stops, history>>

\* Mutant: a leftover copy is not looked for.
CheckLegacyNot(p) ==
  /\ at[p] = "legacy"
  /\ Goto(p, "table", on[p])
  /\ UNCHANGED <<database, pending, serving, edits, stops, history>>

\* Is there a leftover copy? Then it is to be finished.
CheckLegacy(p) ==
  /\ at[p] = "legacy"
  /\ IF on[p] \in staged
       THEN Onward(p, "legacy", "script") /\ pending' = [pending EXCEPT ![p] = @ \cup {on[p]}]
       ELSE Goto(p, "table", on[p]) /\ UNCHANGED pending
  /\ UNCHANGED <<database, serving, edits, stops, history>>

\* Mutant: a table that does not exist is not told from an old one.
CheckTableNot(p) ==
  /\ at[p] = "table"
  /\ Goto(p, "columns", on[p])
  /\ UNCHANGED <<database, pending, serving, edits, stops, history>>

CheckTable(p) ==
  /\ at[p] = "table"
  /\ IF shape[on[p]] = "absent" THEN Onward(p, "legacy", "script")
                                ELSE Goto(p, "columns", on[p])
  /\ UNCHANGED <<database, pending, serving, edits, stops, history>>

\* Mutant: every table that exists is rebuilt.
CheckColumnsNot(p) ==
  /\ at[p] = "columns"
  /\ Goto(p, "rename", on[p])
  /\ UNCHANGED <<database, pending, serving, edits, stops, history>>

\* A table dropped meanwhile has no columns, so it is taken for an old one.
CheckColumns(p) ==
  /\ at[p] = "columns"
  /\ IF shape[on[p]] = "new" THEN Onward(p, "legacy", "script")
                             ELSE Goto(p, "rename", on[p])
  /\ UNCHANGED <<database, pending, serving, edits, stops, history>>

\* Mutant: the rows stay behind when the table is renamed.
RenameLeavingRows(p) ==
  LET t == on[p] IN
  /\ at[p] = "rename"
  /\ shape[t] # "absent" /\ t \notin staged
  /\ shape' = [shape EXCEPT ![t] = "absent"]
  /\ staged' = staged \cup {t}
  /\ legacy' = [legacy EXCEPT ![t] = rows[t]]
  /\ pending' = [pending EXCEPT ![p] = @ \cup {t}]
  /\ Onward(p, "legacy", "script")
  /\ UNCHANGED <<version, rows, serving, edits, stops, history>>

\* Whatever has the name now becomes the copy, unless there is one.
Rename(p) ==
  LET t == on[p] IN
  /\ at[p] = "rename"
  /\ shape[t] # "absent" /\ t \notin staged
  /\ shape' = [shape EXCEPT ![t] = "absent"]
  /\ rows' = [rows EXCEPT ![t] = NoRows]
  /\ staged' = staged \cup {t}
  /\ legacy' = [legacy EXCEPT ![t] = rows[t]]
  /\ pending' = [pending EXCEPT ![p] = @ \cup {t}]
  /\ Onward(p, "legacy", "script")
  /\ UNCHANGED <<version, serving, edits, stops, history>>

RenameFails(p) ==
  /\ at[p] = "rename"
  /\ shape[on[p]] = "absent" \/ on[p] \in staged
  /\ Fail(p)

\* The script begins with schema_version ...
SetVersion(p) ==
  /\ at[p] = "script"
  /\ version' = "current"
  /\ Goto(p, "create", Grants)
  /\ UNCHANGED <<shape, rows, staged, legacy, pending, serving, edits, stops, history>>

\* ... creates what does not exist ...
Create(p) ==
  /\ at[p] = "create"
  /\ shape' = [shape EXCEPT ![on[p]] = IF @ = "absent" THEN "new" ELSE @]
  /\ Onward(p, "create", "index")
  /\ UNCHANGED <<version, rows, staged, legacy, pending, serving, edits, stops, history>>

\* ... and ends with indexes on columns only the new shape has.
Index(p) ==
  /\ at[p] = "index"
  /\ shape[on[p]] = "new"
  /\ Onward(p, "index", "finish")
  /\ UNCHANGED <<database, pending, serving, edits, stops, history>>

IndexFails(p) ==
  /\ at[p] = "index"
  /\ shape[on[p]] # "new"
  /\ Fail(p)

\* The rows a copy yields: user grants violate the check of the new table, since
\* user_id is filled with null, and are skipped; turn ids are replaced.
Carried(t) ==
  LET ids == {i \in DOMAIN legacy[t] : t = Steps \/ legacy[t][i] \in OldItems}
  IN  [i \in ids |-> IF legacy[t][i] \in OldItems THEN legacy[t][i] ELSE NoTurn]

\* insert or ignore: a row whose id is taken is skipped.
Merged(t) ==
  [i \in DOMAIN rows[t] \cup DOMAIN Carried(t) |->
     IF i \in DOMAIN rows[t] THEN rows[t][i] ELSE Carried(t)[i]]

CanFinish(p) == \A t \in pending[p] : t \in staged /\ shape[t] = "new"

\* One transaction for both tables.
Finish(p) ==
  /\ at[p] = "finish"
  /\ CanFinish(p)
  /\ rows' = [t \in Tables |-> IF t \in pending[p] THEN Merged(t) ELSE rows[t]]
  /\ legacy' = [t \in Tables |-> IF t \in pending[p] THEN NoRows ELSE legacy[t]]
  /\ staged' = staged \ pending[p]
  /\ End(p)
  /\ serving' = serving \cup ({p} \cap Consoles)
  /\ upgraded' = TRUE
  /\ UNCHANGED <<version, shape, edits, stops, owed, quiet, overlapped, failed>>

FinishFails(p) ==
  /\ at[p] = "finish"
  /\ ~CanFinish(p)
  /\ Fail(p)

\* A crash of the process, or a lock timeout that ends the initialisation only.
Stop(p) ==
  /\ stops < MaxStops
  /\ Busy(p)
  /\ End(p)
  /\ serving' \in {serving, serving \ {p}}
  /\ stops' = stops + 1
  /\ UNCHANGED <<database, edits, history>>

\* Consoles write the grants, turns of the query servers the steps.
Writers(t) == IF t = Steps THEN serving \cap Servers ELSE serving \cap Consoles

Edit(t, contents, items) ==
  /\ Writers(t) # {} /\ shape[t] = "new" /\ edits < MaxEdits
  /\ rows' = [rows EXCEPT ![t] = contents]
  /\ owed' = [owed EXCEPT ![t] = items]
  /\ edits' = edits + 1
  /\ quiet' = (quiet /\ Settled)
  /\ UNCHANGED <<version, shape, staged, legacy, local, serving, stops,
                 overlapped, failed, upgraded>>

\* A grant of the console, or a step of a turn, at the id after the largest.
Insert(t, id, item) ==
  /\ \A j \in DOMAIN rows[t] : j < id
  /\ id > 1 => id - 1 \in DOMAIN rows[t]
  /\ item \notin Range(rows[t])
  /\ t = Steps => item \notin OldItems
  /\ Edit(t, [i \in DOMAIN rows[t] \cup {id} |-> IF i = id THEN item ELSE rows[t][i]],
          owed[t] \cup {item})

\* The console deletes a grant by the id its page showed.
DeleteGrant(id) ==
  LET rest == Restrict(rows[Grants], DOMAIN rows[Grants] \ {id}) IN
  /\ id \in DOMAIN rows[Grants]
  /\ Edit(Grants, rest, Range(rest) \cup (owed[Grants] \ {rows[Grants][id]}))

Statement(p) ==
  \/ CheckLegacy(p) \/ CheckTable(p) \/ CheckColumns(p)
  \/ Rename(p) \/ RenameFails(p)
  \/ SetVersion(p) \/ Create(p) \/ Index(p) \/ IndexFails(p)
  \/ Finish(p) \/ FinishFails(p)

Next ==
  \/ \E p \in Processes : Begin(p) \/ StartServer(p) \/ Statement(p) \/ Stop(p)
  \/ \E t \in Tables, id \in Ids, item \in Items : Insert(t, id, item)
  \/ \E id \in Ids : DeleteGrant(id)

Spec == Init /\ [][Next]_vars

-----------------------------------------------------------------------------
\* Every variable has its type, a table that is not there has no rows, and neither
\* has a copy that is not there.
TypeOK ==
  /\ version \in {"none", "old", "current"}
  /\ shape \in [Tables -> {"absent", "old", "new"}]
  /\ rows \in [Tables -> Tabs] /\ legacy \in [Tables -> Tabs]
  /\ staged \subseteq Tables
  /\ \A t \in Tables : /\ shape[t] = "absent" => rows[t] = NoRows
                       /\ t \notin staged => legacy[t] = NoRows
  /\ at \in [Processes -> Phases] /\ on \in [Processes -> Tables]
  /\ pending \in [Processes -> SUBSET Tables] /\ serving \subseteq Processes
  /\ edits \in 0..MaxEdits /\ stops \in 0..MaxStops
  /\ owed \in [Tables -> SUBSET Items]
  /\ {quiet, overlapped, failed, upgraded} \subseteq BOOLEAN

\* What the two places where the rows of a table may be hold together.
Kept(t) == Range(rows[t]) \cup Range(legacy[t])

\* As long as nobody edits a row while an upgrade is unfinished, every grant and every
\* planning step is kept, and no deleted grant comes back: however many processes
\* upgrade at once and wherever they stop, also for edits made after it.
UpgradeKeepsRows == quiet => \A t \in Tables : owed[t] = Kept(t)

\* An upgrade that is never run by two processes at once completes, whatever earlier
\* ones left behind: after a success both tables have the new shape and no copy is left.
SoleUpgradeCompletes ==
  upgraded /\ ~overlapped => staged = {} /\ \A t \in Tables : shape[t] = "new"

\* None of its statements fails on what an interrupted run left.
SoleUpgradeNeverFails == failed => overlapped

\* The promise of the docstring and of its test: the rebuild is resumable and the data
\* preserved. Refuted by a query server that starts between script and copy.
UpgradePreservesData == \A t \in Tables : owed[t] \subseteq Kept(t)
=============================================================================
