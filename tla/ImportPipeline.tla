--------------------------- MODULE ImportPipeline ---------------------------
(***************************************************************************)
(* import_file (import_pipeline/): a ledger, a contract list or a          *)
(* normalized table becomes records, which are resolved, validated and     *)
(* upserted one by one over one connection, and committed together.        *)
(*                                                                         *)
(* SQLite opens the transaction at the first write.  What an import reads  *)
(* before, it reads statement by statement from whatever is committed;     *)
(* afterwards it holds the one write lock and reads its own copy.          *)
(***************************************************************************)
EXTENDS ProjectRows

CONSTANTS
    Imports,    \* processes that import
    Files,      \* [profile, lines]: what there is to import; a plain one has one entity
    Missing,    \* a required value the line lacks
    Reset       \* what an import not under way holds for a file

Outcomes == {"created", "updated", "skipped", "failed"}

ASSUME ImportAssumption ==
    /\ Missing \notin Contents /\ Missing \notin Codes /\ Missing # Absent
    /\ Reset \notin Files /\ Reset \notin Imports

VARIABLES
    writer,    \* the import that holds the write lock, or Reset
    draft,     \* its copy of rows
    at,        \* where each import is
    file,      \* its file
    records,   \* the records made of it
    line,      \* the record it is at
    known,     \* the project codes its validation knows
    report,    \* the outcome of each record so far
    plan,      \* what it found for the record it is at
    disturbed, \* history: another import committed since it began
    latest     \* history: the file committed last, by an undisturbed import

importVars == <<writer, draft, at, file, records, line, known, report, plan, disturbed, latest>>

Places == {"idle", "resolving", "validating", "looking", "writing", "done", "unsupported",
           "broken", "conflict", "locked", "killed"}

ImportTypeOK ==
    /\ RowsTypeOK
    /\ draft \in [Keys -> Contents \cup {Absent}]
    /\ writer \in Imports \cup {Reset}
    /\ at \in [Imports -> Places]
    /\ \A i \in Imports :
        /\ file[i] \in Files \cup {Reset}
        /\ line[i] \in 1 .. Len(records[i]) + 1
        /\ known[i] \subseteq Codes
        /\ Len(report[i]) <= Len(records[i])
        /\ \A n \in DOMAIN report[i] : report[i][n] \in Outcomes \cup {"valid"}
    /\ plan \in [Imports -> {"-", "created", "updated", "skipped", "broken"}]
    /\ disturbed \in [Imports -> BOOLEAN]
    /\ latest \in Files \cup {Reset}

ImportInit ==
    /\ writer = Reset
    /\ draft = rows
    /\ at = [i \in Imports |-> "idle"]
    /\ file = [i \in Imports |-> Reset]
    /\ records = [i \in Imports |-> <<>>]
    /\ line = [i \in Imports |-> 1]
    /\ known = [i \in Imports |-> {}]
    /\ report = [i \in Imports |-> <<>>]
    /\ plan = [i \in Imports |-> "-"]
    /\ disturbed = [i \in Imports |-> FALSE]
    /\ latest = Reset

-----------------------------------------------------------------------------
\* From lines to records.  A record is [entity, code, ext, content].

Record(entity, code, ext, content) ==
    [entity |-> entity, code |-> code, ext |-> ext, content |-> content]

\* A ledger line is a project, its licenses by type, and at most one risk
LedgerRecords(l) ==
    <<Record("projects", l.code, Itself, l.name)>>
    \o [n \in DOMAIN l.licenses |->
           Record("licenses", l.code, l.licenses[n].ext, l.licenses[n].content)]
    \o IF l.risk = Missing THEN <<>> ELSE <<Record("risks", l.code, l.risk, l.risk)>>

\* A contract goes by its number or, without one, by its title
ContractRecord(l) ==
    Record("contracts", l.project, IF l.number # Missing THEN l.number ELSE l.title, l.title)

Adapted(f) ==
    CASE f.profile = "ledger"    -> FlattenSeq([n \in DOMAIN f.lines |-> LedgerRecords(f.lines[n])])
      [] f.profile = "contracts" -> [n \in DOMAIN f.lines |-> ContractRecord(f.lines[n])]
      [] OTHER                   -> f.lines

\* What a line names is text; a stored row is none of it
Texts == Codes \cup Contents \cup Exts \cup DOMAIN AliasOf \cup {Missing}
Records ==
    [entity : {"projects"}, code : Codes \cup {Missing}, ext : {Itself}, content : Contents \cup {Missing}]
    \cup [entity : Children, code : Texts, ext : Exts \cup {Missing}, content : Contents \cup {Missing}]

\* Codes, Exts and Contents are what the files have for them.  A ledger line gives
\* its project before its children; the other files have rows of one entity.
ASSUME FilesAssumption ==
    \A f \in Files :
        LET rs == Adapted(f)
            projects == {n \in DOMAIN rs : rs[n].entity = "projects"}
        IN  /\ rs \in Seq(Records)
            /\ projects = {} \/ \A m \in DOMAIN rs : \E n \in projects : n <= m /\ rs[n].code = rs[m].code

-----------------------------------------------------------------------------
\* One import

Active(i) == at[i] \in {"resolving", "validating", "looking", "writing"}
Goto(i, place) == at' = [at EXCEPT ![i] = place]

\* The profile is told by the headers, else by the name of the file
Begin(i, f) ==
    /\ ~Active(i)
    /\ Goto(i, CASE f.profile = "contracts" -> "resolving"
                  [] f.profile = "unknown"   -> "unsupported"
                  [] OTHER                   -> "validating")
    /\ file' = [file EXCEPT ![i] = f]
    /\ records' = [records EXCEPT ![i] = IF f.profile = "unknown" THEN <<>> ELSE Adapted(f)]
    /\ line' = [line EXCEPT ![i] = 1]
    /\ known' = [known EXCEPT ![i] = {}]
    /\ report' = [report EXCEPT ![i] = <<>>]
    /\ disturbed' = [disturbed EXCEPT ![i] = FALSE]
    /\ UNCHANGED <<rows, writer, draft, plan, latest>>

\* match_project: an alias first, then a code or a name; fetchone takes one of
\* several.  Fuzzy candidates name no project.
Matched(text) ==
    IF text \in DOMAIN AliasOf /\ Exists(AliasOf[text])
    THEN {AliasOf[text]}
    ELSE {c \in Codes : Exists(c) /\ (c = text \/ rows[ProjectKey(c)] = text)}

Resolve(i) ==
    /\ at[i] = "resolving"
    /\ IF line[i] \in DOMAIN records[i]
       THEN /\ LET text == records[i][line[i]].code
               IN  records' = [records EXCEPT ![i][line[i]].code =
                                  IF Matched(text) = {} THEN text
                                                        ELSE CHOOSE c \in Matched(text) : TRUE]
            /\ line' = [line EXCEPT ![i] = @ + 1]
            /\ UNCHANGED at
       ELSE /\ Goto(i, "validating")
            /\ line' = [line EXCEPT ![i] = 1]
            /\ UNCHANGED records
    /\ UNCHANGED <<rows, writer, draft, file, known, report, plan, disturbed, latest>>

\* Mutant: the project of a child is not looked for
FaultyAlone(r, codes) == Missing \in {r.code, r.ext, r.content}

\* _record_has_errors
Faulty(r, codes) ==
    \/ Missing \in {r.code, r.ext, r.content}
    \/ r.entity # "projects" /\ r.code \notin codes

\* The next record that is not rejected, or the end
NextLine(results, n) ==
    LET rest == {k \in n + 1 .. Len(results) : results[k] = "valid"}
    IN  IF rest = {} THEN Len(results) + 1 ELSE Min(rest)

\* A project record that is rejected still counts for the codes of the batch
Validate(i) ==
    /\ at[i] = "validating"
    /\ LET rs      == records[i]
           batch   == {rs[n].code : n \in {k \in DOMAIN rs : rs[k].entity = "projects"}} \ {Missing}
           codes   == batch \cup {c \in Codes : Exists(c)}
           results == [n \in DOMAIN rs |-> IF Faulty(rs[n], codes) THEN "failed" ELSE "valid"]
           IN  /\ known' = [known EXCEPT ![i] = codes]
               /\ report' = [report EXCEPT ![i] = results]
               /\ line' = [line EXCEPT ![i] = NextLine(results, 0)]
    /\ Goto(i, "looking")
    /\ UNCHANGED <<rows, writer, draft, file, records, plan, disturbed, latest>>

KeyOf(r) == [entity |-> r.entity, code |-> r.code, ext |-> r.ext]
View(i) == IF writer = i THEN draft ELSE rows
Here(i) == records[i][line[i]]

\* A child whose project is not there
Orphan(i, r) ==
    r.entity # "projects" /\ (r.code \notin Codes \/ View(i)[ProjectKey(r.code)] = Absent)

\* A process that ends takes its records with it
Forget(i) ==
    /\ file' = [file EXCEPT ![i] = Reset]
    /\ records' = [records EXCEPT ![i] = <<>>]
    /\ line' = [line EXCEPT ![i] = 1]
    /\ known' = [known EXCEPT ![i] = {}]
    /\ report' = [report EXCEPT ![i] = <<>>]
    /\ plan' = [plan EXCEPT ![i] = "-"]

\* A transaction that ends without commit is rolled back
RollBack(i) ==
    /\ writer' = IF writer = i THEN Reset ELSE writer
    /\ draft' = IF writer = i THEN rows ELSE draft

Onward(i, outcome) ==
    LET results == [report[i] EXCEPT ![line[i]] = outcome]
    IN  /\ report' = [report EXCEPT ![i] = results]
        /\ line' = [line EXCEPT ![i] = NextLine(results, @)]

\* Mutant: a child is written whether or not its project is there
LookPastProject(i) ==
    /\ at[i] = "looking" /\ line[i] \in DOMAIN records[i]
    /\ LET r     == Here(i)
           found == View(i)[KeyOf(r)]
       IN  IF found = r.content
           THEN Onward(i, "skipped") /\ UNCHANGED <<at, plan>>
           ELSE /\ Goto(i, "writing")
                /\ plan' = [plan EXCEPT ![i] = IF found = Absent THEN "created" ELSE "updated"]
                /\ UNCHANGED <<line, report>>
    /\ UNCHANGED <<rows, writer, draft, file, records, known, disturbed, latest>>

\* Mutant: the reads see what is committed, not what the import wrote itself
LookAtCommitted(i) ==
    /\ at[i] = "looking" /\ line[i] \in DOMAIN records[i]
    /\ LET r     == Here(i)
           found == rows[KeyOf(r)]
       IN  /\ ~Orphan(i, r)
           /\ IF found = r.content
              THEN Onward(i, "skipped") /\ UNCHANGED <<at, plan>>
              ELSE /\ Goto(i, "writing")
                   /\ plan' = [plan EXCEPT ![i] = IF found = Absent THEN "created" ELSE "updated"]
                   /\ UNCHANGED <<line, report>>
           /\ UNCHANGED <<writer, draft>>
    /\ UNCHANGED <<rows, file, records, known, disturbed, latest>>

\* The reads of _upsert_project and _upsert_child.  An orphan raises: fetchone() is
\* None.
Look(i) ==
    /\ at[i] = "looking" /\ line[i] \in DOMAIN records[i]
    /\ LET r     == Here(i)
           found == View(i)[KeyOf(r)]
       IN  \/ /\ Orphan(i, r)
              /\ Goto(i, "broken")
              /\ RollBack(i)
              /\ UNCHANGED <<line, report, plan>>
           \/ /\ ~Orphan(i, r)
              /\ IF found = r.content
                 THEN Onward(i, "skipped") /\ UNCHANGED <<at, plan>>
                 ELSE /\ Goto(i, "writing")
                      /\ plan' = [plan EXCEPT ![i] = IF found = Absent THEN "created" ELSE "updated"]
                      /\ UNCHANGED <<line, report>>
              /\ UNCHANGED <<writer, draft>>
    /\ UNCHANGED <<rows, file, records, known, disturbed, latest>>

\* The first write takes the lock and the copy; a row that came in between makes
\* an insert fail
Write(i) ==
    /\ at[i] = "writing" /\ writer \in {Reset, i}
    /\ LET r == Here(i)
       IN  IF plan[i] = "created" /\ View(i)[KeyOf(r)] # Absent
           THEN /\ Goto(i, "conflict")
                /\ RollBack(i)
                /\ UNCHANGED <<line, report>>
           ELSE /\ Goto(i, "looking")
                /\ writer' = i
                /\ draft' = [View(i) EXCEPT ![KeyOf(r)] = r.content]
                /\ Onward(i, plan[i])
    /\ plan' = [plan EXCEPT ![i] = "-"]
    /\ UNCHANGED <<rows, file, records, known, disturbed, latest>>

\* sqlite3.connect waits five seconds for a lock
LockTimeout(i) ==
    /\ at[i] = "writing" /\ writer \notin {Reset, i}
    /\ Goto(i, "locked")
    /\ Forget(i)
    /\ UNCHANGED <<rows, writer, draft, disturbed, latest>>

Commit(i) ==
    /\ at[i] = "looking" /\ line[i] > Len(records[i])
    /\ Goto(i, "done")
    /\ rows' = View(i)
    /\ writer' = IF writer = i THEN Reset ELSE writer
    /\ UNCHANGED draft
    /\ disturbed' = [j \in Imports |-> j # i /\ (disturbed[j] \/ (Active(j) /\ writer = i))]
    /\ latest' = IF disturbed[i] THEN Reset ELSE file[i]
    /\ Forget(i)

Kill(i) ==
    /\ Active(i)
    /\ Goto(i, "killed")
    /\ RollBack(i)
    /\ Forget(i)
    /\ UNCHANGED <<rows, disturbed, latest>>

Import(i) ==
    \/ \E f \in Files : Begin(i, f)
    \/ Resolve(i) \/ Validate(i) \/ Look(i) \/ Write(i) \/ LockTimeout(i) \/ Commit(i) \/ Kill(i)

ImportNext == \E i \in Imports : Import(i)

-----------------------------------------------------------------------------
\* A contract, license or risk belongs to a project that is there, in what is
\* committed and in what is about to be.
ChildrenHaveProjects ==
    \A k \in Keys :
        /\ rows[k] # Absent => rows[ProjectKey(k.code)] # Absent
        /\ draft[k] # Absent => draft[ProjectKey(k.code)] # Absent

\* A file aborts with an exception only for a project record of it that was
\* rejected while its children were not, or for a row another import committed
\* under way: files with sound project lines, imported alone, are never lost.
AbortsAreExplained ==
    \A i \in Imports :
        /\ at[i] = "broken" =>
               \E n, m \in DOMAIN report[i] :
                   /\ report[i][n] = "failed" /\ records[i][n].entity = "projects"
                   /\ report[i][m] = "valid" /\ records[i][m].entity # "projects"
                   /\ records[i][n].code = records[i][m].code
        /\ at[i] = "conflict" => disturbed[i]

\* The report of an import is what its commit does: rows change only where a
\* record was created or updated, what was created was not there, and, if no
\* other import committed meanwhile, every record that was not rejected stands
\* as the last line for its key has it.
ReportIsTrue ==
    [][\A i \in Imports :
        Commit(i) =>
            LET rs == records[i]
                Written(k) == {n \in DOMAIN rs : KeyOf(rs[n]) = k /\ report[i][n] \in {"created", "updated"}}
                LastOfKey(n) == \A m \in n + 1 .. Len(rs) :
                                    KeyOf(rs[m]) = KeyOf(rs[n]) => report[i][m] = "failed"
            IN  /\ \A k \in Keys : rows'[k] # rows[k] => Written(k) # {}
                /\ \A n \in DOMAIN rs : report[i][n] = "created" => rows[KeyOf(rs[n])] = Absent
                /\ ~disturbed[i] =>
                       \A n \in DOMAIN rs :
                           (report[i][n] # "failed" /\ LastOfKey(n)) =>
                               rows'[KeyOf(rs[n])] = rs[n].content]_<<rows, importVars>>

\* Importing the same file again, with nothing committed in between, leaves
\* every row as it is, whatever lines it repeats or lacks.
ReimportChangesNothing ==
    [][\A i \in Imports : Commit(i) /\ ~disturbed[i] /\ file[i] = latest => rows' = rows]_<<rows, importVars>>
=============================================================================
