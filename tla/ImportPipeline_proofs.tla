----------------------- MODULE ImportPipeline_proofs -----------------------
(*************************************************************************)
(* What an import leaves behind, for every number of imports and every   *)
(* file.                                                                 *)
(*                                                                       *)
(* No contract, license or risk is without its project. An import looks  *)
(* for the project of a child in one statement and writes the child in   *)
(* another, and another import may commit in between, or roll back. What *)
(* it saw stays true: nothing removes a project, a copy that is being    *)
(* written holds all that is committed, and nobody commits while there   *)
(* is such a copy but the import that holds it.                          *)
(*                                                                       *)
(* What is reported is what is committed, and a file imported again      *)
(* changes nothing. The copy differs from what is committed only in rows *)
(* that are reported created or updated; if nothing else was committed   *)
(* during the import, the last sound record of each row stands in it. So *)
(* the file imported last stands in the rows until another is.           *)
(*************************************************************************)
EXTENDS ImportPipeline, WellFoundedInduction, TLAPS

Shape ==
    /\ DOMAIN rows = Keys /\ DOMAIN draft = Keys
    /\ DOMAIN at = Imports
    /\ records \in [Imports -> Seq(Records)]
    /\ DOMAIN line = Imports

\* The copy holds all that is committed
Grows == writer # Reset => \A k \in Keys : rows[k] # Absent => draft[k] # Absent

\* The project seen by the read is there at the write
Founded ==
    \A i \in Imports : at[i] = "writing" => line[i] \in DOMAIN records[i] /\ ~Orphan(i, Here(i))

Intact == Shape /\ ChildrenHaveProjects /\ Grows /\ Founded

-----------------------------------------------------------------------------
LEMMA KeyOfProject == \A k \in Keys : ProjectKey(k.code) \in Keys /\ k.code \in Codes
BY DEF Keys, ProjectKey, Children

LEMMA InitIntact == ImportInit /\ DOMAIN rows = Keys /\ ChildrenHaveProjects => Intact
BY DEF ImportInit, Intact, Shape, Grows, Founded

-----------------------------------------------------------------------------
\* Steps that leave the rows and the copy alone
LEMMA StillFounded ==
    ASSUME Intact, NEW i \in Imports, UNCHANGED <<rows, writer, draft>>, Shape',
           \A j \in Imports \ {i} : at'[j] = at[j] /\ line'[j] = line[j] /\ records'[j] = records[j],
           at'[i] = "writing" => line'[i] \in DOMAIN records'[i] /\ ~Orphan(i, Here(i))'
    PROVE  Intact'
<1>1. ChildrenHaveProjects' /\ Grows'
  BY DEF Intact, ChildrenHaveProjects, Grows
<1>2. ASSUME NEW j \in Imports, at'[j] = "writing"
      PROVE  line'[j] \in DOMAIN records'[j] /\ ~Orphan(j, Here(j))'
  <2>1. CASE j = i
    BY <1>2, <2>1
  <2>2. CASE j # i
    BY <1>2, <2>2 DEF Intact, Founded, Orphan, Here, View
  <2> QED BY <2>1, <2>2
<1> QED BY <1>1, <1>2 DEF Intact, Founded

LEMMA BeginIntact == ASSUME Intact, NEW i \in Imports, NEW f \in Files, Begin(i, f) PROVE Intact'
<1>1. /\ at' = [at EXCEPT ![i] = at'[i]] /\ at'[i] # "writing"
      /\ UNCHANGED <<rows, writer, draft>>
  BY DEF Begin, Goto, Intact, Shape
<1>2. /\ records' = [records EXCEPT ![i] = IF f.profile = "unknown" THEN <<>> ELSE Adapted(f)]
      /\ line' = [line EXCEPT ![i] = 1]
  BY DEF Begin
<1>3. Shape'
  <2>1. Adapted(f) \in Seq(Records)
    BY FilesAssumption DEF FilesAssumption
  <2> QED BY <1>1, <1>2, <2>1 DEF Intact, Shape
<1>4. \A j \in Imports \ {i} : at'[j] = at[j] /\ line'[j] = line[j] /\ records'[j] = records[j]
  BY <1>1, <1>2 DEF Intact, Shape
<1> QED BY <1>1, <1>3, <1>4, StillFounded

LEMMA ResolveIntact == ASSUME Intact, NEW i \in Imports, Resolve(i) PROVE Intact'
<1>1. at[i] = "resolving" /\ UNCHANGED <<rows, writer, draft>>
  BY DEF Resolve
<1>2. CASE line[i] \in DOMAIN records[i]
  <2> DEFINE text == records[i][line[i]].code
             code == IF Matched(text) = {} THEN text ELSE CHOOSE c \in Matched(text) : TRUE
  <2>1. /\ records' = [records EXCEPT ![i][line[i]].code = code]
        /\ line' = [line EXCEPT ![i] = @ + 1]
        /\ UNCHANGED at
    BY <1>2 DEF Resolve
  <2>2. line[i] \in DOMAIN records[i] /\ records[i][line[i]] \in Records
    BY <1>2 DEF Intact, Shape
  <2>3. code = text \/ code \in Codes
    <3>1. Matched(text) \subseteq Codes
      BY RowsAssumption DEF Matched, RowsAssumption
    <3> QED BY <3>1
  <2>4. records' \in [Imports -> Seq(Records)]
    <3> HIDE DEF code
    <3>1. [records[i][line[i]] EXCEPT !.code = code] \in Records
      BY <2>2, <2>3 DEF Records, Texts
    <3>2. [records[i] EXCEPT ![line[i]] = [records[i][line[i]] EXCEPT !.code = code]] \in Seq(Records)
      BY <2>2, <3>1 DEF Intact, Shape
    <3> QED BY <2>1, <3>2 DEF Intact, Shape
  <2>5. Shape'
    BY <1>1, <2>1, <2>4 DEF Intact, Shape
  <2>6. \A j \in Imports \ {i} : at'[j] = at[j] /\ line'[j] = line[j] /\ records'[j] = records[j]
    BY <2>1 DEF Intact, Shape
  <2> QED BY <1>1, <2>1, <2>5, <2>6, StillFounded
<1>3. CASE ~(line[i] \in DOMAIN records[i])
  <2>1. /\ at' = [at EXCEPT ![i] = "validating"]
        /\ line' = [line EXCEPT ![i] = 1]
        /\ UNCHANGED records
    BY <1>3 DEF Resolve, Goto
  <2>2. Shape'
    BY <1>1, <2>1 DEF Intact, Shape
  <2>3. \A j \in Imports \ {i} : at'[j] = at[j] /\ line'[j] = line[j] /\ records'[j] = records[j]
    BY <2>1 DEF Intact, Shape
  <2>4. at'[i] # "writing"
    BY <2>1 DEF Intact, Shape
  <2> QED BY <1>1, <2>2, <2>3, <2>4, StillFounded
<1> QED BY <1>2, <1>3

LEMMA ValidateIntact == ASSUME Intact, NEW i \in Imports, Validate(i) PROVE Intact'
<1>1. /\ at' = [at EXCEPT ![i] = "looking"]
      /\ UNCHANGED <<rows, writer, draft, records>>
  BY DEF Validate, Goto
<1>2. PICK next : line' = [line EXCEPT ![i] = next]
  BY DEF Validate
<1>3. Shape'
  BY <1>1, <1>2 DEF Intact, Shape
<1>4. \A j \in Imports \ {i} : at'[j] = at[j] /\ line'[j] = line[j] /\ records'[j] = records[j]
  BY <1>1, <1>2 DEF Intact, Shape
<1>5. at'[i] # "writing"
  BY <1>1 DEF Intact, Shape
<1> QED BY <1>1, <1>3, <1>4, <1>5, StillFounded

-----------------------------------------------------------------------------
LEMMA OnwardShape ==
    ASSUME Intact, NEW i \in Imports, NEW outcome, Onward(i, outcome)
    PROVE  DOMAIN line' = Imports /\ \A j \in Imports \ {i} : line'[j] = line[j]
BY DEF Onward, Intact, Shape

\* The copy is thrown away: what the others saw was committed
LEMMA RollBackIntact ==
    ASSUME Intact, NEW i \in Imports, RollBack(i), UNCHANGED rows, Shape', at'[i] # "writing",
           \A j \in Imports \ {i} : at'[j] = at[j] /\ line'[j] = line[j] /\ records'[j] = records[j]
    PROVE  Intact'
<1>1. ChildrenHaveProjects'
  BY DEF Intact, ChildrenHaveProjects, RollBack
<1>2. Grows'
  BY DEF Intact, Grows, RollBack
<1>3. ASSUME NEW j \in Imports, at'[j] = "writing"
      PROVE  line'[j] \in DOMAIN records'[j] /\ ~Orphan(j, Here(j))'
  <2>1. j # i /\ at[j] = "writing"
    BY <1>3
  <2>2. View(j)' = View(j)
    BY <2>1 DEF View, RollBack
  <2> QED BY <2>1, <2>2 DEF Intact, Founded, Orphan, Here
<1> QED BY <1>1, <1>2, <1>3 DEF Intact, Founded

LEMMA LookIntact == ASSUME Intact, NEW i \in Imports, Look(i) PROVE Intact'
<1> DEFINE r == Here(i)
<1>1. line[i] \in DOMAIN records[i] /\ UNCHANGED <<rows, records>>
  BY DEF Look
<1>2. CASE Orphan(i, r) /\ Goto(i, "broken") /\ RollBack(i) /\ UNCHANGED line
  <2>1. at' = [at EXCEPT ![i] = "broken"]
    BY <1>2 DEF Goto
  <2>2. at'[i] # "writing" /\ \A j \in Imports \ {i} : at'[j] = at[j]
    BY <2>1 DEF Intact, Shape
  <2>3. DOMAIN draft' = Keys
    BY <1>2 DEF RollBack, Intact, Shape
  <2>4. Shape'
    BY <1>1, <1>2, <2>1, <2>3 DEF Intact, Shape
  <2> QED BY <1>1, <1>2, <2>2, <2>4, RollBackIntact
<1>3. CASE /\ ~Orphan(i, r)
           /\ Onward(i, "skipped") /\ UNCHANGED <<at, writer, draft>>
  <2>1. at[i] = "looking"
    BY DEF Look
  <2>2. DOMAIN line' = Imports /\ \A j \in Imports \ {i} : line'[j] = line[j]
    BY <1>3, OnwardShape
  <2>3. Shape'
    BY <1>1, <1>3, <2>2 DEF Intact, Shape
  <2> QED BY <1>1, <1>3, <2>1, <2>2, <2>3, StillFounded
<1>4. CASE /\ ~Orphan(i, r)
           /\ Goto(i, "writing")
           /\ UNCHANGED <<line, writer, draft>>
  <2>1. at' = [at EXCEPT ![i] = "writing"]
    BY <1>4 DEF Goto
  <2>2. \A j \in Imports \ {i} : at'[j] = at[j]
    BY <2>1 DEF Intact, Shape
  <2>3. Shape'
    BY <1>1, <1>4, <2>1 DEF Intact, Shape
  <2>4. line'[i] \in DOMAIN records'[i] /\ ~Orphan(i, Here(i))'
    BY <1>1, <1>4 DEF Orphan, Here, View
  <2> QED BY <1>1, <1>4, <2>2, <2>3, <2>4, StillFounded
<1> QED BY <1>2, <1>3, <1>4 DEF Look

LEMMA WriteIntact == ASSUME Intact, NEW i \in Imports, Write(i) PROVE Intact'
<1> DEFINE r == Here(i)
<1>1. /\ at[i] = "writing" /\ writer \in {Reset, i}
      /\ UNCHANGED <<rows, records>>
  BY DEF Write
<1>2. line[i] \in DOMAIN records[i] /\ r \in Records /\ ~Orphan(i, r)
  BY <1>1 DEF Intact, Shape, Founded, Here
<1>3. CASE Goto(i, "conflict") /\ RollBack(i) /\ UNCHANGED line
  <2>1. at' = [at EXCEPT ![i] = "conflict"]
    BY <1>3 DEF Goto
  <2>2. at'[i] # "writing" /\ \A j \in Imports \ {i} : at'[j] = at[j]
    BY <2>1 DEF Intact, Shape
  <2>3. DOMAIN draft' = Keys
    BY <1>3 DEF RollBack, Intact, Shape
  <2>4. Shape'
    BY <1>1, <1>3, <2>1, <2>3 DEF Intact, Shape
  <2> QED BY <1>1, <1>3, <2>2, <2>4, RollBackIntact
<1>4. CASE /\ Goto(i, "looking") /\ writer' = i
           /\ draft' = [View(i) EXCEPT ![KeyOf(r)] = r.content]
           /\ Onward(i, plan[i])
  <2>1. at' = [at EXCEPT ![i] = "looking"]
    BY <1>4 DEF Goto
  <2>2. at'[i] # "writing" /\ \A j \in Imports \ {i} : at'[j] = at[j]
    BY <2>1 DEF Intact, Shape
  <2>3. DOMAIN View(i) = Keys
    BY DEF View, Intact, Shape
  <2>4. DOMAIN draft' = Keys
    BY <1>4, <2>3
  <2>5. DOMAIN line' = Imports /\ \A j \in Imports \ {i} : line'[j] = line[j]
    BY <1>4, OnwardShape DEF Intact, Shape
  <2>6. Shape'
    BY <1>1, <2>1, <2>4, <2>5 DEF Intact, Shape
  <2>7. r.content # Absent
    BY <1>2, RowsAssumption, ImportAssumption DEF Records, RowsAssumption, ImportAssumption
  <2>8. \A k \in Keys : draft'[k] = IF k = KeyOf(r) THEN r.content ELSE View(i)[k]
    BY <1>4, <2>3
  <2>9. \A k \in Keys : View(i)[k] # Absent => draft'[k] # Absent
    BY <2>7, <2>8
  <2>10. \A k \in Keys : View(i)[k] # Absent => View(i)[ProjectKey(k.code)] # Absent
    BY DEF View, Intact, ChildrenHaveProjects
  <2>11. ASSUME NEW k \in Keys, draft'[k] # Absent PROVE draft'[ProjectKey(k.code)] # Absent
    <3>1. CASE k # KeyOf(r)
      BY <2>8, <2>9, <2>10, <2>11, <3>1, KeyOfProject
    <3>2. CASE k = KeyOf(r) /\ r.entity = "projects"
      <4>1. k = ProjectKey(k.code)
        BY <3>2 DEF Keys, KeyOf, ProjectKey, Children
      <4> QED BY <2>11, <4>1
    <3>3. CASE k = KeyOf(r) /\ r.entity # "projects"
      <4>1. k.code = r.code /\ View(i)[ProjectKey(r.code)] # Absent
        BY <1>2, <3>3 DEF Orphan, KeyOf
      <4> QED BY <2>9, <4>1, KeyOfProject
    <3> QED BY <3>1, <3>2, <3>3
  <2>12. ChildrenHaveProjects'
    BY <1>1, <2>11 DEF Intact, ChildrenHaveProjects
  <2>13. Grows'
    BY <1>1, <2>9, ImportAssumption DEF Intact, Grows, View, ImportAssumption
  <2>14. ASSUME NEW j \in Imports, at'[j] = "writing"
         PROVE  line'[j] \in DOMAIN records'[j] /\ ~Orphan(j, Here(j))'
    <3>1. j # i /\ at[j] = "writing"
      BY <2>2, <2>14
    <3>2. View(j)' = View(j)
      BY <1>1, <1>4, <3>1, ImportAssumption DEF View, ImportAssumption
    <3> QED BY <1>1, <2>5, <3>1, <3>2 DEF Intact, Founded, Orphan, Here
  <2> QED BY <2>6, <2>12, <2>13, <2>14 DEF Intact, Founded
<1> QED BY <1>3, <1>4 DEF Write

LEMMA ForgetShape ==
    ASSUME Intact, NEW i \in Imports, Forget(i)
    PROVE  /\ records' \in [Imports -> Seq(Records)] /\ DOMAIN line' = Imports
           /\ \A j \in Imports \ {i} : line'[j] = line[j] /\ records'[j] = records[j]
BY DEF Forget, Intact, Shape

LEMMA EndIntact == ASSUME Intact, NEW i \in Imports, LockTimeout(i) \/ Kill(i) PROVE Intact'
<1>1. PICK place \in {"locked", "killed"} : at' = [at EXCEPT ![i] = place]
  BY DEF LockTimeout, Kill, Goto
<1>2. at'[i] # "writing" /\ (\A j \in Imports \ {i} : at'[j] = at[j]) /\ DOMAIN at' = Imports
  BY <1>1 DEF Intact, Shape
<1>3. Forget(i) /\ UNCHANGED rows
  BY DEF LockTimeout, Kill
<1>4. DOMAIN draft' = Keys
  BY DEF LockTimeout, Kill, RollBack, Intact, Shape
<1>5. Shape'
  BY <1>2, <1>3, <1>4, ForgetShape DEF Intact, Shape
<1>6. CASE LockTimeout(i)
  BY <1>2, <1>3, <1>5, <1>6, ForgetShape, StillFounded DEF LockTimeout
<1>7. CASE Kill(i)
  BY <1>2, <1>3, <1>5, <1>7, ForgetShape, RollBackIntact DEF Kill
<1> QED BY <1>6, <1>7

LEMMA CommitIntact == ASSUME Intact, NEW i \in Imports, Commit(i) PROVE Intact'
<1>1. /\ at' = [at EXCEPT ![i] = "done"] /\ rows' = View(i) /\ UNCHANGED draft
      /\ writer' = IF writer = i THEN Reset ELSE writer
      /\ Forget(i)
  BY DEF Commit, Goto
<1>2. at'[i] # "writing" /\ (\A j \in Imports \ {i} : at'[j] = at[j]) /\ DOMAIN at' = Imports
  BY <1>1 DEF Intact, Shape
<1>3. DOMAIN rows' = Keys /\ DOMAIN draft' = Keys
  BY <1>1 DEF View, Intact, Shape
<1>4. Shape'
  BY <1>1, <1>2, <1>3, ForgetShape DEF Shape
<1>5. ChildrenHaveProjects'
  BY <1>1 DEF Intact, ChildrenHaveProjects, View
<1>6. Grows'
  BY <1>1 DEF Intact, Grows, View
<1>7. \A k \in Keys : rows[k] # Absent => rows'[k] # Absent
  BY <1>1, ImportAssumption DEF View, Intact, Grows, ImportAssumption
<1>8. ASSUME NEW j \in Imports, at'[j] = "writing"
      PROVE  line'[j] \in DOMAIN records'[j] /\ ~Orphan(j, Here(j))'
  <2>1. j # i /\ at[j] = "writing"
    BY <1>2, <1>8
  <2>2. line'[j] = line[j] /\ records'[j] = records[j]
    BY <1>1, <2>1, ForgetShape
  <2>3. \A k \in Keys : View(j)[k] # Absent => View(j)'[k] # Absent
    BY <1>1, <1>7, <2>1, ImportAssumption DEF View, ImportAssumption
  <2>4. \A c \in Codes : ProjectKey(c) \in Keys
    BY DEF ProjectKey, Keys
  <2> QED BY <2>1, <2>2, <2>3, <2>4 DEF Intact, Founded, Orphan, Here
<1> QED BY <1>4, <1>5, <1>6, <1>8 DEF Intact, Founded

LEMMA NextIntact == Intact /\ [ImportNext]_<<rows, importVars>> => Intact'
<1> SUFFICES ASSUME Intact, [ImportNext]_<<rows, importVars>> PROVE Intact'
  OBVIOUS
<1>1. CASE UNCHANGED <<rows, importVars>>
  BY <1>1 DEF importVars, Intact, Shape, ChildrenHaveProjects, Grows, Founded, Orphan, Here, View
<1>2. ASSUME NEW i \in Imports, Import(i) PROVE Intact'
  BY <1>2, BeginIntact, ResolveIntact, ValidateIntact, LookIntact, WriteIntact, EndIntact, CommitIntact DEF Import
<1> QED BY <1>1, <1>2 DEF ImportNext

-----------------------------------------------------------------------------
\* A database whose children have their projects keeps them so, in what is
\* committed and in what is being written, whatever is imported side by side,
\* rolled back, timed out or killed.
THEOREM ChildrenKeepProjects ==
    /\ ImportInit /\ DOMAIN rows = Keys /\ ChildrenHaveProjects
    /\ [][ImportNext]_<<rows, importVars>>
    => []ChildrenHaveProjects
<1>1. Intact => ChildrenHaveProjects
  BY DEF Intact
<1> QED BY InitIntact, NextIntact, <1>1, PTL

-----------------------------------------------------------------------------
(* What is reported of an import is what happens to it. *)

\* What the reads and the writes of import i rest on.  In each place:

\* ... the line it is at, and what the report says of the records before and after
Processing(i) == at[i] \in {"looking", "writing"}
Failed(i, n) == report[i][n] = "failed"

Typed ==
    /\ rows \in [Keys -> Contents \cup {Absent}] /\ draft \in [Keys -> Contents \cup {Absent}]
    /\ writer \in Imports \cup {Reset}
    /\ at \in [Imports -> Places]
    /\ file \in [Imports -> Files \cup {Reset}]
    /\ records \in [Imports -> Seq(Records)]
    /\ line \in [Imports -> Nat]
    /\ known \in [Imports -> SUBSET Codes]
    /\ report \in [Imports -> Seq(Outcomes \cup {"valid"})]
    /\ plan \in [Imports -> {"-", "created", "updated"}]
    /\ disturbed \in [Imports -> BOOLEAN]
    /\ latest \in Files \cup {Reset}

Placed(i) ==
    /\ line[i] \in 1 .. Len(records[i]) + 1
    /\ Len(report[i]) <= Len(records[i])
    /\ Active(i) => file[i] \in Files
    /\ at[i] = "resolving" => file[i].profile = "contracts"
    /\ at[i] = "writing" => line[i] \in DOMAIN records[i] /\ plan[i] # "-"

Reported(i) ==
    Processing(i) =>
        /\ Len(report[i]) = Len(records[i])
        /\ \A n \in DOMAIN records[i] :
              /\ Failed(i, n) <=> Faulty(records[i][n], known[i])
              /\ n < line[i] => report[i][n] # "valid"
              /\ n = line[i] => report[i][n] = "valid"
              /\ n > line[i] => report[i][n] \in {"valid", "failed"}

\* ... the records obey what the files promise
Project(i, n) == records[i][n].entity = "projects"
Ordered(i) ==
    Active(i) =>
        /\ file[i].profile = "contracts" => \A n \in DOMAIN records[i] : ~Project(i, n)
        /\ \A m \in DOMAIN records[i], p \in DOMAIN records[i] :
              Project(i, p) => \E n \in DOMAIN records[i] :
                  n <= m /\ Project(i, n) /\ records[i][n].code = records[i][m].code

\* ... what it has gone past is there, and so is each code it knows unless it comes
Present(i) ==
    Processing(i) =>
        /\ \A n \in DOMAIN records[i] :
              n < line[i] /\ ~Failed(i, n) =>
                  KeyOf(records[i][n]) \in Keys /\ View(i)[KeyOf(records[i][n])] # Absent
        /\ \A c \in known[i] :
              \/ \E n \in DOMAIN records[i] : Project(i, n) /\ records[i][n].code = c
              \/ View(i)[ProjectKey(c)] # Absent

\* ... an import that nobody disturbed finds at the write what it read
Expected(i) ==
    at[i] = "writing" /\ plan[i] = "created" /\ ~disturbed[i] => View(i)[KeyOf(Here(i))] = Absent

Explained(i) ==
    /\ at[i] = "broken" =>
           \E n, m \in DOMAIN report[i] :
               /\ report[i][n] = "failed" /\ records[i][n].entity = "projects"
               /\ report[i][m] = "valid" /\ records[i][m].entity # "projects"
               /\ records[i][n].code = records[i][m].code
    /\ at[i] = "conflict" => disturbed[i]

\* ... what it has written is what its report says it has
Owned(i) ==
    /\ writer = i =>
           /\ Processing(i)
           /\ \A k \in Keys : draft[k] # rows[k] =>
                  \E n \in DOMAIN records[i] :
                      KeyOf(records[i][n]) = k /\ report[i][n] \in {"created", "updated"}
    /\ Processing(i) =>
           \A n \in DOMAIN records[i] :
               report[i][n] = "created" => writer = i /\ rows[KeyOf(records[i][n])] = Absent

\* ... and nobody else has written over it
Stands(i) ==
    Processing(i) /\ ~disturbed[i] =>
        \A n \in DOMAIN records[i] :
            /\ n < line[i] /\ ~Failed(i, n)
            /\ \A m \in DOMAIN records[i] :
                  n < m /\ m < line[i] /\ KeyOf(records[i][m]) = KeyOf(records[i][n]) => Failed(i, m)
            => View(i)[KeyOf(records[i][n])] = records[i][n].content

\* The records of a file as the committed rows have them now, and their codes
One(codes) == CHOOSE c \in codes : TRUE
Standard(text) == IF Matched(text) = {} THEN text ELSE One(Matched(text))
Resolved(f) ==
    IF f.profile = "contracts"
    THEN [n \in DOMAIN Adapted(f) |-> [Adapted(f)[n] EXCEPT !.code = Standard(Adapted(f)[n].code)]]
    ELSE Adapted(f)
CodesOf(rs) ==
    ({rs[n].code : n \in {k \in DOMAIN rs : rs[k].entity = "projects"}} \ {Missing})
        \cup {c \in Codes : Exists(c)}

\* An undisturbed import has its records and codes from the rows as they are
Steady(i) ==
    Active(i) /\ ~disturbed[i] =>
        /\ at[i] = "resolving" =>
               /\ DOMAIN records[i] = DOMAIN Adapted(file[i])
               /\ \A n \in DOMAIN records[i] :
                     records[i][n] = IF n < line[i] THEN Resolved(file[i])[n] ELSE Adapted(file[i])[n]
        /\ at[i] # "resolving" => records[i] = Resolved(file[i])
        /\ Processing(i) => known[i] = CodesOf(records[i])

\* The file imported last stands in the rows
LastStands ==
    latest # Reset =>
        LET rs == Resolved(latest)
            Sound(n) == ~Faulty(rs[n], CodesOf(rs))
        IN  \A n \in DOMAIN rs :
                /\ Sound(n)
                /\ \A m \in DOMAIN rs : n < m /\ KeyOf(rs[m]) = KeyOf(rs[n]) => ~Sound(m)
                => rows[KeyOf(rs[n])] = rs[n].content

Own(i) ==
    /\ Placed(i) /\ Reported(i) /\ Ordered(i) /\ Present(i) /\ Expected(i) /\ Explained(i)
    /\ Owned(i) /\ Stands(i) /\ Steady(i)

ReportInv == Intact /\ Typed /\ (\A i \in Imports : Own(i)) /\ LastStands

-----------------------------------------------------------------------------
\* Of the numbers of a set that is not empty one is the least.
LEMMA LeastOf ==
    ASSUME NEW T \in SUBSET Nat, T # {}
    PROVE  Min(T) \in T /\ \A y \in T : Min(T) <= y
<1>1. PICK x \in T : \A y \in T : ~(<<y, x>> \in OpToRel(<, Nat))
  BY NatLessThanWellFounded, WFMin
<1>2. \A m, n \in Nat : <<m, n>> \in OpToRel(<, Nat) <=> m < n
  BY Zenon DEF OpToRel
<1>3. \A y \in T : x <= y
  <2>1. \A y \in T : ~(y < x)
    BY <1>1, <1>2
  <2> QED BY <2>1
<1>4. \E z \in T : \A y \in T : z =< y
  BY <1>3
<1> QED BY <1>4 DEF Min

\* ... and, in front of a bound, one is the greatest.
LEMMA GreatestBelow ==
    ASSUME NEW len \in Nat, NEW W \in SUBSET (1 .. len), W # {}
    PROVE  \E x \in W : \A y \in W : y <= x
<1> DEFINE T == {len - x : x \in W}
<1>1. T \in SUBSET Nat /\ T # {}
  <2>1. \A x \in W : len - x \in Nat
    OBVIOUS
  <2> QED BY <2>1
<1> HIDE DEF T
<1>2. PICK t \in T : \A y \in T : t <= y
  BY <1>1, LeastOf
<1>3. PICK x \in W : t = len - x
  BY DEF T
<1>4. \A y \in W : t <= len - y
  BY <1>2 DEF T
<1>5. \A y \in W : y \in Nat /\ x \in Nat
  OBVIOUS
<1> QED BY <1>3, <1>4, <1>5

\* NextLine goes past nothing that is valid.
LEMMA NextLineSkips ==
    ASSUME NEW results \in Seq(Outcomes \cup {"valid"}), NEW n \in 0 .. Len(results)
    PROVE  /\ NextLine(results, n) \in n + 1 .. Len(results) + 1
           /\ NextLine(results, n) <= Len(results) => results[NextLine(results, n)] = "valid"
           /\ \A k \in n + 1 .. Len(results) : k < NextLine(results, n) => results[k] # "valid"
<1> DEFINE rest == {k \in n + 1 .. Len(results) : results[k] = "valid"}
<1>1. CASE rest = {}
  <2>1. NextLine(results, n) = Len(results) + 1
    BY <1>1 DEF NextLine
  <2> QED BY <1>1, <2>1
<1>2. CASE rest # {}
  <2>1. NextLine(results, n) = Min(rest)
    BY <1>2 DEF NextLine
  <2>2. rest \in SUBSET Nat
    OBVIOUS
  <2>3. Min(rest) \in rest /\ \A y \in rest : Min(rest) <= y
    BY <1>2, <2>2, LeastOf
  <2>4. Min(rest) \in n + 1 .. Len(results) /\ results[Min(rest)] = "valid"
    BY <2>3
  <2>5. ASSUME NEW k \in n + 1 .. Len(results), k < Min(rest) PROVE results[k] # "valid"
    <3>1. k \in rest => Min(rest) <= k
      BY <2>3
    <3> QED BY <2>4, <2>5, <3>1
  <2> QED BY <2>1, <2>4, <2>5
<1> QED BY <1>1, <1>2

-----------------------------------------------------------------------------
\* What a step of another import leaves of import j ...
Same(j) ==
    /\ at'[j] = at[j] /\ file'[j] = file[j] /\ records'[j] = records[j] /\ line'[j] = line[j]
    /\ known'[j] = known[j] /\ report'[j] = report[j] /\ plan'[j] = plan[j]

\* ... and of its rows: nothing is committed, or something is, and j is told
Apart(j) ==
    /\ rows' = rows /\ View(j)' = View(j) /\ disturbed'[j] = disturbed[j]
    /\ writer' = j <=> writer = j
    /\ writer = j => draft' = draft

Overtaken(j) ==
    /\ writer # j /\ writer' # j
    /\ disturbed[j] => disturbed'[j]
    /\ Active(j) => disturbed'[j]
    /\ \A k \in Keys : rows[k] # Absent => rows'[k] # Absent

Elsewhere(j) == Same(j) /\ (Apart(j) \/ Overtaken(j))

\* Nobody commits while an import has a copy but that import
LEMMA ImportsApart ==
    ASSUME ReportInv, NEW i \in Imports, Import(i), NEW j \in Imports \ {i}
    PROVE  Elsewhere(j)
<1>1. Typed /\ j # i /\ Reset \notin Imports
  BY ImportAssumption DEF ReportInv, ImportAssumption
<1>2. Same(j)
  <2>1. CASE \E f \in Files : Begin(i, f)
    BY <1>1, <2>1 DEF Begin, Goto, Same, Typed
  <2>2. CASE Resolve(i)
    BY <1>1, <2>2 DEF Resolve, Goto, Same, Typed
  <2>3. CASE Validate(i)
    BY <1>1, <2>3 DEF Validate, Goto, Same, Typed
  <2>4. CASE Look(i)
    BY <1>1, <2>4 DEF Look, Onward, Goto, Same, Typed
  <2>5. CASE Write(i)
    BY <1>1, <2>5 DEF Write, Onward, Goto, Same, Typed
  <2>6. CASE LockTimeout(i) \/ Commit(i) \/ Kill(i)
    BY <1>1, <2>6 DEF LockTimeout, Commit, Kill, Forget, Goto, Same, Typed
  <2> QED BY <2>1, <2>2, <2>3, <2>4, <2>5, <2>6 DEF Import
<1>3. CASE Commit(i) /\ writer = i
  <2>1. rows' = draft /\ writer' = Reset
    BY <1>3 DEF Commit, View
  <2>2. disturbed'[j] = (disturbed[j] \/ Active(j))
    BY <1>1, <1>3 DEF Commit
  <2>3. \A k \in Keys : rows[k] # Absent => rows'[k] # Absent
    BY <1>1, <1>3, <2>1 DEF ReportInv, Intact, Grows
  <2> QED BY <1>1, <1>2, <1>3, <2>1, <2>2, <2>3 DEF Elsewhere, Overtaken
<1>4. CASE Commit(i) /\ writer # i
  <2>1. rows' = rows /\ writer' = writer /\ draft' = draft
    BY <1>4 DEF Commit, View
  <2>2. disturbed'[j] = disturbed[j]
    BY <1>1, <1>4 DEF Commit, Typed
  <2>3. View(j)' = View(j)
    BY <2>1 DEF View
  <2> QED BY <1>2, <2>1, <2>2, <2>3 DEF Elsewhere, Apart
<1>5. CASE ~Commit(i)
  <2>1. rows' = rows /\ disturbed'[j] = disturbed[j]
    BY <1>1, <1>5 DEF Import, Begin, Resolve, Validate, Look, Write, LockTimeout, Kill, Typed
  <2>2. /\ writer' = j <=> writer = j
        /\ writer = j => draft' = draft
    BY <1>1, <1>5 DEF Import, Begin, Resolve, Validate, Look, Write, LockTimeout, Kill, RollBack
  <2>3. View(j)' = View(j)
    BY <2>1, <2>2 DEF View
  <2> QED BY <1>2, <2>1, <2>2, <2>3 DEF Elsewhere, Apart
<1> QED BY <1>3, <1>4, <1>5

\* The rows as they are give the same records and codes
LEMMA SameRows ==
    ASSUME rows' = rows
    PROVE  /\ \A text : Standard(text)' = Standard(text)
           /\ \A f : Resolved(f)' = Resolved(f)
           /\ \A rs : CodesOf(rs)' = CodesOf(rs)
<1>1. \A c : Exists(c)' <=> Exists(c)
  BY DEF Exists
<1>2. \A text : Matched(text)' = Matched(text)
  BY DEF Exists, Matched
<1>3. \A text : Standard(text)' = Standard(text)
  BY <1>2 DEF Standard
<1>4. \A f : Resolved(f)' = Resolved(f)
  BY <1>3, Zenon DEF Resolved
<1>5. \A rs : CodesOf(rs)' = CodesOf(rs)
  BY <1>1 DEF CodesOf
<1> QED BY <1>3, <1>4, <1>5

\* ... and so import j stays as it was
LEMMA OthersOwn ==
    ASSUME ReportInv, NEW j \in Imports, Elsewhere(j)
    PROVE  Own(j)'
<1>1. Same(j) /\ Own(j)
  BY DEF Elsewhere, ReportInv
<1>2. (Active(j)' <=> Active(j)) /\ (Processing(j)' <=> Processing(j))
  BY <1>1 DEF Same, Active, Processing
<1>3. \A n : Failed(j, n)' <=> Failed(j, n)
  BY <1>1 DEF Same, Failed
<1>4. \A n : Project(j, n)' <=> Project(j, n)
  BY <1>1 DEF Same, Project
<1>5. Here(j)' = Here(j)
  BY <1>1 DEF Same, Here
<1>6. Placed(j)'
  BY <1>1, <1>2 DEF Own, Placed, Same
<1>7. Reported(j)'
  BY <1>1, <1>2, <1>3 DEF Own, Reported, Same
<1>8. Ordered(j)'
  BY <1>1, <1>2, <1>4 DEF Own, Ordered, Same
<1>9. CASE Apart(j)
  <2>1. Present(j)'
    BY <1>1, <1>2, <1>3, <1>4, <1>9 DEF Own, Present, Same, Apart
  <2>2. Expected(j)'
    BY <1>1, <1>5, <1>9 DEF Own, Expected, Same, Apart
  <2>3. Explained(j)'
    BY <1>1, <1>9 DEF Own, Explained, Same, Apart
  <2>4. Owned(j)'
    BY <1>1, <1>2, <1>9 DEF Own, Owned, Same, Apart
  <2>5. Stands(j)'
    BY <1>1, <1>2, <1>3, <1>9 DEF Own, Stands, Same, Apart
  <2>6. Steady(j)'
    BY <1>1, <1>2, <1>9, SameRows DEF Own, Steady, Same, Apart
  <2> QED BY <1>6, <1>7, <1>8, <2>1, <2>2, <2>3, <2>4, <2>5, <2>6 DEF Own
<1>10. CASE Overtaken(j)
  <2>1. Processing(j) => disturbed'[j]
    BY <1>10 DEF Overtaken, Processing, Active
  <2>2. Present(j)'
    <3>1. View(j) = rows /\ View(j)' = rows'
      BY <1>10 DEF View, Overtaken
    <3>2. \A c \in known[j] : ProjectKey(c) \in Keys
      BY DEF ReportInv, Typed, ProjectKey, Keys
    <3> QED BY <1>1, <1>2, <1>3, <1>4, <1>10, <3>1, <3>2 DEF Own, Present, Same, Overtaken
  <2>3. Expected(j)' /\ Stands(j)'
    BY <1>1, <1>2, <2>1 DEF Expected, Stands, Same, Processing
  <2>4. Explained(j)'
    BY <1>1, <1>10 DEF Own, Explained, Same, Overtaken
  <2>5. Owned(j)'
    BY <1>1, <1>2, <1>10 DEF Own, Owned, Same, Overtaken
  <2>6. Steady(j)'
    BY <1>2, <1>10 DEF Steady, Overtaken
  <2> QED BY <1>6, <1>7, <1>8, <2>2, <2>3, <2>4, <2>5, <2>6 DEF Own
<1> QED BY <1>9, <1>10 DEF Elsewhere

-----------------------------------------------------------------------------
\* What a step makes of the import whose step it is
LEMMA BeginOwn ==
    ASSUME ReportInv, NEW i \in Imports, NEW f \in Files, Begin(i, f)
    PROVE  Typed' /\ Own(i)' /\ LastStands'
<1>1. Typed /\ ~Active(i) /\ writer # i
  BY DEF ReportInv, Own, Owned, Begin, Processing, Active
<1>2. at'[i] = CASE f.profile = "contracts" -> "resolving"
                 [] f.profile = "unknown"   -> "unsupported"
                 [] OTHER                   -> "validating"
  BY <1>1 DEF Typed, Begin, Goto
<1>3. /\ at'[i] \in {"resolving", "unsupported", "validating"}
      /\ at'[i] = "resolving" => f.profile = "contracts"
      /\ at'[i] = "validating" => f.profile # "contracts" /\ f.profile # "unknown"
  BY <1>2
<1>4. /\ at' = [at EXCEPT ![i] = at'[i]]
      /\ file' = [file EXCEPT ![i] = f]
      /\ records' = [records EXCEPT ![i] = IF f.profile = "unknown" THEN <<>> ELSE Adapted(f)]
      /\ line' = [line EXCEPT ![i] = 1]
      /\ known' = [known EXCEPT ![i] = {}]
      /\ report' = [report EXCEPT ![i] = <<>>]
      /\ disturbed' = [disturbed EXCEPT ![i] = FALSE]
      /\ UNCHANGED <<rows, writer, draft, plan, latest>>
  BY <1>1 DEF Begin, Goto, Typed
<1>5. Adapted(f) \in Seq(Records)
  BY FilesAssumption DEF FilesAssumption
<1>6. Typed'
  <2>1. at'[i] \in Places
    BY <1>3 DEF Places
  <2>2. (IF f.profile = "unknown" THEN <<>> ELSE Adapted(f)) \in Seq(Records)
    BY <1>5
  <2>3. records' \in [Imports -> Seq(Records)]
    BY <1>1, <1>4, <2>2 DEF Typed
  <2>4. report' \in [Imports -> Seq(Outcomes \cup {"valid"})]
    BY <1>1, <1>4 DEF Typed
  <2>5. /\ at' \in [Imports -> Places] /\ file' \in [Imports -> Files \cup {Reset}]
        /\ line' \in [Imports -> Nat] /\ known' \in [Imports -> SUBSET Codes]
        /\ disturbed' \in [Imports -> BOOLEAN]
    BY <1>1, <1>4, <2>1 DEF Typed
  <2> QED BY <1>1, <1>4, <2>3, <2>4, <2>5 DEF Typed
<1>7. /\ file'[i] = f /\ line'[i] = 1 /\ report'[i] = <<>> /\ writer' # i
      /\ Active(i)' => records'[i] = Adapted(f)
      /\ ~Processing(i)' /\ at'[i] \notin {"looking", "writing", "broken", "conflict"}
  BY <1>1, <1>3, <1>4 DEF Typed, Active, Processing
<1>8. Placed(i)'
  <2>1. Len(records'[i]) \in Nat
    BY <1>6 DEF Typed
  <2> QED BY <1>3, <1>7, <2>1 DEF Placed
<1>9. Ordered(i)'
  <2>1. f.profile = "contracts" => \A n \in DOMAIN Adapted(f) : Adapted(f)[n].entity = "contracts"
    BY DEF Adapted, ContractRecord, Record
  <2>2. \A m \in DOMAIN Adapted(f), p \in DOMAIN Adapted(f) :
            Adapted(f)[p].entity = "projects" =>
                \E n \in DOMAIN Adapted(f) :
                    n <= m /\ Adapted(f)[n].entity = "projects" /\ Adapted(f)[n].code = Adapted(f)[m].code
    <3> DEFINE rs == Adapted(f)
               projects == {n \in DOMAIN rs : rs[n].entity = "projects"}
    <3>1. projects = {} \/ \A m \in DOMAIN rs : \E n \in projects : n <= m /\ rs[n].code = rs[m].code
      BY FilesAssumption DEF FilesAssumption
    <3> QED BY <3>1
  <2> QED BY <1>7, <2>1, <2>2 DEF Ordered, Project
<1>10. Steady(i)'
  <2>1. DOMAIN Adapted(f) \subseteq Nat \ {0}
    BY <1>5
  <2>2. f.profile # "contracts" => Resolved(f)' = Adapted(f)
    BY DEF Resolved, Adapted
  <2> QED BY <1>3, <1>7, <2>1, <2>2 DEF Steady, Active, Processing
<1>11. Reported(i)' /\ Present(i)' /\ Expected(i)' /\ Explained(i)' /\ Owned(i)' /\ Stands(i)'
  BY <1>7 DEF Reported, Present, Expected, Explained, Owned, Stands
<1>12. LastStands'
  BY <1>4, SameRows DEF ReportInv, LastStands
<1> QED BY <1>6, <1>8, <1>9, <1>10, <1>11, <1>12 DEF Own

LEMMA ResolveOwn ==
    ASSUME ReportInv, NEW i \in Imports, Resolve(i)
    PROVE  Typed' /\ Own(i)' /\ LastStands'
<1>1. /\ Typed /\ Own(i) /\ at[i] = "resolving" /\ file[i] \in Files /\ file[i].profile = "contracts"
      /\ writer # i /\ Active(i)
      /\ UNCHANGED <<rows, writer, draft, file, known, report, plan, disturbed, latest>>
  BY DEF ReportInv, Own, Owned, Placed, Resolve, Processing, Active
<1>2. LastStands'
  BY <1>1, SameRows DEF ReportInv, LastStands
<1>3. line[i] \in 1 .. Len(records[i]) + 1 /\ Len(records[i]) \in Nat
      /\ DOMAIN records[i] = 1 .. Len(records[i])
  BY <1>1 DEF Own, Placed, Typed
<1>4. CASE line[i] \in DOMAIN records[i]
  <2> DEFINE code == Standard(records[i][line[i]].code)
  <2>1. /\ records' = [records EXCEPT ![i][line[i]].code = code]
        /\ line' = [line EXCEPT ![i] = @ + 1]
        /\ UNCHANGED at
    BY <1>4 DEF Resolve, Standard, One
  <2> HIDE DEF code
  <2>2. /\ records'[i] = [records[i] EXCEPT ![line[i]] = [records[i][line[i]] EXCEPT !.code = code]]
        /\ line'[i] = line[i] + 1
    BY <1>1, <2>1 DEF Typed
  <2>3. records' \in [Imports -> Seq(Records)] /\ line' \in [Imports -> Nat]
    <3>1. Intact'
      BY ResolveIntact DEF ReportInv
    <3> QED BY <1>1, <2>1, <3>1 DEF Intact, Shape, Typed
  <2>4. Typed'
    BY <1>1, <2>1, <2>3 DEF Typed
  <2>5. /\ DOMAIN records'[i] = DOMAIN records[i] /\ Len(records'[i]) = Len(records[i])
        /\ \A n \in DOMAIN records[i] : n # line[i] => records'[i][n] = records[i][n]
        /\ records'[i][line[i]] = [records[i][line[i]] EXCEPT !.code = code]
    BY <1>1, <1>4, <2>2, <2>3 DEF Typed
  <2>6. Placed(i)'
    BY <1>1, <1>3, <1>4, <2>1, <2>2, <2>5 DEF Own, Placed
  <2>7. Ordered(i)'
    <3>1. \A n \in DOMAIN records[i] : ~Project(i, n)
      BY <1>1 DEF Own, Ordered
    <3>2. \A n \in DOMAIN records[i] : ~Project(i, n)'
      <4>1. records'[i][line[i]].entity = records[i][line[i]].entity
        BY <1>1, <1>4, <2>5 DEF Typed, Records
      <4> QED BY <2>5, <3>1, <4>1 DEF Project
    <3> QED BY <2>5, <3>2 DEF Ordered
  <2>8. Steady(i)'
    <3>1. Active(i)' /\ ~disturbed'[i] => ~disturbed[i]
      BY <1>1
    <3>2. ASSUME ~disturbed[i]
          PROVE  /\ DOMAIN records'[i] = DOMAIN Adapted(file[i])
                 /\ \A n \in DOMAIN records'[i] :
                       records'[i][n] = IF n < line'[i] THEN Resolved(file[i])[n] ELSE Adapted(file[i])[n]
      <4>1. /\ DOMAIN records[i] = DOMAIN Adapted(file[i])
            /\ \A n \in DOMAIN records[i] :
                  records[i][n] = IF n < line[i] THEN Resolved(file[i])[n] ELSE Adapted(file[i])[n]
        BY <1>1, <3>2 DEF Own, Steady
      <4>2. records'[i][line[i]] = Resolved(file[i])[line[i]]
        <5>1. records[i][line[i]] = Adapted(file[i])[line[i]]
          BY <1>3, <1>4, <4>1
        <5> QED BY <1>1, <1>4, <2>5, <4>1, <5>1 DEF Resolved, code
      <4> QED BY <1>3, <1>4, <2>2, <2>5, <4>1, <4>2
    <3> QED BY <1>1, <2>1, <3>1, <3>2, SameRows DEF Steady, Processing
  <2>9. Reported(i)' /\ Present(i)' /\ Expected(i)' /\ Explained(i)' /\ Owned(i)' /\ Stands(i)'
    BY <1>1, <2>1 DEF Reported, Present, Expected, Explained, Owned, Stands, Processing
  <2> QED BY <1>2, <2>4, <2>6, <2>7, <2>8, <2>9 DEF Own
<1>5. CASE line[i] \notin DOMAIN records[i]
  <2>1. /\ at' = [at EXCEPT ![i] = "validating"] /\ line' = [line EXCEPT ![i] = 1] /\ UNCHANGED records
    BY <1>5 DEF Resolve, Goto
  <2>2. at'[i] = "validating" /\ line'[i] = 1
    BY <1>1, <2>1 DEF Typed
  <2>3. Typed'
    BY <1>1, <2>1 DEF Typed, Places
  <2>4. Placed(i)'
    BY <1>1, <1>3, <2>1, <2>2 DEF Own, Placed
  <2>5. Ordered(i)'
    BY <1>1, <2>1 DEF Own, Ordered, Project
  <2>6. Steady(i)'
    <3>1. ASSUME ~disturbed[i] PROVE records[i] = Resolved(file[i])
      <4>1. /\ DOMAIN records[i] = DOMAIN Adapted(file[i])
            /\ \A n \in DOMAIN records[i] :
                  records[i][n] = IF n < line[i] THEN Resolved(file[i])[n] ELSE Adapted(file[i])[n]
        BY <1>1, <3>1 DEF Own, Steady
      <4>2. \A n \in DOMAIN records[i] : records[i][n] = Resolved(file[i])[n]
        BY <1>3, <1>5, <4>1
      <4>3. DOMAIN Resolved(file[i]) = DOMAIN Adapted(file[i])
        BY <1>1 DEF Resolved
      <4>4. /\ records[i] = [n \in DOMAIN records[i] |-> records[i][n]]
            /\ Resolved(file[i]) = [n \in DOMAIN Resolved(file[i]) |-> Resolved(file[i])[n]]
        BY <1>1 DEF Typed, Resolved
      <4> QED BY <4>1, <4>2, <4>3, <4>4
    <3> QED BY <1>1, <2>1, <2>2, <3>1, SameRows DEF Steady, Processing
  <2>7. Reported(i)' /\ Present(i)' /\ Expected(i)' /\ Explained(i)' /\ Owned(i)' /\ Stands(i)'
    BY <1>1, <2>2 DEF Reported, Present, Expected, Explained, Owned, Stands, Processing
  <2> QED BY <1>2, <2>3, <2>4, <2>5, <2>6, <2>7 DEF Own
<1> QED BY <1>4, <1>5

LEMMA ValidateOwn ==
    ASSUME ReportInv, NEW i \in Imports, Validate(i)
    PROVE  Typed' /\ Own(i)' /\ LastStands'
<1> DEFINE rs      == records[i]
           codes   == CodesOf(rs)
           results == [n \in DOMAIN rs |-> IF Faulty(rs[n], codes) THEN "failed" ELSE "valid"]
<1>1. /\ Typed /\ Own(i) /\ at[i] = "validating" /\ writer # i /\ Active(i) /\ file[i] \in Files
      /\ UNCHANGED <<rows, writer, draft, file, records, plan, disturbed, latest>>
  BY DEF ReportInv, Own, Owned, Placed, Validate, Processing, Active
<1>2. /\ known' = [known EXCEPT ![i] = codes]
      /\ report' = [report EXCEPT ![i] = results]
      /\ line' = [line EXCEPT ![i] = NextLine(results, 0)]
      /\ at' = [at EXCEPT ![i] = "looking"]
  BY DEF Validate, Goto, CodesOf
<1>3. codes \subseteq Codes
  <2>1. \A n \in DOMAIN rs : rs[n] \in Records
    BY <1>1 DEF Typed
  <2> QED BY <2>1 DEF CodesOf, Records, Children
<1> HIDE DEF codes
<1>4. /\ results \in Seq(Outcomes \cup {"valid"}) /\ Len(results) = Len(rs) /\ DOMAIN rs = 1 .. Len(rs)
      /\ Len(rs) \in Nat
  <2>1. DOMAIN rs = 1 .. Len(rs) /\ Len(rs) \in Nat
    BY <1>1 DEF Typed
  <2>2. results \in [1 .. Len(rs) -> Outcomes \cup {"valid"}]
    BY <2>1 DEF Outcomes
  <2> QED BY <2>1, <2>2
<1>5. \A n \in DOMAIN rs : results[n] = IF Faulty(rs[n], codes) THEN "failed" ELSE "valid"
  OBVIOUS
<1> HIDE DEF results
<1>6. /\ NextLine(results, 0) \in 1 .. Len(rs) + 1
      /\ NextLine(results, 0) <= Len(rs) => results[NextLine(results, 0)] = "valid"
      /\ \A n \in 1 .. Len(rs) : n < NextLine(results, 0) => results[n] # "valid"
  BY <1>4, NextLineSkips
<1>7. /\ at'[i] = "looking" /\ known'[i] = codes /\ report'[i] = results
      /\ line'[i] = NextLine(results, 0)
  BY <1>1, <1>2 DEF Typed
<1>8. Typed'
  <2>1. /\ at' \in [Imports -> Places] /\ line' \in [Imports -> Nat]
        /\ known' \in [Imports -> SUBSET Codes]
    BY <1>1, <1>2, <1>3, <1>4, <1>6 DEF Typed, Places
  <2>2. report' \in [Imports -> Seq(Outcomes \cup {"valid"})]
    BY <1>1, <1>2, <1>4 DEF Typed
  <2> QED BY <1>1, <2>1, <2>2 DEF Typed
<1>9. Placed(i)'
  BY <1>1, <1>4, <1>6, <1>7 DEF Placed
<1>10. Reported(i)'
  BY <1>1, <1>4, <1>5, <1>6, <1>7 DEF Reported, Failed
<1>11. Ordered(i)'
  BY <1>1 DEF Own, Ordered, Project
<1>12. \A n \in DOMAIN rs : n < line'[i] => Failed(i, n)'
  BY <1>4, <1>5, <1>6, <1>7 DEF Failed
<1>13. Present(i)'
  <2>1. \A c \in codes : (\E n \in DOMAIN rs : Project(i, n)' /\ rs[n].code = c) \/ Exists(c)
    BY <1>1 DEF CodesOf, Project, codes
  <2>2. \A c : Exists(c) <=> View(i)'[ProjectKey(c)] # Absent
    BY <1>1 DEF Exists, View
  <2> QED BY <1>1, <1>7, <1>12, <2>1, <2>2 DEF Present
<1>14. Expected(i)' /\ Explained(i)'
  BY <1>7 DEF Expected, Explained
<1>15. Owned(i)'
  BY <1>1, <1>5, <1>7 DEF Owned
<1>16. Stands(i)'
  BY <1>1, <1>12 DEF Stands
<1>17. Steady(i)'
  BY <1>1, <1>7, SameRows DEF Own, Steady, codes
<1>18. LastStands'
  BY <1>1, SameRows DEF ReportInv, LastStands
<1> QED BY <1>8, <1>9, <1>10, <1>11, <1>13, <1>14, <1>15, <1>16, <1>17, <1>18 DEF Own

\* A record is reported and the rejected ones behind it are gone past
LEMMA OnwardReports ==
    ASSUME Typed, NEW i \in Imports, Placed(i), Reported(i), Processing(i), line[i] \in DOMAIN records[i],
           NEW outcome \in {"created", "updated", "skipped"}, Onward(i, outcome)
    PROVE  /\ line' \in [Imports -> Nat] /\ report' \in [Imports -> Seq(Outcomes \cup {"valid"})]
           /\ line'[i] \in line[i] + 1 .. Len(records[i]) + 1
           /\ Len(report'[i]) = Len(records[i])
           /\ report'[i][line[i]] = outcome
           /\ \A n \in DOMAIN records[i] : n # line[i] => report'[i][n] = report[i][n]
           /\ \A n \in DOMAIN records[i] : line[i] < n /\ n < line'[i] => Failed(i, n)
           /\ ~Faulty(Here(i), known[i])
           /\ \A n \in DOMAIN records[i] :
                 /\ Failed(i, n)' <=> Faulty(records[i][n], known[i])
                 /\ n < line'[i] => report'[i][n] # "valid"
                 /\ n = line'[i] => report'[i][n] = "valid"
                 /\ n > line'[i] => report'[i][n] \in {"valid", "failed"}
<1> DEFINE len == Len(records[i])
           results == [report[i] EXCEPT ![line[i]] = outcome]
<1>1. /\ len \in Nat /\ DOMAIN records[i] = 1 .. len /\ Len(report[i]) = len
      /\ report[i] \in Seq(Outcomes \cup {"valid"}) /\ DOMAIN report[i] = 1 .. len
      /\ line[i] \in 1 .. len
  BY DEF Typed, Reported
<1>2. \A n \in 1 .. len :
          /\ Failed(i, n) <=> Faulty(records[i][n], known[i])
          /\ n < line[i] => report[i][n] # "valid"
          /\ n = line[i] => report[i][n] = "valid"
          /\ n > line[i] => report[i][n] \in {"valid", "failed"}
  BY <1>1 DEF Reported
<1>3. /\ report' = [report EXCEPT ![i] = results]
      /\ line' = [line EXCEPT ![i] = NextLine(results, line[i])]
  BY DEF Onward
<1>4. /\ results \in Seq(Outcomes \cup {"valid"}) /\ Len(results) = len
      /\ results[line[i]] = outcome /\ \A n \in 1 .. len : n # line[i] => results[n] = report[i][n]
  BY <1>1 DEF Outcomes
<1> HIDE DEF results
<1> DEFINE next == NextLine(results, line[i])
<1>5. /\ next \in line[i] + 1 .. len + 1
      /\ next <= len => results[next] = "valid"
      /\ \A k \in line[i] + 1 .. len : k < next => results[k] # "valid"
  <2>1. line[i] \in 0 .. Len(results)
    BY <1>1, <1>4
  <2> QED BY <1>4, <2>1, NextLineSkips
<1> HIDE DEF next
<1>6. report'[i] = results /\ line'[i] = next
  BY <1>3 DEF Typed, next
<1>7. line' \in [Imports -> Nat] /\ report' \in [Imports -> Seq(Outcomes \cup {"valid"})]
  BY <1>1, <1>3, <1>4, <1>5 DEF Typed, next
<1>8. ~Faulty(Here(i), known[i])
  BY <1>1, <1>2 DEF Here, Failed
<1>9. \A n \in 1 .. len : line[i] < n /\ n < next => report[i][n] = "failed"
  BY <1>1, <1>2, <1>4, <1>5
<1>10. ASSUME NEW n \in 1 .. len
       PROVE  /\ Failed(i, n)' <=> Faulty(records[i][n], known[i])
              /\ n < next => results[n] # "valid"
              /\ n = next => results[n] = "valid"
              /\ n > next => results[n] \in {"valid", "failed"}
  <2>1. CASE n = line[i]
    BY <1>1, <1>2, <1>4, <1>5, <1>6, <2>1 DEF Failed
  <2>2. CASE n # line[i]
    <3>1. results[n] = report[i][n]
      BY <1>4, <2>2
    <3>2. Failed(i, n)' <=> Failed(i, n)
      BY <1>6, <3>1 DEF Failed
    <3> QED BY <1>1, <1>2, <1>5, <1>9, <2>2, <3>1, <3>2
  <2> QED BY <2>1, <2>2
<1> QED BY <1>1, <1>4, <1>5, <1>6, <1>7, <1>8, <1>9, <1>10 DEF Failed

LEMMA LookOwn ==
    ASSUME ReportInv, NEW i \in Imports, Look(i)
    PROVE  Typed' /\ Own(i)' /\ LastStands'
<1> DEFINE r == Here(i)
           rs == records[i]
           key == KeyOf(r)
<1>1. /\ Typed /\ Own(i) /\ at[i] = "looking" /\ Processing(i) /\ Active(i)
      /\ line[i] \in DOMAIN records[i] /\ Reset \notin Imports
      /\ UNCHANGED <<rows, file, records, known, disturbed, latest>>
  BY ImportAssumption DEF ReportInv, Look, Processing, Active, ImportAssumption
<1>2. Placed(i) /\ Reported(i) /\ Ordered(i) /\ Present(i) /\ Explained(i) /\ Owned(i) /\ Stands(i) /\ Steady(i)
  BY <1>1 DEF Own
<1>3. /\ Len(rs) \in Nat /\ DOMAIN rs = 1 .. Len(rs) /\ DOMAIN report[i] = 1 .. Len(rs)
      /\ line[i] \in 1 .. Len(rs)
      /\ report[i][line[i]] = "valid" /\ ~Faulty(r, known[i]) /\ r \in Records
  BY <1>1, <1>2 DEF Typed, Reported, Here, Failed
<1>4. r.entity # "projects" => r.code \in known[i]
  BY <1>3 DEF Faulty
<1>5. LastStands'
  BY <1>1, SameRows DEF ReportInv, LastStands
<1>6. Ordered(i)'
  BY <1>1, <1>2, Zenon DEF Ordered, Project, Active
<1>7. CASE /\ Orphan(i, r) /\ Goto(i, "broken") /\ RollBack(i)
           /\ UNCHANGED <<line, report, plan>>
  <2>1. at' = [at EXCEPT ![i] = "broken"] /\ at'[i] = "broken" /\ writer' # i
    BY <1>1, <1>7 DEF Goto, RollBack, Typed
  <2>2. Typed'
    BY <1>1, <1>7, <2>1 DEF Typed, RollBack, Places
  <2>3. Placed(i)'
    BY <1>1, <1>2, <1>7, <2>1 DEF Placed, Active
  <2>4. Explained(i)'
    <3>1. r.entity # "projects" /\ r.code \in known[i] /\ View(i)[ProjectKey(r.code)] = Absent
      BY <1>1, <1>4, <1>7 DEF Orphan, Typed
    <3>2. PICK p \in DOMAIN rs : Project(i, p) /\ rs[p].code = r.code
      BY <1>1, <1>2, <3>1 DEF Present
    <3>3. PICK n \in DOMAIN rs : n <= line[i] /\ Project(i, n) /\ rs[n].code = r.code
      BY <1>1, <1>2, <1>3, <3>2 DEF Ordered, Here
    <3>4. n < line[i]
      BY <1>3, <3>1, <3>3 DEF Project, Here
    <3>5. Failed(i, n)
      <4>1. SUFFICES ASSUME ~Failed(i, n) PROVE FALSE
        OBVIOUS
      <4>2. View(i)[KeyOf(rs[n])] # Absent
        BY <1>1, <1>2, <3>4, <4>1 DEF Present
      <4>3. KeyOf(rs[n]) = ProjectKey(r.code)
        <5>1. rs[n] \in Records
          BY <1>1 DEF Typed
        <5> QED BY <3>3, <5>1 DEF KeyOf, ProjectKey, Project, Records, Children
      <4> QED BY <3>1, <4>2, <4>3
    <3>6. /\ report'[i][n] = "failed" /\ records'[i][n].entity = "projects"
          /\ report'[i][line[i]] = "valid" /\ records'[i][line[i]].entity # "projects"
          /\ records'[i][n].code = records'[i][line[i]].code
          /\ n \in DOMAIN report'[i] /\ line[i] \in DOMAIN report'[i]
      BY <1>1, <1>3, <1>7, <3>1, <3>3, <3>5 DEF Failed, Project, Here
    <3> QED BY <2>1, <3>6 DEF Explained
  <2>5. Reported(i)' /\ Present(i)' /\ Expected(i)' /\ Owned(i)' /\ Stands(i)' /\ Steady(i)'
    BY <2>1 DEF Reported, Present, Expected, Owned, Stands, Steady, Processing, Active
  <2> QED BY <1>5, <1>6, <2>2, <2>3, <2>4, <2>5 DEF Own
<1>8. CASE ~Orphan(i, r) /\ UNCHANGED <<writer, draft>>
  <2>1. key \in Keys
    BY <1>3, <1>8 DEF Orphan, Faulty, Records, Keys, KeyOf, Children
  <2>2. View(i)' = View(i)
    BY <1>1, <1>8 DEF View
  <2>3. CASE View(i)[key] = r.content /\ Onward(i, "skipped") /\ UNCHANGED <<at, plan>>
    <3>1. /\ line' \in [Imports -> Nat] /\ report' \in [Imports -> Seq(Outcomes \cup {"valid"})]
          /\ line'[i] \in line[i] + 1 .. Len(rs) + 1
          /\ Len(report'[i]) = Len(rs)
          /\ report'[i][line[i]] = "skipped"
          /\ \A n \in DOMAIN rs : n # line[i] => report'[i][n] = report[i][n]
          /\ \A n \in DOMAIN rs : line[i] < n /\ n < line'[i] => Failed(i, n)
          /\ \A n \in DOMAIN rs :
                /\ Failed(i, n)' <=> Faulty(rs[n], known[i])
                /\ n < line'[i] => report'[i][n] # "valid"
                /\ n = line'[i] => report'[i][n] = "valid"
                /\ n > line'[i] => report'[i][n] \in {"valid", "failed"}
      BY <1>1, <1>2, <2>3, OnwardReports
    <3>2. Typed'
      BY <1>1, <1>8, <2>3, <3>1 DEF Typed
    <3>3. at'[i] = "looking" /\ Processing(i)' /\ Active(i)'
      BY <1>1, <2>3 DEF Processing, Active
    <3>4. Placed(i)'
      BY <1>1, <1>2, <1>3, <3>1, <3>3 DEF Placed
    <3>5. Reported(i)'
      BY <1>1, <3>1 DEF Reported
    <3>6. \A n \in DOMAIN rs : Failed(i, n)' <=> Failed(i, n)
      BY <1>3, <3>1 DEF Failed
    <3>7. \A n \in DOMAIN rs : n < line'[i] /\ ~Failed(i, n) => n < line[i] \/ n = line[i]
      BY <1>3, <3>1
    <3>8. Present(i)'
      <4>1. r.content # Absent
        BY <1>3, RowsAssumption, ImportAssumption DEF Records, RowsAssumption, ImportAssumption
      <4>2. \A n \in DOMAIN rs : Project(i, n)' <=> Project(i, n)
        BY <1>1 DEF Project
      <4>3. \A n \in DOMAIN rs :
                n < line'[i] /\ ~Failed(i, n) => KeyOf(rs[n]) \in Keys /\ View(i)[KeyOf(rs[n])] # Absent
        BY <1>1, <1>2, <2>1, <2>3, <3>7, <4>1 DEF Present, Here
      <4> QED BY <1>1, <1>2, <2>2, <3>6, <4>2, <4>3 DEF Present
    <3>9. Expected(i)' /\ Explained(i)'
      BY <3>3 DEF Expected, Explained
    <3>10. Owned(i)'
      BY <1>1, <1>2, <1>3, <1>8, <3>1, <3>3 DEF Owned
    <3>11. Stands(i)'
      <4>1. SUFFICES ASSUME ~disturbed[i], NEW n \in DOMAIN rs, n < line'[i], ~Failed(i, n),
                            \A m \in DOMAIN rs :
                               n < m /\ m < line'[i] /\ KeyOf(rs[m]) = KeyOf(rs[n]) => Failed(i, m)
                     PROVE  View(i)[KeyOf(rs[n])] = rs[n].content
        BY <1>1, <2>2, <3>6 DEF Stands
      <4>2. CASE n = line[i]
        BY <2>3, <4>2 DEF Here
      <4>3. CASE n < line[i]
        <5>1. \A m \in DOMAIN rs : m < line[i] => m < line'[i]
          BY <1>3, <3>1
        <5> QED BY <1>1, <1>2, <4>1, <4>3, <5>1 DEF Stands
      <4> QED BY <3>7, <4>1, <4>2, <4>3
    <3>12. Steady(i)'
      BY <1>1, <1>2, <3>3, SameRows DEF Steady, Processing
    <3> QED BY <1>5, <1>6, <3>2, <3>4, <3>5, <3>8, <3>9, <3>10, <3>11, <3>12 DEF Own
  <2>4. CASE /\ Goto(i, "writing")
             /\ plan' = [plan EXCEPT ![i] = IF View(i)[key] = Absent THEN "created" ELSE "updated"]
             /\ UNCHANGED <<line, report>>
    <3>1. at' = [at EXCEPT ![i] = "writing"] /\ at'[i] = "writing" /\ Processing(i)' /\ Active(i)'
      BY <1>1, <2>4 DEF Goto, Typed, Processing, Active
    <3>2. plan'[i] = IF View(i)[key] = Absent THEN "created" ELSE "updated"
      BY <1>1, <2>4 DEF Typed
    <3>3. Typed'
      BY <1>1, <1>8, <2>4, <3>1, <3>2 DEF Typed, Places
    <3>4. Placed(i)'
      BY <1>1, <1>2, <2>4, <3>1, <3>2 DEF Placed
    <3>5. \A n : (Failed(i, n)' <=> Failed(i, n)) /\ (Project(i, n)' <=> Project(i, n))
      BY <1>1, <2>4 DEF Failed, Project
    <3>6. Reported(i)'
      BY <1>1, <1>2, <2>4, <3>5 DEF Reported
    <3>7. Present(i)'
      BY <1>1, <1>2, <2>2, <2>4, <3>5 DEF Present
    <3>8. Expected(i)'
      <4>1. Here(i)' = r
        BY <1>1, <2>4 DEF Here
      <4> QED BY <2>2, <3>2, <4>1 DEF Expected
    <3>9. Explained(i)'
      BY <3>1 DEF Explained
    <3>10. Owned(i)'
      BY <1>1, <1>2, <1>8, <2>4, <3>1 DEF Owned
    <3>11. Stands(i)'
      BY <1>1, <1>2, <2>2, <2>4, <3>5 DEF Stands
    <3>12. Steady(i)'
      BY <1>1, <1>2, <2>4, <3>1, SameRows DEF Steady
    <3> QED BY <1>5, <1>6, <3>3, <3>4, <3>6, <3>7, <3>8, <3>9, <3>10, <3>11, <3>12 DEF Own
  <2>5. \/ View(i)[key] = r.content /\ Onward(i, "skipped") /\ UNCHANGED <<at, plan>>
        \/ /\ Goto(i, "writing")
           /\ plan' = [plan EXCEPT ![i] = IF View(i)[key] = Absent THEN "created" ELSE "updated"]
           /\ UNCHANGED <<line, report>>
    BY <1>8 DEF Look
  <2> QED BY <2>3, <2>4, <2>5
<1> QED BY <1>7, <1>8 DEF Look

LEMMA WriteOwn ==
    ASSUME ReportInv, NEW i \in Imports, Write(i)
    PROVE  Typed' /\ Own(i)' /\ LastStands'
<1> DEFINE r == Here(i)
           rs == records[i]
           key == KeyOf(r)
<1>1. /\ Typed /\ Own(i) /\ at[i] = "writing" /\ Processing(i) /\ Active(i)
      /\ Reset \notin Imports /\ writer \in {Reset, i}
      /\ UNCHANGED <<rows, file, records, known, disturbed, latest>>
      /\ plan' = [plan EXCEPT ![i] = "-"]
  BY ImportAssumption DEF ReportInv, Write, Processing, Active, ImportAssumption
<1>2. Placed(i) /\ Reported(i) /\ Ordered(i) /\ Present(i) /\ Expected(i) /\ Owned(i) /\ Stands(i) /\ Steady(i)
  BY <1>1 DEF Own
<1>3. /\ Len(rs) \in Nat /\ DOMAIN rs = 1 .. Len(rs)
      /\ line[i] \in 1 .. Len(rs) /\ line[i] \in DOMAIN rs
      /\ report[i][line[i]] = "valid" /\ ~Faulty(r, known[i]) /\ r \in Records
      /\ plan[i] \in {"created", "updated"}
  BY <1>1, <1>2 DEF Typed, Placed, Reported, Here, Failed
<1>4. ~Orphan(i, r)
  BY <1>1 DEF ReportInv, Intact, Founded
<1>5. LastStands'
  BY <1>1, SameRows DEF ReportInv, LastStands
<1>6. Ordered(i)'
  BY <1>1, <1>2, Zenon DEF Ordered, Project, Active
<1>7. key \in Keys
  BY <1>3, <1>4 DEF Orphan, Faulty, Records, Keys, KeyOf, Children
<1>8. CASE /\ plan[i] = "created" /\ View(i)[key] # Absent
           /\ Goto(i, "conflict") /\ RollBack(i) /\ UNCHANGED <<line, report>>
  <2>1. at' = [at EXCEPT ![i] = "conflict"] /\ at'[i] = "conflict" /\ writer' # i
    BY <1>1, <1>8 DEF Goto, RollBack, Typed
  <2>2. Typed'
    BY <1>1, <1>8, <2>1 DEF Typed, RollBack, Places
  <2>3. Placed(i)'
    BY <1>1, <1>2, <1>8, <2>1 DEF Placed, Active
  <2>4. Explained(i)'
    BY <1>1, <1>2, <1>8, <2>1 DEF Expected, Explained
  <2>5. Reported(i)' /\ Present(i)' /\ Expected(i)' /\ Owned(i)' /\ Stands(i)' /\ Steady(i)'
    BY <2>1 DEF Reported, Present, Expected, Owned, Stands, Steady, Processing, Active
  <2> QED BY <1>5, <1>6, <2>2, <2>3, <2>4, <2>5 DEF Own
<1>9. CASE /\ ~(plan[i] = "created" /\ View(i)[key] # Absent)
           /\ Goto(i, "looking") /\ writer' = i
           /\ draft' = [View(i) EXCEPT ![key] = r.content]
           /\ Onward(i, plan[i])
  <2>1. /\ line' \in [Imports -> Nat] /\ report' \in [Imports -> Seq(Outcomes \cup {"valid"})]
        /\ line'[i] \in line[i] + 1 .. Len(rs) + 1
        /\ Len(report'[i]) = Len(rs)
        /\ report'[i][line[i]] = plan[i]
        /\ \A n \in DOMAIN rs : n # line[i] => report'[i][n] = report[i][n]
        /\ \A n \in DOMAIN rs : line[i] < n /\ n < line'[i] => Failed(i, n)
        /\ \A n \in DOMAIN rs :
              /\ Failed(i, n)' <=> Faulty(rs[n], known[i])
              /\ n < line'[i] => report'[i][n] # "valid"
              /\ n = line'[i] => report'[i][n] = "valid"
              /\ n > line'[i] => report'[i][n] \in {"valid", "failed"}
    BY <1>1, <1>2, <1>3, <1>9, OnwardReports
  <2>2. at' = [at EXCEPT ![i] = "looking"] /\ at'[i] = "looking" /\ Processing(i)' /\ Active(i)'
    BY <1>1, <1>9 DEF Goto, Typed, Processing, Active
  <2>3. r.content \in Contents /\ r.content # Absent
    BY <1>3, RowsAssumption DEF Faulty, Records, RowsAssumption
  <2>4. View(i) \in [Keys -> Contents \cup {Absent}]
    BY <1>1 DEF View, Typed
  <2>5. /\ draft' \in [Keys -> Contents \cup {Absent}]
        /\ draft'[key] = r.content /\ \A k \in Keys : k # key => draft'[k] = View(i)[k]
    BY <1>7, <1>9, <2>3, <2>4
  <2>6. View(i)' = draft'
    BY <1>9 DEF View
  <2>7. Typed'
    <3>1. at' \in [Imports -> Places] /\ plan' \in [Imports -> {"-", "created", "updated"}]
      BY <1>1, <2>2 DEF Typed, Places
    <3> QED BY <1>1, <1>9, <2>1, <2>5, <3>1 DEF Typed
  <2>8. Placed(i)'
    BY <1>1, <1>2, <1>3, <2>1, <2>2 DEF Placed
  <2>9. Reported(i)'
    BY <1>1, <2>1 DEF Reported
  <2>10. \A n \in DOMAIN rs : Failed(i, n)' <=> Failed(i, n)
    BY <1>1, <1>2, <2>1 DEF Reported
  <2>11. \A n \in DOMAIN rs : n < line'[i] /\ ~Failed(i, n) => n < line[i] \/ n = line[i]
    BY <1>3, <2>1
  <2>12. Present(i)'
    <3>1. \A n \in DOMAIN rs : Project(i, n)' <=> Project(i, n)
      BY <1>1 DEF Project
    <3>2. \A k \in Keys : View(i)[k] # Absent => draft'[k] # Absent
      BY <2>3, <2>5
    <3>3. \A n \in DOMAIN rs :
              n < line'[i] /\ ~Failed(i, n) => KeyOf(rs[n]) \in Keys /\ draft'[KeyOf(rs[n])] # Absent
      BY <1>1, <1>2, <1>7, <2>3, <2>5, <2>11, <3>2 DEF Present, Here
    <3>4. \A c \in known[i] : ProjectKey(c) \in Keys
      BY <1>1 DEF Typed, ProjectKey, Keys
    <3> QED BY <1>1, <1>2, <2>6, <2>10, <3>1, <3>2, <3>3, <3>4 DEF Present
  <2>13. Expected(i)' /\ Explained(i)'
    BY <2>2 DEF Expected, Explained
  <2>14. Owned(i)'
    <3>1. ASSUME NEW k \in Keys, draft'[k] # rows[k]
          PROVE  \E n \in DOMAIN rs : KeyOf(rs[n]) = k /\ report'[i][n] \in {"created", "updated"}
      <4>1. CASE k = key
        BY <1>3, <2>1, <4>1 DEF Here
      <4>2. CASE k # key
        <5>1. writer = i /\ draft[k] # rows[k]
          BY <2>5, <3>1, <4>2 DEF View
        <5>2. PICK n \in DOMAIN rs : KeyOf(rs[n]) = k /\ report[i][n] \in {"created", "updated"}
          BY <1>2, <5>1 DEF Owned
        <5>3. n # line[i]
          BY <1>3, <5>2
        <5> QED BY <2>1, <5>2, <5>3
      <4> QED BY <4>1, <4>2
    <3>2. ASSUME NEW n \in DOMAIN rs, report'[i][n] = "created"
          PROVE  rows[KeyOf(rs[n])] = Absent
      <4>1. CASE n = line[i]
        <5>1. View(i)[key] = Absent
          BY <1>9, <2>1, <3>2, <4>1
        <5>2. rows[key] = Absent
          BY <1>7, <5>1, ImportAssumption DEF View, ReportInv, Intact, Grows, ImportAssumption
        <5> QED BY <4>1, <5>2 DEF Here
      <4>2. CASE n # line[i]
        BY <1>1, <1>2, <2>1, <3>2, <4>2 DEF Owned
      <4> QED BY <4>1, <4>2
    <3> QED BY <1>1, <1>9, <2>2, <3>1, <3>2 DEF Owned
  <2>15. Stands(i)'
    <3>1. SUFFICES ASSUME ~disturbed[i], NEW n \in DOMAIN rs, n < line'[i], ~Failed(i, n),
                          \A m \in DOMAIN rs :
                             n < m /\ m < line'[i] /\ KeyOf(rs[m]) = KeyOf(rs[n]) => Failed(i, m)
                   PROVE  draft'[KeyOf(rs[n])] = rs[n].content
      BY <1>1, <2>6, <2>10 DEF Stands
    <3>2. CASE n = line[i]
      BY <2>5, <3>2 DEF Here
    <3>3. CASE n < line[i]
      <4>1. \A m \in DOMAIN rs : m < line[i] => m < line'[i]
        BY <1>3, <2>1
      <4>2. View(i)[KeyOf(rs[n])] = rs[n].content
        BY <1>1, <1>2, <3>1, <3>3, <4>1 DEF Stands
      <4>3. KeyOf(rs[n]) # key
        <5>1. ~Failed(i, line[i]) /\ line[i] < line'[i]
          BY <1>3, <2>1 DEF Failed
        <5> QED BY <1>3, <3>1, <3>3, <5>1 DEF Here
      <4>4. KeyOf(rs[n]) \in Keys
        BY <1>1, <1>2, <3>1, <3>3 DEF Present
      <4> QED BY <2>5, <4>2, <4>3, <4>4
    <3> QED BY <2>11, <3>1, <3>2, <3>3
  <2>16. Steady(i)'
    BY <1>1, <1>2, <2>2, SameRows DEF Steady, Processing
  <2> QED BY <1>5, <1>6, <2>7, <2>8, <2>9, <2>12, <2>13, <2>14, <2>15, <2>16 DEF Own
<1>10. \/ /\ plan[i] = "created" /\ View(i)[key] # Absent
          /\ Goto(i, "conflict") /\ RollBack(i) /\ UNCHANGED <<line, report>>
       \/ /\ ~(plan[i] = "created" /\ View(i)[key] # Absent)
          /\ Goto(i, "looking") /\ writer' = i
          /\ draft' = [View(i) EXCEPT ![key] = r.content]
          /\ Onward(i, plan[i])
  BY Zenon DEF Write
<1> QED BY <1>8, <1>9, <1>10

\* An import that is over has nothing under way
LEMMA ForgottenOwn ==
    ASSUME Typed, NEW i \in Imports, Forget(i), NEW place \in {"locked", "killed", "done"},
           Goto(i, place), writer' # i
    PROVE  /\ at' \in [Imports -> Places] /\ file' \in [Imports -> Files \cup {Reset}]
           /\ records' \in [Imports -> Seq(Records)] /\ line' \in [Imports -> Nat]
           /\ known' \in [Imports -> SUBSET Codes]
           /\ report' \in [Imports -> Seq(Outcomes \cup {"valid"})]
           /\ plan' \in [Imports -> {"-", "created", "updated"}]
           /\ Own(i)'
<1>1. /\ at' \in [Imports -> Places] /\ at'[i] = place
      /\ file' \in [Imports -> Files \cup {Reset}]
  BY DEF Typed, Forget, Goto, Places
<1>2. /\ records' \in [Imports -> Seq(Records)] /\ line' \in [Imports -> Nat]
      /\ records'[i] = <<>> /\ line'[i] = 1
  BY DEF Typed, Forget
<1>3. /\ known' \in [Imports -> SUBSET Codes]
      /\ report' \in [Imports -> Seq(Outcomes \cup {"valid"})] /\ report'[i] = <<>>
      /\ plan' \in [Imports -> {"-", "created", "updated"}]
  BY DEF Typed, Forget
<1>4. ~Active(i)' /\ ~Processing(i)' /\ at'[i] \notin {"resolving", "writing", "broken", "conflict"}
  BY <1>1 DEF Active, Processing
<1>5. Placed(i)'
  BY <1>2, <1>3, <1>4 DEF Placed
<1>6. /\ Reported(i)' /\ Ordered(i)' /\ Present(i)' /\ Expected(i)' /\ Explained(i)'
      /\ Owned(i)' /\ Stands(i)' /\ Steady(i)'
  BY <1>4 DEF Reported, Ordered, Present, Expected, Explained, Owned, Stands, Steady
<1> QED BY <1>1, <1>2, <1>3, <1>5, <1>6 DEF Own

LEMMA EndOwn ==
    ASSUME ReportInv, NEW i \in Imports, LockTimeout(i) \/ Kill(i)
    PROVE  Typed' /\ Own(i)' /\ LastStands'
<1>1. /\ Typed /\ Forget(i) /\ UNCHANGED <<rows, disturbed, latest>>
      /\ \E place \in {"locked", "killed", "done"} : Goto(i, place)
      /\ writer' # i /\ writer' \in Imports \cup {Reset}
      /\ draft' \in {draft, rows}
  BY ImportAssumption DEF ReportInv, LockTimeout, Kill, RollBack, Typed, ImportAssumption
<1>2. /\ at' \in [Imports -> Places] /\ file' \in [Imports -> Files \cup {Reset}]
      /\ records' \in [Imports -> Seq(Records)] /\ line' \in [Imports -> Nat]
      /\ known' \in [Imports -> SUBSET Codes]
      /\ report' \in [Imports -> Seq(Outcomes \cup {"valid"})]
      /\ plan' \in [Imports -> {"-", "created", "updated"}]
      /\ Own(i)'
  BY <1>1, ForgottenOwn
<1>3. Typed'
  BY <1>1, <1>2 DEF Typed
<1>4. LastStands'
  BY <1>1, SameRows DEF ReportInv, LastStands
<1> QED BY <1>2, <1>3, <1>4

\* What an import commits, it would make of its file again: a contract list commits
\* no project, and another file knows the codes of the projects it commits.
LEMMA CommitResolvesAlike ==
    ASSUME ReportInv, NEW i \in Imports, Commit(i), NEW f, f = file[i], NEW rs, rs = records[i]
    PROVE  Resolved(f)' = Resolved(f) /\ CodesOf(rs)' = CodesOf(rs)
<1>1. /\ Typed /\ Own(i) /\ Processing(i) /\ Active(i) /\ rows' = View(i)
  BY DEF ReportInv, Commit, Processing, Active
<1>2. Ordered(i) /\ Owned(i)
  BY <1>1 DEF Own
<1>3. ASSUME NEW c \in Codes, rows'[ProjectKey(c)] # rows[ProjectKey(c)]
      PROVE  \E n \in DOMAIN rs : Project(i, n) /\ rs[n].code = c
  <2>1. ProjectKey(c) \in Keys
    BY DEF ProjectKey, Keys
  <2>2. writer = i /\ draft[ProjectKey(c)] # rows[ProjectKey(c)]
    BY <1>1, <1>3 DEF View
  <2>3. PICK n \in DOMAIN rs : KeyOf(rs[n]) = ProjectKey(c)
    BY <1>2, <2>1, <2>2 DEF Owned
  <2> QED BY <2>3 DEF KeyOf, ProjectKey, Project
<1>4. Resolved(f)' = Resolved(f)
  <2>1. CASE f.profile = "contracts"
    <3>1. \A c \in Codes : rows'[ProjectKey(c)] = rows[ProjectKey(c)]
      BY <1>1, <1>2, <1>3, <2>1 DEF Ordered
    <3>2. \A c \in Codes : Exists(c)' <=> Exists(c)
      BY <3>1 DEF Exists
    <3>3. \A text : Matched(text)' = Matched(text)
      BY <3>1, <3>2, RowsAssumption DEF Matched, RowsAssumption
    <3>4. \A text : Standard(text)' = Standard(text)
      BY <3>3 DEF Standard
    <3> QED BY <3>4, Zenon DEF Resolved
  <2>2. CASE f.profile # "contracts"
    BY <2>2, Zenon DEF Resolved
  <2> QED BY <2>1, <2>2
<1>5. CodesOf(rs)' = CodesOf(rs)
  <2> DEFINE batch == {rs[n].code : n \in {k \in DOMAIN rs : rs[k].entity = "projects"}} \ {Missing}
  <2>1. \A c \in Codes : Exists(c) => Exists(c)'
    <3>1. \A c \in Codes : ProjectKey(c) \in Keys
      BY DEF ProjectKey, Keys
    <3> QED BY <1>1, <3>1, ImportAssumption
            DEF Exists, View, ReportInv, Intact, Grows, ImportAssumption
  <2>2. \A c \in Codes : Exists(c)' => Exists(c) \/ c \in batch
    <3>1. \A c \in Codes : Exists(c)' /\ ~Exists(c) => rows'[ProjectKey(c)] # rows[ProjectKey(c)]
      BY DEF Exists
    <3> QED BY <1>3, <3>1, ImportAssumption DEF Project, ImportAssumption
  <2>3. CodesOf(rs) = batch \cup {c \in Codes : Exists(c)}
    BY DEF CodesOf
  <2>4. CodesOf(rs)' = batch \cup {c \in Codes : Exists(c)'}
    BY DEF CodesOf
  <2> HIDE DEF batch
  <2> QED BY <2>1, <2>2, <2>3, <2>4
<1> QED BY <1>4, <1>5

LEMMA CommitOwn ==
    ASSUME ReportInv, NEW i \in Imports, Commit(i)
    PROVE  Typed' /\ Own(i)' /\ LastStands'
<1> DEFINE rs == records[i]
<1>1. /\ Typed /\ Own(i) /\ Processing(i) /\ Active(i) /\ Forget(i) /\ Goto(i, "done") /\ UNCHANGED draft
      /\ rows' = View(i) /\ writer' = IF writer = i THEN Reset ELSE writer
      /\ line[i] > Len(rs) /\ file[i] \in Files
      /\ disturbed' = [j \in Imports |-> j # i /\ (disturbed[j] \/ (Active(j) /\ writer = i))]
      /\ latest' = IF disturbed[i] THEN Reset ELSE file[i]
  BY DEF ReportInv, Own, Placed, Commit, Processing, Active
<1>2. writer' # i /\ writer' \in Imports \cup {Reset}
  BY <1>1, ImportAssumption DEF Typed, ImportAssumption
<1>3. /\ at' \in [Imports -> Places] /\ file' \in [Imports -> Files \cup {Reset}]
      /\ records' \in [Imports -> Seq(Records)] /\ line' \in [Imports -> Nat]
      /\ known' \in [Imports -> SUBSET Codes]
      /\ report' \in [Imports -> Seq(Outcomes \cup {"valid"})]
      /\ plan' \in [Imports -> {"-", "created", "updated"}]
      /\ Own(i)'
  BY <1>1, <1>2, ForgottenOwn
<1>4. Typed'
  <2>1. rows' \in [Keys -> Contents \cup {Absent}] /\ draft' \in [Keys -> Contents \cup {Absent}]
    BY <1>1 DEF Typed, View
  <2>2. disturbed' \in [Imports -> BOOLEAN]
    BY <1>1
  <2>3. latest' \in Files \cup {Reset}
    BY <1>1
  <2> QED BY <1>2, <1>3, <2>1, <2>2, <2>3 DEF Typed
<1>5. LastStands'
  <2>1. SUFFICES ASSUME ~disturbed[i] PROVE LastStands'
    BY <1>1 DEF LastStands
  <2>2. latest' = file[i]
    BY <1>1, <2>1
  <2>3. /\ Resolved(file[i]) = rs /\ CodesOf(rs) = known[i]
        /\ \A n \in DOMAIN rs : Failed(i, n) <=> Faulty(rs[n], known[i])
        /\ Len(rs) \in Nat /\ DOMAIN rs = 1 .. Len(rs)
    BY <1>1, <2>1 DEF Own, Steady, Reported, Processing, Typed
  <2>4. Resolved(latest)' = rs
    <3>1. \A f : f = file[i] => Resolved(f)' = Resolved(f)
      BY CommitResolvesAlike
    <3>2. \A f : f = latest' => Resolved(latest)' = Resolved(f)'
      BY Zenon DEF Resolved
    <3> QED BY <2>2, <2>3, <3>1, <3>2
  <2>5. \A s : s = rs => CodesOf(s)' = CodesOf(s)
    BY CommitResolvesAlike
  <2>6. \A n \in DOMAIN rs : n < line[i]
    BY <1>1, <2>3 DEF Typed
  <2>7. \A n \in DOMAIN rs :
            /\ ~Failed(i, n)
            /\ \A m \in DOMAIN rs : n < m /\ KeyOf(rs[m]) = KeyOf(rs[n]) => Failed(i, m)
            => rows'[KeyOf(rs[n])] = rs[n].content
    BY <1>1, <2>1, <2>6 DEF Own, Stands
  <2> QED BY <2>3, <2>4, <2>5, <2>7 DEF LastStands
<1> QED BY <1>3, <1>4, <1>5

LEMMA NextReport == ReportInv /\ [ImportNext]_<<rows, importVars>> => ReportInv'
<1> SUFFICES ASSUME ReportInv, [ImportNext]_<<rows, importVars>> PROVE ReportInv'
  OBVIOUS
<1>1. Intact'
  BY NextIntact DEF ReportInv
<1>2. CASE UNCHANGED <<rows, importVars>>
  <2>1. Typed' /\ LastStands'
    <3>1. Typed'
      BY <1>2 DEF importVars, ReportInv, Typed
    <3>2. rows' = rows /\ latest' = latest
      BY <1>2 DEF importVars
    <3> QED BY <3>1, <3>2, SameRows DEF ReportInv, LastStands
  <2>2. ASSUME NEW j \in Imports PROVE Own(j)'
    <3>1. Same(j) /\ Apart(j)
      BY <1>2 DEF importVars, Same, Apart, View
    <3> QED BY <3>1, OthersOwn DEF Elsewhere
  <2> QED BY <1>1, <2>1, <2>2 DEF ReportInv
<1>3. ASSUME NEW i \in Imports, Import(i) PROVE ReportInv'
  <2>1. Typed' /\ Own(i)' /\ LastStands'
    BY <1>3, BeginOwn, ResolveOwn, ValidateOwn, LookOwn, WriteOwn, EndOwn, CommitOwn DEF Import
  <2>2. \A j \in Imports \ {i} : Own(j)'
    BY <1>3, ImportsApart, OthersOwn
  <2> QED BY <1>1, <2>1, <2>2 DEF ReportInv
<1> QED BY <1>2, <1>3 DEF ImportNext

LEMMA InitReport == ImportInit /\ RowsTypeOK /\ ChildrenHaveProjects => ReportInv
<1> SUFFICES ASSUME ImportInit, RowsTypeOK, ChildrenHaveProjects PROVE ReportInv
  OBVIOUS
<1>1. Intact
  BY InitIntact DEF RowsTypeOK
<1>2. Typed
  BY DEF ImportInit, RowsTypeOK, Typed, Places
<1>3. LastStands
  BY DEF ImportInit, LastStands
<1>4. ASSUME NEW i \in Imports PROVE Own(i)
  <2>1. ~Active(i) /\ ~Processing(i) /\ at[i] = "idle" /\ writer # i
    BY ImportAssumption DEF ImportInit, Active, Processing, ImportAssumption
  <2>2. Placed(i)
    BY <2>1 DEF ImportInit, Placed
  <2> QED BY <2>1, <2>2 DEF Own, Reported, Ordered, Present, Expected, Explained, Owned, Stands, Steady
<1> QED BY <1>1, <1>2, <1>3, <1>4 DEF ReportInv

-----------------------------------------------------------------------------
LEMMA ReportTyped == ReportInv => ImportTypeOK
<1> SUFFICES ASSUME ReportInv PROVE ImportTypeOK
  OBVIOUS
<1>1. Typed
  BY DEF ReportInv
<1>2. ASSUME NEW i \in Imports
      PROVE  /\ file[i] \in Files \cup {Reset}
             /\ line[i] \in 1 .. Len(records[i]) + 1
             /\ known[i] \subseteq Codes
             /\ Len(report[i]) <= Len(records[i])
             /\ \A n \in DOMAIN report[i] : report[i][n] \in Outcomes \cup {"valid"}
  BY <1>1 DEF ReportInv, Own, Placed, Typed
<1> QED BY <1>1, <1>2 DEF ImportTypeOK, RowsTypeOK, Typed

\* An import keeps to its types: its line is within its records, its report is no
\* longer than they are, and it knows project codes only.
THEOREM ImportsAreTyped ==
    /\ ImportInit /\ RowsTypeOK /\ ChildrenHaveProjects
    /\ [][ImportNext]_<<rows, importVars>>
    => []ImportTypeOK
BY InitReport, NextReport, ReportTyped, PTL

\* A file is lost with an exception only for a rejected project record whose child
\* was accepted, or for a row another import committed under way, whatever the
\* other imports do.
THEOREM AbortsHaveCauses ==
    /\ ImportInit /\ RowsTypeOK /\ ChildrenHaveProjects
    /\ [][ImportNext]_<<rows, importVars>>
    => []AbortsAreExplained
<1>1. ReportInv => AbortsAreExplained
  BY DEF ReportInv, Own, Explained, AbortsAreExplained
<1> QED BY InitReport, NextReport, <1>1, PTL

LEMMA CommitIsReported ==
    ASSUME ReportInv, NEW i \in Imports, Commit(i)
    PROVE  LET rs == records[i]
               Written(k) == {n \in DOMAIN rs : KeyOf(rs[n]) = k /\ report[i][n] \in {"created", "updated"}}
               LastOfKey(n) == \A m \in n + 1 .. Len(rs) :
                                   KeyOf(rs[m]) = KeyOf(rs[n]) => report[i][m] = "failed"
           IN  /\ \A k \in Keys : rows'[k] # rows[k] => Written(k) # {}
               /\ \A n \in DOMAIN rs : report[i][n] = "created" => rows[KeyOf(rs[n])] = Absent
               /\ ~disturbed[i] =>
                      \A n \in DOMAIN rs :
                          (report[i][n] # "failed" /\ LastOfKey(n)) =>
                              rows'[KeyOf(rs[n])] = rs[n].content
<1> DEFINE rs == records[i]
           LastOfKey(n) == \A m \in n + 1 .. Len(rs) :
                               KeyOf(rs[m]) = KeyOf(rs[n]) => report[i][m] = "failed"
<1>1. /\ Processing(i) /\ rows' = View(i) /\ line[i] > Len(rs) /\ line[i] \in Nat
      /\ Len(rs) \in Nat /\ DOMAIN rs = 1 .. Len(rs)
      /\ Owned(i) /\ Stands(i)
  BY DEF ReportInv, Own, Commit, Processing, Typed
<1>2. ASSUME NEW k \in Keys, rows'[k] # rows[k]
      PROVE  \E n \in DOMAIN rs : KeyOf(rs[n]) = k /\ report[i][n] \in {"created", "updated"}
  BY <1>1, <1>2 DEF View, Owned
<1>3. \A n \in DOMAIN rs : report[i][n] = "created" => rows[KeyOf(rs[n])] = Absent
  BY <1>1 DEF Owned
<1>4. ASSUME ~disturbed[i], NEW n \in DOMAIN rs, report[i][n] # "failed", LastOfKey(n)
      PROVE  rows'[KeyOf(rs[n])] = rs[n].content
  <2>1. \A m \in DOMAIN rs : n < m => m \in n + 1 .. Len(rs)
    BY <1>1
  <2>2. n < line[i]
    BY <1>1
  <2> QED BY <1>1, <1>4, <2>1, <2>2 DEF Stands, Failed
<1> QED BY <1>2, <1>3, <1>4

\* What is reported of a commit is what it does, whatever is imported side by side.
THEOREM ReportsAreTrue ==
    /\ ImportInit /\ RowsTypeOK /\ ChildrenHaveProjects
    /\ [][ImportNext]_<<rows, importVars>>
    => ReportIsTrue
<1>1. ReportInv /\ [ImportNext]_<<rows, importVars>> =>
          [\A i \in Imports :
              Commit(i) =>
                  LET rs == records[i]
                      Written(k) == {n \in DOMAIN rs :
                                        KeyOf(rs[n]) = k /\ report[i][n] \in {"created", "updated"}}
                      LastOfKey(n) == \A m \in n + 1 .. Len(rs) :
                                          KeyOf(rs[m]) = KeyOf(rs[n]) => report[i][m] = "failed"
                  IN  /\ \A k \in Keys : rows'[k] # rows[k] => Written(k) # {}
                      /\ \A n \in DOMAIN rs : report[i][n] = "created" => rows[KeyOf(rs[n])] = Absent
                      /\ ~disturbed[i] =>
                             \A n \in DOMAIN rs :
                                 (report[i][n] # "failed" /\ LastOfKey(n)) =>
                                     rows'[KeyOf(rs[n])] = rs[n].content]_<<rows, importVars>>
  BY CommitIsReported, Zenon
<1> QED BY InitReport, NextReport, <1>1, PTL DEF ReportIsTrue

\* The last accepted record of each key of the file stands in the rows already, and it
\* is the one whose content the commit leaves.
LEMMA CommitRepeats ==
    ASSUME ReportInv, NEW i \in Imports, Commit(i), ~disturbed[i], file[i] = latest
    PROVE  rows' = rows
<1> DEFINE rs == records[i]
<1>1. /\ Typed /\ Processing(i) /\ Active(i) /\ rows' = View(i) /\ line[i] > Len(rs) /\ line[i] \in Nat
      /\ Len(rs) \in Nat /\ DOMAIN rs = 1 .. Len(rs)
      /\ Owned(i) /\ Stands(i) /\ Reported(i) /\ Steady(i) /\ file[i] \in Files
  BY DEF ReportInv, Own, Placed, Commit, Processing, Active, Typed
<1>2. /\ rs = Resolved(latest) /\ known[i] = CodesOf(rs)
      /\ \A n \in DOMAIN rs : Failed(i, n) <=> Faulty(rs[n], known[i])
  BY <1>1 DEF Steady, Reported, Processing
<1>3. latest # Reset
  BY <1>1, ImportAssumption DEF ImportAssumption
<1>4. ASSUME NEW k \in Keys, rows'[k] # rows[k] PROVE FALSE
  <2> DEFINE W == {n \in 1 .. Len(rs) : KeyOf(rs[n]) = k /\ ~Failed(i, n)}
  <2>1. PICK n \in DOMAIN rs : KeyOf(rs[n]) = k /\ report[i][n] \in {"created", "updated"}
    BY <1>1, <1>4 DEF View, Owned
  <2>2. n \in W
    BY <1>1, <2>1 DEF Failed
  <2>3. W \in SUBSET (1 .. Len(rs)) /\ W # {}
    BY <2>2
  <2>4. PICK x \in W : \A y \in W : y <= x
    BY <1>1, <2>3, GreatestBelow
  <2>5. /\ x \in DOMAIN rs /\ KeyOf(rs[x]) = k /\ ~Failed(i, x) /\ x < line[i]
        /\ \A m \in DOMAIN rs : x < m /\ KeyOf(rs[m]) = KeyOf(rs[x]) => Failed(i, m)
    BY <1>1, <2>4
  <2>6. rows'[k] = rs[x].content
    BY <1>1, <2>5 DEF Stands
  <2>7. rows[k] = rs[x].content
    BY <1>2, <1>3, <2>5 DEF ReportInv, LastStands
  <2> QED BY <1>4, <2>6, <2>7
<1>5. rows' \in [Keys -> Contents \cup {Absent}] /\ rows \in [Keys -> Contents \cup {Absent}]
  BY <1>1 DEF Typed, View
<1> QED BY <1>4, <1>5

\* Importing a file again changes nothing, for every file and whatever else is
\* under way.
THEOREM ReimportsChangeNothing ==
    /\ ImportInit /\ RowsTypeOK /\ ChildrenHaveProjects
    /\ [][ImportNext]_<<rows, importVars>>
    => ReimportChangesNothing
<1>1. ReportInv /\ [ImportNext]_<<rows, importVars>> =>
          [\A i \in Imports :
              Commit(i) /\ ~disturbed[i] /\ file[i] = latest => rows' = rows]_<<rows, importVars>>
  BY CommitRepeats
<1> QED BY InitReport, NextReport, <1>1, PTL DEF ReimportChangesNothing
=============================================================================
