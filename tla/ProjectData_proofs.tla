------------------------- MODULE ProjectData_proofs -------------------------
(*************************************************************************)
(* What a tool call answers and what is written of it, for every number  *)
(* of calls and imports, every policy, database and request.             *)
(*                                                                       *)
(* Nothing is answered that was not open to the requester during the     *)
(* call. A call checks in one statement and reads in another. The        *)
(* argument goes through seen, all that was open at some moment of the   *)
(* call: it holds what is open now, since each commit adds what it       *)
(* opens, and it only grows; so what a check found is in it for good,    *)
(* and what a later read returns is bound to the project that was        *)
(* checked, not to its name.                                             *)
(*                                                                       *)
(* What is filed of an answer comes of a second look at the data, and    *)
(* what a call says of the access of its requester of another function   *)
(* than the one that decides: both arguments are below, with the calls   *)
(* they are about.                                                       *)
(*************************************************************************)
EXTENDS ProjectData, ImportPipeline_proofs

Seen(s, p) == <<"record", p, AnyField>> \in s
Granted(s, d, p, f) == <<d, p, f>> \in s

\* AnsweredWithinScope of one call
Answerable(q, cells, s) ==
    \A x \in cells : q.tool \notin GraphTools =>
        /\ Seen(s, x.key.code)
        /\ \/ q.tool \in Listings
           \/ x.field \in Identity[q.domain]
           \/ Granted(s, q.domain, x.key.code, x.field)

WithinScope(r, s) == Answerable(r.request, r.cells, s)

\* A request whose fields were validated
Valid(q) == q \in Requests /\ q.fields \subseteq Fields[q.domain]

\* What call r knows at each place, s being what was open to it
Sound(r, s) ==
    /\ DOMAIN r = DOMAIN NewCall
    /\ r.at # "idle" => r.request \in Requests
    /\ r.at \in {"lookup", "contract", "visible", "grants"} => Valid(r.request)
    /\ r.at \in {"lookup", "contract"} => r.row = Nothing
    /\ r.at \in {"visible", "grants", "rows"} =>
           r.project \in Codes /\ (r.row = Nothing \/ r.row.code = r.project)
    /\ r.at \in {"grants", "rows"} => Seen(s, r.project)
    /\ r.at = "rows" =>
           \A f \in Governed(r.request) : Granted(s, r.request.domain, r.project, f)
    /\ r.at = "listing" => r.request.tool \in Listings /\ \A p \in r.ids : Seen(s, p)
    /\ r.at = "graph" => r.request.tool \in GraphTools
    /\ WithinScope(r, s)

IInv ==
    /\ DOMAIN call = Calls /\ DOMAIN seen = Calls
    /\ \A c \in Calls : Sound(call[c], seen[c])
    /\ \A c \in Calls : Underway(c) => OpenNow \subseteq seen[c]

-----------------------------------------------------------------------------
LEMMA SoundGrows == \A r, s, t : Sound(r, s) /\ s \subseteq t => Sound(r, t)
<1> SUFFICES ASSUME NEW r, NEW s, NEW t, Sound(r, s), s \subseteq t PROVE Sound(r, t)
  OBVIOUS
<1>1. \A p : Seen(s, p) => Seen(t, p)
  BY DEF Seen
<1>2. \A d, p, f : Granted(s, d, p, f) => Granted(t, d, p, f)
  BY DEF Granted
<1>3. WithinScope(r, t)
  BY <1>1, <1>2 DEF Sound, WithinScope, Answerable
<1> QED BY <1>1, <1>2, <1>3 DEF Sound

LEMMA LookupFindsProjects == \A text : lookup_project(text) \subseteq Codes
BY DEF lookup_project, Projects

\* What is open now is in seen: records by scope, fields by grant
LEMMA VisibleNow == \A p \in visible_project_ids : <<"record", p, AnyField>> \in OpenNow
BY DEF OpenNow

LEMMA GrantedNow ==
    ASSUME NEW d \in Domains, NEW p \in Codes, NEW F, F \subseteq Fields[d],
           NEW f \in authorize_fields(d, p, F)
    PROVE  <<d, p, f>> \in OpenNow
<1>1. f \in F /\ f \in authorize_fields(d, p, Fields[d])
  BY DEF authorize_fields
<1>2. f \in AllFields
  BY <1>1 DEF AllFields
<1> QED BY <1>1, <1>2 DEF OpenNow

LEMMA InitInv == Init => IInv
<1> SUFFICES ASSUME Init PROVE IInv
  OBVIOUS
<1>1. call = [c \in Calls |-> NewCall] /\ seen = [c \in Calls |-> {}]
  BY DEF Init, CallInit
<1>2. Sound(NewCall, {})
  BY DEF Sound, NewCall, WithinScope, Answerable
<1> QED BY <1>1, <1>2 DEF IInv, Underway, NewCall

-----------------------------------------------------------------------------
\* A call under way goes on, and nothing is committed
LEMMA StepInv ==
    ASSUME IInv, NEW c \in Calls, Underway(c), NEW r, Sound(r, seen[c]),
           call' = [call EXCEPT ![c] = r], UNCHANGED <<rows, scope, grants, seen>>
    PROVE  IInv'
<1>1. DOMAIN call' = Calls /\ DOMAIN seen' = Calls
  BY DEF IInv
<1>2. call'[c] = r /\ \A o \in Calls \ {c} : call'[o] = call[o]
  BY DEF IInv
<1>3. \A o \in Calls : Sound(call'[o], seen'[o])
  BY <1>2 DEF IInv
<1>4. OpenNow' = OpenNow
  BY DEF OpenNow, visible_project_ids, Projects, Exists, authorize_fields, GrantedFields
<1>5. \A o \in Calls : Underway(o)' => OpenNow' \subseteq seen'[o]
  BY <1>2, <1>4 DEF IInv, Underway
<1>6. (\A o \in Calls : Sound(call[o], seen[o]))'
  BY <1>3
<1> QED BY <1>1, <1>5, <1>6 DEF IInv

\* The record a step leaves
LEMMA Stepped ==
    ASSUME IInv, NEW c \in Calls, NEW changes, DOMAIN changes \subseteq DOMAIN NewCall, Step(c, changes)
    PROVE  LET r == Updated(call[c], changes)
           IN  /\ call' = [call EXCEPT ![c] = r]
               /\ DOMAIN r = DOMAIN NewCall
               /\ \A x \in DOMAIN NewCall : r[x] = IF x \in DOMAIN changes THEN changes[x] ELSE call[c][x]
               /\ UNCHANGED <<rows, scope, grants, seen>>
<1> DEFINE r == Updated(call[c], changes)
<1>1. call' = [call EXCEPT ![c] = r] /\ UNCHANGED <<rows, scope, grants, seen>>
  BY DEF Step, IInv, policyVars, historyVars
<1>2. DOMAIN call[c] = DOMAIN NewCall
  BY DEF IInv, Sound
<1> QED BY <1>1, <1>2 DEF Updated

\* A step that ends what the call was doing: it answers nothing, or what it did
LEMMA QuietInv ==
    ASSUME IInv, NEW c \in Calls, Underway(c), NEW changes,
           DOMAIN changes \subseteq DOMAIN NewCall \ {"request", "project", "row", "cells"},
           "at" \in DOMAIN changes,
           changes.at \in {"describing", "disclosing", "logging"},
           Step(c, changes)
    PROVE  IInv'
<1> DEFINE r == Updated(call[c], changes)
<1>1. /\ call' = [call EXCEPT ![c] = r]
      /\ DOMAIN r = DOMAIN NewCall
      /\ \A x \in DOMAIN NewCall : r[x] = IF x \in DOMAIN changes THEN changes[x] ELSE call[c][x]
      /\ UNCHANGED <<rows, scope, grants, seen>>
  BY Stepped
<1>2. Sound(call[c], seen[c]) /\ call[c].at # "idle"
  BY DEF IInv, Underway
<1>3. r.at \in {"describing", "disclosing", "logging"} /\ r.request = call[c].request /\ r.cells = call[c].cells
  BY <1>1 DEF NewCall
<1> HIDE DEF r
<1>4. Sound(r, seen[c])
  BY <1>1, <1>2, <1>3 DEF Sound, WithinScope
<1> QED BY <1>1, <1>4, StepInv

LEMMA OpenInv == ASSUME IInv, NEW c \in Calls, NEW q \in Requests, Open(c, q) PROVE IInv'
<1> DEFINE error == Refusal(q)
           place == CASE error = "none" -> FirstRead(q.tool, q.text)
                      [] error = "tool_not_exposed" -> "returned"
                      [] OTHER -> "logging"
           r == [NewCall EXCEPT !.at = place, !.request = q, !.error = error]
<1>0. call' = [call EXCEPT ![c] = r]
  BY DEF Open
<1>1. /\ error = "none" => q.fields \subseteq Fields[q.domain]
      /\ place \in {FirstRead(q.tool, q.text), "returned", "logging"}
      /\ place \notin {"returned", "logging"} => error = "none" /\ place = FirstRead(q.tool, q.text)
  BY DEF Refusal
<1>2. seen' = [seen EXCEPT ![c] = OpenNow] /\ UNCHANGED <<rows, scope, grants>>
  BY DEF Open, policyVars
<1> HIDE DEF error, place
<1>3. /\ DOMAIN r = DOMAIN NewCall
      /\ r.at = place /\ r.request = q /\ r.error = error /\ r.cells = {} /\ r.row = Nothing
  BY DEF NewCall
<1>4. place \in {"lookup", "contract", "scope", "graph", "logging", "returned"}
  BY <1>1 DEF FirstRead
<1>5. place \in {"lookup", "contract", "scope", "graph"} => error = "none" /\ place = FirstRead(q.tool, q.text)
  BY <1>1
<1>6. place = "graph" => q.tool \in GraphTools
  BY <1>5 DEF FirstRead
<1> HIDE DEF r
<1>8. Sound(r, OpenNow)
  BY <1>1, <1>3, <1>4, <1>5, <1>6 DEF Sound, WithinScope, Answerable, Valid
<1>9. /\ DOMAIN call' = Calls /\ DOMAIN seen' = Calls
      /\ call'[c] = r /\ seen'[c] = OpenNow
      /\ \A o \in Calls \ {c} : call'[o] = call[o] /\ seen'[o] = seen[o]
  BY <1>0, <1>2 DEF IInv
<1>10. \A o \in Calls : Sound(call'[o], seen'[o])
  BY <1>8, <1>9 DEF IInv
<1>11. OpenNow' = OpenNow
  BY <1>2 DEF OpenNow, visible_project_ids, Projects, Exists, authorize_fields, GrantedFields
<1>12. \A o \in Calls : Underway(o)' => OpenNow' \subseteq seen'[o]
  BY <1>9, <1>11 DEF IInv, Underway
<1>13. (\A o \in Calls : Sound(call[o], seen[o]))'
  BY <1>10
<1> QED BY <1>9, <1>12, <1>13 DEF IInv

LEMMA LookupInv == ASSUME IInv, NEW c \in Calls, Lookup(c) PROVE IInv'
<1> DEFINE found == lookup_project(call[c].request.text)
<1>1. Underway(c) /\ Sound(call[c], seen[c]) /\ call[c].at = "lookup"
  BY DEF Lookup, Underway, IInv
<1>2. CASE Step(c, [at |-> "scope", error |-> "not_found"])
  <2> DEFINE changes == [at |-> "scope", error |-> "not_found"]
             r == Updated(call[c], changes)
  <2>1. DOMAIN changes \subseteq DOMAIN NewCall
    BY DEF NewCall
  <2>2. /\ call' = [call EXCEPT ![c] = r]
        /\ DOMAIN r = DOMAIN NewCall
        /\ \A x \in DOMAIN NewCall : r[x] = IF x \in DOMAIN changes THEN changes[x] ELSE call[c][x]
        /\ UNCHANGED <<rows, scope, grants, seen>>
    BY <1>2, <2>1, Stepped
  <2>3. r.at = "scope" /\ r.error = "not_found" /\ r.request = call[c].request /\ r.cells = call[c].cells
    BY <2>2 DEF NewCall
  <2> HIDE DEF r
  <2>4. Sound(r, seen[c])
    BY <1>1, <2>2, <2>3 DEF Sound, WithinScope
  <2> QED BY <1>1, <2>2, <2>4, StepInv
<1>3. ASSUME NEW p \in found, Step(c, [at |-> "visible", project |-> p]) PROVE IInv'
  <2> DEFINE changes == [at |-> "visible", project |-> p]
             r == Updated(call[c], changes)
  <2>1. DOMAIN changes \subseteq DOMAIN NewCall
    BY DEF NewCall
  <2>2. /\ call' = [call EXCEPT ![c] = r]
        /\ DOMAIN r = DOMAIN NewCall
        /\ \A x \in DOMAIN NewCall : r[x] = IF x \in DOMAIN changes THEN changes[x] ELSE call[c][x]
        /\ UNCHANGED <<rows, scope, grants, seen>>
    BY <1>3, <2>1, Stepped
  <2>3. /\ r.at = "visible" /\ r.project = p
        /\ r.request = call[c].request /\ r.cells = call[c].cells /\ r.row = call[c].row
    BY <2>2 DEF NewCall
  <2>4. p \in Codes
    BY LookupFindsProjects
  <2> HIDE DEF r
  <2>5. Sound(r, seen[c])
    BY <1>1, <2>2, <2>3, <2>4 DEF Sound, WithinScope
  <2> QED BY <1>1, <2>2, <2>5, StepInv
<1> QED BY <1>2, <1>3 DEF Lookup

LEMMA ReadContractInv == ASSUME IInv, NEW c \in Calls, ReadContract(c) PROVE IInv'
<1> DEFINE found == contract_row(call[c].request.text)
<1>1. Underway(c) /\ Sound(call[c], seen[c]) /\ call[c].at = "contract"
  BY DEF ReadContract, Underway, IInv
<1>2. CASE Fail(c, "not_found")
  <2>1. Step(c, [at |-> "logging", error |-> "not_found"])
    BY <1>2 DEF Fail
  <2> QED BY <1>1, <2>1, QuietInv DEF NewCall
<1>3. ASSUME NEW k \in found, Step(c, [at |-> "visible", row |-> k, project |-> k.code]) PROVE IInv'
  <2> DEFINE changes == [at |-> "visible", row |-> k, project |-> k.code]
             r == Updated(call[c], changes)
  <2>1. DOMAIN changes \subseteq DOMAIN NewCall
    BY DEF NewCall
  <2>2. /\ call' = [call EXCEPT ![c] = r]
        /\ DOMAIN r = DOMAIN NewCall
        /\ \A x \in DOMAIN NewCall : r[x] = IF x \in DOMAIN changes THEN changes[x] ELSE call[c][x]
        /\ UNCHANGED <<rows, scope, grants, seen>>
    BY <1>3, <2>1, Stepped
  <2>3. /\ r.at = "visible" /\ r.row = k /\ r.project = k.code
        /\ r.request = call[c].request /\ r.cells = call[c].cells
    BY <2>2 DEF NewCall
  <2>4. k \in Keys
    BY DEF contract_row, RowsOf
  <2>5. k.code \in Codes
    BY <2>4 DEF Keys
  <2> HIDE DEF r
  <2>6. Sound(r, seen[c])
    BY <1>1, <2>2, <2>3, <2>5 DEF Sound, WithinScope
  <2> QED BY <1>1, <2>2, <2>6, StepInv
<1> QED BY <1>2, <1>3 DEF ReadContract

\* A step that answers
LEMMA AnswerInv ==
    ASSUME IInv, NEW c \in Calls, Underway(c), NEW cells,
           NEW place \in {"disclosing", "logging"}, Answer(c, place, cells),
           Answerable(call[c].request, cells, seen[c])
    PROVE  IInv'
<1> DEFINE changes == [at |-> place, cells |-> cells]
           r == Updated(call[c], changes)
<1>1. DOMAIN changes \subseteq DOMAIN NewCall
  BY DEF NewCall
<1>2. /\ call' = [call EXCEPT ![c] = r]
      /\ DOMAIN r = DOMAIN NewCall
      /\ \A x \in DOMAIN NewCall : r[x] = IF x \in DOMAIN changes THEN changes[x] ELSE call[c][x]
      /\ UNCHANGED <<rows, scope, grants, seen>>
  BY <1>1, Stepped DEF Answer
<1>3. Sound(call[c], seen[c]) /\ call[c].at # "idle"
  BY DEF IInv, Underway
<1>4. r.at = place /\ r.request = call[c].request /\ r.cells = cells
  BY <1>2 DEF NewCall
<1> HIDE DEF r
<1>5. Sound(r, seen[c])
  BY <1>2, <1>3, <1>4 DEF Sound, WithinScope
<1> QED BY <1>2, <1>5, StepInv

LEMMA CheckVisibleInv == ASSUME IInv, NEW c \in Calls, CheckVisible(c) PROVE IInv'
<1> DEFINE p == call[c].project
<1>1. Underway(c) /\ Sound(call[c], seen[c]) /\ call[c].at = "visible"
  BY DEF CheckVisible, Underway, IInv
<1>2. OpenNow \subseteq seen[c]
  BY <1>1 DEF IInv
<1>3. p \in visible_project_ids => Seen(seen[c], p)
  BY <1>2, VisibleNow DEF Seen
<1>4. CASE Fail(c, "access_denied")
  <2>1. Step(c, [at |-> "logging", error |-> "access_denied"])
    BY <1>4 DEF Fail
  <2> QED BY <1>1, <2>1, QuietInv DEF NewCall
<1>5. CASE /\ p \in visible_project_ids /\ call[c].request.tool = "resolve_project"
           /\ Answer(c, "logging", {Cell(ProjectKey(p), f) : f \in Identity["project"]})
  <2> DEFINE cells == {Cell(ProjectKey(p), f) : f \in Identity["project"]}
  <2>1. call[c].request.domain = "project"
    BY <1>1, <1>5, RequestsAssumption DEF RequestsAssumption, DomainOf, Sound
  <2>2. \A x \in cells : x.key.code = p /\ x.field \in Identity["project"]
    BY DEF Cell, ProjectKey
  <2> HIDE DEF cells
  <2>3. Answerable(call[c].request, cells, seen[c])
    BY <1>3, <1>5, <2>1, <2>2 DEF Answerable
  <2> QED BY <1>1, <1>5, <2>3, AnswerInv DEF cells
<1>6. CASE p \in visible_project_ids /\ Step(c, [at |-> "grants"])
  <2> DEFINE changes == [at |-> "grants"]
             r == Updated(call[c], changes)
  <2>1. DOMAIN changes \subseteq DOMAIN NewCall
    BY DEF NewCall
  <2>2. /\ call' = [call EXCEPT ![c] = r]
        /\ DOMAIN r = DOMAIN NewCall
        /\ \A x \in DOMAIN NewCall : r[x] = IF x \in DOMAIN changes THEN changes[x] ELSE call[c][x]
        /\ UNCHANGED <<rows, scope, grants, seen>>
    BY <1>6, <2>1, Stepped
  <2>3. /\ r.at = "grants" /\ r.project = p
        /\ r.request = call[c].request /\ r.cells = call[c].cells /\ r.row = call[c].row
    BY <2>2 DEF NewCall
  <2> HIDE DEF r
  <2>4. Sound(r, seen[c])
    BY <1>1, <1>3, <1>6, <2>2, <2>3 DEF Sound, WithinScope
  <2> QED BY <1>1, <2>2, <2>4, StepInv
<1> QED BY <1>4, <1>5, <1>6 DEF CheckVisible

LEMMA CheckGrantsInv == ASSUME IInv, NEW c \in Calls, CheckGrants(c) PROVE IInv'
<1> DEFINE q      == call[c].request
           p      == call[c].project
           found  == authorize_fields(q.domain, p, Governed(q))
           denied == Governed(q) \ found
           key    == IF q.domain = "project" THEN ProjectKey(p) ELSE call[c].row
<1>1. Underway(c) /\ Sound(call[c], seen[c]) /\ call[c].at = "grants" /\ OpenNow \subseteq seen[c]
  BY DEF CheckGrants, Underway, IInv
<1>2. /\ q.domain \in Domains /\ p \in Codes /\ Governed(q) \subseteq Fields[q.domain]
      /\ Seen(seen[c], p) /\ (call[c].row = Nothing \/ call[c].row.code = p)
  BY <1>1, RequestsAssumption DEF Sound, Valid, RequestsAssumption, Governed
<1>3. \A f \in found : Granted(seen[c], q.domain, p, f)
  BY <1>1, <1>2, GrantedNow DEF Granted
<1>4. CASE Step(c, [at |-> "disclosing", error |-> "field_access_denied", denied |-> denied])
  BY <1>1, <1>4, QuietInv DEF NewCall
<1>5. CASE denied = {} /\ key # Nothing /\ Answer(c, "disclosing", {Cell(key, f) : f \in Shown(q)})
  <2> DEFINE cells == {Cell(key, f) : f \in Shown(q)}
  <2>1. key.code = p
    BY <1>2, <1>5 DEF ProjectKey
  <2>2. \A f \in Shown(q) : f \in Identity[q.domain] \/ Granted(seen[c], q.domain, p, f)
    BY <1>3, <1>5 DEF Shown, Governed
  <2>3. \A x \in cells : x.key = key /\ x.field \in Shown(q)
    BY DEF Cell
  <2> HIDE DEF cells, key
  <2>4. Answerable(q, cells, seen[c])
    BY <1>2, <2>1, <2>2, <2>3 DEF Answerable
  <2> QED BY <1>1, <1>5, <2>4, AnswerInv DEF cells, key
<1>6. CASE denied = {} /\ Step(c, [at |-> "rows"])
  <2> DEFINE changes == [at |-> "rows"]
             r == Updated(call[c], changes)
  <2>1. DOMAIN changes \subseteq DOMAIN NewCall
    BY DEF NewCall
  <2>2. /\ call' = [call EXCEPT ![c] = r]
        /\ DOMAIN r = DOMAIN NewCall
        /\ \A x \in DOMAIN NewCall : r[x] = IF x \in DOMAIN changes THEN changes[x] ELSE call[c][x]
        /\ UNCHANGED <<rows, scope, grants, seen>>
    BY <1>6, <2>1, Stepped
  <2>3. /\ r.at = "rows" /\ r.project = p
        /\ r.request = q /\ r.cells = call[c].cells /\ r.row = call[c].row
    BY <2>2 DEF NewCall
  <2>4. \A f \in Governed(q) : Granted(seen[c], q.domain, p, f)
    BY <1>3, <1>6
  <2> HIDE DEF r
  <2>5. Sound(r, seen[c])
    BY <1>1, <1>2, <2>2, <2>3, <2>4 DEF Sound, WithinScope
  <2> QED BY <1>1, <2>2, <2>5, StepInv
<1> QED BY <1>4, <1>5, <1>6 DEF CheckGrants

LEMMA ReadRowsInv == ASSUME IInv, NEW c \in Calls, ReadRows(c) PROVE IInv'
<1> DEFINE q     == call[c].request
           p     == call[c].project
           cells == {Cell(k, f) : k \in RowsOf(q.domain, {p}), f \in Shown(q)}
<1>1. Underway(c) /\ Sound(call[c], seen[c]) /\ call[c].at = "rows"
  BY DEF ReadRows, Underway, IInv
<1>2. \A x \in cells : x.key.code = p /\ x.field \in Shown(q)
  BY DEF Cell, RowsOf
<1>3. \A f \in Shown(q) : f \in Identity[q.domain] \/ f \in Governed(q)
  BY DEF Shown, Governed
<1>4. Answer(c, "logging", cells)
  BY DEF ReadRows
<1> HIDE DEF cells
<1>5. Answerable(q, cells, seen[c])
  BY <1>1, <1>2, <1>3 DEF Answerable, Sound
<1> QED BY <1>1, <1>4, <1>5, AnswerInv

LEMMA ReadScopeInv == ASSUME IInv, NEW c \in Calls, ReadScope(c) PROVE IInv'
<1> DEFINE place == IF call[c].request.tool \in Listings THEN "listing" ELSE "describing"
           changes == [at |-> place, ids |-> visible_project_ids]
           r == Updated(call[c], changes)
<1>1. Underway(c) /\ Sound(call[c], seen[c]) /\ call[c].at = "scope" /\ OpenNow \subseteq seen[c]
  BY DEF ReadScope, Underway, IInv
<1>2. DOMAIN changes \subseteq DOMAIN NewCall
  BY DEF NewCall
<1>3. /\ call' = [call EXCEPT ![c] = r]
      /\ DOMAIN r = DOMAIN NewCall
      /\ \A x \in DOMAIN NewCall : r[x] = IF x \in DOMAIN changes THEN changes[x] ELSE call[c][x]
      /\ UNCHANGED <<rows, scope, grants, seen>>
  BY <1>2, Stepped DEF ReadScope
<1>4. /\ r.at = place /\ r.ids = visible_project_ids
      /\ r.request = call[c].request /\ r.cells = call[c].cells
  BY <1>3 DEF NewCall
<1>5. \A p \in visible_project_ids : Seen(seen[c], p)
  BY <1>1, VisibleNow DEF Seen
<1>6. place = "describing" \/ (place = "listing" /\ call[c].request.tool \in Listings)
  OBVIOUS
<1> HIDE DEF r, place
<1>7. Sound(r, seen[c])
  BY <1>1, <1>3, <1>4, <1>5, <1>6 DEF Sound, WithinScope
<1> QED BY <1>1, <1>3, <1>7, StepInv

LEMMA ReadListingInv == ASSUME IInv, NEW c \in Calls, ReadListing(c) PROVE IInv'
<1> DEFINE q     == call[c].request
           named == q.tool = "list_open_risks" /\ q.text # Nothing
           among == IF named THEN call[c].ids \cap {q.text} ELSE call[c].ids
           found == RowsOf(q.domain, among)
           cells == {Cell(k, f) : k \in found, f \in Fields[q.domain]}
<1>1. Underway(c) /\ Sound(call[c], seen[c]) /\ call[c].at = "listing"
  BY DEF ReadListing, Underway, IInv
<1>2. ASSUME NEW refused, Step(c, [at |-> "logging", error |-> "access_denied", disclosures |-> refused])
      PROVE  IInv'
  BY <1>1, <1>2, QuietInv DEF NewCall
<1>3. ASSUME NEW allowed, Step(c, [at |-> "logging", cells |-> cells, disclosures |-> allowed])
      PROVE  IInv'
  <2> DEFINE changes == [at |-> "logging", cells |-> cells, disclosures |-> allowed]
             r == Updated(call[c], changes)
  <2>1. DOMAIN changes \subseteq DOMAIN NewCall
    BY DEF NewCall
  <2> HIDE DEF cells
  <2>2. /\ call' = [call EXCEPT ![c] = r]
        /\ DOMAIN r = DOMAIN NewCall
        /\ \A x \in DOMAIN NewCall : r[x] = IF x \in DOMAIN changes THEN changes[x] ELSE call[c][x]
        /\ UNCHANGED <<rows, scope, grants, seen>>
    BY <1>3, <2>1, Stepped
  <2>3. r.at = "logging" /\ r.request = q /\ r.cells = cells
    BY <2>2 DEF NewCall
  <2>4. \A x \in cells : x.key.code \in call[c].ids
    BY DEF cells, Cell, RowsOf
  <2>5. Answerable(q, cells, seen[c])
    BY <1>1, <2>4 DEF Answerable, Sound
  <2> HIDE DEF r
  <2>6. Sound(r, seen[c])
    BY <1>1, <2>2, <2>3, <2>5 DEF Sound, WithinScope
  <2> QED BY <1>1, <2>2, <2>6, StepInv
<1> DEFINE refused == Refused(Disclosed(ProjectKey(q.text)))
           allowed == Allowed(UNION {Disclosed(k) : k \in found})
<1>4. \/ Step(c, [at |-> "logging", error |-> "access_denied", disclosures |-> refused])
      \/ Step(c, [at |-> "logging", cells |-> cells, disclosures |-> allowed])
  BY DEF ReadListing
<1> HIDE DEF refused, allowed, cells
<1> QED BY <1>2, <1>3, <1>4

\* The three ways a graph ends
LEMMA GraphEnds ==
    ASSUME NEW c \in Calls, Graph(c)
    PROVE  LET q    == call[c].request
               keys == {k \in Keys : k.entity = EntityOf[q.domain]}
           IN  \/ \E found \in SUBSET keys, fields \in {q.fields, q.fields \cup Identity[q.domain]} :
                     Answer(c, "disclosing", CellsOf(found, fields))
               \/ \E denied \in SUBSET q.fields :
                     Step(c, [at |-> "logging", error |-> "return_field_access_denied", denied |-> denied])
               \/ Fail(c, "connector_unavailable")
BY DEF Graph

LEMMA GraphInv == ASSUME IInv, NEW c \in Calls, Graph(c) PROVE IInv'
<1> DEFINE q == call[c].request
           keys == {k \in Keys : k.entity = EntityOf[q.domain]}
<1>1. Underway(c) /\ Sound(call[c], seen[c]) /\ call[c].at = "graph" /\ q.tool \in GraphTools
  BY DEF Graph, Underway, IInv, Sound
<1>2. CASE Fail(c, "connector_unavailable")
  <2>1. Step(c, [at |-> "logging", error |-> "connector_unavailable"])
    BY <1>2 DEF Fail
  <2> QED BY <1>1, <2>1, QuietInv DEF NewCall
<1>3. ASSUME NEW denied,
             Step(c, [at |-> "logging", error |-> "return_field_access_denied", denied |-> denied])
      PROVE  IInv'
  BY <1>1, <1>3, QuietInv DEF NewCall
<1>4. ASSUME NEW cells, Answer(c, "disclosing", cells) PROVE IInv'
  <2>1. Answerable(q, cells, seen[c])
    BY <1>1 DEF Answerable
  <2> QED BY <1>1, <1>4, <2>1, AnswerInv
<1>5. CASE \E found \in SUBSET keys, fields \in {q.fields, q.fields \cup Identity[q.domain]} :
               Answer(c, "disclosing", CellsOf(found, fields))
  BY <1>4, <1>5
<1> QED BY <1>2, <1>3, <1>5, GraphEnds

LEMMA DatabaseErrorInv == ASSUME IInv, NEW c \in Calls, DatabaseError(c) PROVE IInv'
<1>0. PICK filed \in DisclosedSoFar(c) :
          Step(c, [at |-> "logging", error |-> "database_error", cells |-> {}, access |-> << >>,
                   denied |-> {}, disclosures |-> filed])
  BY DEF DatabaseError
<1> DEFINE changes == [at |-> "logging", error |-> "database_error", cells |-> {}, access |-> << >>,
                       denied |-> {}, disclosures |-> filed]
           r == Updated(call[c], changes)
<1>1. Underway(c) /\ Sound(call[c], seen[c]) /\ call[c].at # "idle"
  BY DEF DatabaseError, Underway, IInv
<1>2. DOMAIN changes \subseteq DOMAIN NewCall
  BY DEF NewCall
<1>3. /\ call' = [call EXCEPT ![c] = r]
      /\ DOMAIN r = DOMAIN NewCall
      /\ \A x \in DOMAIN NewCall : r[x] = IF x \in DOMAIN changes THEN changes[x] ELSE call[c][x]
      /\ UNCHANGED <<rows, scope, grants, seen>>
  BY <1>0, <1>2, Stepped
<1>4. r.at = "logging" /\ r.request = call[c].request /\ r.cells = {}
  BY <1>3 DEF NewCall
<1> HIDE DEF r
<1>5. Sound(r, seen[c])
  BY <1>1, <1>3, <1>4 DEF Sound, WithinScope, Answerable
<1> QED BY <1>1, <1>3, <1>5, StepInv

LEMMA AuditInv == ASSUME IInv, NEW c \in Calls, AuditFile(c) \/ AuditDatabase(c) PROVE IInv'
<1>1. /\ Underway(c) /\ Sound(call[c], seen[c]) /\ call[c].at # "idle"
      /\ UNCHANGED <<rows, scope, grants, seen>>
  BY DEF AuditFile, AuditDatabase, Underway, IInv, policyVars, historyVars
<1>2. CASE \E place \in {"recording", "returned"} : call' = [call EXCEPT ![c].at = place]
  <2>1. PICK place \in {"recording", "returned"} : call' = [call EXCEPT ![c].at = place]
    BY <1>2
  <2> DEFINE r == [call[c] EXCEPT !.at = place]
  <2>2. call' = [call EXCEPT ![c] = r]
    BY <2>1
  <2>3. /\ DOMAIN r = DOMAIN NewCall
        /\ r.at = place /\ r.request = call[c].request /\ r.cells = call[c].cells
    BY <1>1 DEF Sound, NewCall
  <2> HIDE DEF r
  <2>4. Sound(r, seen[c])
    BY <1>1, <2>3 DEF Sound, WithinScope
  <2> QED BY <1>1, <2>2, <2>4, StepInv
<1>3. CASE call' = [call EXCEPT ![c].at = "crashed", ![c].cells = {}, ![c].access = << >>]
  <2> DEFINE r == [call[c] EXCEPT !.at = "crashed", !.cells = {}, !.access = << >>]
  <2>1. call' = [call EXCEPT ![c] = r]
    BY <1>3 DEF IInv
  <2>2. DOMAIN r = DOMAIN NewCall /\ r.at = "crashed" /\ r.request = call[c].request /\ r.cells = {}
    BY <1>1 DEF Sound, NewCall
  <2> HIDE DEF r
  <2>3. Sound(r, seen[c])
    BY <1>1, <2>2 DEF Sound, WithinScope, Answerable
  <2> QED BY <1>1, <2>1, <2>3, StepInv
<1> QED BY <1>2, <1>3 DEF AuditFile, AuditDatabase

LEMMA QuietStepsInv == ASSUME IInv, NEW c \in Calls, ReadAccess(c) \/ Disclose(c) PROVE IInv'
<1>1. Underway(c)
  BY DEF ReadAccess, Disclose, Underway
<1>2. CASE ReadAccess(c)
  <2>1. PICK access : Step(c, [at |-> "logging", access |-> access])
    BY <1>2 DEF ReadAccess
  <2> QED BY <1>1, <2>1, QuietInv DEF NewCall
<1>3. CASE Disclose(c)
  <2> DEFINE denied == call[c].denied
             keys == IF call[c].request.tool \in GraphTools
                     THEN GraphRows(call[c].cells) ELSE Filed(call[c].request)
             disclosures == IF denied # {}
                            THEN Refused({Cell(k, f) : k \in keys, f \in denied})
                            ELSE Allowed(UNION {Named(c, k) : k \in keys})
  <2>1. Step(c, [at |-> "logging", disclosures |-> disclosures])
    BY <1>3 DEF Disclose
  <2> HIDE DEF disclosures
  <2> QED BY <1>1, <2>1, QuietInv DEF NewCall
<1> QED BY <1>2, <1>3

-----------------------------------------------------------------------------
\* A commit, of policy or of rows, adds what it opens to what the calls have seen
LEMMA CommitInv == IInv /\ UNCHANGED call /\ Witness => IInv'
<1> SUFFICES ASSUME IInv, UNCHANGED call, Witness PROVE IInv'
  OBVIOUS
<1>1. seen' = [c \in Calls |-> IF Underway(c) THEN seen[c] \cup OpenNow' ELSE seen[c]]
  BY DEF Witness
<1>2. \A c \in Calls : seen[c] \subseteq seen'[c]
  BY <1>1
<1>3. \A c \in Calls : Sound(call[c], seen'[c])
  BY <1>2, SoundGrows DEF IInv
<1>4. (\A c \in Calls : Sound(call[c], seen[c]))'
  BY <1>3
<1>5. \A c \in Calls : Underway(c)' => OpenNow' \subseteq seen'[c]
  BY <1>1 DEF Underway
<1> QED BY <1>1, <1>4, <1>5 DEF IInv

LEMMA NothingCommitted == IInv /\ UNCHANGED <<rows, scope, grants, call, seen>> => IInv'
<1> SUFFICES ASSUME IInv, UNCHANGED <<rows, scope, grants, call, seen>> PROVE IInv'
  OBVIOUS
<1>1. OpenNow' = OpenNow
  BY DEF OpenNow, visible_project_ids, Projects, Exists, authorize_fields, GrantedFields
<1>2. (\A c \in Calls : Sound(call[c], seen[c]))'
  BY DEF IInv
<1> QED BY <1>1, <1>2 DEF IInv, Underway

LEMMA NextInv == IInv /\ [Next]_vars => IInv'
<1> SUFFICES ASSUME IInv, [Next]_vars PROVE IInv'
  OBVIOUS
<1>1. CASE UNCHANGED vars
  BY <1>1, NothingCommitted DEF vars, callVars, policyVars, historyVars
<1>2. CASE EditPolicy
  BY <1>2, CommitInv DEF EditPolicy
<1>3. ASSUME NEW c \in Calls, ToolCall(c) PROVE IInv'
  BY <1>3, OpenInv, LookupInv, ReadContractInv, CheckVisibleInv, CheckGrantsInv, ReadRowsInv,
     ReadScopeInv, ReadListingInv, GraphInv, QuietStepsInv, DatabaseErrorInv, AuditInv DEF ToolCall
<1>4. ASSUME NEW i \in Imports, ImportStep(i) PROVE IInv'
  BY <1>4, CommitInv, NothingCommitted DEF ImportStep, policyVars, historyVars
<1> QED BY <1>1, <1>2, <1>3, <1>4 DEF Next, CallStep, CallNext

-----------------------------------------------------------------------------
\* Whatever imports and administrators commit between the reads of a call, its
\* answer holds only rows visible, and fields granted, at some moment of it.
THEOREM CallsAnswerWithinScope == Init /\ [][Next]_vars => []AnsweredWithinScope
<1>1. IInv => AnsweredWithinScope
  <2> SUFFICES ASSUME IInv, NEW c \in Calls, NEW x \in call[c].cells
               PROVE  LET q == call[c].request
                      IN  q.tool \notin GraphTools =>
                          /\ WasVisible(c, x.key.code)
                          /\ \/ q.tool \in Listings
                             \/ x.field \in Identity[q.domain]
                             \/ WasGranted(c, q.domain, x.key.code, x.field)
    BY DEF AnsweredWithinScope
  <2>1. Answerable(call[c].request, call[c].cells, seen[c])
    BY DEF IInv, Sound, WithinScope
  <2> QED BY <2>1 DEF Answerable, Seen, Granted, WasVisible, WasGranted
<1> QED BY InitInv, NextInv, <1>1, PTL
-----------------------------------------------------------------------------
(***************************************************************************)
(* What a call files of its answer, and what it says of the requester's    *)
(* access, come of a second look at the data.  The argument follows a call *)
(* during which nothing was committed: the text it was asked about still   *)
(* names the row that was found (Pinned), so the rows it files under are   *)
(* those of its answer (Fits), and the scope it read is the scope now.     *)
(***************************************************************************)

\* Places before an answer or a refusal is at hand
Early == {"idle", "lookup", "contract", "scope", "visible", "grants", "rows", "listing", "describing",
          "graph"}

\* The tools AuditAccountsForAnswers speaks of
Filing(q) == q.tool \notin ProjectListings \cup GraphTools \cup {"resolve_project"}

\* The text still names the row that was found
Pinned(r) ==
    /\ r.request.tool = "get_project_fields" => lookup_project(r.request.text) = {r.project}
    /\ r.request.tool = "get_contract_fields" => contract_row(r.request.text) = {r.row}

\* The rows the disclosures of r are filed under
FiledKeys(r) == Filed(r.request)

\* They are those of its answer, each with the same fields, or that of its refusal
Fits(r) ==
    /\ r.denied = {} =>
           /\ r.error # "field_access_denied"
           /\ FiledKeys(r) = {x.key : x \in r.cells}
           /\ \A x, y \in r.cells : Cell(x.key, y.field) \in r.cells
           /\ \A x \in r.cells : x = Cell(x.key, x.field) /\ x.field # AnyField
    /\ r.denied # {} => r.cells = {} /\ {k.code : k \in FiledKeys(r)} = {r.project}

\* AuditAccountsForAnswers of one call about to be recorded
Accounted(r) ==
    LET given   == {d.cell : d \in {d \in r.disclosures : d.allowed}}
        refused == {d.cell : d \in {d \in r.disclosures : ~d.allowed}}
    IN  /\ {x.key : x \in given} = {x.key : x \in r.cells}
        /\ r.request.tool \notin Listings =>
               {x \in given : x.field # AnyField}
                   = {x \in r.cells : x.field \notin Identity[r.request.domain]}
        /\ r.error = "field_access_denied" =>
               /\ {x.field : x \in refused} = r.denied
               /\ {x.key.code : x \in refused} = {r.project}

\* What it asks of a graph's
GraphAccounted(r) ==
    LET given   == {d.cell : d \in {d \in r.disclosures : d.allowed}}
        refused == {d.cell : d \in {d \in r.disclosures : ~d.allowed}}
    IN  /\ refused = {}
        /\ r.error # "database_error" => {x.key : x \in given} = GraphRows(r.cells)

\* CalmSummaryIsTrue of one call
Summarised(r) ==
    /\ DOMAIN r.access = visible_project_ids \cap Projects
    /\ \A p \in DOMAIN r.access, d \in Domains \ {"risk"} :
           r.access[p][d] = authorize_fields(d, p, Fields[d])

\* What is known of a call at each place
Known(r) ==
    /\ DOMAIN r = DOMAIN NewCall
    /\ r.at \in Early \cup {"disclosing", "logging", "recording", "returned", "crashed"}
    /\ r.at \in Early =>
           /\ r.cells = {} /\ r.denied = {} /\ r.disclosures = {} /\ r.access = << >>
           /\ r.error # "field_access_denied"
    /\ r.at \in Early \ {"idle"} =>
           /\ r.request \in Requests /\ r.request.fields \subseteq Fields[r.request.domain]
           /\ r.request.tool \in FieldTools => r.request.fields # {}
    /\ r.at = "lookup" => r.request.tool \in (FieldTools \ {"get_contract_fields"}) \cup {"resolve_project"}
    /\ r.at = "contract" => r.request.tool = "get_contract_fields"
    /\ r.at \in {"lookup", "contract"} => r.row = Nothing
    /\ r.at = "visible" => r.request.tool \in FieldTools \cup {"resolve_project"}
    /\ r.at = "grants" => r.request.tool \in FieldTools
    /\ r.at \in {"visible", "grants"} =>
           /\ r.project \in Codes
           /\ IF r.request.tool = "get_contract_fields"
              THEN r.row \in Keys /\ r.row.code = r.project
              ELSE r.row = Nothing
    /\ r.at = "rows" => r.request.tool \in ProjectListings
    /\ r.at = "listing" => r.request.tool \in Listings
    /\ r.at = "graph" => r.request.tool \in GraphTools
    /\ r.at = "disclosing" => r.disclosures = {} /\ r.access = << >> /\ r.request.tool \notin Listings
    /\ r.at = "disclosing" /\ r.request.tool \in GraphTools => r.denied = {}

\* And if nothing was committed during it
Settled(r) ==
    /\ r.at \in {"visible", "grants"} => Pinned(r)
    /\ r.at = "disclosing" /\ Filing(r.request) => Fits(r)
    /\ r.at \in {"logging", "recording"} /\ Filing(r.request) => Accounted(r)
    /\ r.at \in {"logging", "recording"} /\ r.request.tool \in GraphTools => GraphAccounted(r)
    /\ r.at = "describing" => r.ids = visible_project_ids
    /\ (r.at = "logging" /\ r.access # << >> /\ Role = "scoped" /\ grants # {}) => Summarised(r)

Told(r, still) == Known(r) /\ (still => Settled(r))

\* What was written of it
Written(c) ==
    /\ call[c].at = "recording" => c \in logged
    /\ (call[c].at = "returned" /\ (call[c].cells # {} \/ call[c].access # << >>)) => c \in logged
    /\ c \in DOMAIN events =>
           call[c].at = "returned" /\ c \in logged /\ events[c] = call[c].disclosures

TInv ==
    /\ DOMAIN call = Calls /\ DOMAIN calm = Calls
    /\ \A c \in Calls : Told(call[c], calm[c])
    /\ \A c \in Calls : Written(c)

-----------------------------------------------------------------------------
LEMMA ToldStays == UNCHANGED <<rows, scope, grants>> => \A r, still : Told(r, still)' <=> Told(r, still)
<1> SUFFICES ASSUME UNCHANGED <<rows, scope, grants>> PROVE \A r, still : Told(r, still)' <=> Told(r, still)
  OBVIOUS
<1>1. \A t : lookup_project(t)' = lookup_project(t)
  BY DEF lookup_project, Projects, NameOf, Exists
<1>2. \A t : contract_row(t)' = contract_row(t)
  BY DEF contract_row, RowsOf
<1>3. visible_project_ids' = visible_project_ids /\ Projects' = Projects
  BY DEF visible_project_ids, Projects, Exists
<1>4. \A d, p, fs : authorize_fields(d, p, fs)' = authorize_fields(d, p, fs)
  BY DEF authorize_fields, GrantedFields
<1>5. \A q : Filed(q)' = Filed(q)
  BY <1>1, <1>2 DEF Filed
<1>6. \A r : FiledKeys(r)' = FiledKeys(r)
  BY <1>5 DEF FiledKeys
<1>7. \A r : Pinned(r)' <=> Pinned(r)
  BY <1>1, <1>2 DEF Pinned
<1>8. \A r : Fits(r)' <=> Fits(r)
  BY <1>6 DEF Fits
<1>9. \A r : Summarised(r)' <=> Summarised(r)
  BY <1>3, <1>4 DEF Summarised
<1>10. \A r : Settled(r)' <=> Settled(r)
  <2>1. \A r : (Accounted(r)' <=> Accounted(r)) /\ (Filing(r.request)' <=> Filing(r.request))
    BY DEF Accounted, Filing
  <2>2. \A cells : GraphRows(cells)' = GraphRows(cells)
    BY <1>3 DEF GraphRows
  <2>3. \A r : GraphAccounted(r)' <=> GraphAccounted(r)
    BY <2>2 DEF GraphAccounted
  <2> QED BY <1>3, <1>7, <1>8, <1>9, <2>1, <2>3 DEF Settled
<1>11. \A r : Known(r)' <=> Known(r)
  BY DEF Known
<1> QED BY <1>10, <1>11 DEF Told

\* A commit: what is known only of calls that saw none is no longer said
LEMMA ToldOfNoCommit == \A r, still : Told(r, still) => Told(r, FALSE)'
BY DEF Told, Known

\* The record a step leaves, as in Stepped
LEMMA ToldStepped ==
    ASSUME TInv, NEW c \in Calls, NEW changes, DOMAIN changes \subseteq DOMAIN NewCall, Step(c, changes)
    PROVE  LET r == Updated(call[c], changes)
           IN  /\ call' = [call EXCEPT ![c] = r]
               /\ DOMAIN r = DOMAIN NewCall
               /\ \A x \in DOMAIN NewCall : r[x] = IF x \in DOMAIN changes THEN changes[x] ELSE call[c][x]
               /\ UNCHANGED <<rows, scope, grants, calm, logged, events>>
<1> DEFINE r == Updated(call[c], changes)
<1>1. call' = [call EXCEPT ![c] = r] /\ UNCHANGED <<rows, scope, grants, calm, logged, events>>
  BY DEF Step, TInv, policyVars, historyVars
<1>2. DOMAIN call[c] = DOMAIN NewCall
  BY DEF TInv, Told, Known
<1> QED BY <1>1, <1>2 DEF Updated

\* A step of a call that is not recorded yet
LEMMA StepTold ==
    ASSUME TInv, NEW c \in Calls, Underway(c), NEW r, Told(r, calm[c]), r.at \in Early \cup {"disclosing", "logging"},
           call' = [call EXCEPT ![c] = r], UNCHANGED <<rows, scope, grants, calm, logged, events>>
    PROVE  TInv'
<1>1. call'[c] = r /\ DOMAIN call' = Calls /\ \A o \in Calls \ {c} : call'[o] = call[o]
  BY DEF TInv
<1>2. \A o \in Calls : Told(call'[o], calm'[o])
  BY <1>1 DEF TInv
<1>3. (\A o \in Calls : Told(call[o], calm[o]))'
  BY <1>2, ToldStays
<1>4. c \notin DOMAIN events
  BY DEF TInv, Written, Underway
<1>5. \A o \in Calls : Written(o)'
  BY <1>1, <1>4 DEF TInv, Written, Early
<1> QED BY <1>1, <1>3, <1>5 DEF TInv

LEMMA InitTold == Init => TInv
<1> SUFFICES ASSUME Init PROVE TInv
  OBVIOUS
<1>1. call = [c \in Calls |-> NewCall] /\ calm = [c \in Calls |-> TRUE] /\ events = << >>
  BY DEF Init, CallInit
<1>2. Told(NewCall, TRUE)
  BY DEF Told, Known, Settled, NewCall, Early
<1>3. \A c \in Calls : Written(c)
  BY <1>1 DEF Written, NewCall
<1> QED BY <1>1, <1>2, <1>3 DEF TInv

LEMMA NothingFiled ==
    \A r : /\ r.cells = {} /\ r.disclosures = {} /\ r.error # "field_access_denied" => Accounted(r)
           /\ r.cells = {} /\ r.disclosures = {} => GraphAccounted(r)
BY DEF Accounted, GraphAccounted, GraphRows

\* A read that fails
LEMMA FailTold ==
    ASSUME TInv, NEW c \in Calls, Underway(c), call[c].at \in Early,
           NEW error, error # "field_access_denied", Fail(c, error)
    PROVE  TInv'
<1> DEFINE changes == [at |-> "logging", error |-> error]
           r == Updated(call[c], changes)
<1>1. DOMAIN changes \subseteq DOMAIN NewCall
  BY DEF NewCall
<1>2. /\ call' = [call EXCEPT ![c] = r]
      /\ DOMAIN r = DOMAIN NewCall
      /\ \A x \in DOMAIN NewCall : r[x] = IF x \in DOMAIN changes THEN changes[x] ELSE call[c][x]
      /\ UNCHANGED <<rows, scope, grants, calm, logged, events>>
  BY <1>1, ToldStepped DEF Fail
<1>3. /\ r.at = "logging" /\ r.error = error
      /\ r.cells = call[c].cells /\ r.disclosures = call[c].disclosures /\ r.access = call[c].access
  BY <1>2 DEF NewCall
<1> HIDE DEF r
<1>4. Known(call[c])
  BY DEF TInv, Told
<1>5. r.cells = {} /\ r.disclosures = {} /\ r.access = << >>
  BY <1>3, <1>4 DEF Known
<1>6. Told(r, calm[c])
  BY <1>2, <1>3, <1>5, NothingFiled DEF Told, Known, Settled, Early
<1> QED BY <1>2, <1>3, <1>6, StepTold

LEMMA LookupTold == ASSUME TInv, NEW c \in Calls, Lookup(c) PROVE TInv'
<1> DEFINE found == lookup_project(call[c].request.text)
<1>1. Underway(c) /\ Told(call[c], calm[c]) /\ Known(call[c]) /\ call[c].at = "lookup"
  BY DEF Lookup, Underway, TInv, Told
<1>2. CASE Step(c, [at |-> "scope", error |-> "not_found"])
  <2> DEFINE changes == [at |-> "scope", error |-> "not_found"]
             r == Updated(call[c], changes)
  <2>1. DOMAIN changes \subseteq DOMAIN NewCall
    BY DEF NewCall
  <2>2. /\ call' = [call EXCEPT ![c] = r]
        /\ DOMAIN r = DOMAIN NewCall
        /\ \A x \in DOMAIN NewCall : r[x] = IF x \in DOMAIN changes THEN changes[x] ELSE call[c][x]
        /\ UNCHANGED <<rows, scope, grants, calm, logged, events>>
    BY <1>2, <2>1, ToldStepped
  <2>3. /\ r.at = "scope" /\ r.error = "not_found" /\ r.request = call[c].request
        /\ r.cells = call[c].cells /\ r.denied = call[c].denied
        /\ r.disclosures = call[c].disclosures /\ r.access = call[c].access
    BY <2>2 DEF NewCall
  <2> HIDE DEF r
  <2>4. Told(r, calm[c])
    BY <1>1, <2>2, <2>3 DEF Told, Known, Settled, Early, FieldTools, Listings
  <2> QED BY <1>1, <2>2, <2>3, <2>4, StepTold DEF Early
<1>3. ASSUME NEW p \in found, Step(c, [at |-> "visible", project |-> p]) PROVE TInv'
  <2> DEFINE changes == [at |-> "visible", project |-> p]
             r == Updated(call[c], changes)
  <2>1. DOMAIN changes \subseteq DOMAIN NewCall
    BY DEF NewCall
  <2>2. /\ call' = [call EXCEPT ![c] = r]
        /\ DOMAIN r = DOMAIN NewCall
        /\ \A x \in DOMAIN NewCall : r[x] = IF x \in DOMAIN changes THEN changes[x] ELSE call[c][x]
        /\ UNCHANGED <<rows, scope, grants, calm, logged, events>>
    BY <1>3, <2>1, ToldStepped
  <2>3. /\ r.at = "visible" /\ r.project = p /\ r.request = call[c].request /\ r.row = call[c].row
        /\ r.cells = call[c].cells /\ r.denied = call[c].denied /\ r.error = call[c].error
        /\ r.disclosures = call[c].disclosures /\ r.access = call[c].access
    BY <2>2 DEF NewCall
  <2>4. p \in Codes /\ found = {p}
    BY LookupFindsProjects DEF lookup_project
  <2> HIDE DEF r
  <2>5. Known(r)
    BY <1>1, <2>2, <2>3, <2>4 DEF Known, Early
  <2>6. Pinned(r)
    BY <1>1, <2>3, <2>4 DEF Pinned, Known
  <2>7. Told(r, calm[c])
    BY <2>3, <2>5, <2>6 DEF Told, Settled
  <2> QED BY <1>1, <2>2, <2>3, <2>7, StepTold DEF Early
<1> QED BY <1>2, <1>3 DEF Lookup

LEMMA ReadContractTold == ASSUME TInv, NEW c \in Calls, ReadContract(c) PROVE TInv'
<1> DEFINE found == contract_row(call[c].request.text)
<1>1. Underway(c) /\ Told(call[c], calm[c]) /\ Known(call[c]) /\ call[c].at = "contract"
  BY DEF ReadContract, Underway, TInv, Told
<1>2. CASE Fail(c, "not_found")
  BY <1>1, <1>2, FailTold DEF Early
<1>3. ASSUME NEW k \in found, Step(c, [at |-> "visible", row |-> k, project |-> k.code]) PROVE TInv'
  <2> DEFINE changes == [at |-> "visible", row |-> k, project |-> k.code]
             r == Updated(call[c], changes)
  <2>1. DOMAIN changes \subseteq DOMAIN NewCall
    BY DEF NewCall
  <2>2. /\ call' = [call EXCEPT ![c] = r]
        /\ DOMAIN r = DOMAIN NewCall
        /\ \A x \in DOMAIN NewCall : r[x] = IF x \in DOMAIN changes THEN changes[x] ELSE call[c][x]
        /\ UNCHANGED <<rows, scope, grants, calm, logged, events>>
    BY <1>3, <2>1, ToldStepped
  <2>3. /\ r.at = "visible" /\ r.project = k.code /\ r.request = call[c].request /\ r.row = k
        /\ r.cells = call[c].cells /\ r.denied = call[c].denied /\ r.error = call[c].error
        /\ r.disclosures = call[c].disclosures /\ r.access = call[c].access
    BY <2>2 DEF NewCall
  <2>4. k \in Keys /\ found = {k}
    BY DEF contract_row, RowsOf
  <2>5. k.code \in Codes
    BY <2>4 DEF Keys
  <2> HIDE DEF r
  <2>6. Known(r)
    BY <1>1, <2>2, <2>3, <2>4, <2>5 DEF Known, Early, FieldTools
  <2>7. Pinned(r)
    BY <1>1, <2>3, <2>4 DEF Pinned, Known
  <2>8. Told(r, calm[c])
    BY <2>3, <2>6, <2>7 DEF Told, Settled
  <2> QED BY <1>1, <2>2, <2>3, <2>8, StepTold DEF Early
<1> QED BY <1>2, <1>3 DEF ReadContract

LEMMA CheckVisibleTold == ASSUME TInv, NEW c \in Calls, CheckVisible(c) PROVE TInv'
<1> DEFINE p == call[c].project
<1>1. Underway(c) /\ Told(call[c], calm[c]) /\ Known(call[c]) /\ call[c].at = "visible"
  BY DEF CheckVisible, Underway, TInv, Told
<1>2. CASE Fail(c, "access_denied")
  BY <1>1, <1>2, FailTold DEF Early
<1>3. ASSUME call[c].request.tool = "resolve_project", NEW cells, Answer(c, "logging", cells) PROVE TInv'
  <2> DEFINE changes == [at |-> "logging", cells |-> cells]
             r == Updated(call[c], changes)
  <2>1. DOMAIN changes \subseteq DOMAIN NewCall
    BY DEF NewCall
  <2>2. /\ call' = [call EXCEPT ![c] = r]
        /\ DOMAIN r = DOMAIN NewCall
        /\ \A x \in DOMAIN NewCall : r[x] = IF x \in DOMAIN changes THEN changes[x] ELSE call[c][x]
        /\ UNCHANGED <<rows, scope, grants, calm, logged, events>>
    BY <1>3, <2>1, ToldStepped DEF Answer
  <2>3. r.at = "logging" /\ r.request = call[c].request /\ r.access = call[c].access
    BY <2>2 DEF NewCall
  <2> HIDE DEF r
  <2>4. Told(r, calm[c])
    BY <1>1, <1>3, <2>2, <2>3 DEF Told, Known, Settled, Early, Filing, GraphTools
  <2> QED BY <1>1, <2>2, <2>3, <2>4, StepTold
<1>4. ASSUME call[c].request.tool # "resolve_project", Step(c, [at |-> "grants"]) PROVE TInv'
  <2> DEFINE changes == [at |-> "grants"]
             r == Updated(call[c], changes)
  <2>1. DOMAIN changes \subseteq DOMAIN NewCall
    BY DEF NewCall
  <2>2. /\ call' = [call EXCEPT ![c] = r]
        /\ DOMAIN r = DOMAIN NewCall
        /\ \A x \in DOMAIN NewCall : r[x] = IF x \in DOMAIN changes THEN changes[x] ELSE call[c][x]
        /\ UNCHANGED <<rows, scope, grants, calm, logged, events>>
    BY <1>4, <2>1, ToldStepped
  <2>3. /\ r.at = "grants" /\ r.project = p /\ r.request = call[c].request /\ r.row = call[c].row
        /\ r.cells = call[c].cells /\ r.denied = call[c].denied /\ r.error = call[c].error
        /\ r.disclosures = call[c].disclosures /\ r.access = call[c].access
    BY <2>2 DEF NewCall
  <2> HIDE DEF r
  <2>4. Known(r)
    BY <1>1, <1>4, <2>2, <2>3 DEF Known, Early
  <2>5. calm[c] => Pinned(r)
    BY <1>1, <2>3 DEF Told, Settled, Pinned
  <2>6. Told(r, calm[c])
    BY <2>3, <2>4, <2>5 DEF Told, Settled
  <2> QED BY <1>1, <2>2, <2>3, <2>6, StepTold DEF Early
<1> QED BY <1>2, <1>3, <1>4 DEF CheckVisible

\* The fields a row is shown with are fields of its domain
LEMMA ShownFields ==
    ASSUME NEW q \in Requests, q.fields \subseteq Fields[q.domain]
    PROVE  Shown(q) \subseteq Fields[q.domain] /\ AnyField \notin Shown(q)
<1>1. q.domain \in Domains
  BY RequestsAssumption DEF RequestsAssumption
<1>2. Identity[q.domain] \subseteq Fields[q.domain]
  BY <1>1, ToolCallsAssumption DEF ToolCallsAssumption
<1>3. AnyField \notin Fields[q.domain]
  BY <1>1, ToolCallsAssumption DEF ToolCallsAssumption, AllFields
<1> QED BY <1>2, <1>3 DEF Shown

LEMMA CheckGrantsTold == ASSUME TInv, NEW c \in Calls, CheckGrants(c) PROVE TInv'
<1> DEFINE q      == call[c].request
           p      == call[c].project
           denied == Governed(q) \ authorize_fields(q.domain, p, Governed(q))
           key    == IF q.domain = "project" THEN ProjectKey(p) ELSE call[c].row
<1>1. Underway(c) /\ Told(call[c], calm[c]) /\ Known(call[c]) /\ call[c].at = "grants"
  BY DEF CheckGrants, Underway, TInv, Told
<1>2. /\ q \in Requests /\ q.fields \subseteq Fields[q.domain] /\ q.fields # {}
      /\ q.tool \in FieldTools /\ p \in Codes
      /\ IF q.tool = "get_contract_fields" THEN call[c].row \in Keys /\ call[c].row.code = p
                                           ELSE call[c].row = Nothing
      /\ call[c].cells = {} /\ call[c].denied = {} /\ call[c].disclosures = {} /\ call[c].access = << >>
      /\ call[c].error # "field_access_denied"
  BY <1>1 DEF Known, Early
<1>3. q.tool = "get_project_fields" => q.domain = "project"
  BY <1>2, RequestsAssumption DEF RequestsAssumption, DomainOf
<1>4. q.tool = "get_contract_fields" => q.domain = "contract"
  BY <1>2, RequestsAssumption DEF RequestsAssumption, DomainOf
<1>5. calm[c] => Pinned(call[c])
  BY <1>1 DEF Told, Settled
<1>6. /\ calm[c] /\ q.tool = "get_project_fields" => Filed(q) = {ProjectKey(p)}
      /\ calm[c] /\ q.tool = "get_contract_fields" => Filed(q) = {call[c].row}
  BY <1>5 DEF Pinned, Filed
<1>7. /\ calm[c] /\ Filing(q) => Filed(q) = {key}
      /\ Filing(q) => key.code = p
  BY <1>2, <1>3, <1>4, <1>6 DEF Filing, FieldTools, ProjectListings, ProjectKey
<1>8. q.tool \notin Listings /\ q.tool \notin GraphTools
  BY <1>2 DEF FieldTools, Listings, GraphTools
<1>9. ASSUME denied # {},
             Step(c, [at |-> "disclosing", error |-> "field_access_denied", denied |-> denied])
      PROVE  TInv'
  <2> DEFINE changes == [at |-> "disclosing", error |-> "field_access_denied", denied |-> denied]
             r == Updated(call[c], changes)
  <2> HIDE DEF denied
  <2>1. DOMAIN changes \subseteq DOMAIN NewCall
    BY DEF NewCall
  <2>2. /\ call' = [call EXCEPT ![c] = r]
        /\ DOMAIN r = DOMAIN NewCall
        /\ \A x \in DOMAIN NewCall : r[x] = IF x \in DOMAIN changes THEN changes[x] ELSE call[c][x]
        /\ UNCHANGED <<rows, scope, grants, calm, logged, events>>
    BY <1>9, <2>1, ToldStepped
  <2>3. /\ r.at = "disclosing" /\ r.project = p /\ r.request = q /\ r.denied = denied
        /\ r.cells = {} /\ r.disclosures = {} /\ r.access = << >>
    BY <1>2, <2>2 DEF NewCall
  <2> HIDE DEF r, key
  <2>4. Known(r)
    BY <1>8, <2>2, <2>3 DEF Known, Early
  <2>5. calm[c] /\ Filing(q) => Fits(r)
    BY <1>7, <1>8, <1>9, <2>3 DEF Fits, FiledKeys
  <2>6. Told(r, calm[c])
    BY <2>3, <2>4, <2>5 DEF Told, Settled
  <2> QED BY <1>1, <2>2, <2>3, <2>6, StepTold
<1>10. CASE denied = {} /\ key # Nothing /\ Answer(c, "disclosing", {Cell(key, f) : f \in Shown(q)})
  <2> DEFINE cells == {Cell(key, f) : f \in Shown(q)}
             changes == [at |-> "disclosing", cells |-> cells]
             r == Updated(call[c], changes)
  <2>1. DOMAIN changes \subseteq DOMAIN NewCall
    BY DEF NewCall
  <2>2. /\ Shown(q) # {} /\ AnyField \notin Shown(q)
    BY <1>2, ShownFields DEF Shown
  <2> HIDE DEF key
  <2>3. /\ \A x \in cells : x.key = key /\ x.field \in Shown(q) /\ x = Cell(key, x.field)
        /\ \A f \in Shown(q) : Cell(key, f) \in cells
    BY DEF Cell
  <2>4. cells # {}
    BY <2>2, <2>3
  <2> HIDE DEF cells
  <2>5. /\ call' = [call EXCEPT ![c] = r]
        /\ DOMAIN r = DOMAIN NewCall
        /\ \A x \in DOMAIN NewCall : r[x] = IF x \in DOMAIN changes THEN changes[x] ELSE call[c][x]
        /\ UNCHANGED <<rows, scope, grants, calm, logged, events>>
    BY <1>10, <2>1, ToldStepped DEF Answer, cells
  <2>6. /\ r.at = "disclosing" /\ r.project = p /\ r.request = q /\ r.denied = {}
        /\ r.cells = cells /\ r.disclosures = {} /\ r.access = << >> /\ r.error = call[c].error
    BY <1>2, <2>5 DEF NewCall
  <2> HIDE DEF r
  <2>7. Known(r)
    BY <1>8, <2>5, <2>6 DEF Known, Early
  <2>8. {x.key : x \in cells} = {key}
    BY <2>3, <2>4
  <2>9. calm[c] /\ Filing(q) => Fits(r)
    BY <1>2, <1>7, <1>8, <2>2, <2>3, <2>6, <2>8 DEF Fits, FiledKeys
  <2>10. Told(r, calm[c])
    BY <2>6, <2>7, <2>9 DEF Told, Settled
  <2> QED BY <1>1, <2>5, <2>6, <2>10, StepTold
<1>11. CASE ~(denied = {} /\ key # Nothing) /\ Step(c, [at |-> "rows"]) /\ denied = {}
  <2> DEFINE changes == [at |-> "rows"]
             r == Updated(call[c], changes)
  <2>1. DOMAIN changes \subseteq DOMAIN NewCall
    BY DEF NewCall
  <2>2. /\ call' = [call EXCEPT ![c] = r]
        /\ DOMAIN r = DOMAIN NewCall
        /\ \A x \in DOMAIN NewCall : r[x] = IF x \in DOMAIN changes THEN changes[x] ELSE call[c][x]
        /\ UNCHANGED <<rows, scope, grants, calm, logged, events>>
    BY <1>11, <2>1, ToldStepped
  <2>3. /\ r.at = "rows" /\ r.request = q
        /\ r.cells = {} /\ r.denied = {} /\ r.disclosures = {} /\ r.access = << >>
        /\ r.error = call[c].error
    BY <1>2, <2>2 DEF NewCall
  <2>4. ProjectKey(p) \in Keys
    BY <1>2 DEF ProjectKey, Keys
  <2>5. q.tool \in ProjectListings
    BY <1>2, <1>3, <1>4, <1>11, <2>4, ToolCallsAssumption
       DEF FieldTools, ProjectListings, ToolCallsAssumption
  <2> HIDE DEF r
  <2>6. Told(r, calm[c])
    BY <1>2, <2>2, <2>3, <2>5 DEF Told, Known, Settled, Early
  <2> QED BY <1>1, <2>2, <2>3, <2>6, StepTold DEF Early
<1> QED BY <1>9, <1>10, <1>11 DEF CheckGrants

LEMMA ReadRowsTold == ASSUME TInv, NEW c \in Calls, ReadRows(c) PROVE TInv'
<1>1. Underway(c) /\ Told(call[c], calm[c]) /\ Known(call[c]) /\ call[c].at = "rows"
  BY DEF ReadRows, Underway, TInv, Told
<1>2. PICK cells : Answer(c, "logging", cells)
  BY DEF ReadRows
<1> DEFINE changes == [at |-> "logging", cells |-> cells]
           r == Updated(call[c], changes)
<1>3. DOMAIN changes \subseteq DOMAIN NewCall
  BY DEF NewCall
<1>4. /\ call' = [call EXCEPT ![c] = r]
      /\ DOMAIN r = DOMAIN NewCall
      /\ \A x \in DOMAIN NewCall : r[x] = IF x \in DOMAIN changes THEN changes[x] ELSE call[c][x]
      /\ UNCHANGED <<rows, scope, grants, calm, logged, events>>
  BY <1>2, <1>3, ToldStepped DEF Answer
<1>5. r.at = "logging" /\ r.request = call[c].request /\ r.access = call[c].access
  BY <1>4 DEF NewCall
<1> HIDE DEF r
<1>6. Told(r, calm[c])
  BY <1>1, <1>4, <1>5 DEF Told, Known, Settled, Early, Filing, GraphTools, ProjectListings
<1> QED BY <1>1, <1>4, <1>5, <1>6, StepTold

LEMMA ReadScopeTold == ASSUME TInv, NEW c \in Calls, ReadScope(c) PROVE TInv'
<1> DEFINE place == IF call[c].request.tool \in Listings THEN "listing" ELSE "describing"
           changes == [at |-> place, ids |-> visible_project_ids]
           r == Updated(call[c], changes)
<1>1. Underway(c) /\ Told(call[c], calm[c]) /\ Known(call[c]) /\ call[c].at = "scope"
  BY DEF ReadScope, Underway, TInv, Told
<1>2. DOMAIN changes \subseteq DOMAIN NewCall
  BY DEF NewCall
<1>3. /\ call' = [call EXCEPT ![c] = r]
      /\ DOMAIN r = DOMAIN NewCall
      /\ \A x \in DOMAIN NewCall : r[x] = IF x \in DOMAIN changes THEN changes[x] ELSE call[c][x]
      /\ UNCHANGED <<rows, scope, grants, calm, logged, events>>
  BY <1>2, ToldStepped DEF ReadScope
<1>4. /\ r.at = place /\ r.ids = visible_project_ids /\ r.request = call[c].request
      /\ r.cells = call[c].cells /\ r.denied = call[c].denied /\ r.error = call[c].error
      /\ r.disclosures = call[c].disclosures /\ r.access = call[c].access
  BY <1>3 DEF NewCall
<1>5. place = "describing" \/ (place = "listing" /\ call[c].request.tool \in Listings)
  OBVIOUS
<1> HIDE DEF r, place
<1>6. Told(r, calm[c])
  BY <1>1, <1>3, <1>4, <1>5 DEF Told, Known, Settled, Early
<1> QED BY <1>1, <1>3, <1>4, <1>5, <1>6, StepTold DEF Early

\* What disclosures name
LEMMA AllowedCells ==
    ASSUME NEW S
    PROVE  /\ {d.cell : d \in {d \in Allowed(S) : d.allowed}} = S
           /\ {d.cell : d \in {d \in Allowed(S) : ~d.allowed}} = {}
<1>1. \A d \in Allowed(S) : d.allowed /\ d.cell \in S
  BY DEF Allowed
<1>2. {d \in Allowed(S) : d.allowed} = Allowed(S) /\ {d \in Allowed(S) : ~d.allowed} = {}
  BY <1>1
<1>3. ASSUME NEW x \in S PROVE \E d \in Allowed(S) : d.cell = x
  <2>1. [allowed |-> TRUE, cell |-> x] \in Allowed(S)
    BY DEF Allowed
  <2> QED BY <2>1
<1>4. {d.cell : d \in Allowed(S)} = S
  BY <1>1, <1>3
<1> QED BY <1>2, <1>4

LEMMA RefusedCells ==
    ASSUME NEW S
    PROVE  /\ {d.cell : d \in {d \in Refused(S) : ~d.allowed}} = S
           /\ {d.cell : d \in {d \in Refused(S) : d.allowed}} = {}
<1>1. \A d \in Refused(S) : ~d.allowed /\ d.cell \in S
  BY DEF Refused
<1>2. {d \in Refused(S) : ~d.allowed} = Refused(S) /\ {d \in Refused(S) : d.allowed} = {}
  BY <1>1
<1>3. ASSUME NEW x \in S PROVE \E d \in Refused(S) : d.cell = x
  <2>1. [allowed |-> FALSE, cell |-> x] \in Refused(S)
    BY DEF Refused
  <2> QED BY <2>1
<1>4. {d.cell : d \in Refused(S)} = S
  BY <1>1, <1>3
<1> QED BY <1>2, <1>4

LEMMA KeysOfRows == ASSUME NEW K PROVE {x.key : x \in UNION {Disclosed(k) : k \in K}} = K
<1> DEFINE U == UNION {Disclosed(k) : k \in K}
<1>1. \A k \in K : Cell(k, AnyField) \in U
  BY DEF Disclosed
<1>2. \A x \in U : \E k \in K : x = Cell(k, AnyField)
  BY DEF Disclosed
<1>3. \A k : Cell(k, AnyField).key = k
  BY DEF Cell
<1> HIDE DEF U
<1>4. {x.key : x \in U} = K
  BY <1>1, <1>2, <1>3
<1> QED BY <1>4 DEF U

LEMMA ReadListingTold == ASSUME TInv, NEW c \in Calls, ReadListing(c) PROVE TInv'
<1> DEFINE q       == call[c].request
           named   == q.tool = "list_open_risks" /\ q.text # Nothing
           among   == IF named THEN call[c].ids \cap {q.text} ELSE call[c].ids
           found   == RowsOf(q.domain, among)
           cells   == {Cell(k, f) : k \in found, f \in Fields[q.domain]}
           refused == Refused(Disclosed(ProjectKey(q.text)))
           allowed == Allowed(UNION {Disclosed(k) : k \in found})
<1>1. Underway(c) /\ Told(call[c], calm[c]) /\ Known(call[c]) /\ call[c].at = "listing"
  BY DEF ReadListing, Underway, TInv, Told
<1>2. /\ q.tool \in Listings /\ Fields[q.domain] # {}
      /\ call[c].cells = {} /\ call[c].access = << >> /\ call[c].error # "field_access_denied"
  BY <1>1, RequestsAssumption, ToolCallsAssumption
     DEF Known, Early, RequestsAssumption, ToolCallsAssumption
<1>3. \/ Step(c, [at |-> "logging", error |-> "access_denied", disclosures |-> refused])
      \/ Step(c, [at |-> "logging", cells |-> cells, disclosures |-> allowed])
  BY DEF ReadListing
<1>6. {x.key : x \in cells} = found
  <2>1. PICK f \in Fields[q.domain] : TRUE
    BY <1>2
  <2>2. /\ \A k \in found : Cell(k, f) \in cells
        /\ \A x \in cells : \E k \in found, g \in Fields[q.domain] : x = Cell(k, g)
    OBVIOUS
  <2>3. \A k, g : Cell(k, g).key = k
    BY DEF Cell
  <2> HIDE DEF found, cells
  <2> QED BY <2>2, <2>3
<1>7. ASSUME Step(c, [at |-> "logging", error |-> "access_denied", disclosures |-> refused]) PROVE TInv'
  <2> DEFINE changes == [at |-> "logging", error |-> "access_denied", disclosures |-> refused]
             r == Updated(call[c], changes)
  <2> HIDE DEF refused
  <2>1. DOMAIN changes \subseteq DOMAIN NewCall
    BY DEF NewCall
  <2>2. /\ call' = [call EXCEPT ![c] = r]
        /\ DOMAIN r = DOMAIN NewCall
        /\ \A x \in DOMAIN NewCall : r[x] = IF x \in DOMAIN changes THEN changes[x] ELSE call[c][x]
        /\ UNCHANGED <<rows, scope, grants, calm, logged, events>>
    BY <1>7, <2>1, ToldStepped
  <2>3. /\ r.at = "logging" /\ r.request = q /\ r.error = "access_denied" /\ r.cells = {}
        /\ r.access = << >> /\ r.disclosures = refused
    BY <1>2, <2>2 DEF NewCall
  <2> HIDE DEF r
  <2>4. Accounted(r)
    BY <1>2, <2>3, RefusedCells DEF Accounted, refused
  <2>5. Told(r, calm[c])
    BY <1>2, <2>2, <2>3, <2>4 DEF Told, Known, Settled, Early, GraphTools, Listings
  <2> QED BY <1>1, <2>2, <2>3, <2>5, StepTold
<1>8. ASSUME Step(c, [at |-> "logging", cells |-> cells, disclosures |-> allowed]) PROVE TInv'
  <2> DEFINE changes == [at |-> "logging", cells |-> cells, disclosures |-> allowed]
             r == Updated(call[c], changes)
  <2> HIDE DEF cells, allowed, found
  <2>1. DOMAIN changes \subseteq DOMAIN NewCall
    BY DEF NewCall
  <2>2. /\ call' = [call EXCEPT ![c] = r]
        /\ DOMAIN r = DOMAIN NewCall
        /\ \A x \in DOMAIN NewCall : r[x] = IF x \in DOMAIN changes THEN changes[x] ELSE call[c][x]
        /\ UNCHANGED <<rows, scope, grants, calm, logged, events>>
    BY <1>8, <2>1, ToldStepped
  <2>3. /\ r.at = "logging" /\ r.request = q /\ r.error = call[c].error /\ r.cells = cells
        /\ r.access = << >> /\ r.disclosures = allowed
    BY <1>2, <2>2 DEF NewCall
  <2> HIDE DEF r
  <2>4. {x.key : x \in {d.cell : d \in {d \in allowed : d.allowed}}} = found
    BY AllowedCells, KeysOfRows DEF allowed
  <2>5. Accounted(r)
    BY <1>2, <1>6, <2>3, <2>4 DEF Accounted
  <2>6. Told(r, calm[c])
    BY <1>2, <2>2, <2>3, <2>5 DEF Told, Known, Settled, Early, GraphTools, Listings
  <2> QED BY <1>1, <2>2, <2>3, <2>6, StepTold
<1> QED BY <1>3, <1>7, <1>8

LEMMA ReadAccessTold == ASSUME TInv, NEW c \in Calls, ReadAccess(c) PROVE TInv'
<1> DEFINE access == [p \in call[c].ids \cap Projects |-> [d \in Domains \ {"risk"} |-> allowed_fields(d, p)]]
           changes == [at |-> "logging", access |-> access]
           r == Updated(call[c], changes)
<1>1. Underway(c) /\ Told(call[c], calm[c]) /\ Known(call[c]) /\ call[c].at = "describing"
  BY DEF ReadAccess, Underway, TInv, Told
<1>2. DOMAIN changes \subseteq DOMAIN NewCall
  BY DEF NewCall
<1>3. /\ call' = [call EXCEPT ![c] = r]
      /\ DOMAIN r = DOMAIN NewCall
      /\ \A x \in DOMAIN NewCall : r[x] = IF x \in DOMAIN changes THEN changes[x] ELSE call[c][x]
      /\ UNCHANGED <<rows, scope, grants, calm, logged, events>>
  BY <1>2, ToldStepped DEF ReadAccess
<1>4. /\ r.at = "logging" /\ r.request = call[c].request /\ r.access = access
      /\ r.cells = call[c].cells /\ r.disclosures = call[c].disclosures /\ r.error = call[c].error
  BY <1>3 DEF NewCall
<1> HIDE DEF r
<1>5. Accounted(r) /\ GraphAccounted(r)
  BY <1>1, <1>4, NothingFiled DEF Known, Early
<1>6. calm[c] /\ Role = "scoped" /\ grants # {} => Summarised(r)
  <2> SUFFICES ASSUME calm[c], Role = "scoped", grants # {} PROVE Summarised(r)
    OBVIOUS
  <2>1. DOMAIN access = visible_project_ids \cap Projects
    BY <1>1 DEF Told, Settled
  <2>2. ASSUME NEW p, NEW d PROVE allowed_fields(d, p) = authorize_fields(d, p, Fields[d])
    <3>1. allowed_fields(d, p) = GrantedFields(d, p)
      BY DEF allowed_fields
    <3>2. authorize_fields(d, p, Fields[d]) = Fields[d] \cap GrantedFields(d, p)
      BY DEF authorize_fields
    <3>3. GrantedFields(d, p) \subseteq Fields[d]
      BY DEF GrantedFields
    <3> QED BY <3>1, <3>2, <3>3
  <2>3. \A p \in DOMAIN access, d \in Domains \ {"risk"} : access[p][d] = authorize_fields(d, p, Fields[d])
    BY <2>2
  <2>4. r.access = access
    BY <1>4
  <2> HIDE DEF access
  <2> QED BY <2>1, <2>3, <2>4 DEF Summarised
<1>7. Told(r, calm[c])
  BY <1>3, <1>4, <1>5, <1>6 DEF Told, Known, Settled, Early
<1> QED BY <1>1, <1>3, <1>4, <1>7, StepTold

LEMMA GraphTold == ASSUME TInv, NEW c \in Calls, Graph(c) PROVE TInv'
<1> DEFINE q == call[c].request
           keys == {k \in Keys : k.entity = EntityOf[q.domain]}
<1>1. /\ Underway(c) /\ Told(call[c], calm[c]) /\ Known(call[c]) /\ call[c].at = "graph"
      /\ q.tool \in GraphTools /\ q \in Requests /\ q.fields \subseteq Fields[q.domain]
      /\ call[c].cells = {} /\ call[c].denied = {} /\ call[c].disclosures = {} /\ call[c].access = << >>
  BY DEF Graph, Underway, TInv, Told, Known, Early
<1>2. q.tool \notin Listings /\ ~Filing(q)
  BY <1>1 DEF GraphTools, Listings, Filing
<1>3. CASE Fail(c, "connector_unavailable")
  BY <1>1, <1>3, FailTold DEF Early
<1>4. ASSUME NEW denied,
             Step(c, [at |-> "logging", error |-> "return_field_access_denied", denied |-> denied])
      PROVE  TInv'
  <2> DEFINE changes == [at |-> "logging", error |-> "return_field_access_denied", denied |-> denied]
             r == Updated(call[c], changes)
  <2>1. DOMAIN changes \subseteq DOMAIN NewCall
    BY DEF NewCall
  <2>2. /\ call' = [call EXCEPT ![c] = r]
        /\ DOMAIN r = DOMAIN NewCall
        /\ \A x \in DOMAIN NewCall : r[x] = IF x \in DOMAIN changes THEN changes[x] ELSE call[c][x]
        /\ UNCHANGED <<rows, scope, grants, calm, logged, events>>
    BY <1>4, <2>1, ToldStepped
  <2>3. /\ r.at = "logging" /\ r.request = q /\ r.cells = {} /\ r.disclosures = {} /\ r.access = << >>
    BY <1>1, <2>2 DEF NewCall
  <2> HIDE DEF r
  <2>4. Told(r, calm[c])
    BY <1>2, <2>2, <2>3, NothingFiled DEF Told, Known, Settled, Early
  <2> QED BY <1>1, <2>2, <2>3, <2>4, StepTold
<1>5. ASSUME NEW cells, Answer(c, "disclosing", cells) PROVE TInv'
  <2> DEFINE changes == [at |-> "disclosing", cells |-> cells]
             r == Updated(call[c], changes)
  <2>1. DOMAIN changes \subseteq DOMAIN NewCall
    BY DEF NewCall
  <2>2. /\ call' = [call EXCEPT ![c] = r]
        /\ DOMAIN r = DOMAIN NewCall
        /\ \A x \in DOMAIN NewCall : r[x] = IF x \in DOMAIN changes THEN changes[x] ELSE call[c][x]
        /\ UNCHANGED <<rows, scope, grants, calm, logged, events>>
    BY <1>5, <2>1, ToldStepped DEF Answer
  <2>3. /\ r.at = "disclosing" /\ r.request = q /\ r.denied = {}
        /\ r.disclosures = {} /\ r.access = << >>
    BY <1>1, <2>2 DEF NewCall
  <2> HIDE DEF r
  <2>4. Told(r, calm[c])
    BY <1>2, <2>2, <2>3 DEF Told, Known, Settled, Early
  <2> QED BY <1>1, <2>2, <2>3, <2>4, StepTold
<1>6. CASE \E found \in SUBSET keys, fields \in {q.fields, q.fields \cup Identity[q.domain]} :
               Answer(c, "disclosing", CellsOf(found, fields))
  BY <1>5, <1>6
<1> QED BY <1>3, <1>4, <1>6, GraphEnds

\* A row that is filed with the fields of an answer, but for those it goes by
LEMMA NamedCells ==
    ASSUME NEW c, NEW k, NEW x
    PROVE  x \in Named(c, k) <=>
               \/ x = Cell(k, AnyField)
               \/ \E y \in call[c].cells :
                      y.field \notin Identity[call[c].request.domain] /\ x = Cell(k, y.field)
BY DEF Named

LEMMA DiscloseTold == ASSUME TInv, NEW c \in Calls, Disclose(c) PROVE TInv'
<1> DEFINE q      == call[c].request
           denied == call[c].denied
           keys   == IF q.tool \in GraphTools THEN GraphRows(call[c].cells) ELSE FiledKeys(call[c])
           turned == {Cell(k, f) : k \in keys, f \in denied}
           named  == UNION {Named(c, k) : k \in keys}
           disclosures == IF denied # {} THEN Refused(turned) ELSE Allowed(named)
           changes == [at |-> "logging", disclosures |-> disclosures]
           r == Updated(call[c], changes)
<1>1. Underway(c) /\ Told(call[c], calm[c]) /\ Known(call[c]) /\ call[c].at = "disclosing"
  BY DEF Disclose, Underway, TInv, Told
<1>2. DOMAIN changes \subseteq DOMAIN NewCall
  BY DEF NewCall
<1>3. Step(c, changes)
  BY DEF Disclose, FiledKeys
<1> HIDE DEF disclosures
<1>4. /\ call' = [call EXCEPT ![c] = r]
      /\ DOMAIN r = DOMAIN NewCall
      /\ \A x \in DOMAIN NewCall : r[x] = IF x \in DOMAIN changes THEN changes[x] ELSE call[c][x]
      /\ UNCHANGED <<rows, scope, grants, calm, logged, events>>
  BY <1>2, <1>3, ToldStepped
<1>5. /\ r.at = "logging" /\ r.request = q /\ r.project = call[c].project /\ r.denied = denied
      /\ r.cells = call[c].cells /\ r.disclosures = disclosures /\ r.access = << >>
      /\ r.error = call[c].error
  BY <1>1, <1>4 DEF NewCall, Known
<1> HIDE DEF r
<1>6. ASSUME Fits(call[c]), denied # {}, Filing(q) PROVE Accounted(r)
  <2>1. r.cells = {} /\ {k.code : k \in keys} = {r.project}
    BY <1>5, <1>6 DEF Fits, Filing
  <2>2. r.disclosures = Refused(turned)
    BY <1>5, <1>6 DEF disclosures
  <2>3. /\ \A x \in turned : x.field \in denied /\ x.key \in keys
        /\ \A k \in keys, f \in denied : Cell(k, f) \in turned /\ Cell(k, f).field = f /\ Cell(k, f).key = k
    BY DEF Cell
  <2> HIDE DEF turned, keys
  <2>4. PICK k0 \in keys : k0.code = r.project
    BY <2>1
  <2>5. \A k \in keys : k.code = r.project
    BY <2>1
  <2>6. {x.field : x \in turned} = denied
    BY <2>3, <2>4
  <2>7. PICK f0 \in denied : TRUE
    BY <1>6
  <2>8. {x.key.code : x \in turned} = {r.project}
    BY <2>3, <2>4, <2>5, <2>7
  <2> DEFINE given == {d.cell : d \in {d \in r.disclosures : d.allowed}}
             refused == {d.cell : d \in {d \in r.disclosures : ~d.allowed}}
  <2>9. given = {} /\ refused = turned
    BY <2>2, RefusedCells
  <2> HIDE DEF given, refused
  <2>10. /\ {x.key : x \in given} = {x.key : x \in r.cells}
         /\ {x \in given : x.field # AnyField} = {x \in r.cells : x.field \notin Identity[r.request.domain]}
    BY <2>1, <2>9
  <2>11. {x.field : x \in refused} = r.denied /\ {x.key.code : x \in refused} = {r.project}
    BY <1>5, <2>6, <2>8, <2>9
  <2> QED BY <2>10, <2>11 DEF Accounted, given, refused
<1>7. ASSUME Fits(call[c]), denied = {}, Filing(q) PROVE Accounted(r)
  <2> DEFINE cells == call[c].cells
             id == Identity[q.domain]
  <2>1. /\ r.error # "field_access_denied" /\ keys = {x.key : x \in cells}
        /\ \A x, y \in cells : Cell(x.key, y.field) \in cells
        /\ \A x \in cells : x = Cell(x.key, x.field) /\ x.field # AnyField
    BY <1>5, <1>7 DEF Fits, Filing
  <2>2. r.disclosures = Allowed(named)
    BY <1>5, <1>7 DEF disclosures
  <2>3. \A k, f : Cell(k, f).key = k /\ Cell(k, f).field = f
    BY DEF Cell
  <2>4. \A x : x \in named <=>
            \E k \in keys : \/ x = Cell(k, AnyField)
                            \/ \E y \in cells : y.field \notin id /\ x = Cell(k, y.field)
    BY NamedCells
  <2> HIDE DEF named, keys
  <2>5. {x.key : x \in named} = keys
    BY <2>3, <2>4
  <2>6. {x \in named : x.field # AnyField} = {x \in cells : x.field \notin id}
    <3>1. ASSUME NEW x \in named, x.field # AnyField PROVE x \in cells /\ x.field \notin id
      <4>1. PICK k \in keys : \/ x = Cell(k, AnyField)
                              \/ \E y \in cells : y.field \notin id /\ x = Cell(k, y.field)
        BY <2>4
      <4>2. PICK y \in cells : y.field \notin id /\ x = Cell(k, y.field)
        BY <2>3, <3>1, <4>1
      <4>3. PICK z \in cells : k = z.key
        BY <2>1
      <4> QED BY <2>1, <2>3, <4>2, <4>3
    <3>2. ASSUME NEW x \in cells, x.field \notin id PROVE x \in named /\ x.field # AnyField
      BY <2>1, <2>4, <3>2
    <3> QED BY <3>1, <3>2
  <2> DEFINE given == {d.cell : d \in {d \in r.disclosures : d.allowed}}
  <2>7. given = named
    BY <2>2, AllowedCells
  <2> HIDE DEF given
  <2>8. /\ {x.key : x \in given} = {x.key : x \in r.cells}
        /\ {x \in given : x.field # AnyField} = {x \in r.cells : x.field \notin Identity[r.request.domain]}
    BY <1>5, <2>1, <2>5, <2>6, <2>7
  <2> QED BY <2>1, <2>8 DEF Accounted, given
<1>8. calm[c] /\ Filing(q) => Accounted(r)
  BY <1>1, <1>6, <1>7 DEF Told, Settled
<1>9. ASSUME q.tool \in GraphTools PROVE GraphAccounted(r)
  <2> DEFINE K == GraphRows(call[c].cells)
             given == {d.cell : d \in {d \in r.disclosures : d.allowed}}
             refused == {d.cell : d \in {d \in r.disclosures : ~d.allowed}}
  <2>1. keys = K /\ denied = {}
    BY <1>1, <1>9 DEF Known
  <2>2. r.disclosures = Allowed(named)
    BY <1>5, <2>1 DEF disclosures
  <2>3. given = named /\ refused = {}
    BY <2>2, AllowedCells
  <2>4. \A k, f : Cell(k, f).key = k
    BY DEF Cell
  <2>5. \A x : x \in named <=>
            \E k \in keys : \/ x = Cell(k, AnyField)
                            \/ \E y \in call[c].cells :
                                   y.field \notin Identity[q.domain] /\ x = Cell(k, y.field)
    BY NamedCells
  <2> HIDE DEF named, keys, K, given, refused
  <2>6. {x.key : x \in named} = K
    BY <2>1, <2>4, <2>5
  <2> QED BY <1>5, <2>3, <2>6 DEF GraphAccounted, K, given, refused
<1>10. Told(r, calm[c])
  BY <1>4, <1>5, <1>8, <1>9 DEF Told, Known, Settled, Early
<1> QED BY <1>1, <1>4, <1>5, <1>10, StepTold

LEMMA DatabaseErrorTold == ASSUME TInv, NEW c \in Calls, DatabaseError(c) PROVE TInv'
<1>0. PICK filed \in DisclosedSoFar(c) :
          Step(c, [at |-> "logging", error |-> "database_error", cells |-> {}, access |-> << >>,
                   denied |-> {}, disclosures |-> filed])
  BY DEF DatabaseError
<1> DEFINE changes == [at |-> "logging", error |-> "database_error", cells |-> {}, access |-> << >>,
                       denied |-> {}, disclosures |-> filed]
           r == Updated(call[c], changes)
<1>1. Underway(c) /\ Known(call[c]) /\ call[c].at \in Early \cup {"disclosing"}
  BY DEF DatabaseError, Underway, TInv, Told, Known
<1>2. DOMAIN changes \subseteq DOMAIN NewCall
  BY DEF NewCall
<1>3. /\ call' = [call EXCEPT ![c] = r]
      /\ DOMAIN r = DOMAIN NewCall
      /\ \A x \in DOMAIN NewCall : r[x] = IF x \in DOMAIN changes THEN changes[x] ELSE call[c][x]
      /\ UNCHANGED <<rows, scope, grants, calm, logged, events>>
  BY <1>0, <1>2, ToldStepped
<1>4. /\ r.at = "logging" /\ r.error = "database_error" /\ r.cells = {} /\ r.access = << >>
      /\ r.disclosures = filed /\ r.request = call[c].request
  BY <1>3 DEF NewCall
<1> HIDE DEF r
<1>5. Filing(r.request) => filed = {}
  BY <1>4 DEF DisclosedSoFar, Filing
<1>6. {d.cell : d \in {d \in filed : ~d.allowed}} = {}
  <2>1. CASE filed = {}
    BY <2>1
  <2>2. ASSUME NEW S, filed = Allowed(S) PROVE {d.cell : d \in {d \in filed : ~d.allowed}} = {}
    BY <2>2, AllowedCells
  <2> QED BY <2>1, <2>2 DEF DisclosedSoFar
<1>7. GraphAccounted(r)
  BY <1>4, <1>6 DEF GraphAccounted
<1>8. Filing(r.request) => Accounted(r)
  BY <1>4, <1>5, NothingFiled
<1>9. Told(r, calm[c])
  BY <1>3, <1>4, <1>7, <1>8 DEF Told, Known, Settled, Early
<1> QED BY <1>1, <1>3, <1>4, <1>9, StepTold

LEMMA AuditFileTold == ASSUME TInv, NEW c \in Calls, AuditFile(c) PROVE TInv'
<1>1. /\ Told(call[c], calm[c]) /\ Written(c) /\ call[c].at = "logging"
      /\ UNCHANGED <<rows, scope, grants, calm, events>>
  BY DEF AuditFile, TInv, policyVars, historyVars
<1>2. ASSUME NEW r, call' = [call EXCEPT ![c] = r], Told(r, calm[c]),
             \/ r.at = "recording" /\ logged' = logged \cup {c}
             \/ r.at = "crashed" /\ logged' = logged
      PROVE  TInv'
  <2>1. call'[c] = r /\ DOMAIN call' = Calls /\ \A o \in Calls \ {c} : call'[o] = call[o]
    BY <1>2 DEF TInv
  <2>2. \A o \in Calls : Told(call'[o], calm'[o])
    BY <1>1, <1>2, <2>1 DEF TInv
  <2>3. (\A o \in Calls : Told(call[o], calm[o]))'
    BY <1>1, <2>2, ToldStays
  <2>4. c \notin DOMAIN events
    BY <1>1 DEF Written
  <2>5. \A o \in Calls : Written(o)'
    BY <1>1, <1>2, <2>1, <2>4 DEF TInv, Written
  <2> QED BY <1>1, <2>1, <2>3, <2>5 DEF TInv
<1>3. CASE logged' = logged \cup {c} /\ call' = [call EXCEPT ![c].at = "recording"]
  <2> DEFINE r == [call[c] EXCEPT !.at = "recording"]
  <2>1. call' = [call EXCEPT ![c] = r]
    BY <1>3
  <2>2. /\ DOMAIN r = DOMAIN NewCall /\ r.at = "recording" /\ r.request = call[c].request
        /\ r.cells = call[c].cells /\ r.disclosures = call[c].disclosures /\ r.error = call[c].error
        /\ r.denied = call[c].denied /\ r.project = call[c].project
    BY <1>1 DEF Told, Known, NewCall
  <2> HIDE DEF r
  <2>3. (Accounted(call[c]) => Accounted(r)) /\ (GraphAccounted(call[c]) => GraphAccounted(r))
    BY <2>2 DEF Accounted, GraphAccounted
  <2>4. Told(r, calm[c])
    BY <1>1, <2>2, <2>3 DEF Told, Known, Settled, Early
  <2> QED BY <1>2, <1>3, <2>1, <2>2, <2>4
<1>4. CASE UNCHANGED logged /\ call' = [call EXCEPT ![c].at = "crashed", ![c].cells = {}, ![c].access = << >>]
  <2> DEFINE r == [call[c] EXCEPT !.at = "crashed", !.cells = {}, !.access = << >>]
  <2>1. call' = [call EXCEPT ![c] = r]
    BY <1>4 DEF TInv
  <2>2. DOMAIN r = DOMAIN NewCall /\ r.at = "crashed"
    BY <1>1 DEF Told, Known, NewCall
  <2> HIDE DEF r
  <2>3. Told(r, calm[c])
    BY <2>2 DEF Told, Known, Settled, Early
  <2> QED BY <1>2, <1>4, <2>1, <2>2, <2>3
<1> QED BY <1>3, <1>4 DEF AuditFile

LEMMA AuditDatabaseTold == ASSUME TInv, NEW c \in Calls, AuditDatabase(c) PROVE TInv'
<1> DEFINE r == [call[c] EXCEPT !.at = "returned"]
<1>1. /\ Told(call[c], calm[c]) /\ Written(c) /\ call[c].at = "recording"
      /\ call' = [call EXCEPT ![c] = r] /\ UNCHANGED <<rows, scope, grants, calm, logged>>
  BY DEF AuditDatabase, TInv, policyVars, historyVars
<1>2. /\ DOMAIN r = DOMAIN NewCall /\ r.at = "returned" /\ r.disclosures = call[c].disclosures
  BY <1>1 DEF Told, Known, NewCall
<1>3. call'[c] = r /\ DOMAIN call' = Calls /\ \A o \in Calls \ {c} : call'[o] = call[o]
  BY <1>1 DEF TInv
<1> HIDE DEF r
<1>4. Told(r, calm[c])
  BY <1>2 DEF Told, Known, Settled, Early
<1>5. \A o \in Calls : Told(call'[o], calm'[o])
  BY <1>1, <1>3, <1>4 DEF TInv
<1>6. (\A o \in Calls : Told(call[o], calm[o]))'
  BY <1>1, <1>5, ToldStays
<1>7. \/ events' = events
      \/ /\ DOMAIN events' = DOMAIN events \cup {c}
         /\ events'[c] = r.disclosures
         /\ \A o \in DOMAIN events \ {c} : events'[o] = events[o]
  BY <1>2 DEF AuditDatabase
<1>8. c \in logged /\ c \notin DOMAIN events
  BY <1>1 DEF Written
<1>9. ASSUME NEW o \in Calls PROVE Written(o)'
  <2>1. CASE o = c
    BY <1>1, <1>2, <1>3, <1>7, <1>8, <2>1 DEF Written
  <2>2. CASE o # c
    BY <1>1, <1>3, <1>7, <2>2 DEF TInv, Written
  <2> QED BY <2>1, <2>2
<1> QED BY <1>1, <1>3, <1>6, <1>9 DEF TInv

LEMMA OpenTold == ASSUME TInv, NEW c \in Calls, NEW q \in Requests, Open(c, q) PROVE TInv'
<1> DEFINE error == Refusal(q)
           place == CASE error = "none" -> FirstRead(q.tool, q.text)
                      [] error = "tool_not_exposed" -> "returned"
                      [] OTHER -> "logging"
           r == [NewCall EXCEPT !.at = place, !.request = q, !.error = error]
<1>1. /\ call[c].at = "idle" /\ call' = [call EXCEPT ![c] = r]
      /\ UNCHANGED <<rows, scope, grants, calm, logged, events>>
  BY DEF Open, policyVars
<1>2. /\ error = "none" => q.fields \subseteq Fields[q.domain]
      /\ error = "none" /\ q.tool \in FieldTools => q.fields # {}
      /\ error # "field_access_denied" /\ error # "not_found"
  BY DEF Refusal
<1>3. /\ place \in {FirstRead(q.tool, q.text), "returned", "logging"}
      /\ place \notin {"returned", "logging"} => error = "none" /\ place = FirstRead(q.tool, q.text)
  BY DEF Refusal
<1> HIDE DEF error, place
<1>4. /\ DOMAIN r = DOMAIN NewCall
      /\ r.at = place /\ r.request = q /\ r.error = error /\ r.cells = {} /\ r.row = Nothing
      /\ r.denied = {} /\ r.disclosures = {} /\ r.access = << >>
  BY DEF NewCall
<1>5. place \in {"lookup", "contract", "scope", "graph", "logging", "returned"}
  BY <1>3 DEF FirstRead
<1>6. /\ place = "lookup" => q.tool \in (FieldTools \ {"get_contract_fields"}) \cup {"resolve_project"}
      /\ place = "contract" => q.tool = "get_contract_fields"
      /\ place = "graph" => q.tool \in GraphTools
  BY <1>3 DEF FirstRead, FieldTools, Listings, GraphTools
<1> HIDE DEF r
<1>7. Known(r)
  BY <1>2, <1>3, <1>4, <1>5, <1>6 DEF Known, Early
<1>8. Told(r, calm[c])
  BY <1>2, <1>4, <1>5, <1>7, NothingFiled DEF Told, Settled
<1>9. call'[c] = r /\ DOMAIN call' = Calls /\ \A o \in Calls \ {c} : call'[o] = call[o]
  BY <1>1 DEF TInv
<1>10. \A o \in Calls : Told(call'[o], calm'[o])
  BY <1>1, <1>8, <1>9 DEF TInv
<1>11. (\A o \in Calls : Told(call[o], calm[o]))'
  BY <1>1, <1>10, ToldStays
<1>12. c \notin DOMAIN events
  BY <1>1 DEF TInv, Written
<1>13. \A o \in Calls : Written(o)'
  BY <1>1, <1>4, <1>5, <1>9, <1>12 DEF TInv, Written
<1> QED BY <1>1, <1>9, <1>11, <1>13 DEF TInv

\* A commit: nothing more is said of the calls that were under way
LEMMA WitnessTold == ASSUME TInv, Witness, UNCHANGED <<call, logged, events>> PROVE TInv'
<1>1. calm' = [c \in Calls |-> calm[c] /\ ~Underway(c)]
  BY DEF Witness
<1>2. ASSUME NEW c \in Calls PROVE Told(call[c], calm[c])'
  <2>1. Known(call[c])
    BY DEF TInv, Told
  <2>2. Known(call[c])'
    BY <2>1 DEF Known
  <2>3. CASE Underway(c)
    BY <1>1, <2>2, <2>3 DEF Told
  <2>4. CASE ~Underway(c)
    BY <2>2, <2>4 DEF Told, Settled, Underway
  <2> QED BY <2>3, <2>4
<1>3. \A c \in Calls : Written(c)'
  BY DEF TInv, Written
<1> QED BY <1>1, <1>2, <1>3 DEF TInv

LEMMA UncommittedTold ==
    ASSUME TInv, UNCHANGED <<rows, scope, grants, call, logged, events, calm>> PROVE TInv'
<1>1. \A c \in Calls : Told(call'[c], calm'[c])
  BY DEF TInv
<1>2. (\A c \in Calls : Told(call[c], calm[c]))'
  BY <1>1, ToldStays
<1> QED BY <1>2 DEF TInv, Written

LEMMA NextTold == TInv /\ [Next]_vars => TInv'
<1> SUFFICES ASSUME TInv, [Next]_vars PROVE TInv'
  OBVIOUS
<1>1. CASE UNCHANGED vars
  BY <1>1, UncommittedTold DEF vars, callVars, policyVars, historyVars
<1>2. CASE EditPolicy
  BY <1>2, WitnessTold DEF EditPolicy
<1>3. ASSUME NEW c \in Calls, ToolCall(c) PROVE TInv'
  BY <1>3, OpenTold, LookupTold, ReadContractTold, CheckVisibleTold, CheckGrantsTold, ReadRowsTold,
     ReadScopeTold, ReadListingTold, ReadAccessTold, GraphTold, DiscloseTold, DatabaseErrorTold,
     AuditFileTold, AuditDatabaseTold DEF ToolCall
<1>4. ASSUME NEW i \in Imports, ImportStep(i) PROVE TInv'
  BY <1>4, WitnessTold, UncommittedTold DEF ImportStep, policyVars, historyVars
<1> QED BY <1>1, <1>2, <1>3, <1>4 DEF Next, CallStep, CallNext

\* What goes out is in the audit file; and what the database is told, when nothing
\* was committed during the call, are the rows and fields that were answered or
\* refused, although they come of a second look at the data.
THEOREM AuditAccounts == Init /\ [][Next]_vars => []AuditAccountsForAnswers
<1>1. TInv => AuditAccountsForAnswers
  <2> SUFFICES ASSUME TInv, NEW c \in Calls
               PROVE  /\ call[c].at = "recording" /\ calm[c] =>
                             /\ Filing(call[c].request) => Accounted(call[c])
                             /\ call[c].request.tool \in GraphTools => GraphAccounted(call[c])
                      /\ Written(c)
    BY DEF AuditAccountsForAnswers, Accounted, GraphAccounted, Written, Filing
  <2> QED BY DEF TInv, Told, Settled
<1> QED BY InitTold, NextTold, <1>1, PTL

\* For a requester with record scope and at least one grant, the summary of access
\* names the projects and the fields that a query would be given, unless something
\* was committed while it was put together.
THEOREM SummariesAreTrue == Init /\ [][Next]_vars => []CalmSummaryIsTrue
<1>1. TInv => CalmSummaryIsTrue
  BY DEF TInv, Told, Settled, Summarised, CalmSummaryIsTrue
<1> QED BY InitTold, NextTold, <1>1, PTL

-----------------------------------------------------------------------------
(* What a call holds is rows, projects and fields of the data. *)

CallPlaces == Early \cup {"disclosing", "logging", "recording", "returned", "crashed"}
DisclosureSet == [allowed : BOOLEAN, cell : CellSet]

\* What changes of a call at a step is of its type, and so is the call
Held(r) ==
    /\ "at" \in DOMAIN r => r.at \in CallPlaces
    /\ "request" \in DOMAIN r => r.request \in Requests \cup {Nothing}
    /\ "project" \in DOMAIN r => r.project \in Codes \cup {Nothing}
    /\ "row" \in DOMAIN r => r.row \in Keys \cup {Nothing}
    /\ "ids" \in DOMAIN r => r.ids \subseteq Codes
    /\ "denied" \in DOMAIN r => r.denied \subseteq AllFields
    /\ "cells" \in DOMAIN r => r.cells \subseteq CellSet
    /\ "disclosures" \in DOMAIN r => r.disclosures \subseteq DisclosureSet

CallsHeld ==
    /\ scope \subseteq Codes /\ grants \subseteq GrantSet /\ edits \in 0 .. MaxEdits
    /\ logged \subseteq Calls /\ DOMAIN events \subseteq Calls
    /\ \A c \in Calls : Held(call[c])

HInv == IInv /\ TInv /\ CallsHeld

LEMMA StepHeld ==
    ASSUME HInv, NEW c \in Calls, NEW changes, DOMAIN changes \subseteq DOMAIN NewCall, Step(c, changes),
           Held(changes)
    PROVE  CallsHeld'
<1> DEFINE r == Updated(call[c], changes)
<1>1. /\ call' = [call EXCEPT ![c] = r]
      /\ DOMAIN r = DOMAIN NewCall
      /\ \A x \in DOMAIN NewCall : r[x] = IF x \in DOMAIN changes THEN changes[x] ELSE call[c][x]
  BY ToldStepped DEF HInv
<1>2. DOMAIN call = Calls /\ DOMAIN call[c] = DOMAIN NewCall /\ Held(call[c])
  BY DEF HInv, TInv, Told, Known, CallsHeld
<1> HIDE DEF r
<1>3. Held(r)
  BY <1>1, <1>2 DEF Held, NewCall
<1>4. \A o \in Calls : Held(call'[o])
  BY <1>1, <1>2, <1>3 DEF HInv, CallsHeld
<1> QED BY <1>4 DEF Step, policyVars, HInv, CallsHeld, Held

\* Rows read are rows of the data
LEMMA CellsAreTyped ==
    /\ \A k \in Keys, f \in AllFields \cup {AnyField} : Cell(k, f) \in CellSet
    /\ \A d \in Domains : Fields[d] \subseteq AllFields /\ Identity[d] \subseteq AllFields
    /\ \A p \in Codes : ProjectKey(p) \in Keys
    /\ \A k \in Keys : k.code \in Codes
    /\ \A d, codes : RowsOf(d, codes) \subseteq Keys
    /\ \A x \in CellSet, f \in AllFields \cup {AnyField} :
          x.field \in AllFields \cup {AnyField} /\ Cell(x.key, f) \in CellSet
<1>1. \A k \in Keys, f \in AllFields \cup {AnyField} : Cell(k, f) \in CellSet
  BY DEF Cell, CellSet, Keys
<1>2. \A d \in Domains : Fields[d] \subseteq AllFields /\ Identity[d] \subseteq AllFields
  BY ToolCallsAssumption DEF ToolCallsAssumption, AllFields
<1>3. \A p \in Codes : ProjectKey(p) \in Keys
  BY DEF ProjectKey, Keys
<1>4. \A k \in Keys : k.code \in Codes
  BY DEF Keys
<1>5. \A d, codes : RowsOf(d, codes) \subseteq Keys
  BY DEF RowsOf
<1>6. \A x \in CellSet, f \in AllFields \cup {AnyField} :
          x.field \in AllFields \cup {AnyField} /\ Cell(x.key, f) \in CellSet
  BY DEF Cell, CellSet
<1> QED BY <1>1, <1>2, <1>3, <1>4, <1>5, <1>6

LEMMA ScopeIsTyped == CallsHeld => visible_project_ids \subseteq Codes
BY DEF CallsHeld, visible_project_ids, Projects

LEMMA InitHeld == Init => CallsHeld
<1> SUFFICES ASSUME Init PROVE CallsHeld
  OBVIOUS
<1>1. Held(NewCall)
  BY DEF Held, NewCall, CallPlaces, Early
<1>2. \A c \in Calls : call[c] = NewCall
  BY DEF Init, CallInit
<1>3. scope \subseteq Codes /\ grants \subseteq GrantSet /\ edits \in 0 .. MaxEdits
  BY ToolCallsAssumption DEF ToolCallsAssumption, Init, CallInit
<1>4. logged \subseteq Calls /\ DOMAIN events \subseteq Calls
  BY DEF Init, CallInit
<1> QED BY <1>1, <1>2, <1>3, <1>4 DEF CallsHeld

LEMMA OpenHeld == ASSUME HInv, NEW c \in Calls, NEW q \in Requests, Open(c, q) PROVE CallsHeld'
<1> DEFINE place == CASE Refusal(q) = "none"             -> FirstRead(q.tool, q.text)
                      [] Refusal(q) = "tool_not_exposed" -> "returned"
                      [] OTHER                           -> "logging"
           r == [NewCall EXCEPT !.at = place, !.request = q, !.error = Refusal(q)]
<1>1. call' = [call EXCEPT ![c] = r] /\ UNCHANGED <<scope, grants, edits, logged, events>>
  BY DEF Open, policyVars
<1>2. place \in CallPlaces
  BY DEF FirstRead, CallPlaces, Early
<1> HIDE DEF place
<1>3. Held(r)
  BY <1>2 DEF Held, NewCall
<1>4. \A o \in Calls : Held(call'[o])
  BY <1>1, <1>3 DEF HInv, CallsHeld, TInv
<1> QED BY <1>1, <1>4 DEF HInv, CallsHeld, Held

LEMMA LookupHeld == ASSUME HInv, NEW c \in Calls, Lookup(c) PROVE CallsHeld'
<1>1. CASE Step(c, [at |-> "scope", error |-> "not_found"])
  <2>1. Held([at |-> "scope", error |-> "not_found"])
    BY DEF Held, CallPlaces, Early
  <2> QED BY <1>1, <2>1, StepHeld DEF NewCall
<1>2. ASSUME NEW p \in lookup_project(call[c].request.text), Step(c, [at |-> "visible", project |-> p])
      PROVE  CallsHeld'
  <2>1. Held([at |-> "visible", project |-> p])
    BY LookupFindsProjects DEF Held, CallPlaces, Early
  <2> QED BY <1>2, <2>1, StepHeld DEF NewCall
<1> QED BY <1>1, <1>2 DEF Lookup

LEMMA FailHeld == ASSUME HInv, NEW c \in Calls, NEW error, Fail(c, error) PROVE CallsHeld'
<1>1. Held([at |-> "logging", error |-> error])
  BY DEF Held, CallPlaces
<1> QED BY <1>1, StepHeld DEF Fail, NewCall

LEMMA AnswerHeld ==
    ASSUME HInv, NEW c \in Calls, NEW place \in CallPlaces, NEW cells, cells \subseteq CellSet,
           Answer(c, place, cells)
    PROVE  CallsHeld'
<1>1. Held([at |-> place, cells |-> cells])
  BY DEF Held
<1> QED BY <1>1, StepHeld DEF Answer, NewCall

LEMMA ReadContractHeld == ASSUME HInv, NEW c \in Calls, ReadContract(c) PROVE CallsHeld'
<1>1. ASSUME NEW k \in contract_row(call[c].request.text),
             Step(c, [at |-> "visible", row |-> k, project |-> k.code])
      PROVE  CallsHeld'
  <2>1. k \in Keys
    BY DEF contract_row, RowsOf
  <2>2. Held([at |-> "visible", row |-> k, project |-> k.code])
    BY <2>1, CellsAreTyped DEF Held, CallPlaces, Early
  <2> QED BY <1>1, <2>2, StepHeld DEF NewCall
<1> QED BY <1>1, FailHeld DEF ReadContract

LEMMA CheckVisibleHeld == ASSUME HInv, NEW c \in Calls, CheckVisible(c) PROVE CallsHeld'
<1> DEFINE p == call[c].project
           cells == {Cell(ProjectKey(p), f) : f \in Identity["project"]}
<1>1. CASE Answer(c, "logging", cells)
  <2>1. p \in Codes
    BY DEF HInv, TInv, Told, Known, CheckVisible
  <2>2. "project" \in Domains /\ "logging" \in CallPlaces
    BY DEF Domains, CallPlaces
  <2>3. cells \subseteq CellSet
    BY <2>1, <2>2, CellsAreTyped
  <2> HIDE DEF cells
  <2> QED BY <1>1, <2>2, <2>3, AnswerHeld
<1>2. CASE Step(c, [at |-> "grants"])
  <2>1. Held([at |-> "grants"])
    BY DEF Held, CallPlaces, Early
  <2> QED BY <1>2, <2>1, StepHeld DEF NewCall
<1> QED BY <1>1, <1>2, FailHeld DEF CheckVisible

\* The fields a call asks for, once they were validated
LEMMA FieldsAreTyped ==
    ASSUME HInv, NEW c \in Calls, call[c].at \in Early \ {"idle"}
    PROVE  LET q == call[c].request
           IN  /\ q.domain \in Domains /\ q.fields \subseteq AllFields
               /\ Shown(q) \subseteq AllFields /\ Governed(q) \subseteq AllFields
<1>1. call[c].request \in Requests /\ call[c].request.fields \subseteq Fields[call[c].request.domain]
  BY DEF HInv, TInv, Told, Known
<1>2. call[c].request.domain \in Domains
  BY <1>1, RequestsAssumption DEF RequestsAssumption
<1> QED BY <1>1, <1>2, CellsAreTyped DEF Shown, Governed

LEMMA CheckGrantsHeld == ASSUME HInv, NEW c \in Calls, CheckGrants(c) PROVE CallsHeld'
<1> DEFINE q      == call[c].request
           denied == Governed(q) \ authorize_fields(q.domain, call[c].project, Governed(q))
           key    == IF q.domain = "project" THEN ProjectKey(call[c].project) ELSE call[c].row
           cells  == {Cell(key, f) : f \in Shown(q)}
<1>1. /\ Shown(q) \subseteq AllFields /\ Governed(q) \subseteq AllFields
      /\ call[c].project \in Codes /\ call[c].row \in Keys \cup {Nothing}
  <2>1. call[c].at = "grants"
    BY DEF CheckGrants
  <2>2. call[c].at \in Early \ {"idle"}
    BY <2>1 DEF Early
  <2>3. call[c].project \in Codes /\ call[c].row \in Keys \cup {Nothing}
    BY <2>1 DEF HInv, TInv, Told, Known
  <2> QED BY <2>2, <2>3, FieldsAreTyped
<1>2. CASE Step(c, [at |-> "disclosing", error |-> "field_access_denied", denied |-> denied])
  <2>1. Held([at |-> "disclosing", error |-> "field_access_denied", denied |-> denied])
    BY <1>1 DEF Held, CallPlaces
  <2> HIDE DEF denied
  <2> QED BY <1>2, <2>1, StepHeld DEF NewCall
<1>3. CASE key # Nothing /\ Answer(c, "disclosing", cells)
  <2>1. key \in Keys
    BY <1>1, <1>3, CellsAreTyped
  <2>2. cells \subseteq CellSet /\ "disclosing" \in CallPlaces
    <3> HIDE DEF key
    <3> QED BY <1>1, <2>1, CellsAreTyped DEF CallPlaces
  <2> HIDE DEF cells
  <2> QED BY <1>3, <2>2, AnswerHeld
<1>4. CASE Step(c, [at |-> "rows"])
  <2>1. Held([at |-> "rows"])
    BY DEF Held, CallPlaces, Early
  <2> QED BY <1>4, <2>1, StepHeld DEF NewCall
<1> QED BY <1>2, <1>3, <1>4 DEF CheckGrants

LEMMA ReadRowsHeld == ASSUME HInv, NEW c \in Calls, ReadRows(c) PROVE CallsHeld'
<1> DEFINE q == call[c].request
           found == RowsOf(q.domain, {call[c].project})
           cells == {Cell(k, f) : k \in found, f \in Shown(q)}
<1>1. Shown(q) \subseteq AllFields
  BY FieldsAreTyped DEF ReadRows, Early
<1>2. found \subseteq Keys
  BY CellsAreTyped
<1>3. cells \subseteq CellSet /\ "logging" \in CallPlaces
  <2> HIDE DEF found
  <2> QED BY <1>1, <1>2, CellsAreTyped DEF CallPlaces
<1>4. Answer(c, "logging", cells)
  BY DEF ReadRows
<1> HIDE DEF cells
<1> QED BY <1>3, <1>4, AnswerHeld

LEMMA ReadScopeHeld == ASSUME HInv, NEW c \in Calls, ReadScope(c) PROVE CallsHeld'
<1>1. PICK place \in {"describing", "listing"} : Step(c, [at |-> place, ids |-> visible_project_ids])
  BY DEF ReadScope
<1>2. Held([at |-> place, ids |-> visible_project_ids])
  BY ScopeIsTyped DEF HInv, Held, CallPlaces, Early
<1> QED BY <1>1, <1>2, StepHeld DEF NewCall

LEMMA DisclosuresAreTyped ==
    ASSUME NEW cells, cells \subseteq CellSet
    PROVE  Allowed(cells) \subseteq DisclosureSet /\ Refused(cells) \subseteq DisclosureSet
<1>1. \A x \in cells : [allowed |-> TRUE, cell |-> x] \in DisclosureSet
  BY DEF DisclosureSet
<1>2. \A x \in cells : [allowed |-> FALSE, cell |-> x] \in DisclosureSet
  BY DEF DisclosureSet
<1> QED BY <1>1, <1>2 DEF Allowed, Refused

LEMMA ReadListingHeld == ASSUME HInv, NEW c \in Calls, ReadListing(c) PROVE CallsHeld'
<1> DEFINE q     == call[c].request
           named == q.tool = "list_open_risks" /\ q.text # Nothing
           among == IF named THEN call[c].ids \cap {q.text} ELSE call[c].ids
           found == RowsOf(q.domain, among)
           cells == {Cell(k, f) : k \in found, f \in Fields[q.domain]}
           rowCells == UNION {Disclosed(k) : k \in found}
<1>1. q.domain \in Domains
  BY FieldsAreTyped DEF ReadListing, Early
<1>2. found \subseteq Keys
  BY CellsAreTyped
<1>3. CASE q.text \in Projects
           /\ Step(c, [at |-> "logging", error |-> "access_denied",
                       disclosures |-> Refused(Disclosed(ProjectKey(q.text)))])
  <2>1. q.text \in Codes
    BY <1>3 DEF Projects
  <2>2. Disclosed(ProjectKey(q.text)) \subseteq CellSet
    BY <2>1, CellsAreTyped DEF Disclosed
  <2>3. Held([at |-> "logging", error |-> "access_denied",
              disclosures |-> Refused(Disclosed(ProjectKey(q.text)))])
    BY <2>2, DisclosuresAreTyped DEF Held, CallPlaces
  <2> QED BY <1>3, <2>3, StepHeld DEF NewCall
<1>4. CASE Step(c, [at |-> "logging", cells |-> cells, disclosures |-> Allowed(rowCells)])
  <2>1. cells \subseteq CellSet /\ rowCells \subseteq CellSet
    <3> HIDE DEF found
    <3> QED BY <1>1, <1>2, CellsAreTyped DEF Disclosed
  <2> HIDE DEF cells, rowCells
  <2>2. Held([at |-> "logging", cells |-> cells, disclosures |-> Allowed(rowCells)])
    BY <2>1, DisclosuresAreTyped DEF Held, CallPlaces
  <2> QED BY <1>4, <2>2, StepHeld DEF NewCall
<1> QED BY <1>3, <1>4 DEF ReadListing

LEMMA ReadAccessHeld == ASSUME HInv, NEW c \in Calls, ReadAccess(c) PROVE CallsHeld'
<1>1. PICK access : Step(c, [at |-> "logging", access |-> access])
  BY DEF ReadAccess
<1>2. Held([at |-> "logging", access |-> access])
  BY DEF Held, CallPlaces
<1> QED BY <1>1, <1>2, StepHeld DEF NewCall

LEMMA GraphHeld == ASSUME HInv, NEW c \in Calls, Graph(c) PROVE CallsHeld'
<1> DEFINE q == call[c].request
           keys == {k \in Keys : k.entity = EntityOf[q.domain]}
<1>1. q.domain \in Domains /\ q.fields \subseteq AllFields /\ Identity[q.domain] \subseteq AllFields
  BY FieldsAreTyped, CellsAreTyped DEF Graph, Early
<1>2. ASSUME NEW found \in SUBSET keys, NEW fields \in {q.fields, q.fields \cup Identity[q.domain]},
             Answer(c, "disclosing", CellsOf(found, fields))
      PROVE  CallsHeld'
  <2> DEFINE cells == CellsOf(found, fields)
  <2>1. found \subseteq Keys /\ fields \subseteq AllFields
    BY <1>1
  <2>2. cells \subseteq CellSet /\ "disclosing" \in CallPlaces
    BY <2>1, CellsAreTyped DEF CallPlaces, CellsOf
  <2>3. Answer(c, "disclosing", cells)
    BY <1>2
  <2> HIDE DEF cells
  <2> QED BY <2>2, <2>3, AnswerHeld
<1>3. ASSUME NEW denied \in SUBSET q.fields,
             Step(c, [at |-> "logging", error |-> "return_field_access_denied", denied |-> denied])
      PROVE  CallsHeld'
  <2>1. Held([at |-> "logging", error |-> "return_field_access_denied", denied |-> denied])
    BY <1>1 DEF Held, CallPlaces
  <2> QED BY <1>3, <2>1, StepHeld DEF NewCall
<1> QED BY <1>2, <1>3, FailHeld, GraphEnds

\* Where disclosures are filed
KeySet == [entity : {"projects"} \cup Children, code : Codes, ext : Exts \cup {Itself}]

LEMMA GraphRowsAreTyped == \A cells : GraphRows(cells) \subseteq KeySet
<1>1. \A p \in Projects : p \in Codes /\ ProjectKey(p) \in KeySet
  BY DEF Projects, ProjectKey, KeySet
<1> QED BY <1>1 DEF GraphRows

LEMMA NamedIsTyped ==
    ASSUME NEW c, call[c].cells \subseteq CellSet, NEW keys, keys \subseteq KeySet
    PROVE  UNION {Named(c, k) : k \in keys} \subseteq CellSet
<1>1. \A k \in KeySet, f \in AllFields \cup {AnyField} : Cell(k, f) \in CellSet
  BY DEF Cell, CellSet, KeySet
<1>2. ASSUME NEW k \in keys PROVE Named(c, k) \subseteq CellSet
  <2>1. \A x \in call[c].cells : Cell(k, x.field) \in CellSet
    BY <1>1 DEF CellSet
  <2>2. Cell(k, AnyField) \in CellSet
    BY <1>1
  <2> QED BY <2>1, <2>2 DEF Named
<1> QED BY <1>2

LEMMA DiscloseHeld == ASSUME HInv, NEW c \in Calls, Disclose(c) PROVE CallsHeld'
<1> DEFINE r == call[c]
           denied == r.denied
           keys == IF r.request.tool \in GraphTools THEN GraphRows(r.cells) ELSE Filed(r.request)
           refused == {Cell(k, f) : k \in keys, f \in denied}
           given == UNION {Named(c, k) : k \in keys}
<1>1. Held(r) /\ DOMAIN r = DOMAIN NewCall
  BY DEF HInv, CallsHeld, TInv, Told, Known
<1>2. denied \subseteq AllFields /\ r.cells \subseteq CellSet /\ r.request \in Requests
  <2>1. r.request \in Requests
    BY DEF HInv, IInv, Sound, Disclose
  <2> QED BY <1>1, <2>1 DEF Held, NewCall
<1>3. r.request.domain \in Domains
  BY <1>2, RequestsAssumption DEF RequestsAssumption
<1>4. keys \subseteq KeySet
  <2>1. Keys \subseteq KeySet
    BY DEF Keys, KeySet
  <2>2. \A p \in Codes, d \in Domains : [entity |-> EntityOf[d], code |-> p, ext |-> Itself] \in KeySet
    BY DEF EntityOf, Domains, Children, KeySet
  <2>3. Filed(r.request) \subseteq KeySet
    <3>1. \A t : contract_row(t) \subseteq Keys
      BY DEF contract_row, RowsOf
    <3>2. \A p \in lookup_project(r.request.text) : p \in Codes
      BY LookupFindsProjects
    <3> QED BY <1>3, <2>1, <2>2, <3>1, <3>2, CellsAreTyped DEF Filed
  <2> QED BY <2>3, GraphRowsAreTyped
<1> HIDE DEF keys
<1>5. \A k \in KeySet, f \in AllFields \cup {AnyField} : Cell(k, f) \in CellSet
  BY DEF Cell, CellSet, KeySet
<1>6. refused \subseteq CellSet
  BY <1>2, <1>4, <1>5
<1>7. given \subseteq CellSet
  BY <1>2, <1>4, NamedIsTyped
<1> DEFINE disclosures == IF denied # {} THEN Refused(refused) ELSE Allowed(given)
<1>8. Step(c, [at |-> "logging", disclosures |-> disclosures])
  BY DEF Disclose, keys
<1> HIDE DEF refused, given
<1>9. disclosures \subseteq DisclosureSet
  BY <1>6, <1>7, DisclosuresAreTyped
<1> HIDE DEF disclosures
<1>10. Held([at |-> "logging", disclosures |-> disclosures])
  BY <1>9 DEF Held, CallPlaces
<1> QED BY <1>8, <1>10, StepHeld DEF NewCall

LEMMA DatabaseErrorHeld == ASSUME HInv, NEW c \in Calls, DatabaseError(c) PROVE CallsHeld'
<1>1. PICK filed \in DisclosedSoFar(c) :
          Step(c, [at |-> "logging", error |-> "database_error", cells |-> {}, access |-> << >>,
                   denied |-> {}, disclosures |-> filed])
  BY DEF DatabaseError
<1>2. call[c].cells \subseteq CellSet
  BY DEF HInv, CallsHeld, TInv, Told, Known, Held, NewCall
<1>3. ASSUME NEW keys \in SUBSET GraphRows(call[c].cells)
      PROVE  Allowed(UNION {Named(c, k) : k \in keys}) \subseteq DisclosureSet
  <2>1. keys \subseteq KeySet
    BY GraphRowsAreTyped
  <2>2. UNION {Named(c, k) : k \in keys} \subseteq CellSet
    BY <1>2, <2>1, NamedIsTyped
  <2> QED BY <2>2, DisclosuresAreTyped
<1>4. filed \subseteq DisclosureSet
  BY <1>3 DEF DisclosedSoFar
<1> DEFINE changes == [at |-> "logging", error |-> "database_error", cells |-> {}, access |-> << >>,
                       denied |-> {}, disclosures |-> filed]
<1>5. Held(changes)
  BY <1>4 DEF Held, CallPlaces
<1>6. DOMAIN changes \subseteq DOMAIN NewCall
  BY DEF NewCall
<1>7. Step(c, changes)
  BY <1>1
<1> HIDE DEF changes
<1> QED BY <1>5, <1>6, <1>7, StepHeld

LEMMA AuditHeld == ASSUME HInv, NEW c \in Calls, AuditFile(c) \/ AuditDatabase(c) PROVE CallsHeld'
<1>1. /\ UNCHANGED policyVars /\ logged' \subseteq logged \cup {c} /\ DOMAIN events' \subseteq DOMAIN events \cup {c}
  BY DEF AuditFile, AuditDatabase
<1>2. DOMAIN call = Calls /\ DOMAIN call[c] = DOMAIN NewCall /\ Held(call[c])
  BY DEF HInv, TInv, Told, Known, CallsHeld
<1>3. PICK place \in {"recording", "returned", "crashed"} :
          \/ call' = [call EXCEPT ![c] = [call[c] EXCEPT !.at = place]]
          \/ call' = [call EXCEPT ![c] = [call[c] EXCEPT !.at = place, !.cells = {}, !.access = << >>]]
  BY <1>2 DEF AuditFile, AuditDatabase
<1>4. /\ Held([call[c] EXCEPT !.at = place])
      /\ Held([call[c] EXCEPT !.at = place, !.cells = {}, !.access = << >>])
  BY <1>2 DEF Held, NewCall, CallPlaces
<1>5. \A o \in Calls : Held(call'[o])
  BY <1>2, <1>3, <1>4 DEF HInv, CallsHeld
<1> QED BY <1>1, <1>5 DEF HInv, CallsHeld, Held, policyVars

LEMMA EditPolicyHeld == ASSUME HInv, EditPolicy PROVE CallsHeld'
<1>1. \A c \in Calls : Held(call'[c])
  BY DEF EditPolicy, HInv, CallsHeld
<1>2. scope' \subseteq Codes /\ grants' \subseteq GrantSet
  BY ToolCallsAssumption DEF ToolCallsAssumption, EditPolicy, HInv, CallsHeld
<1>3. edits' \in 0 .. MaxEdits /\ UNCHANGED <<logged, events>>
  BY ToolCallsAssumption DEF ToolCallsAssumption, EditPolicy, HInv, CallsHeld
<1> QED BY <1>1, <1>2, <1>3 DEF HInv, CallsHeld, Held

LEMMA NextHeld == HInv /\ [Next]_vars => CallsHeld'
<1> SUFFICES ASSUME HInv, [Next]_vars PROVE CallsHeld'
  OBVIOUS
<1>1. CASE UNCHANGED <<policyVars, call, logged, events>>
  <2>1. \A c \in Calls : Held(call'[c])
    BY <1>1 DEF HInv, CallsHeld
  <2> QED BY <1>1, <2>1 DEF HInv, CallsHeld, Held, policyVars
<1>2. CASE EditPolicy
  BY <1>2, EditPolicyHeld
<1>3. ASSUME NEW c \in Calls, ToolCall(c) PROVE CallsHeld'
  BY <1>3, OpenHeld, LookupHeld, ReadContractHeld, CheckVisibleHeld, CheckGrantsHeld, ReadRowsHeld,
     ReadScopeHeld, ReadListingHeld, ReadAccessHeld, GraphHeld, DiscloseHeld, DatabaseErrorHeld,
     AuditHeld DEF ToolCall
<1>4. ASSUME NEW i \in Imports, ImportStep(i) PROVE UNCHANGED <<policyVars, call, logged, events>>
  BY <1>4 DEF ImportStep
<1> QED BY <1>1, <1>2, <1>3, <1>4 DEF Next, CallStep, CallNext, vars, callVars

\* The calls leave the imports alone, and so what was proved of imports side by side
\* holds of them between the calls.
LEMMA ImportsGoOn == [Next]_vars => [ImportNext]_<<rows, importVars>>
<1> SUFFICES ASSUME [Next]_vars PROVE [ImportNext]_<<rows, importVars>>
  OBVIOUS
<1>1. CASE CallStep
  <2>1. ASSUME NEW c \in Calls, ToolCall(c) PROVE UNCHANGED rows
    <3>1. \A changes : Step(c, changes) => UNCHANGED rows
      BY DEF Step
    <3>2. (\A error : Fail(c, error) => UNCHANGED rows)
          /\ \A place, cells : Answer(c, place, cells) => UNCHANGED rows
      BY <3>1 DEF Fail, Answer
    <3>3. CASE Lookup(c)
      BY <3>1, <3>2, <3>3, Zenon DEF Lookup
    <3>4. CASE ReadContract(c)
      BY <3>1, <3>2, <3>4, Zenon DEF ReadContract
    <3>5. CASE CheckVisible(c)
      BY <3>1, <3>2, <3>5 DEF CheckVisible
    <3>6. CASE CheckGrants(c)
      BY <3>1, <3>2, <3>6 DEF CheckGrants
    <3>7. CASE ReadRows(c)
      BY <3>1, <3>2, <3>7 DEF ReadRows
    <3>8. CASE ReadScope(c) \/ ReadListing(c) \/ ReadAccess(c) \/ Graph(c)
      <4>1. CASE Graph(c)
        BY <2>1, <3>1, <3>2, <4>1, GraphEnds
      <4> QED BY <3>1, <3>2, <3>8, <4>1 DEF ReadScope, ReadListing, ReadAccess
    <3>9. CASE Disclose(c) \/ DatabaseError(c)
      <4>1. CASE DatabaseError(c)
        BY <3>1, <4>1, Zenon DEF DatabaseError
      <4> QED BY <3>1, <3>9, <4>1 DEF Disclose
    <3>10. CASE (\E q \in Requests : Open(c, q)) \/ AuditFile(c) \/ AuditDatabase(c)
      BY <3>10 DEF Open, AuditFile, AuditDatabase
    <3> QED BY <2>1, <3>3, <3>4, <3>5, <3>6, <3>7, <3>8, <3>9, <3>10 DEF ToolCall
  <2> QED BY <1>1, <2>1 DEF CallStep, CallNext, EditPolicy
<1>2. CASE \E i \in Imports : ImportStep(i)
  BY <1>2 DEF ImportStep, ImportNext
<1> QED BY <1>1, <1>2 DEF Next, vars

\* The rows, the imports and the calls keep to their types: a call holds rows,
\* projects and fields of the data only, and so do the disclosures it files.
THEOREM DataIsTyped ==
    Init /\ RowsTypeOK /\ ChildrenHaveProjects /\ [][Next]_vars => []TypeOK
<1>1. Init => ImportInit
  BY DEF Init
<1>2. HInv => CallTypeOK
  <2> SUFFICES ASSUME HInv PROVE CallTypeOK
    OBVIOUS
  <2>1. DOMAIN call = Calls
    BY DEF HInv, TInv
  <2>2. ASSUME NEW c \in Calls
        PROVE  /\ call[c].at \in {"idle", "lookup", "contract", "scope", "visible", "grants", "rows",
                                  "listing", "describing", "graph", "disclosing", "logging",
                                  "recording", "returned", "crashed"}
               /\ call[c].request \in Requests \cup {Nothing}
               /\ call[c].project \in Codes \cup {Nothing}
               /\ call[c].row \in Keys \cup {Nothing}
               /\ call[c].ids \subseteq Codes
               /\ call[c].denied \subseteq AllFields
               /\ call[c].cells \subseteq CellSet
               /\ call[c].disclosures \subseteq [allowed : BOOLEAN, cell : CellSet]
    <3>1. Held(call[c]) /\ DOMAIN call[c] = DOMAIN NewCall
      BY DEF HInv, CallsHeld, TInv, Told, Known
    <3> QED BY <3>1 DEF Held, NewCall, CallPlaces, Early, DisclosureSet
  <2>3. ASSUME NEW c \in Calls, call[c].at \in {"visible", "grants", "rows"} PROVE call[c].project \in Codes
    BY <2>3 DEF HInv, IInv, Sound
  <2> QED BY <2>1, <2>2, <2>3 DEF HInv, CallsHeld, CallTypeOK
<1>3. ReportInv => ImportTypeOK
  BY ReportTyped
<1>4. Init => HInv
  BY InitInv, InitTold, InitHeld DEF HInv
<1>5. HInv /\ [Next]_vars => HInv'
  BY NextInv, NextTold, NextHeld DEF HInv
<1> QED BY InitReport, NextReport, ImportsGoOn, <1>1, <1>2, <1>3, <1>4, <1>5, PTL DEF TypeOK
=============================================================================
