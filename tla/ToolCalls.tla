----------------------------- MODULE ToolCalls -----------------------------
(***************************************************************************)
(* call_tool (tools.py) for the tools that read the bundled project data:  *)
(* each reads the project, the requester's scope, the grants and the rows  *)
(* in statements of their own over an autocommit connection, while imports *)
(* commit rows and administrators commit policy; then the disclosures are  *)
(* worked out, some by looking the record up again, and the call is        *)
(* audited, in a file first and in the database after it.                  *)
(*                                                                         *)
(* The requester is one user, of a role fixed at authentication.  scope    *)
(* and grants are that user's, held directly or through groups:            *)
(* GovernanceStore has the commits that change them.                       *)
(***************************************************************************)
EXTENDS ProjectRows

CONSTANTS
    Calls,          \* threads that serve a tool call
    Requests,       \* [tool, rationale, text, domain, fields]
    Nothing,        \* no request, project or row
    Role,           \* "unrestricted", "admin", "scoped" (business, legal) or "other"
    Fields,         \* [Domains -> sets of fields]
    Identity,       \* [Domains -> the fields a row goes by]
    Resembles,      \* pairs <<text, name>>: embedded and fuzzy matches
    AccessQuestions, \* texts that ask which projects and fields are open
    AnyProject, AnyField,
    GrantPool,      \* grants an administrator may create
    Exposed,        \* tools the endpoint serves
    MaxEdits        \* bound: policy commits

Domains == {"project", "contract", "license", "risk"}
EntityOf ==
    [project |-> "projects", contract |-> "contracts", license |-> "licenses", risk |-> "risks"]
AllFields == UNION {Fields[d] : d \in Domains}
GrantSet == [domain : Domains, project : Codes \cup {AnyProject}, field : AllFields \cup {AnyField}]

ASSUME ToolCallsAssumption ==
    /\ GrantPool \subseteq GrantSet
    /\ Role \in {"unrestricted", "admin", "scoped", "other"}
    /\ AnyProject \notin Codes /\ AnyField \notin AllFields
    /\ \A d \in Domains : Identity[d] \subseteq Fields[d] /\ Fields[d] # {}
    /\ Nothing \notin Requests /\ Nothing \notin Codes /\ Nothing \notin Keys
    /\ MaxEdits \in Nat

\* A tool asks for one kind of row; a graph for any
DomainOf ==
    [get_project_fields     |-> "project",  resolve_project        |-> "project",
     list_projects          |-> "project",  get_contract_fields    |-> "contract",
     list_project_contracts |-> "contract", list_project_licenses  |-> "license",
     list_expiring_licenses |-> "license",  list_open_risks        |-> "risk"]
GraphTools == {"agent_query", "structured_query"}

ASSUME RequestsAssumption ==
    \A q \in Requests :
        /\ q.domain \in Domains
        /\ q.tool \in DOMAIN DomainOf => q.domain = DomainOf[q.tool]

VARIABLES
    scope,   \* project_access of the requester
    grants,  \* effective read grants of the requester
    edits,   \* bound
    call,    \* what each call holds: NewCall and the record below
    logged,  \* calls with a line in the audit file
    events,  \* calls with a row in audit_events: their audit_disclosures
    seen,    \* history: what was open to the requester at some moment of the call
    calm     \* history: nothing was committed during the call

policyVars == <<scope, grants, edits>>
historyVars == <<seen, calm>>
callVars == <<policyVars, call, logged, events, historyVars>>

\* What an answer or a disclosure names: a cell of a row or, by AnyField, the row
Cell(key, field) == [key |-> key, field |-> field]
\* A refusal of a child's fields names no child: the key's ext is Itself then
CellSet ==
    [key   : [entity : {"projects"} \cup Children, code : Codes, ext : Exts \cup {Itself}],
     field : AllFields \cup {AnyField}]
CellsOf(keys, fields) == {Cell(k, f) : k \in keys, f \in fields}
Allowed(cells) == {[allowed |-> TRUE, cell |-> x] : x \in cells}
Refused(cells) == {[allowed |-> FALSE, cell |-> x] : x \in cells}

NewCall ==
    [at          |-> "idle",
     request     |-> Nothing,
     project     |-> Nothing,   \* the project found
     row         |-> Nothing,   \* the contract row read
     ids         |-> {},        \* the visible projects read
     error       |-> "none",
     denied      |-> {},        \* details.denied_fields
     access      |-> << >>,     \* details.access, or the answer of describe_my_access
     cells       |-> {},        \* the answer
     disclosures |-> {}]

CallTypeOK ==
    /\ scope \subseteq Codes /\ grants \subseteq GrantSet /\ edits \in 0 .. MaxEdits
    /\ DOMAIN call = Calls /\ logged \subseteq Calls /\ DOMAIN events \subseteq Calls
    /\ \A c \in Calls :
        /\ call[c].at \in {"idle", "lookup", "contract", "scope", "visible", "grants", "rows",
                           "listing", "describing", "graph", "disclosing", "logging", "recording",
                           "returned", "crashed"}
        /\ call[c].request \in Requests \cup {Nothing}
        /\ call[c].project \in Codes \cup {Nothing}
        /\ call[c].at \in {"visible", "grants", "rows"} => call[c].project \in Codes
        /\ call[c].row \in Keys \cup {Nothing}
        /\ call[c].ids \subseteq Codes
        /\ call[c].denied \subseteq AllFields
        /\ call[c].cells \subseteq CellSet
        /\ call[c].disclosures \subseteq [allowed : BOOLEAN, cell : CellSet]

CallInit ==
    /\ scope \in SUBSET Codes
    /\ grants \in SUBSET GrantPool
    /\ edits = 0
    /\ call = [c \in Calls |-> NewCall]
    /\ logged = {}
    /\ events = << >>
    /\ seen = [c \in Calls |-> {}]
    /\ calm = [c \in Calls |-> TRUE]

-----------------------------------------------------------------------------
\* Reads

Projects == {c \in Codes : Exists(c)}
RowsOf(domain, codes) ==
    {k \in Keys : k.entity = EntityOf[domain] /\ k.code \in codes /\ rows[k] # Absent}

\* lookup_project: by code, alias, name, then an embedded or similar name.  Of
\* several it takes none, and the tools answer as if there were none.
lookup_project(text) ==
    LET Named == {c \in Projects : NameOf(c) = text}
        Alike == {c \in Projects : <<text, NameOf(c)>> \in Resembles}
        Found == IF text \in Projects THEN {text}
                 ELSE IF text \in DOMAIN AliasOf /\ AliasOf[text] \in Projects THEN {AliasOf[text]}
                 ELSE IF Named # {} THEN Named ELSE Alike
    IN  {c \in Found : Found = {c}}

\* The number may be that of contracts of several projects: fetchone takes one
contract_row(text) ==
    LET Found == {k \in RowsOf("contract", Codes) : k.ext = text}
    IN  IF Found = {} THEN {} ELSE {CHOOSE k \in Found : TRUE}

can_query_content == Role # "other"

visible_project_ids ==
    CASE Role \in {"unrestricted", "admin"} -> Projects
      [] Role = "scoped"                    -> scope
      [] OTHER                              -> {}

GrantedFields(domain, code) ==
    {f \in Fields[domain] :
        \E g \in grants : /\ g.domain = domain
                          /\ g.project \in {code, AnyProject}
                          /\ g.field \in {f, AnyField}}

authorize_fields(domain, code, fields) ==
    IF Role \in {"unrestricted", "admin"} THEN fields ELSE fields \cap GrantedFields(domain, code)

\* Mutant: a grant of a whole domain lists no field
allowed_fields_literal(domain, code) ==
    IF Role = "unrestricted" \/ grants = {} THEN Fields[domain]
    ELSE {f \in GrantedFields(domain, code) : \E g \in grants : g.field = f}

\* _allowed_fields_by_domain: every field for a requester who holds no grant at all
allowed_fields(domain, code) ==
    IF Role = "unrestricted" \/ grants = {} THEN Fields[domain] ELSE GrantedFields(domain, code)

\* All that is open to the requester now: projects, and fields of them
OpenNow ==
    {<<"record", p, AnyField>> : p \in visible_project_ids}
    \cup {x \in Domains \X Codes \X AllFields :
               x[3] \in authorize_fields(x[1], x[2], Fields[x[1]])}

WasVisible(c, p) == <<"record", p, AnyField>> \in seen[c]
WasGranted(c, d, p, f) == <<d, p, f>> \in seen[c]

Underway(c) == call[c].at \notin {"idle", "returned", "crashed"}

\* A commit seen by the calls under way
Witness ==
    /\ seen' = [c \in Calls |-> IF Underway(c) THEN seen[c] \cup OpenNow' ELSE seen[c]]
    /\ calm' = [c \in Calls |-> calm[c] /\ ~Underway(c)]

-----------------------------------------------------------------------------
\* Steps of a call

Updated(r, changes) == [x \in DOMAIN r |-> IF x \in DOMAIN changes THEN changes[x] ELSE r[x]]

Step(c, changes) ==
    /\ call' = [call EXCEPT ![c] = Updated(@, changes)]
    /\ UNCHANGED <<rows, policyVars, logged, events, historyVars>>

Answer(c, place, cells) == Step(c, [at |-> place, cells |-> cells])
Fail(c, error) == Step(c, [at |-> "logging", error |-> error])

Listings == {"list_projects", "list_open_risks", "list_expiring_licenses"}

\* The place of the first read of a tool.  agent_write, plan_query, the retired
\* tool and unknown ones read nothing.
FirstRead(tool, text) ==
    CASE tool = "resolve_project" /\ text \in AccessQuestions -> "scope"
      [] tool \in {"get_project_fields", "resolve_project", "list_project_contracts",
                   "list_project_licenses"}                 -> "lookup"
      [] tool = "get_contract_fields"                       -> "contract"
      [] tool \in {"describe_my_access", "list_projects", "list_open_risks",
                   "list_expiring_licenses"}                -> "scope"
      [] tool \in GraphTools                                -> "graph"
      [] OTHER                                              -> "logging"

\* Tools that are asked for fields by name, at least one
FieldTools ==
    {"get_project_fields", "get_contract_fields", "list_project_contracts", "list_project_licenses"}

\* handle_message, the guards of call_tool and the checks of the arguments, in this order
Refusal(q) ==
    IF q.tool \notin Exposed THEN "tool_not_exposed"
    ELSE IF ~q.rationale THEN "missing_rationale"
    ELSE IF q.tool # "describe_my_access" /\ ~can_query_content THEN "access_denied"
    ELSE IF q.tool \in FieldTools /\ q.fields = {} THEN "validation_error"
    ELSE IF ~(q.fields \subseteq Fields[q.domain]) THEN "validation_error"
    ELSE "none"

Open(c, q) ==
    LET place == CASE Refusal(q) = "none"             -> FirstRead(q.tool, q.text)
                   [] Refusal(q) = "tool_not_exposed" -> "returned"
                   [] OTHER                           -> "logging"
    IN  /\ call[c].at = "idle"
        /\ call' = [call EXCEPT ![c] = [NewCall EXCEPT !.at = place, !.request = q, !.error = Refusal(q)]]
        /\ seen' = [seen EXCEPT ![c] = OpenNow]
        /\ UNCHANGED <<rows, policyVars, logged, events, calm>>

\* Mutant: of several candidates none is taken, but the call goes on
LookupOrAmbiguous(c) ==
    /\ call[c].at = "lookup"
    /\ LET found == lookup_project(call[c].request.text)
       IN  Step(c, [at      |-> "visible",
                    project |-> IF found = {} THEN Nothing ELSE CHOOSE p \in found : TRUE])

Lookup(c) ==
    /\ call[c].at = "lookup"
    /\ LET found == lookup_project(call[c].request.text)
       IN  \/ found = {} /\ Step(c, [at |-> "scope", error |-> "not_found"])
           \/ \E p \in found : Step(c, [at |-> "visible", project |-> p])

\* get_contract_fields reads the row before it asks whether it may
ReadContract(c) ==
    /\ call[c].at = "contract"
    /\ LET found == contract_row(call[c].request.text)
       IN  \/ found = {} /\ Fail(c, "not_found")
           \/ \E k \in found : Step(c, [at |-> "visible", row |-> k, project |-> k.code])

\* project_is_visible.  resolve_project answers here, with the row of its lookup.
CheckVisible(c) ==
    /\ call[c].at = "visible"
    /\ LET p == call[c].project
       IN  CASE p \notin visible_project_ids -> Fail(c, "access_denied")
             [] p \in visible_project_ids /\ call[c].request.tool = "resolve_project" ->
                    Answer(c, "logging", {Cell(ProjectKey(p), f) : f \in Identity["project"]})
             [] OTHER -> Step(c, [at |-> "grants"])

\* The fields a contract or a license goes by need no grant, and are always
\* answered; those of a project need one
Governed(q) == IF q.domain = "project" THEN q.fields ELSE q.fields \ Identity[q.domain]
Shown(q) == IF q.domain = "project" THEN q.fields ELSE q.fields \cup Identity[q.domain]

CheckGrants(c) ==
    /\ call[c].at = "grants"
    /\ LET q      == call[c].request
           denied == Governed(q) \ authorize_fields(q.domain, call[c].project, Governed(q))
           key    == IF q.domain = "project" THEN ProjectKey(call[c].project) ELSE call[c].row
       IN  CASE denied # {} ->
                    Step(c, [at |-> "disclosing", error |-> "field_access_denied", denied |-> denied])
             [] denied = {} /\ key # Nothing ->
                    Answer(c, "disclosing", {Cell(key, f) : f \in Shown(q)})
             [] OTHER -> Step(c, [at |-> "rows"])

\* Mutant: the rows are those of the project the text names by then
ReadRowsByName(c) ==
    /\ call[c].at = "rows"
    /\ LET q == call[c].request
       IN  Answer(c, "logging",
                  {Cell(k, f) : k \in RowsOf(q.domain, lookup_project(q.text)), f \in Shown(q)})

\* list_project_contracts and list_project_licenses
ReadRows(c) ==
    /\ call[c].at = "rows"
    /\ LET q == call[c].request
       IN  Answer(c, "logging",
                  {Cell(k, f) : k \in RowsOf(q.domain, {call[c].project}), f \in Shown(q)})

\* The first read of the listings, of describe_my_access, which resolve_project may
\* turn out to be, and of the summary appended to "project not found"
ReadScope(c) ==
    /\ call[c].at = "scope"
    /\ Step(c, [at  |-> IF call[c].request.tool \in Listings THEN "listing" ELSE "describing",
                ids |-> visible_project_ids])

\* list_projects, list_open_risks and list_expiring_licenses answer whole rows.
\* A list of risks may name a project by its code.
Disclosed(key) == {Cell(key, AnyField)}

ReadListing(c) ==
    /\ call[c].at = "listing"
    /\ LET q     == call[c].request
           named == q.tool = "list_open_risks" /\ q.text # Nothing
           among == IF named THEN call[c].ids \cap {q.text} ELSE call[c].ids
           found == RowsOf(q.domain, among)
       IN  IF named /\ Role # "unrestricted" /\ q.text \in Projects \ call[c].ids
           THEN Step(c, [at          |-> "logging", error |-> "access_denied",
                         disclosures |-> Refused(Disclosed(ProjectKey(q.text)))])
           ELSE Step(c, [at          |-> "logging",
                         cells       |-> {Cell(k, f) : k \in found, f \in Fields[q.domain]},
                         disclosures |-> Allowed(UNION {Disclosed(k) : k \in found})])

\* build_access_summary
ReadAccess(c) ==
    /\ call[c].at = "describing"
    /\ Step(c, [at     |-> "logging",
                access |-> [p \in call[c].ids \cap Projects |->
                               [d \in Domains \ {"risk"} |-> allowed_fields(d, p)]]])

\* agent_query and structured_query: AgentTurn says what they answer.  Here it is any
\* rows of the domain, those a connector has beside the bundled ones included, by the
\* fields asked for and maybe those a row goes by; or an error.  The fields denied in
\* a graph are not those of a field_access_denied.
Graph(c) ==
    /\ call[c].at = "graph"
    /\ LET q    == call[c].request
           keys == {k \in Keys : k.entity = EntityOf[q.domain]}
       IN  \/ \E found \in SUBSET keys, fields \in {q.fields, q.fields \cup Identity[q.domain]} :
                 Answer(c, "disclosing", CellsOf(found, fields))
           \/ \E denied \in SUBSET q.fields :
                 Step(c, [at |-> "logging", error |-> "return_field_access_denied", denied |-> denied])
           \/ Fail(c, "connector_unavailable")

-----------------------------------------------------------------------------
\* Disclosures and the audit

\* Where the disclosures of a field tool are filed: the row is looked up again
Filed(q) ==
    CASE q.tool = "get_contract_fields" -> contract_row(q.text)
      [] q.tool = "get_project_fields"  -> {ProjectKey(p) : p \in lookup_project(q.text)}
      [] OTHER -> {[entity |-> EntityOf[q.domain], code |-> p, ext |-> Itself] :
                       p \in lookup_project(q.text)}

\* Mutant: the row itself is not listed, only its fields
NamedFieldsOnly(c, key) ==
    {Cell(key, x.field) : x \in {y \in call[c].cells : y.field \notin Identity[call[c].request.domain]}}

\* A row, and its fields but for those it goes by
Named(c, key) ==
    {Cell(key, AnyField)}
    \cup {Cell(key, x.field) : x \in {y \in call[c].cells : y.field \notin Identity[call[c].request.domain]}}

\* _append_graph_result_disclosures: of what a graph answers, the projects that are
\* named by a project_code there is
GraphRows(cells) ==
    {ProjectKey(p) : p \in {p \in Projects : Cell(ProjectKey(p), "project_code") \in cells}}

Disclose(c) ==
    /\ call[c].at = "disclosing"
    /\ LET q      == call[c].request
           denied == call[c].denied
           keys   == IF q.tool \in GraphTools THEN GraphRows(call[c].cells) ELSE Filed(q)
       IN  Step(c, [at          |-> "logging",
                    disclosures |-> IF denied # {}
                                    THEN Refused({Cell(k, f) : k \in keys, f \in denied})
                                    ELSE Allowed(UNION {Named(c, k) : k \in keys})])

\* The rows of a graph are disclosed one by one: those before the error stay
DisclosedSoFar(c) ==
    IF call[c].at = "disclosing" /\ call[c].request.tool \in GraphTools
    THEN {Allowed(UNION {Named(c, k) : k \in keys}) : keys \in SUBSET GraphRows(call[c].cells)}
    ELSE {{}}

\* sqlite3.Error in any of the reads: an answer already worked out is dropped
DatabaseError(c) ==
    /\ Underway(c) /\ call[c].at \notin {"logging", "recording"}
    /\ \E filed \in DisclosedSoFar(c) :
         Step(c, [at |-> "logging", error |-> "database_error", cells |-> {}, access |-> << >>,
                  denied |-> {}, disclosures |-> filed])

\* write_audit_record; an OSError leaves call_tool
AuditFile(c) ==
    /\ call[c].at = "logging"
    /\ \/ /\ logged' = logged \cup {c}
          /\ call' = [call EXCEPT ![c].at = "recording"]
       \/ /\ call' = [call EXCEPT ![c].at = "crashed", ![c].cells = {}, ![c].access = << >>]
          /\ UNCHANGED logged
    /\ UNCHANGED <<rows, policyVars, events, historyVars>>

\* _audit_database: an error is printed, and the answer goes out all the same
AuditDatabase(c) ==
    /\ call[c].at = "recording"
    /\ call' = [call EXCEPT ![c].at = "returned"]
    /\ \/ events' = [o \in DOMAIN events \cup {c} |->
                          IF o = c THEN call[c].disclosures ELSE events[o]]
       \/ UNCHANGED events
    /\ UNCHANGED <<rows, policyVars, logged, historyVars>>

\* An administrator's commit that the requester's reads can tell
EditPolicy ==
    /\ edits < MaxEdits
    /\ edits' = edits + 1
    /\ \/ \E p \in Codes : /\ scope' = IF p \in scope THEN scope \ {p} ELSE scope \cup {p}
                           /\ UNCHANGED grants
       \/ \E g \in GrantPool : /\ grants' = IF g \in grants THEN grants \ {g} ELSE grants \cup {g}
                               /\ UNCHANGED scope
    /\ Witness
    /\ UNCHANGED <<rows, call, logged, events>>

ToolCall(c) ==
    \/ \E q \in Requests : Open(c, q)
    \/ Lookup(c) \/ ReadContract(c) \/ CheckVisible(c) \/ CheckGrants(c) \/ ReadRows(c)
    \/ ReadScope(c) \/ ReadListing(c) \/ ReadAccess(c) \/ Graph(c)
    \/ Disclose(c) \/ DatabaseError(c) \/ AuditFile(c) \/ AuditDatabase(c)

CallNext == EditPolicy \/ \E c \in Calls : ToolCall(c)

-----------------------------------------------------------------------------
ProjectListings == {"list_project_contracts", "list_project_licenses"}

\* However imports rename projects and administrators withdraw scope between the
\* reads of a call, it answers only rows of projects that were visible to the
\* requester at some moment of it and, but for the fields a row goes by and the
\* three listings that ask for no grant, only fields granted at some moment.
\* What a graph answers is not read here: AgentTurn has it.
AnsweredWithinScope ==
    \A c \in Calls : \A x \in call[c].cells :
        LET q == call[c].request
        IN  q.tool \notin GraphTools =>
                /\ WasVisible(c, x.key.code)
                /\ \/ q.tool \in Listings
                   \/ x.field \in Identity[q.domain]
                   \/ WasGranted(c, q.domain, x.key.code, x.field)

\* An answer that goes out has its line in the audit file, whatever became of the
\* database; and if the database took the event and nothing was committed during
\* the call, its disclosures are the rows and fields that were answered or
\* refused, although they come of a second look at the data.  The two tools whose
\* answers carry no ids, and resolve_project, are left out.  Of a graph's answer the
\* disclosures are the bundled projects it names by their code, and of an error in
\* the midst of them no refusal; the fields a graph refuses are filed nowhere.
AuditAccountsForAnswers ==
    \A c \in Calls :
        LET q       == call[c].request
            given   == {d.cell : d \in {d \in call[c].disclosures : d.allowed}}
            refused == {d.cell : d \in {d \in call[c].disclosures : ~d.allowed}}
        IN  /\ call[c].at = "returned" /\ (call[c].cells # {} \/ call[c].access # << >>) => c \in logged
            /\ (call[c].at = "recording" /\ calm[c]
                /\ q.tool \notin ProjectListings \cup GraphTools \cup {"resolve_project"}) =>
                   /\ {x.key : x \in given} = {x.key : x \in call[c].cells}
                   /\ q.tool \notin Listings =>
                          {x \in given : x.field # AnyField}
                              = {x \in call[c].cells : x.field \notin Identity[q.domain]}
                   /\ call[c].error = "field_access_denied" =>
                          /\ {x.field : x \in refused} = call[c].denied
                          /\ {x.key.code : x \in refused} = {call[c].project}
            /\ (call[c].at = "recording" /\ calm[c] /\ q.tool \in GraphTools) =>
                   /\ refused = {}
                   /\ call[c].error # "database_error" =>
                          {x.key : x \in given} = GraphRows(call[c].cells)
            /\ c \in DOMAIN events => c \in logged /\ events[c] = call[c].disclosures

\* describe_my_access and the summary sent with "project not found" are worked out
\* by another function than the one that decides.  For a requester with record
\* scope and at least one grant both agree, unless something was committed meanwhile.
CalmSummaryIsTrue ==
    \A c \in Calls :
        (call[c].at = "logging" /\ call[c].access # << >> /\ calm[c]
         /\ Role = "scoped" /\ grants # {}) =>
            /\ DOMAIN call[c].access = visible_project_ids \cap Projects
            /\ \A p \in DOMAIN call[c].access, d \in Domains \ {"risk"} :
                   call[c].access[p][d] = authorize_fields(d, p, Fields[d])

\* README: "Audit every allow, deny, and disclosure (who asked what, which plan ran,
\* which fields and records were returned, from which source)", asked of answers that
\* hold bundled rows and fields only which the requester's scope and grants open.
EveryDisclosureAudited ==
    \A c \in Calls :
        LET q         == call[c].request
            Opened(x) == /\ rows[x.key] # Absent /\ WasVisible(c, x.key.code)
                         /\ \/ x.field \in Identity[q.domain]
                            \/ WasGranted(c, q.domain, x.key.code, x.field)
        IN  (/\ call[c].at = "returned" /\ c \in DOMAIN events
             /\ \A x \in call[c].cells : Opened(x)) =>
                \A x \in call[c].cells : \E d \in events[c] : d.allowed /\ d.cell.key = x.key
=============================================================================
