----------------------------- MODULE AgentTurn -----------------------------
(***************************************************************************)
(* Query turns of the gateway: from an authenticated request, through the  *)
(* nodes of agent_graph.py and the retrieval paths it dispatches to, to    *)
(* the answer, while administrators commit to the governance database.     *)
(*                                                                         *)
(* A step is the code between two reads of shared state: the database, a   *)
(* data source, the model.  Each node of the graph opens a connection of   *)
(* its own, so what one step read may be stale in the next.  A row's       *)
(* values, a question's words and an answer's layout are abstracted: a row *)
(* is a name with the scope columns the gateway looks at.                  *)
(***************************************************************************)
EXTENDS GovernanceStore

CONSTANTS
    Turns,             \* requests
    Conversations,     \* thread_ids clients use
    NoConversation,    \* the fresh id of a request that names no thread
    Rows,              \* records the data sources may hold
    RowProject,        \* a row's governed project, AnyProject when it has none
    RowOwner,          \* the user a row's owner column names
    RowCompany,        \* the company a seal belongs to, NoCompany for other rows
    NoCompany,
    SourceRows,        \* the rows each source may hold
    Local,             \* sqlite_demo, the bundled SQLite source
    NoSource,
    Serves,            \* the domains each source declares
    Rank,              \* order of declaration, the SQLite base first
    Scope,             \* the record_scope a connector declares for a domain
    DirectScope,       \* the scope search_tools applies to a SQLite domain
    CrossDomain,       \* the cross_domain pseudo-domain
    HasSubject,        \* users whose owner attribute is set
    PlanPool,          \* the plans a client or the model may submit
    NoPlan,
    FastPlans,         \* those the fast path answers a question with
    Guess,             \* an identity value the planner guessed
    NoMemory,
    PageLimit,         \* bound: the limit of a plan
    MaxPlanAttempts,   \* MAX_PLAN_ATTEMPTS
    BusyReads          \* whether a read of source state may time out on a lock

BaseSources == Sources \ (RuntimeSources \cup {Local})   \* declared in the YAML file

ScopeModes == {"none", "by_governed_code", "by_owner", "by_company"}

\* A QueryPlan: the cells its filters and return fields put to the field gate,
\* the rows its filters match, the rows the rescue's wider identity filter
\* matches, and whether it is a lone identity equality.
Plan == [domain  : Domains,
         cells   : SUBSET Cell,
         matches : SUBSET Rows,
         wider   : SUBSET Rows,
         lone    : BOOLEAN,
         pin     : Sources \cup {NoSource}]

ASSUME TurnAssumption ==
    /\ Local \in Sources \ RuntimeSources
    /\ NoSource \notin Sources
    /\ NoConversation \notin Conversations
    /\ RowProject \in [Rows -> Projects \cup {AnyProject}]
    /\ RowOwner \in [Rows -> Users \cup {NoUser}]
    /\ RowCompany \in [Rows -> Companies \cup {NoCompany}]
    /\ NoCompany \notin Companies
    /\ SourceRows \in [Sources -> SUBSET Rows]
    /\ Serves \in [Sources -> SUBSET Domains]
    /\ Rank \in [Sources -> Nat]
    /\ \A r, s \in Sources : Rank[r] = Rank[s] => r = s
    /\ Scope \in [Sources -> [Domains -> ScopeModes]]
    /\ DirectScope \in [Domains -> {"by_governed_code", "by_company"}]
    /\ CrossDomain \in Domains
    /\ HasSubject \subseteq Users
    /\ PlanPool \subseteq Plan
    /\ NoPlan \notin PlanPool
    /\ FastPlans \subseteq PlanPool
    /\ Guess \notin Rows
    /\ PageLimit \in Nat
    /\ MaxPlanAttempts \in Nat \ {0}
    /\ BusyReads \in BOOLEAN

ResultKinds == {"none", "rows", "choice", "guidance", "error"}
Result == [kind   : ResultKinds,
           rows   : SUBSET Rows,
           from   : Sources \cup {NoSource},
           choice : SUBSET Sources]

NoResult       == [kind |-> "none", rows |-> {}, from |-> NoSource, choice |-> {}]
ErrorResult    == [NoResult EXCEPT !.kind = "error"]
Guidance       == [NoResult EXCEPT !.kind = "guidance"]
RowsOf(rs, s)  == [kind |-> "rows", rows |-> rs, from |-> s, choice |-> {}]
ChoiceOf(ss)   == [NoResult EXCEPT !.kind = "choice", !.choice = ss]

\* _result_is_empty: a pending source choice is an answer.
IsEmpty(res) == res.kind = "rows" /\ res.rows = {}

Memory == [turn : Turns, kind : {"entity", "choice"}, entity : SUBSET (Rows \cup {Guess})]

Stages == {"idle", "admitted", "routed", "planning", "planned", "valid",
           "cataloged", "authorized", "gate", "scope", "fetch", "rescue",
           "settled", "remembered", "audit", "answered", "dropped"}

VARIABLES
    stage,    \* where each turn is
    request,  \* its identity, conversation, routing snapshot, context and plan
    job,      \* the planner's and the dispatch's local variables
    result,   \* tool_result, or the graph's error
    failed,   \* turns whose call_tool caught a database error
    memory,   \* the latest agent_turn_context row of each conversation
    witness   \* history: what the policy allowed the turn since its dispatch opened

turnVars == <<stage, request, job, result, failed, memory, witness>>
vars == <<governanceVars, turnVars>>

Request == [ctx     : Context,
            conv    : Conversations \cup {NoConversation},
            routes  : SUBSET Sources,
            context : Memory \cup {NoMemory},
            plan    : PlanPool \cup {NoPlan}]

Job == [attempt : 1 .. MaxPlanAttempts,
        retried : BOOLEAN,
        pending : SUBSET Sources,
        primary : Sources \cup {NoSource},
        at      : Sources \cup {NoSource},
        scoped  : SUBSET Rows,
        hits    : SUBSET [source : Sources, rows : SUBSET Rows]]

Witness == [projects  : SUBSET Projects,
            held      : SUBSET Projects,
            companies : SUBSET Companies,
            cells     : SUBSET (Cell \X (Projects \cup {AnyProject})),
            joined    : SUBSET Projects,
            sources   : SUBSET Sources]

TurnTypeOK ==
    /\ stage \in [Turns -> Stages]
    /\ request \in [Turns -> Request]
    /\ job \in [Turns -> Job]
    /\ result \in [Turns -> Result]
    /\ failed \subseteq Turns
    /\ memory \in [Conversations -> Memory \cup {NoMemory}]
    /\ witness \in [Turns -> Witness]

TypeOK == GovernanceTypeOK /\ TurnTypeOK

Blank == [attempt |-> 1, retried |-> FALSE, pending |-> {}, primary |-> NoSource,
          at |-> NoSource, scoped |-> {}, hits |-> {}]

Nobody == [user |-> NoUser, role |-> "legal", unrestricted |-> FALSE]

Init ==
    /\ GovernanceInit
    /\ stage = [t \in Turns |-> "idle"]
    /\ request = [t \in Turns |-> [ctx |-> Nobody, conv |-> NoConversation,
                                   routes |-> {}, context |-> NoMemory,
                                   plan |-> NoPlan]]
    /\ job = [t \in Turns |-> Blank]
    /\ result = [t \in Turns |-> NoResult]
    /\ failed = {}
    /\ memory = [c \in Conversations |-> NoMemory]
    /\ witness = [t \in Turns |-> [projects |-> {}, held |-> {}, companies |-> {},
                                   cells |-> {}, joined |-> {}, sources |-> {}]]

-----------------------------------------------------------------------------
(* Routing: the merged table of effective_connector_setup. *)

ctxOf(t)  == request[t].ctx
planOf(t) == request[t].plan

\* Domains a connector declares, which leave the direct SQLite path.
ConnectorDomains(routes) == UNION {Serves[s] : s \in routes}

\* sources_for: the declared sources of a domain; SQLite keeps its place in
\* front unless the YAML file claims the domain.
SourcesFor(routes, d) ==
    {s \in routes : d \in Serves[s]}
      \cup {s \in {Local} : d \in Serves[Local]
                            /\ d \notin ConnectorDomains(BaseSources)}

Leads(s, set) == s \in set /\ \A r \in set : Rank[s] <= Rank[r]

\* _catalog_for_database: the domains whose primary source is connected.
\* cross_domain is added to every catalog.
LiveDomains(routes, off) ==
    {d \in Domains : \E s \in Sources \ off : Leads(s, SourcesFor(routes, d))}
      \cup {CrossDomain}

\* disabled_data_sources: a read that fails is taken for "none disabled".
DisabledViews == {disabled} \cup (IF BusyReads THEN {{}} ELSE {})

ByConnector(t) == planOf(t).domain \in ConnectorDomains(request[t].routes)

\* The record scope that source s applies to the turn's domain.
Mode(t, s) ==
    IF ByConnector(t) THEN Scope[s][planOf(t).domain] ELSE DirectScope[planOf(t).domain]

\* Whether a context is told "no records" before any source is asked: no visible
\* code, no owner attribute, no visible company.
Barred(c, mode) ==
    \/ mode = "by_governed_code" /\ ~c.unrestricted /\ VisibleProjects(c) = {}
    \/ mode = "by_owner" /\ c.user \notin HasSubject
    \/ mode = "by_company" /\ ~c.unrestricted /\ VisibleCompanies(c) = {}

\* The rows a context is scoped to: _record_scope_codes, record_owner_subject,
\* _visible_company_filter.
ScopeRows(c, mode) ==
    {r \in Rows :
        \/ mode = "none"
        \/ mode = "by_governed_code"
             /\ (c.unrestricted \/ RowProject[r] \in VisibleProjects(c))
        \/ mode = "by_owner" /\ c.user \in HasSubject /\ RowOwner[r] = c.user
        \/ mode = "by_company"
             /\ (c.unrestricted \/ RowCompany[r] \in VisibleCompanies(c))}

-----------------------------------------------------------------------------
(* History: what the policy has shown a turn since its dispatch opened. *)

GrantedCells(t) ==
    {x \in Cell \X (Projects \cup {AnyProject}) :
        x[1] \in planOf(t).cells /\ Granted(ctxOf(t), x[1], x[2])}

\* The window opens when a dispatch does; the sources are followed from the
\* authorization's catalog on, the last to drop disconnected domains.
OpenWindow(t) ==
    witness' = [witness EXCEPT ![t] =
        [projects  |-> VisibleProjects(ctxOf(t)),
         held      |-> VisibleProjects(ctxOf(t)),
         companies |-> VisibleCompanies(ctxOf(t)),
         cells     |-> GrantedCells(t),
         joined    |-> {},
         sources   |-> @.sources]]

Watched == {"cataloged", "authorized", "gate", "scope", "fetch", "rescue"}

Watch(t) ==
    [projects  |-> witness[t].projects \cup VisibleProjects(ctxOf(t))',
     held      |-> witness[t].held \cap VisibleProjects(ctxOf(t))',
     companies |-> witness[t].companies \cup VisibleCompanies(ctxOf(t))',
     cells     |-> witness[t].cells \cup GrantedCells(t)',
     joined    |-> witness[t].joined
                     \cup (VisibleProjects(ctxOf(t))' \ VisibleProjects(ctxOf(t))),
     sources   |-> witness[t].sources \cup (Sources \ disabled')]

\* Bound: administrators are followed while some turn may still read what they
\* write.
Reading(t) == stage[t] \notin {"remembered", "audit", "answered", "dropped"}

\* One administrator commit, seen by every turn whose window is open.
Administer ==
    /\ \E t \in Turns : Reading(t)
    /\ GovernanceNext
    /\ UNCHANGED <<stage, request, job, result, failed, memory>>
    /\ witness' = [t \in Turns |-> IF stage[t] \in Watched THEN Watch(t) ELSE witness[t]]

-----------------------------------------------------------------------------
(* Admission and planning. *)

Goto(t, s) == stage' = [stage EXCEPT ![t] = s]
Work(t, j) == job' = [job EXCEPT ![t] = j]

\* An error or a clarification ends the plan; the graph goes on to its last nodes.
SettleWith(t, res) == result' = [result EXCEPT ![t] = res] /\ Goto(t, "settled")

\* The identity a request resolves to: an active user with a live key, or the
\* local operator.
Authenticated ==
    {[user |-> u, role |-> role[u], unrestricted |-> FALSE] : u \in enabled \cap keyed}
      \cup {[user |-> NoUser, role |-> "admin", unrestricted |-> TRUE]}

\* do_POST and the guards of call_tool.
Open(t, c, conv) ==
    /\ stage[t] = "idle"
    /\ request' = [request EXCEPT ![t].ctx = c, ![t].conv = conv]
    /\ IF CanQueryContent(c)
         THEN Goto(t, "admitted") /\ UNCHANGED result
         ELSE Goto(t, "audit") /\ result' = [result EXCEPT ![t] = ErrorResult]
    /\ UNCHANGED <<governanceVars, job, failed, memory, witness>>

\* effective_connector_setup: the YAML sources and some committed registry; a
\* cached or interleaved read need not be the latest one.
Route(t) ==
    /\ stage[t] = "admitted"
    /\ \E active \in published \cup (IF BusyReads THEN {{}} ELSE {}) :
          request' = [request EXCEPT ![t].routes = BaseSources \cup active]
    /\ Goto(t, "routed")
    /\ UNCHANGED <<governanceVars, job, result, failed, memory, witness>>

\* load_context: by conversation id; a read that fails counts as no context.
LoadContext(t) ==
    /\ stage[t] = "routed"
    /\ \E found \in {memory[c] : c \in Conversations \cap {request[t].conv}} \cup {NoMemory} :
          request' = [request EXCEPT ![t].context = found]
    /\ Goto(t, "planning")
    /\ UNCHANGED <<governanceVars, job, result, failed, memory, witness>>

\* A structured query, which runs on a thread of its own, or a fast-path plan:
\* no model, no catalog, no pin.
SubmitPlan(t, p) ==
    /\ stage[t] = "planning"
    /\ job[t].attempt = 1
    /\ p \in FastPlans \/ request[t].conv = NoConversation
    /\ p.pin = NoSource
    /\ request' = [request EXCEPT ![t].plan = p]
    /\ Goto(t, "planned")
    /\ UNCHANGED <<governanceVars, job, result, failed, memory, witness>>

\* The model's plan is in the catalog it was shown; the planner's count of
\* attempts ends with it.
ModelSelects(t, p) ==
    /\ stage[t] = "planning"
    /\ \E off \in DisabledViews : p.domain \in LiveDomains(request[t].routes, off)
    /\ request' = [request EXCEPT ![t].plan = p]
    /\ Work(t, [job[t] EXCEPT !.attempt = 1])
    /\ Goto(t, "planned")
    /\ UNCHANGED <<governanceVars, result, failed, memory, witness>>

\* Mutant: the attempt bound is off by one.
ModelRejectedOnceMore(t) ==
    /\ stage[t] = "planning"
    /\ IF job[t].attempt <= MaxPlanAttempts
         THEN /\ Work(t, [job[t] EXCEPT !.attempt = job[t].attempt + 1])
              /\ UNCHANGED <<stage, result>>
         ELSE SettleWith(t, Guidance) /\ UNCHANGED job
    /\ UNCHANGED <<governanceVars, request, failed, memory, witness>>

\* The model's answer is unusable for a retryable reason: ask again, up to the
\* bound, then ask the user to narrow the question.
ModelRejected(t) ==
    /\ stage[t] = "planning"
    /\ IF job[t].attempt < MaxPlanAttempts
         THEN /\ Work(t, [job[t] EXCEPT !.attempt = job[t].attempt + 1])
              /\ UNCHANGED <<stage, result>>
         ELSE SettleWith(t, Guidance) /\ UNCHANGED job
    /\ UNCHANGED <<governanceVars, request, failed, memory, witness>>

\* Clarification, access question, rejection that is not retryable, or a model
\* backend that is off ("guidance") or unreachable ("error").
ModelDeclines(t) ==
    /\ stage[t] = "planning"
    /\ \E res \in {Guidance, ErrorResult} : SettleWith(t, res)
    /\ UNCHANGED <<governanceVars, request, job, failed, memory, witness>>

-----------------------------------------------------------------------------
(* Validation and authorization: each reads the catalog afresh. *)

Validate(t) ==
    /\ stage[t] = "planned"
    /\ \E off \in DisabledViews :
         IF planOf(t).domain \in LiveDomains(request[t].routes, off)
           THEN Goto(t, "valid") /\ UNCHANGED result
           ELSE SettleWith(t, ErrorResult)
    /\ UNCHANGED <<governanceVars, request, job, failed, memory, witness>>

\* authorize_plan reads the catalog on one connection ...
ReadCatalog(t) ==
    /\ stage[t] = "valid"
    /\ \E off \in DisabledViews :
         IF planOf(t).domain \in LiveDomains(request[t].routes, off)
           THEN /\ Goto(t, "cataloged")
                /\ witness' = [witness EXCEPT ![t].sources = Sources \ disabled]
                /\ UNCHANGED result
           ELSE SettleWith(t, ErrorResult) /\ UNCHANGED witness
    /\ UNCHANGED <<governanceVars, request, job, failed, memory>>

\* ... and the field gate on another, at the scope mode of the primary.
Authorize(t) ==
    /\ stage[t] = "cataloged"
    /\ LET d     == planOf(t).domain
           leads == {s \in Sources : Leads(s, SourcesFor(request[t].routes, d))}
           modes == IF d = CrossDomain THEN {DirectScope[d]} ELSE {Mode(t, s) : s \in leads}
       IN  IF \A mode \in modes : GatePasses(ctxOf(t), planOf(t).cells, mode)
             THEN Goto(t, "authorized") /\ UNCHANGED result
             ELSE SettleWith(t, ErrorResult)
    /\ UNCHANGED <<governanceVars, request, job, failed, memory, witness>>

-----------------------------------------------------------------------------
(* Dispatch: one execute_plan, or its rescue. *)

\* Mutants: the rescue widens a deliberate filter too; it may repeat itself.
RescuesAnyFilter(t, res) == ~job[t].retried /\ IsEmpty(res)
RescuesAgain(t, res)     == planOf(t).lone /\ IsEmpty(res)

\* The end of a dispatch.  An empty answer to a lone identity equality may be
\* tried once more; the second dispatch only replaces that empty answer by one
\* with rows or a choice.
Rescues(t, res)    == planOf(t).lone /\ ~job[t].retried /\ IsEmpty(res)
KeepsFirst(t, res) == job[t].retried /\ (res.kind = "error" \/ IsEmpty(res))

Conclude(t, res) ==
    /\ Work(t, [Blank EXCEPT !.retried = job[t].retried])
    /\ result' = [result EXCEPT ![t] = IF KeepsFirst(t, res) THEN @ ELSE res]
    /\ Goto(t, IF Rescues(t, res) THEN "rescue" ELSE "settled")

\* _domain_identity_fields reads the catalog again: a domain that left it, and
\* cross_domain, have no identity field to widen.
Rescue(t) ==
    /\ stage[t] = "rescue"
    /\ \E off \in DisabledViews :
         IF planOf(t).domain \in LiveDomains(request[t].routes, off) \ {CrossDomain}
           THEN /\ Work(t, [job[t] EXCEPT !.retried = TRUE])
                /\ Goto(t, "authorized")
           ELSE Goto(t, "settled") /\ UNCHANGED job
    /\ UNCHANGED <<governanceVars, request, result, failed, memory, witness>>

\* Mutant: a disconnected source stays a fallback.
CandidatesConnectedOrNot(t, off) ==
    IF ByConnector(t)
      THEN {s \in SourcesFor(request[t].routes, planOf(t).domain) :
               planOf(t).pin \in {s, NoSource}}
      ELSE {Local}

\* _dispatch_plan: the connected sources of the domain, or the one the plan
\* pins; the SQLite path looks at neither.
Candidates(t, off) ==
    IF ByConnector(t)
      THEN {s \in SourcesFor(request[t].routes, planOf(t).domain) :
               s \notin off /\ planOf(t).pin \in {s, NoSource}}
      ELSE {Local}

Dispatch(t) ==
    /\ stage[t] = "authorized"
    /\ \E off \in DisabledViews :
         IF Candidates(t, off) = {}
           THEN Conclude(t, ErrorResult)
           ELSE /\ Work(t, [job[t] EXCEPT !.pending = Candidates(t, off)])
                /\ Goto(t, "gate")
                /\ UNCHANGED result
    /\ OpenWindow(t)
    /\ UNCHANGED <<governanceVars, request, failed, memory>>

\* Mutant: the rows of several fallbacks are merged.
VerdictMerged(t, hits) ==
    IF hits = {}
      THEN {RowsOf({}, job[t].primary)}
      ELSE {RowsOf(UNION {x.rows : x \in hits}, h.source) : h \in hits}

\* What several fallbacks with rows, one, or none make of an empty primary.
Verdict(t, hits) ==
    IF hits = {}
      THEN {RowsOf({}, job[t].primary)}
      ELSE {RowsOf(h.rows, h.source) : h \in {x \in hits : hits = {x}}}
             \cup (IF Cardinality(hits) > 1
                     THEN {ChoiceOf({h.source : h \in hits})} ELSE {})

\* The outcome of one source: the primary's stands when it errs, has rows or
\* has no fallback; a fallback counts only when it has rows.
Absorb(t, s, res) ==
    LET rest    == job[t].pending \ {s}
        primary == job[t].primary = NoSource
        hits    == IF res.kind = "rows" /\ res.rows # {}
                     THEN job[t].hits \cup {[source |-> s, rows |-> res.rows]}
                     ELSE job[t].hits
    IN  IF primary
          THEN IF IsEmpty(res) /\ rest # {}
                 THEN /\ Work(t, [job[t] EXCEPT !.pending = rest, !.primary = s,
                                           !.at = NoSource, !.scoped = {}])
                      /\ Goto(t, "gate")
                      /\ UNCHANGED result
                 ELSE Conclude(t, res)
          ELSE IF rest # {}
                 THEN /\ Work(t, [job[t] EXCEPT !.pending = rest, !.hits = hits,
                                           !.at = NoSource, !.scoped = {}])
                      /\ Goto(t, "gate")
                      /\ UNCHANGED result
                 ELSE \E verdict \in Verdict(t, hits) : Conclude(t, verdict)

\* The field gate, checked again for each source in the order of declaration.
Gate(t) ==
    /\ stage[t] = "gate"
    /\ \E s \in job[t].pending :
         /\ Leads(s, job[t].pending)
         /\ IF GatePasses(ctxOf(t), planOf(t).cells, Mode(t, s))
              THEN /\ Work(t, [job[t] EXCEPT !.at = s])
                   /\ Goto(t, "scope")
                   /\ UNCHANGED result
              ELSE Absorb(t, s, ErrorResult)
    /\ UNCHANGED <<governanceVars, request, failed, memory, witness>>

\* The record scope, read after the gate; a barred requester's is not asked for.
ReadScope(t) ==
    /\ stage[t] = "scope"
    /\ LET s == job[t].at  mode == Mode(t, job[t].at) IN
         IF Barred(ctxOf(t), mode)
             THEN Absorb(t, s, RowsOf({}, s))
             ELSE /\ Work(t, [job[t] EXCEPT !.scoped = ScopeRows(ctxOf(t), mode)])
                  /\ Goto(t, "fetch")
                  /\ UNCHANGED result
    /\ UNCHANGED <<governanceVars, request, failed, memory, witness>>

\* Mutant: the source's page is answered as it came.
FetchedUncut(t, page) == page

\* The rows the source returns: some page of those its filters match, which the
\* gateway then cuts to the record scope.
Fetched(t, page) == page \cap job[t].scoped

Wanted(t) ==
    SourceRows[job[t].at]
      \cap (IF job[t].retried THEN planOf(t).wider ELSE planOf(t).matches)

Fetch(t) ==
    /\ stage[t] = "fetch"
    /\ \/ \E page \in SUBSET Wanted(t) :
            /\ Cardinality(page) <= PageLimit
            /\ Absorb(t, job[t].at, RowsOf(Fetched(t, page), job[t].at))
       \/ Absorb(t, job[t].at, ErrorResult)
    /\ UNCHANGED <<governanceVars, request, failed, memory, witness>>

-----------------------------------------------------------------------------
(* Answer: memory, run log, audit. *)

\* _safe_entity: the value a rescued equality guessed goes before the identity of
\* the first row, of which only the other identity fields are added.
Entities(t) ==
    IF job[t].retried THEN {{Guess}} \cup {{Guess, r} : r \in result[t].rows}
                      ELSE {{r} : r \in result[t].rows}

\* record_turn_context
Remembered(t) ==
    IF result[t].kind = "choice"
      THEN {[turn |-> t, kind |-> "choice", entity |-> {}]}
      ELSE {[turn |-> t, kind |-> "entity", entity |-> e] : e \in Entities(t)}

\* Mutant: an empty turn is remembered too.
RecordContextOfAnyTurn(t) ==
    /\ stage[t] = "settled"
    /\ \/ /\ request[t].conv \in Conversations
          /\ \E entry \in Remembered(t) :
               memory' = [memory EXCEPT ![request[t].conv] = entry]
       \/ UNCHANGED memory
    /\ Work(t, Blank)
    /\ Goto(t, "remembered")
    /\ UNCHANGED <<governanceVars, request, result, failed, witness>>

\* record_context: only a search that found something; the domain must still be
\* in the catalog for an entity; a failed write is swallowed.
RecordContext(t) ==
    /\ stage[t] = "settled"
    /\ \/ /\ request[t].conv \in Conversations
          /\ result[t].kind = "choice" \/ result[t].rows # {}
          /\ \E off \in DisabledViews :
               result[t].kind = "choice"
                 \/ planOf(t).domain \in LiveDomains(request[t].routes, off) \ {CrossDomain}
          /\ \E entry \in Remembered(t) :
               memory' = [memory EXCEPT ![request[t].conv] = entry]
       \/ UNCHANGED memory
    /\ Work(t, Blank)
    /\ Goto(t, "remembered")
    /\ UNCHANGED <<governanceVars, request, result, failed, witness>>

\* _record_agent_run, outside every handler but call_tool's.
RecordRun(t) ==
    /\ stage[t] = "remembered"
    /\ Goto(t, "audit")
    /\ UNCHANGED <<governanceVars, request, job, result, failed, memory, witness>>

\* call_tool catches a database error of any node and answers with it.
DatabaseError(t) ==
    /\ stage[t] \in Stages \ {"idle", "audit", "answered", "dropped"}
    /\ failed' = failed \cup {t}
    /\ Work(t, Blank)
    /\ Goto(t, "audit")
    /\ UNCHANGED <<governanceVars, request, result, memory, witness>>

\* _audit and the response.
Audit(t) ==
    /\ stage[t] = "audit"
    /\ Goto(t, "answered")
    /\ UNCHANGED <<governanceVars, request, job, result, failed, memory, witness>>

\* Any other exception, and a crash of the process: the request ends unanswered.
Drop(t) ==
    /\ stage[t] \in Stages \ {"idle", "answered", "dropped"}
    /\ Work(t, Blank)
    /\ Goto(t, "dropped")
    /\ UNCHANGED <<governanceVars, request, result, failed, memory, witness>>

Proceed(t) ==
    \/ Route(t)
    \/ LoadContext(t)
    \/ \E p \in PlanPool : SubmitPlan(t, p) \/ ModelSelects(t, p)
    \/ ModelRejected(t)
    \/ ModelDeclines(t)
    \/ Validate(t)
    \/ ReadCatalog(t)
    \/ Authorize(t)
    \/ Rescue(t)
    \/ Dispatch(t)
    \/ Gate(t)
    \/ ReadScope(t)
    \/ Fetch(t)
    \/ RecordContext(t)
    \/ RecordRun(t)
    \/ Audit(t)

Finished == /\ \A t \in Turns : stage[t] \in {"answered", "dropped"}
            /\ UNCHANGED vars

Next ==
    \/ Administer
    \/ \E t \in Turns :
          \/ \E c \in Authenticated, conv \in Conversations \cup {NoConversation} :
                Open(t, c, conv)
          \/ Proceed(t)
          \/ DatabaseError(t)
          \/ Drop(t)
    \/ Finished

\* The server thread that serves a request runs; the model and the sources
\* answer or time out.  No administrator and no client need ever come.
Fairness == \A t \in Turns : WF_vars(Proceed(t))

Spec == Init /\ [][Next]_vars /\ Fairness
-----------------------------------------------------------------------------
(* Properties. *)

\* Row r of source s was in the requester's record scope at some moment since
\* the dispatch opened, by the scope mode that source applies.
WasInScope(t, s, r) ==
    LET mode == Mode(t, s) IN
    \/ mode = "none"
    \/ mode = "by_governed_code"
         /\ (ctxOf(t).unrestricted \/ RowProject[r] \in witness[t].projects)
    \/ mode = "by_owner" /\ ctxOf(t).user \in HasSubject /\ RowOwner[r] = ctxOf(t).user
    \/ mode = "by_company"
         /\ (ctxOf(t).unrestricted \/ RowCompany[r] \in witness[t].companies)

\* Whatever administrators commit meanwhile, through the primary, a fallback or
\* the rescue, a turn answers only with rows that were in its requester's record
\* scope at some moment since the dispatch opened: a scope withdrawn before that
\* discloses nothing.
DisclosedRowsWereInScope ==
    \A t \in Turns : \A r \in result[t].rows : WasInScope(t, result[t].from, r)

\* What each record scope asks of the gated cells of an answered row, granted at
\* some moment since the dispatch opened.  No row scope: the global grant.  Scope
\* by project: the row's project or the global grant, unless the project became
\* visible during the dispatch, after the gate.  Scope by owner or by company,
\* whose rows have no project: every project the requester saw all the time; one
\* who sees none is asked for nothing (DefaultDeny).  Rows with allowed = 0 play
\* no part: authorize_fields does not read them.
DisclosedCellsWereGranted ==
    \A t \in Turns : \A r \in result[t].rows : \A cell \in planOf(t).cells :
        LET mode == Mode(t, result[t].from) IN
        /\ mode = "none" => <<cell, AnyProject>> \in witness[t].cells
        /\ (mode = "by_governed_code" /\ RowProject[r] \notin witness[t].joined)
             => \E p \in {RowProject[r], AnyProject} : <<cell, p>> \in witness[t].cells
        /\ mode \in {"by_owner", "by_company"} =>
              \A p \in witness[t].held : <<cell, p>> \in witness[t].cells

\* No answer and no offered choice comes from a source that was disconnected all
\* the time since the plan was authorized; cross_domain, which no source
\* declares, is excepted.
AnswersFromConnectedSources ==
    \A t \in Turns : planOf(t) # NoPlan /\ planOf(t).domain # CrossDomain =>
        /\ result[t].rows # {} => result[t].from \in witness[t].sources
        /\ result[t].choice \subseteq witness[t].sources

\* An answer never mixes provenance: its rows are all held by the source it is
\* tagged with; several sources with rows are offered as a choice of at least
\* two, without rows; and a pinned plan is answered by its source alone.
OneSourceAnswers ==
    \A t \in Turns :
        /\ result[t].rows # {} => result[t].rows \subseteq SourceRows[result[t].from]
        /\ result[t].kind = "choice" => /\ result[t].rows = {}
                                        /\ Cardinality(result[t].choice) > 1
        /\ planOf(t) # NoPlan /\ planOf(t).pin # NoSource /\ ByConnector(t) =>
              /\ result[t].rows # {} => result[t].from = planOf(t).pin
              /\ result[t].choice = {}

\* The identity rescue broadens nothing but a lone identity equality.
DeliberateFiltersHold ==
    \A t \in Turns : planOf(t) # NoPlan /\ ~planOf(t).lone =>
        result[t].rows \subseteq planOf(t).matches

\* What a conversation remembers was found by a turn of that conversation: the
\* identity of a row the turn answered with, or the value its lone equality
\* guessed, or both; or a choice it offered.  A failed, denied, empty or
\* clarifying turn leaves nothing for the next one.
MemoryComesFromAnAnswer ==
    \A c \in Conversations : memory[c] # NoMemory =>
        LET m == memory[c]  res == result[memory[c].turn] IN
        /\ request[m.turn].conv = c
        /\ m.kind = "choice" => res.kind = "choice"
        /\ m.kind = "entity" =>
              /\ res.rows # {} /\ m.entity # {}
              /\ m.entity \subseteq res.rows \cup {Guess}
              /\ Guess \in m.entity => planOf(m.turn).lone

\* Every admitted request ends: planning attempts are bounded, each source is
\* asked at most once per dispatch and a dispatch is repeated at most once.
EveryRequestEnds ==
    \A t \in Turns : (stage[t] = "admitted") ~> (stage[t] \in {"answered", "dropped"})

\* README "Default-deny: an ungranted field is refused": a gated field of an
\* answered row was granted to the requester somewhere.
DefaultDeny ==
    \A t \in Turns : \A r \in result[t].rows : \A cell \in planOf(t).cells :
        \E p \in Projects \cup {AnyProject} : <<cell, p>> \in witness[t].cells

\* load_context "already disclosed to the requester": the remembered entity the
\* planner is given was found by a turn of the same user.
ContextDisclosedToRequester ==
    \A t \in Turns : request[t].context # NoMemory =>
        request[request[t].context.turn].ctx.user = ctxOf(t).user

=============================================================================
