# A TLA+ model of Legal-MCP

Legal-MCP is a permission-aware gateway: an AI client asks a question, a server-side
model plans one constrained query, the gateway authorizes the plan against a governance
database, retrieves rows from the organisation's own sources, discloses the authorized
fields and audits the whole. This directory holds TLA+ modules of its core, TLC
configurations that check them on small instances, and TLAPS proofs for every value of
the constants. Paths below are relative to `src/src/legal_mcp/` unless they start with
`src/`.

The code has no lock and no long transaction around a request. Every node of the query
graph opens a short SQLite connection of its own, the console commits whenever an
administrator clicks, the HTTP server runs one thread per request, and one dictionary is
shared by all of them. What a query may disclose therefore depends on *when* each read
happens. That is what the model is about.

## 1. Inventory

| Component | State | Operations | Hard part | What makes it correct |
|---|---|---|---|---|
| Query turn: `agent_graph.py`, `agent_retry.py`, `agent_fast_path.py` | the graph state of one turn, rows of `agent_runs` and `agent_steps` | load context, plan (with retries), validate, authorize, dispatch, rescue, answer, record | each node reads a different state of the database; an error ends the plan but not the graph | a row leaves only if it was in scope and its fields were granted; the turn ends |
| Retrieval: `connector_retrieval.py`, `search_tools.py`, `connectors/composite.py` | none of its own | gate, scope, fetch, cut; fallback over sources | gate and scope are separate reads; sources err or are empty one by one | one source per answer, several with rows become a choice, pins hold |
| Policy: `policy.py`, `query_authorization.py` | reads `users`, `project_access`, `company_access`, `user_group_memberships`, `permission_grants` | visible projects and companies, field authorization | quantification over an empty set of projects; deny rows | default-deny, deny over allow |
| Administrator commits: `admin_operations.py`, `admin_manage.py` | the same tables | role, status, keys, groups, projects, companies, grants | they land between any two reads of a turn; one form is four transactions | a withdrawal counts from the next check on |
| Source state and runtime registry: `db.py`, `admin_data_sources.py`, `connector_config.py` | `data_source_state`, `data_sources`, the setup cache | connect, disconnect, register, enable, delete; build and cache the routing table | two reads that are not one snapshot, stamps of one second, an unlocked cache | a routing table is one whole state of the registry, and a recent one |
| Conversation memory: `conversation_context.py` | `agent_turn_context` | load the newest row of a thread, record one | turns of one thread overlap; failed turns | only what an answered turn found is remembered, for whom it was disclosed |
| Catalog: `query_catalog.py`, `query_plan.py` | none; built on every use | build, validate a plan | rebuilt up to five times in a turn from changing state | a disconnected domain is refused |
| Identity: `identity.py`, `identity_resolver.py`, `http_server.py` | `users`, `api_keys` | resolve one identity per request | several identity sources at once; revocation, disabled users, the email fallback | exactly one identity, else 401; a credential does not pass to another user |
| Tools and audit: `tools.py`, `tools_*.py`, `lookup.py`, `audit.py`, `disclosure_audit.py` | `audit_events`, `audit_disclosures`, a JSONL file | `call_tool`, field tools, listings, audit | name, visibility, grants and rows are separate reads; disclosures are worked out by a second look; a failing audit write is swallowed | answers stay within scope and grants; the audit holds what was answered |
| Schema upgrade: `db.py` | the schema, `*_legacy` tables | initialise, rebuild two tables | statements commit separately; every health check runs it | no grant is lost or copied twice |
| Import: `import_pipeline/` | project tables, the report | adapt, resolve, validate, upsert, commit | a child of an invalid project; reads before the write lock; kills and lock timeouts | all or nothing, no orphan, a truthful report, an idempotent re-import |
| Connectors: `connectors/feishu_bitable.py`, `tencent_docs.py`, `local_file.py`, `sqlite_filter.py` | token cache | translate filters, page through a table, read a file | an unlocked cache, expiry, partial pages, limits, filters a service cannot take | the first `limit` matching rows or an error; no token that is about to expire |
| Console sessions and mode: `admin_server.py`, `admin_common.py` | `admin_sessions`, `deployment_settings`, `server.mode` | start, login, check, switch mode, every form | two copies of the mode, sessions of disabled users, handlers of several transactions | no passwordless console off the loopback interface; stored mode and mode in memory agree; edits land whole or in order |
| Console pages, command line, model HTTP | none | rendering, I/O | | |

How they meet: `http_server` resolves an identity and calls `mcp_protocol`, which calls
`tools.call_tool`, which runs the query turn. The turn calls `effective_connector_setup`
once (its routing table is then a snapshot), the catalog and the policy many times, the
sources through the routing table, the memory at both ends, and the audit last. The
console shares nothing with a turn except the database file; the setup cache and the
connectors with their token are shared by all turns of a process. Imports are processes of
their own that write the project tables the tools and the bundled source read.

## 2. Modules

| Module | What it is |
|---|---|
| `GovernanceStore` | the tables a turn reads, the policy functions, one action per administrator commit |
| `AgentTurn` | extends it with the turns: one action per stretch of code between two reads of shared state |
| `MCAgentTurn` | the small deployment of the runs (six rows, four sources, seven plans) |
| `AgentTurn_proofs` | type correctness and disclosure within scope, for all constants |
| `AgentAnswers_proofs` | extends it: what answers hold, and what conversations remember, for all constants |
| `RoutingTable` | abstract: a request gets one whole published state of the registry, or the base alone |
| `RuntimeRegistry` | detailed: two reads, the fingerprint, the cache, builds, restarts, commits |
| `MCRuntimeRegistry` | the instance of its runs |
| `RuntimeRegistry_proofs` | `RuntimeRegistry` implements `RoutingTable`; its types; calm requests get the rows they read, for all constants |
| `SchemaMigration` | the upgrade of the two rebuilt tables, statement by statement, and the edits around it |
| `MCSchemaMigration` | the bounds of its runs |
| `SchemaMigration_proofs` | no row is lost by an undisturbed upgrade, a sole upgrade completes, for all constants |
| `ConnectorFilters` | what a filter means, what each connector sends or evaluates of it |
| `ReadThrough` | extends it: threads that read through the shared connectors, pages, tokens, errors |
| `MCReadThrough`, `ReadThrough_proofs` | its instance; what remote connectors and files answer, and the token cache, for all constants |
| `ProjectRows` | the project tables: keys, contents, names and aliases |
| `ImportPipeline`, `ImportPipeline_proofs` | extends it: imports, record by record up to the commit; orphans, aborts, reports and re-imports, for all constants |
| `ToolCalls` | extends `ProjectRows`: the tools as their reads, the policy of the requester, disclosures and audit |
| `ProjectData`, `MCProjectData` | composes the two over the same rows; its instance |
| `ProjectData_proofs` | tool calls answer within scope and are audited, summaries are true, for all constants |
| `ConsoleRows` | the governance tables as rows with ids, keys and constraints; every transaction on them |
| `ConsoleAccess`, `ConsoleAccess_proofs` | extends it: the console with its starts, mode, sessions and request threads; what edits, switches and deletions leave, for all constants |
| `RequestIdentity` | extends `ConsoleRows`: whom an HTTP request is answered as |
| `MCConsoleAccess` | composes the console and the requests over the same rows |

`AgentTurn` does not repeat the cache. Its action `Route` takes *some* published registry
(or, with `BusyReads`, the base alone), which is what `RoutingTable` promises and
`RuntimeRegistry` is shown to implement. In the same way its `Fetch` takes any page of
matching rows or an error, for which `ReadThrough` has the connectors in detail, and its
`Open` takes any active user, whom `RequestIdentity` picks by the request's headers.

The same tables are modelled twice where two questions need different views of them.
`GovernanceStore` has the *effect* of administrator commits, in any order and number, for
the turns; `ConsoleRows` has the rows, ids, unique keys and foreign keys, for the console.

### State and actions of `AgentTurn`

`stage[t]` is the node a turn has reached; `request[t]` holds what later nodes may only
read (identity, thread, routing snapshot, loaded context, plan); `job[t]` the local
variables of the planner loop and of one dispatch; `result[t]` the graph's `tool_result`
or error; `memory[c]` the newest `agent_turn_context` row of a conversation.
`witness[t]` is history: it changes no behaviour.

| Action | Code |
|---|---|
| `Open` | `http_server.do_POST`, the guards of `tools.call_tool` |
| `Route` | `connector_config.effective_connector_setup`, called by `_run_graph` |
| `LoadContext` | `load_context` |
| `SubmitPlan`, `ModelSelects`, `ModelRejected`, `ModelDeclines` | `run_structured_query`, `classify_intent`, `_classify_with_ai_planning` |
| `Validate`, `ReadCatalog`, `Authorize` | `validate_plan`; the two reads of `authorize_plan` |
| `Dispatch`, `Gate`, `ReadScope`, `Fetch` | `_dispatch_plan`, `_execute_connector_sources`, `execute_connector_plan` (and `search_tools` when the domain takes the direct SQLite path) |
| `Absorb`, `Verdict`, `Conclude`, `Rescue` (the first three inside the steps above) | the loop over fallbacks, the disambiguation, the rescue of `execute_plan` |
| `RecordContext`, `RecordRun`, `Audit` | `record_context`, `_record_agent_run`, `_audit` and `_audit_database` |
| `DatabaseError`, `Drop` | the `except sqlite3.Error` of `call_tool`; any other exception, or a crash |

### State and actions of `SchemaMigration`

`shape`, `rows`, `staged`, `legacy` are the two tables and their `*_legacy` copies,
`version` the row of `schema_version`; `at`, `on`, `pending` are the program counter and the
local variables of one run of `initialize_schema`. `owed`, `quiet`, `overlapped`, `failed`
and `upgraded` are history.

| Action | Code |
|---|---|
| `Begin` | `initialize_database`: a console starts, an import or command runs, `/healthz` is asked, a query server finds no file |
| `StartServer` | `startup.check_local_compatibility` |
| `CheckLegacy`, `CheckTable`, `CheckColumns`, `Rename` | the four statements of `_begin_permission_grants_rebuild` and `_begin_agent_steps_rebuild` |
| `SetVersion`, `Create`, `Index` | the statements of `schema.sql` that matter, in its order |
| `Finish` | the copies and drops of both tables, one transaction |
| `RenameFails`, `IndexFails`, `FinishFails` | a statement that raises: the run ends, an open transaction is rolled back |
| `Stop` | a crash, or a lock timeout that ends the run but not the process |
| `Insert`, `DeleteGrant` | `record_agent_step` of a turn, `_handle_create_permission` and `_handle_delete_permission` of the console |

That these statements commit one by one, and that the two copies do not, is how Python's
`sqlite3` treats DDL and `executescript`. A row is an id and an *item*; `OldItems` are those the
old shape can express. The copy drops a user grant (its `user_id` becomes null, which the
check of the table refuses and `or ignore` forgives) and replaces a turn id. The dropped
indexes of the old tables and the later audit column are left out: nothing depends on them.

### State and actions of `ReadThrough`

`token`, `tokenExpiry` are the two fields of `FeishuClient`; `pc`, `query`, `issued`, `held`
and the rows so far belong to a thread. A token *is* the time at which the service stops
taking it, so staleness needs no further state.

| Action | Code |
|---|---|
| `Refuse`, `ReadFile`, `FileFails` | the checks before a query; `LocalFileConnector.query` as a whole (no shared state), or a file that cannot be opened or parsed |
| `CallService`, `Start` | `query` of the two remote connectors up to the first request |
| `ReadCache`, `Renew`, `StoreToken`, `StampExpiry`, `TakeToken` | the statements of `_ensure_token` |
| `Page`, `TokenRejected`, `TransportFails`, `End` | one turn of the loop of `search_records` or `list_fields`; the errors of `_post` and `_check` |

The service itself is external: it takes a token until its time, gives every token the
same lifetime and does not change its rows during a call. Its pages hold any number of the
rows that are left, none included, and say that there is more, that there is not, or that
there is more without the token to ask for it; only a page with the last rows says that there
is no more. `Delay` bounds the stay of a thread between the answer to a renewal and the use
of the token.

### State and actions of `ProjectData`

`rows` are the committed project rows; `draft` is the copy of the import that holds the
write lock. SQLite opens the transaction at the first write, so what an import reads before
is whatever is committed then: `Begin`, `Resolve`, `Validate`, `Look`, `Write`, `Commit` follow
`import_file`, and `LockTimeout`, `RollBack`, `Forget`, `Kill` end one. A call's record `call[c]`
holds the locals of `call_tool`. `seen`, `calm`, `disturbed` and `latest` are history.

| Action | Code |
|---|---|
| `Open`, `FirstRead` | exposure and arguments; the guards of `call_tool` |
| `Lookup`, `ReadContract`, `CheckVisible`, `CheckGrants`, `ReadRows` | the reads of `get_project_fields`, `get_contract_fields`, `list_project_contracts`, `list_project_licenses`, `resolve_project` |
| `ReadScope`, `ReadListing`, `ReadAccess`, `Graph` | `describe_my_access` and the summary beside "project not found"; the three listings; the answer of a turn, for which any rows of the domain are taken, bundled or not, any denied fields, or an error: what a turn answers is the matter of `AgentTurn`, what the audit makes of it is modelled here |
| `Disclose`, `AuditFile`, `AuditDatabase`, `DatabaseError` | `_disclosures_from_result` and `_append_*_disclosures` (of a turn the projects named by a code, `GraphRows`); `_audit`; `_audit_database`; the handler of `sqlite3.Error`, which keeps the disclosures of a turn made before it |
| `EditPolicy` | an administrator's commit on the scope or the grants of the requester |

### State and actions of `ConsoleAccess`

`persisted` is the row of `deployment_settings`, `server.mode` the copy in the memory of the
process; `at`, `form`, `cookie`, `admin`, `held` are a request's thread. `alone`, `before` and
`overlapped` are history.

| Action | Code |
|---|---|
| `Start`, `Listen`, `Stop` | `build_admin_server` in two parts (the mode is stored before the host is looked at), a refusal, a crash or a kill |
| `Arrive`, `AdmitLocally`, `AdmitByCookie` | `do_POST` and `_current_admin` |
| `Login`, `OpenSession` | `_handle_login`; the session and, for a switch, the mode with it |
| `SwitchMode`, `ChooseAdmin`, `StorePassword`, `FindOwner`, `CreateOwner`, `RecordLocal`, `Remember` | the checks, the look-up of the account and the transactions of `_switch_to_team` and `_switch_to_local`, then the copy in memory |
| `EditUser`, `ReadLinks`, `SyncLinks` | `_handle_update_user`: the role, then read and replace per kind of link |
| `CountMembers`, `DropGroup` | `_handle_delete_group` |
| `Handle` | the handlers that are one transaction: provision, status, password, keys, links, groups, permissions |
| `Locked`, `Tick` | a lock timeout in any statement; an hour passes |

A write transaction is one step, since it takes the write lock with its first statement.
`RequestIdentity` has no state: one query decides whom a request stands for, so `Answer`
is a function of the rows committed by then.

### What is abstracted in `AgentTurn`

A row is a name with the columns the gateway itself looks at (its
project, owner and company); a filter is the set of rows it matches, and the wider set
the rescue's `identity contains` filter matches. A source answers with any page of at most
`PageLimit` matching rows, or errs, so a limit that hides rows in scope is included. The
catalog is the set of domains it offers; plans name only fields of the catalog. Two
`permission_grants` rows that differ only in their id are one grant. The field gate is one
atomic read although it is a query per project and field on one connection. The reads of
a catalog whose result is used only for wording (the guidance after an empty answer) are
left out, and so are rows of `agent_steps` and `agent_runs`, which nothing reads back.

Bounds, all named. `MaxEdits`: administrator commits of a behaviour; commits that change
nothing are not counted, and none is followed once no turn reads any more. `PageLimit`:
the limit of a plan. `MaxPlanAttempts`: the constant of
`agent_graph.py`, there 3; with two there is a first attempt and a retry, the last. `Turns`,
`Conversations` and the sets of rows, sources and plans are the instance. `MaxClock` and
`MaxCommits` bound the registry, `MaxClock` the time of `ReadThrough` and the hours of the
console, `MaxRequests` and `MaxStarts` the console, `MaxEdits` the policy of `ToolCalls`.
`MCProjectData!Bounded` is described with its run.

## 3. Runs

| Run | Instance | Question | Result |
|---|---|---|---|
| `turn_policy` | 1 turn with 2 planning attempts, 1 user and the local operator, any initial policy, 1 edit anywhere, seven plans over four scope modes, two governed projects | what can an answer hold when the policy moves under it? | holds |
| `turn_threads` | 2 turns of the local operator on one thread, the bundled source and two fallbacks registered at run time, one plan, 2 planning attempts, reads that time out, no edits | what does a thread remember, and does every request end? | holds |
| `registry_cache` | 2 names, 2 declarations, 2 requests, 2 seconds, 2 commits, failing reads, restarts | is a routing table one state of the registry, and a fresh one? | holds |
| `schema_upgrade` | a query server, a console, an import, two of them upgrading at once, any mix of old, new and missing tables with up to 2 rows, 1 stop, 1 edit | does an upgrade keep every row and complete? | holds |
| `read_through` | 2 threads, eleven sets of filters, 3 connectors, pages of 2 and 3 rows, tokens of 4 time units | are answers whole, and is the unlocked token cache honest? | holds |
| `project_data` | 2 imports of six files, 1 call of seventeen, 2 projects, 4 databases, 1 policy edit | what does an import leave and report, whose rows does a tool show, what is audited? | holds |
| `console_access` | 2 threads, 3 requests out of 20 forms, 3 databases, 2 starts, 1 hour | who gets in without a password, what do switches, edits and deletions leave, whom does a request stand for? | holds |
| `default_deny` | as `turn_policy`, no edits | README's default-deny | violated |
| `audit_disclosures` | as `project_data`, with the one tool a server exposes | README's audit of every disclosure | violated |
| `context_owner` | 2 users, one thread | is remembered context the requester's own? | violated |
| `deleted_source` | 1 declaration, 2 requests, 2 commits | is a source gone on the next request? | violated |
| `upgrade_race` | a query server and a console, no crash, 1 edit | does an upgrade preserve the data? | violated |

Why the bounds are enough. A single turn already has every pair (read, later use), and one
commit can fall between any two of them; the initial state ranges over *all* policies of
the instance, so one commit takes any policy to any of its neighbours. Turns do not share
anything but the database and the memory, so two turns matter only for memory, which
`turn_threads` checks: one guessed plan that the rescue may save, over a bundled source
and two fallbacks that both hold the row guessed. The row of one fallback alone, a choice
between the two, and a guess that the rescue saved can thus each be what a turn leaves.
The routing snapshot may lack either fallback, or both. There are two planning attempts
and reads of state may time out, so the run also says that retries and failing reads let a
request end. For the cache two names and two declarations are the least that let two
registry states share a fingerprint, and two requests the least that let one fill the
cache for another. For the upgrade, two ids let a new row take an old row's id or leave it
alone, one crash can fall before any statement, and two runs at once are the least that
overlap. `schema_upgrade` does not follow a behaviour in which both an edit came too early
and two runs have overlapped, since no property says anything of it any more.

For the connectors, two threads are the least that renew the token at once; the third
assignment order and a page after expiry both fit into `MaxClock`. In `project_data` imports
do not read the policy, so two of them are followed under one policy and without calls
(every pair of their statements then interleaves), and of an import only the commit tells on
a call, so a call is interleaved with an import about to commit: `Bounded` says both. The
initial databases are what earlier imports leave: none, one project, two with children, and
two of one name (rows need not be imported first to be read); the imports that follow one
another start from the first two, so the first finds nothing or a row to update. Two codes
and three texts let a project be renamed, take another's name, and a title look like a
project. In `console_access` three requests are the least for a switch, an edit and a
request that meets them; two starts let a mode stored by one start meet the host of another;
the databases are a new one, a team, and one whose former local owner was disabled. The two
threads are alike, hence the symmetry.

### What the passing properties say

- `DisclosedRowsWereInScope`: every answered row was in the requester's record scope at
  some moment since the dispatch opened. A scope withdrawn before that discloses nothing;
  one withdrawn between `ReadScope` and the answer may, which is as much as the code
  promises.
- `DisclosedCellsWereGranted`: the same for gated fields, as each mode of record scope asks
  it. Without a row scope: the global grant. By project: the grant of the row's project or
  the global one, except for a project that becomes visible *during* the dispatch, since the
  gate is evaluated at the projects visible before and the scope read afterwards includes
  the new one (a team may want to read the scope first). By owner or company the rows have
  no project, and the gate asks for the field in every project the requester sees: it was
  granted in each one seen throughout, and nothing is asked for a requester who sees none,
  which is finding 1. A row that denies plays no part (see the known differences).
- `AnswersFromConnectedSources`: no row and no offered choice comes from a source that was
  disconnected all the time since the plan was authorized, except through
  `cross_domain` (see the findings). It needs reads that do not fail: with `BusyReads` a
  lock timeout is taken for "none disabled" (`db.py:203`) and the property is lost.
- `OneSourceAnswers`: provenance is never mixed, choices carry no rows and at least two
  names, a pin is final.
- `DeliberateFiltersHold`: the rescue widens only a lone identity equality.
- `MemoryComesFromAnAnswer`: what a thread remembers was found by a turn of that thread.
  After a rescue the planner's guessed value takes precedence over what the row says in the
  same field (`conversation_context.py:164`), which the property admits.
- `UpgradeKeepsRows`: as long as no row is edited while an upgrade is unfinished, the rows
  owed are those of the table and its copy, with any overlap of upgrades and any crash.
  The proviso (`quiet`) is the weakest the code supports: finding 5 is what happens without.
- `SoleUpgradeCompletes`, `SoleUpgradeNeverFails`: upgrades that do not overlap are resumable.
  Two that overlap may fail on each other (a rename that finds no table, a copy that finds
  no source); the health check then answers 503 and a console does not start.
- `EveryRequestEnds`: liveness, below.
- `CalmSetupsAreFresh`: with at most one stamped commit per second, none between a
  request's two reads and no failed read, the fingerprint identifies the registry and the
  cache is invisible. `calm` is a history variable that says exactly this.
- `ImplementsRoutingTable`: without any such proviso, a setup is one whole state the
  registry has had.
- `TokenOutlivesItsExpiry`, `YoungTokensAreTaken`: token and expiry are assigned one after the
  other without a lock, so a thread may see a new token with an old expiry or the reverse. The
  error is at most the delay between statements, far below the safety margin of the code.
- `RemoteAnswersAreWhole`: an answer is the prefix of the matching rows up to the limit,
  whatever the pages. The one exception is a service that says there is more and gives no
  page token: both clients take that for the end and answer with the part they have.
- `FileAnswersMeanTheSame`: the in-memory SQL means what the services mean, except for case,
  blank dates, ranges that begin blank and relationships, which the property names.
- `CallsEnd`: liveness, below.
- `ChildrenHaveProjects`, `AbortsAreExplained`, `ReportIsTrue`, `ReimportChangesNothing`: an import
  leaves no orphan, is lost only for one of two known reasons (a child of a rejected project
  record of the same file; a row another import committed meanwhile), reports what it did, and
  changes nothing when repeated.
- `AnsweredWithinScope`: however names and policy change between the reads of a tool.
- `AuditAccountsForAnswers`: the file line precedes the answer; in a call nothing was committed
  during, the disclosures are the cells answered or refused, though a second look finds them.
  Of a turn they are the projects its answer names by their code and no refusal.
- `CalmSummaryIsTrue`: `describe_my_access` and the gate, two functions, agree for a requester
  with a grant. Without any grant the summary lists every field (`tools_access.py:71`).
- `PasswordlessIsLoopback`: nobody gets in without a password from elsewhere.
- `CalmSwitchesLand`: unless two switches overlap, the stored mode and the one in memory agree;
  a switch to team that met no other request leaves someone who can log in.
- `EditsLandInOrder`: one edit of a user is four transactions; if it ends early, a first part has
  landed and nothing else. Two overlapping edits merge, which the property leaves out.
- `NewGroupsStartEmpty`, `DeletedPermissionsGo`: what the schema's keys must hold up between
  handlers that check first and write later, and ids that SQLite gives out again.
- `CredentialsKeepTheirOwner`: whatever the console does, the same headers never stand for a
  second person. Two ways a subject may pass on are left out (`MayPassOn`): the email
  fallback, and a subject that two users were given, which the schema allows
  (`schema.sql:127` has no key on it): when the first is disabled the look-up finds the
  second. One of the run's databases has such a pair.

### Fairness

`Spec` of `AgentTurn` has weak fairness of `Proceed(t)`, the steps of a turn's own server
thread. The thread runs as long as its process does, and calls to the model and to the
sources have timeouts, so it never waits for another actor. `Spec` of `ReadThrough` has the
same for the threads that call a connector; an empty page that brings a token for the next
changes nothing there, so this includes that a service does not send such pages for ever
(the code asks again after each). No fairness is assumed of administrators, of
clients, of `DatabaseError` or of `Drop`. The other modules assume no fairness (nothing
restarts a process that failed to upgrade); in `registry_cache`, `deleted_source` and the
runs of `ReadThrough`, `ProjectData` and `ConsoleAccess` deadlock is not checked, since all
commits and requests of the bounded instance may simply be over. `AgentTurn` has an explicit
`Finished` step instead.

## 4. Findings

Each is a run that TLC must find violated; PROJECT.json quotes both sides.

1. **Default-deny has a hole for owner-scoped domains** (`query_authorization.py:180`). The
   gate quantifies over visible projects; a user with none passes it for every field, and
   a `by_owner` domain does not depend on projects for its rows.
2. **Most answers of a turn are disclosed unaudited** (`tools.py:258`). Only rows of the
   domain `project` that were answered with their code get disclosure rows; those of other
   domains get none. The records of `list_project_contracts` and `list_project_licenses`,
   which carry no id (`tools.py:542`), are a second way there, served with `internal_debug`
   only.
3. **Memory belongs to a thread id, not to a user** (`agent_graph.py:438`), contrary to
   README and the docstring.
4. **The setup cache can serve a deleted source** (`connector_config.py:342`): the rows and
   the fingerprint are two reads, and a deletion between them files the setup with the
   source under the fingerprint without it. Reading both in one transaction, and a stamp
   finer than a second (or a version counter that also counts deletions), would repair it.
5. **An upgrade can lose rows to a process that does not wait for it** (`db.py:178`). The
   version is set before the copy, so a query server starts on empty tables and its
   turns take the ids of old planning steps, which the copy then skips. A console write
   between the second of two overlapping upgrades' script and copy does the same to a
   grant, and a late rename loses every user grant. One exclusive transaction around
   `initialize_schema` would repair all of it.

Known differences without a run, each an exception that a property names or a note of a
hazard in PROJECT.json:

- a service that says there is more and gives no page token gets a part of the rows answered
  as if they were all (`connectors/feishu_bitable.py:467`, `connectors/tencent_docs.py:379`);
- a subject given to two users passes to the second when the first is disabled
  (`identity.py:157`, `schema.sql:127`);
- the fields a turn refuses are filed nowhere, and what was disclosed of its answer before a
  database error stands beside the error (`tools.py:258`, `tools.py:178`);
- a row with `allowed = 0` has no effect beside one that allows (`policy.py:271`), contrary to
  SECURITY.md and the docstring at `query_authorization.py:47`; the console writes no such row;
- a `cross_domain` search is answered by the bundled source although it is disconnected
  (`query_catalog.py:423`, `db.py:196`);
- a local console whose owner was disabled lets nobody in and does not start again
  (`admin_server.py:588`, whose docstring guarantees an admin);
- a relationship in a file is compared as an empty text, which some filters match, although the
  comment at `local_file.py:200` says it matches nothing;
- a range whose first date is an empty text matches the blank cells of a file
  (`connectors/sqlite_filter.py:53`; no check of a plan looks at its values), and nothing of a
  service;
- a permission granted twice with a NULL in its key survives one deletion (`admin_manage.py:174`);
- without `internal_debug` the catalog has `agent_query` only (`tool_catalog.py:242`), while
  README.md:120 lists more.

## 5. Proofs

`AgentTurn_proofs` (from `GovernanceAssumption` and `TurnAssumption`, which only type the
constants and say that the special values are not members):

- `TypeCorrect`: `Spec => []TypeOK`. `TypeOK` alone is not inductive: `Fetch` looks up the rows
  of `job[t].at`, which is a source only because `Gate` set it. `AskedSource` says so, and
  the induction is over `TypeOK /\ AskedSource`.
- `NoDisclosureOutOfScope`: `Spec => []DisclosedRowsWereInScope`. The inductive invariant
  adds `ScopeInv`: while a turn's window is open its witness covers the scope the policy
  shows it now (`WindowOpen`); the scope it read, the rows its fallbacks returned and the
  rows it answers with were all in scope by the mode of the source they belong to
  (`ScopeSeen`, `HitsSeen`, `AnswerSeen`). Witnesses only grow (`ScopeGrows`) while the
  window is open, and a dispatch that opens a new one holds no rows yet, since the rescue
  follows only an empty answer. One lemma per action, after frame lemmas that say which
  turn a step touches.

`AgentAnswers_proofs` (from the same assumptions, on top of `AgentTurn_proofs`) proves five
more, the first four from one inductive invariant, `AnswerInv`, that follows a row from a
queued source to the answer:

- `AnswersHaveOneSource`, `FiltersHold`, `NoUngrantedDisclosure`: every source still in the
  queue, in hand or offered may be asked for the plan (`Askable`: connected since the plan
  was authorized unless reads fail, and the pinned one if there is a pin), and every row in
  hand or answered is `Backed` by its source: held by it, matched by the plan's filters
  unless the plan is lone, with its gated cells granted as the source's mode asks. `Queue`
  and `HitsBacked` hold at most one set of rows for a source that is no longer queued, so a
  choice has two sources. For the cells, `GatePassed` ties the gate's reading to the project
  scope read after it: a project seen only by the second is in `joined`, which the property
  excepts.
- `ConnectedSourcesAnswer`: `ASSUME ~BusyReads PROVE Spec => []AnswersFromConnectedSources`.
  Without the assumption it is false of the code: a read of the disconnected sources that
  times out finds none (`src/src/legal_mcp/db.py:203`).
- `MemoriesAreAnswers`: `Spec => []MemoryComesFromAnAnswer`. `AnswerInv` says nothing of other
  turns; the memory of a conversation may outlive many. Only `RecordContext` writes it, for a
  turn past every step that changes its request or result (`Closed`), and no step leaves that
  part of the turn.

`RuntimeRegistry_proofs` (from `RegistryAssumption`):

- `RegistryTyped`: `Spec => []TypeOK`. That a fingerprint is a pair of a count and a second
  needs the greatest stamp to exist (`MaxOf`, by well-founded subsets: induction is out of
  reach).
- `CalmRequestsAreFresh`: `Spec => []CalmSetupsAreFresh`. The property is about two tables read
  at different times, so the invariant `Calm` dates every table known under a fingerprint, in the
  cache or with a request in flight: today's entries not stamped later than the fingerprint
  are among that table (`Dated`). Commits stamp later than anything known and deletions only
  remove, so this stays. When a request then reads a fingerprint that is known already, all of
  today's entries are old enough, they are as many, and so they are the same (`DatedByToday`).
- `RegistryImplementsRoutingTable`: `Spec => ImplementsRoutingTable` under the refinement
  mapping of `RuntimeRegistry` (`registry <- Active(rows)`, `published <- history`). The
  invariant `Held` says that the rows a request has read and every cached setup are whole
  states of the registry. Commits map to `Commit`, returns to `Resolve`, everything else
  stutters.

`SchemaMigration_proofs` (from `MigrationAssumption`):

- `TypeCorrect`: among the types, a table that is renamed away is empty and a dropped copy
  is gone.
- `UpgradesKeepRows`: `Spec => []UpgradeKeepsRows`. The invariant `KeepInv` puts every table in
  one of two classes while `quiet` holds. An `Outdated` one has seen no edit since its
  shape was old, so a copy can carry all of it, and while a copy exists the table beside it
  is empty. A `Migrated` one has the new shape, no copy, and no process about to rename it;
  no step leads out of this class. An edit of a settled database moves its table from the
  first class to the second. Which process overlaps which never enters the argument.
- `SoleUpgrades`: `Spec => [](SoleUpgradeCompletes /\ SoleUpgradeNeverFails)`, and from it
  `SoleUpgradesNeverFail`. `SoleInv` says, while no two runs have overlapped, what the one
  running `Knows` at each statement.

`ReadThrough_proofs` (from `ReadThroughAssumption` and `FiltersAssumption`, which say what
a query, a filter and a row of the table are: `QueryOK`, `FilterOK`):

- `TokenOutlivesItsExpiryHolds`, `YoungTokensAreTakenHolds`. The invariant bounds, for
  every place of `_ensure_token`, how old the token a thread was issued or is about to
  stamp can be, and `tokenExpiry` by the token stored or by one stored since; arithmetic
  does the rest.
- `RemoteAnswersHold`: `Spec => []RemoteAnswersAreWhole`. It has two halves. `GroupMeans`
  goes through the operators: what is sent for a filter holds of a row exactly when the
  filter does. The invariant `Kept` goes through the pages: what a thread has collected are
  the rows up to its cursor, so it ends with the first `limit` of them (`PrefixOfPart`),
  with those up to the cursor if it was cut off, or with none. That the chosen rows can be
  put in the order of the table at all is `KthChosen`, by counting upwards to the least
  place that has enough of them before it.
- `FileAnswersHold`: `Spec => []FileAnswersMeanTheSame`, from the same invariant and
  `ConditionMeans`, the operators of the WHERE clause one by one. One exception only the
  proof brought up: a range whose first bound is the empty text matches blank cells in
  SQLite and none in a service. Nothing between the plan and `sqlite_filter.py:53` rejects
  an empty bound, so the property leaves such ranges out, and a filter of the run has one.
- `ReadsAreTyped`: `Spec => []TypeOK`.

`ConsoleAccess_proofs`. `LocalMeansLoopback`: `Init /\ [][Next]_vars =>
[]PasswordlessIsLoopback`, for any forms and rows. The host is looked at before the switch
to local, the mode in memory changes several transactions later, and other switches run
between. The invariant says that every thread past that check (`PassedHostCheck`) has a
loopback host under it (`SwitchesOnLoopback`), that no thread outlives the server
(`NoneOutlivesTheServer`), hence none carries the check to another start, and that what
stores a password is a switch to team (`PasswordsAreForTeams`).

The other six (from `ConsoleAssumption` and `SessionAssumption`, whose `FormOK` says what
the handlers let through) start from rows of the right types that satisfy the constraints of
`schema.sql` (`RowsTypeOK` and `Constrained`: unique keys, among which there is none on a
subject, foreign keys, ids with a highest one), as the three databases of the run and every
state reached from them do:

- `ConsoleIsTyped`, `GroupsComeEmpty`, `PermissionsGo`. Every transaction keeps the
  constraints, table by table (`RowsFine`), and every request is where its form can lead
  it with the values it read (`Sound`). `AInv` is both, and the three follow: without the
  foreign keys a new group would inherit what its id had, without the unique key a
  permission could have a twin.
- `CredentialsKeepOwners`. Whom headers stand for depends on the key or the subject. No
  transaction gives a key or a subject another user (`SubjectsStandForOne`,
  `AnswersKeepTheirUser`); a subject of one user is found at him or not at all, and without
  the fallback emails play no part.
- `EditsLand`. A request that met no other (`alone`) is the only one under way
  (`Solitude`), so what an edit wrote first is still there when it writes next: `EditAt`
  says at each of its places how far the rows have `Come`, and each end, by whatever
  cause, is one of these.
- `SwitchesLand`. `Agreement` says that the stored mode is the one in memory, or the
  target of the one switch that has yet to put it there; `Earns` that a lone switch to
  team has, place by place, found its account, stored the password and opened the session.

`ImportPipeline_proofs` (from `RowsAssumption`, `ImportAssumption` and `FilesAssumption`,
which says what the adapters yield: records, and the projects of a ledger before their
children, as `adapt_ledger_rows` appends them):

- `ChildrenKeepProjects`: imports keep `ChildrenHaveProjects` in any database that has it,
  whatever the files are, however many imports overlap and wherever they are killed.
  `Founded` is the idea: an import that is about to write a child has found its project in
  what it reads. That stays true because no import deletes a row (`Grows`: the draft of
  the one that holds the write lock has every committed row) and only the holder of the
  lock commits, so the look-up cannot go stale in the harmful direction.
- `ImportsAreTyped`, `AbortsHaveCauses`, `ReportsAreTrue`, `ReimportsChangeNothing`, from
  any database of the right type whose children have their projects. The invariant
  `ReportInv` adds what is an import's `Own`: its draft differs from the committed rows
  only where it reports so (`Owned`); undisturbed, it has its records and codes from the
  rows as they still are (`Steady`), and of the records taken so far the last sound one of
  each key stands (`Stands`). A step of another import either leaves all of this alone
  (`Apart`) or commits, and then it is not undisturbed any more (`Overtaken`).
  `LastStands` carries the file committed last to the next import of it, which is why that
  one writes what is there.

`ProjectData_proofs` (from `RequestsAssumption` and `ToolCallsAssumption`, besides those
of the imports):

- `CallsAnswerWithinScope`: `Init /\ [][Next]_vars => []AnsweredWithinScope`, with imports
  and policy commits between any two reads of a call. The invariant `Sound` says, place by
  place, what a call knows: the project it looked up is a code, and the visibility and the
  grants it checked are in `seen`, which has all that is open now (each commit adds what
  it opens) and only grows. A later read is bound to the code that was checked, never to
  its name; the mutant `ReadRowsByName` shows what is lost otherwise. Of the answers of
  `Graph` the theorem says nothing of its own: that they are within scope is
  `NoDisclosureOutOfScope`.
- `AuditAccounts`: `[]AuditAccountsForAnswers`. What a call has been `Told` in a database
  that stands still is what the second look finds: the text still names its row
  (`Pinned`), so the rows it files under are those it answered or refused (`Fits`). The
  proof needs a tool to be asked for at least one field: without any, the second look
  would file rows that the answer does not have. The code refuses an empty list
  (`tools_project.py:21`, `tools_contract.py:27`, `tools_license.py:24`), and so does
  `Refusal`. For a turn there is no second look at the data: its disclosures come of the
  answer alone, all of `GraphRows` or, before an error, some.
- `SummariesAreTrue`: `[]CalmSummaryIsTrue`, from the scope the call read being the scope
  now.
- `DataIsTyped`: `[]TypeOK` from rows of the right type whose children have their
  projects.

The assumptions on requests, files, forms, filters and queries are checked by TLC on every
run of these modules; each is what the code lets through, at the lines PROJECT.json has
for it.

Every invariant and every action property of a passing run is thus a theorem. Only
model-checked are `EveryRequestEnds` and `CallsEnd`: liveness under fairness is out of the
prover's reach.

## 6. Not modelled, and the plan

Every component with state of its own is modelled. What could be added:

1. That `ConsoleRows` refines the commits of `GovernanceStore`.
2. The relationship-filter grants of `query_authorization.py`, the field lists and aliases of the
   catalog, identity ranking.

Assumed, not modelled: one console process at a time; no user created from the command line
while the console serves; forms name users and keys that exist; projects and companies are
never deleted; labels, display names and `last_used_at` are columns nothing decides by; limits
of the listings; a source keeps its rows during one call.

Left out for good: HTML rendering, the command line, HTTP transport to the model and the
sources, CSV and XLSX parsing. They keep no state of the gateway.

## 7. Running

`tlc -workers 2 -config turn_policy.cfg MCAgentTurn` checks one run, `tlapm
AgentTurn_proofs.tla` the proofs of one module. PROJECT.json lists the runs, and for every
property a mutation of the model that the property must reject.
