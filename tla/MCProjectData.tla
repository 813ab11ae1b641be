--------------------------- MODULE MCProjectData ---------------------------
(* A small instance of ProjectData. *)
EXTENDS ProjectData

Line(code, name, licenses, risk) ==
    [code |-> code, name |-> name, licenses |-> licenses, risk |-> risk]

\* Ledgers that rename a project, repeat a license and take another project's name;
\* contracts by name, by alias and by title; a project without a name; a faulty risk
mcFiles ==
    { [profile |-> "ledger",
       lines   |-> << Line("P", "sun", <<[ext |-> "icp", content |-> "moon"]>>, Missing),
                      Line("P", "moon", <<[ext |-> "icp", content |-> "sun"]>>, Missing) >>],
      [profile |-> "ledger",    lines |-> << Line("Q", Missing, <<>>, "icp") >>],
      [profile |-> "plain",
       lines   |-> << Record("risks", "P", "icp", Missing), Record("risks", "Q", "icp", "icp") >>],
      [profile |-> "ledger",
       lines   |-> << Line("P", "sun", <<>>, Missing),
                      Line("Q", "moon", <<[ext |-> "icp", content |-> "sun"]>>, "icp") >>],
      [profile |-> "contracts",
       lines   |-> << [project |-> "sun", number |-> Missing, title |-> "moon"],
                      [project |-> "alias", number |-> "icp", title |-> "sun"] >>],
      [profile |-> "unknown",   lines |-> <<>>] }

mcAliases == [t \in {"alias"} |-> "Q"]

mcFields ==
    [project |-> {"project_code", "name", "stage"}, contract |-> {"title", "sum"}, license |-> {"type"}, risk |-> {"level"}]
mcIdentity == [project |-> {"project_code", "name"}, contract |-> {"title"}, license |-> {"type"}, risk |-> {}]

Ask(tool, text, domain, fields) ==
    [tool |-> tool, rationale |-> TRUE, text |-> text, domain |-> domain, fields |-> fields]

mcRequests ==
    { Ask("get_project_fields", "moon", "project", {"name", "stage"}),
      Ask("get_contract_fields", "moon", "contract", {"sum"}),
      Ask("list_project_contracts", "alias", "contract", {"sum"}),
      Ask("list_project_licenses", "moon", "license", {"type"}),
      Ask("resolve_project", "moonlight", "project", {}),
      Ask("list_open_risks", "Q", "risk", {}),
      Ask("list_projects", Nothing, "project", {}),
      Ask("list_expiring_licenses", Nothing, "license", {}),
      Ask("describe_my_access", Nothing, "project", {}),
      Ask("structured_query", Nothing, "project", {"stage"}),
      Ask("structured_query", Nothing, "project", {"name"}),
      Ask("agent_query", Nothing, "contract", {"sum"}),
      Ask("resolve_project", "what may I see", "project", {}),
      Ask("get_project_fields", "P", "project", {"salary"}),
      Ask("get_contract_fields", "icp", "contract", {}),
      Ask("run_sql", "P", "project", {}),
      [Ask("list_projects", Nothing, "project", {}) EXCEPT !.rationale = FALSE] }

mcExposed == {q.tool : q \in mcRequests} \ {"run_sql"}
mcResembles == {<<"moonlight", "moon">>}
mcAccessQuestions == {"what may I see"}

mcGrants ==
    { [domain |-> "project", project |-> AnyProject, field |-> AnyField],
      [domain |-> "contract", project |-> "P", field |-> "sum"] }

\* Databases that earlier imports leave: an empty one; one project; two with children;
\* two of one name
Row(entity, code, ext) == [entity |-> entity, code |-> code, ext |-> ext]
oneProject == ProjectKey("P") :> "moon" @@ Row("licenses", "P", "icp") :> "sun"
twoProjects ==
    ProjectKey("P") :> "sun" @@ ProjectKey("Q") :> "moon"
      @@ Row("licenses", "Q", "icp") :> "sun" @@ Row("risks", "Q", "icp") :> "icp"
      @@ Row("contracts", "P", "moon") :> "moon" @@ Row("contracts", "Q", "icp") :> "sun"
mcDatabases == { <<>>, oneProject, twoProjects, oneProject @@ twoProjects }

\* Bounds.  Imports do not read the policy: more than one, and more than one commit,
\* are followed from the first two databases under one policy only and without calls.
\* Of an import only the commit tells on a call: a call is interleaved with an import
\* that is about to commit.  The policy is edited while a call reads, and what comes
\* after the calls is not followed.
Begun == \E c \in Calls : call[c].at # "idle"
Over == \A c \in Calls : call[c].at \in {"returned", "crashed"}
Reading(c) == call[c].at \notin {"idle", "logging", "recording", "returned", "crashed"}
AboutToCommit(i) == at[i] = "looking" /\ line[i] > Len(records[i])
Bounded ==
    /\ Cardinality({i \in Imports : at[i] # "idle"}) > 1 => <<scope, grants>> = <<{}, {}>> /\ ~Begun
    /\ ~Begun /\ latest # Reset => <<scope, grants>> = <<{}, {}>>
    /\ Begun => \A i \in Imports : AboutToCommit(i) \/ at[i] \in {"idle", "done", "killed"}

\* Of the initial policies, those of at most one grant
MCInit ==
    /\ \E d \in mcDatabases :
          /\ rows = [k \in Keys |-> IF k \in DOMAIN d THEN d[k] ELSE Absent]
          /\ Init /\ scope # {"Q"} /\ Cardinality(grants) <= 1
          /\ d \in {<<>>, oneProject} \/ <<scope, grants>> # <<{}, {}>>
MCNext ==
    /\ ~Over /\ Next /\ Bounded'
    /\ Begun' => Begun \/ latest = Reset
    /\ edits' # edits => \E c \in Calls : Reading(c)
Spec == MCInit /\ [][MCNext]_vars

ImportsAlike == Permutations(Imports)
=============================================================================
