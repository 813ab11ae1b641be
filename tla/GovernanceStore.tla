-------------------------- MODULE GovernanceStore --------------------------
(***************************************************************************)
(* The governance database of Legal-MCP: users and their keys, groups,     *)
(* record scope (project_access, company_access), field grants             *)
(* (permission_grants), the disconnected sources (data_source_state) and   *)
(* the runtime source registry (data_sources); the policy functions of     *)
(* policy.py and query_authorization.py that read it; and one action per   *)
(* commit an administrator's console request makes.                        *)
(*                                                                         *)
(* Every reader opens its own short-lived connection, so between any two   *)
(* reads of a query turn any of these commits may land.                    *)
(***************************************************************************)
EXTENDS Naturals, FiniteSets

CONSTANTS
    Users,           \* rows of users
    NoUser,          \* the user of a context without one (local operator, legacy token)
    Groups,          \* rows of user_groups
    Projects,        \* governed projects
    AnyProject,      \* project_id NULL
    Companies,
    Domains,         \* data domains
    Fields,          \* gated (non-identity) fields
    AnyField,        \* field_name NULL: a domain-wide grant
    Sources,         \* every data source, by name
    RuntimeSources,  \* those registered in data_sources, not in the YAML file
    GrantPool,       \* the permission_grants rows that may exist
    InitialRole,     \* the role each user was created with
    MaxEdits         \* bound: administrator commits in one behaviour

Roles == {"admin", "legal", "business", "auditor"}

Grant == [holder  : Users \cup Groups,
          domain  : Domains,
          field   : Fields \cup {AnyField},
          project : Projects \cup {AnyProject},
          allowed : BOOLEAN]

\* An AccessContext: minted once per request, a snapshot of the user's role.
Context == [user : Users \cup {NoUser}, role : Roles, unrestricted : BOOLEAN]

\* A gated reference: a field of a domain that a plan filters on or returns.
Cell == Domains \X Fields

ASSUME GovernanceAssumption ==
    /\ GrantPool \subseteq Grant
    /\ NoUser \notin Users \cup Groups
    /\ AnyProject \notin Projects
    /\ RuntimeSources \subseteq Sources
    /\ InitialRole \in [Users -> Roles]
    /\ MaxEdits \in Nat

VARIABLES
    role,           \* users.role
    enabled,        \* users whose status is active
    keyed,          \* users holding an active API key
    membership,     \* user_group_memberships
    projectAccess,  \* project_access
    companyAccess,  \* company_access
    grants,         \* permission_grants
    disabled,       \* data_source_state rows with disabled = 1
    registry,       \* data_sources rows with status = 'active'
    published,      \* every value registry has had: what a cached setup may hold
    edits           \* administrator commits so far

peopleVars   == <<role, enabled, keyed>>
scopeVars    == <<membership, projectAccess, companyAccess>>
registryVars == <<registry, published>>
governanceVars ==
    <<peopleVars, scopeVars, grants, disabled, registryVars, edits>>

GovernanceTypeOK ==
    /\ role \in [Users -> Roles]
    /\ enabled \subseteq Users
    /\ keyed \subseteq Users
    /\ membership \subseteq Users \X Groups
    /\ projectAccess \subseteq Users \X Projects
    /\ companyAccess \subseteq Users \X Companies
    /\ grants \subseteq GrantPool
    /\ disabled \subseteq Sources
    /\ registry \subseteq RuntimeSources
    /\ published \subseteq SUBSET RuntimeSources
    /\ edits \in 0 .. MaxEdits

\* Any policy an administrator may have built before the first request.
GovernanceInit ==
    /\ role = InitialRole
    /\ enabled = Users
    /\ keyed = Users
    /\ membership \in SUBSET (Users \X Groups)
    /\ projectAccess \in SUBSET (Users \X Projects)
    /\ companyAccess \in SUBSET (Users \X Companies)
    /\ grants \in SUBSET GrantPool
    /\ disabled = {}
    /\ registry = RuntimeSources
    /\ published = {RuntimeSources}
    /\ edits = 0

-----------------------------------------------------------------------------
(* policy.py *)

\* can_query_content: whether the context may use a content tool at all.
CanQueryContent(c) == c.unrestricted \/ c.role \in {"admin", "legal", "business"}

\* visible_project_ids; "None" (unrestricted) is every project.
VisibleProjects(c) ==
    {p \in Projects : \/ c.unrestricted
                      \/ c.role = "admin"
                      \/ /\ c.role \in {"legal", "business"}
                         /\ <<c.user, p>> \in projectAccess}

\* visible_company_ids
VisibleCompanies(c) ==
    {k \in Companies : \/ c.unrestricted
                       \/ c.role = "admin"
                       \/ /\ c.role \in {"legal", "business"}
                          /\ <<c.user, k>> \in companyAccess}

\* grant_scope_clause: the user and the user's groups.
Holders(c) == {c.user} \cup {g \in Groups : <<c.user, g>> \in membership}

\* authorize_fields for one field of one domain at one project id: a matching
\* row with allowed = 1; a row with allowed = 0 is not read.
Granted(c, cell, p) ==
    \/ c.unrestricted
    \/ c.role = "admin"
    \/ \E g \in grants : /\ g.allowed
                         /\ g.holder \in Holders(c)
                         /\ g.domain = cell[1]
                         /\ g.field \in {cell[2], AnyField}
                         /\ g.project \in {p, AnyProject}

(* query_authorization.py *)

\* Mutant: a domain without row scope is gated at the visible projects.
GateProjectsVisible(c, mode) ==
    IF c.unrestricted THEN {AnyProject} ELSE VisibleProjects(c)

\* _authorization_project_ids: the project ids the field gate is evaluated at.
GateProjects(c, mode) ==
    IF mode = "none" \/ c.unrestricted THEN {AnyProject} ELSE VisibleProjects(c)

\* authorize_query_plan: no gated cell is denied at any of those project ids.
GatePasses(c, cells, mode) ==
    \A p \in GateProjects(c, mode), cell \in cells : Granted(c, cell, p)

-----------------------------------------------------------------------------
(* Administrator commits.  Each is one transaction of one console request; a   *)
(* commit that leaves every row as it was is not counted as a step.            *)

Edit == edits < MaxEdits /\ edits' = edits + 1

\* admin_operations.update_user
UpdateUser(u, newRole) ==
    /\ Edit
    /\ newRole # role[u]
    /\ role' = [role EXCEPT ![u] = newRole]
    /\ UNCHANGED <<enabled, keyed, scopeVars, grants, disabled, registryVars>>

\* set_user_status: keys and access rows of a disabled user stay.
SetUserStatus(u) ==
    /\ Edit
    /\ enabled' = IF u \in enabled THEN enabled \ {u} ELSE enabled \cup {u}
    /\ UNCHANGED <<role, keyed, scopeVars, grants, disabled, registryVars>>

\* revoke_api_key; a revoked key is an error, not a commit.
RevokeKey(u) ==
    /\ Edit
    /\ u \in keyed
    /\ keyed' = keyed \ {u}
    /\ UNCHANGED <<role, enabled, scopeVars, grants, disabled, registryVars>>

\* _handle_create_key
CreateKey(u) ==
    /\ Edit
    /\ u \notin keyed
    /\ keyed' = keyed \cup {u}
    /\ UNCHANGED <<role, enabled, scopeVars, grants, disabled, registryVars>>

\* The rows of a link table after a user's links are replaced by `wanted`.
Relinked(table, u, wanted) == {row \in table : row[1] # u} \cup ({u} \X wanted)

\* set_user_groups; the one-row console handlers are the sets that differ by one.
SetUserGroups(u, wanted) ==
    /\ Edit
    /\ membership' = Relinked(membership, u, wanted)
    /\ membership' # membership
    /\ UNCHANGED <<peopleVars, projectAccess, companyAccess, grants, disabled,
                   registryVars>>

\* set_user_projects, and _handle_create_grant for one more project.
SetUserProjects(u, wanted) ==
    /\ Edit
    /\ projectAccess' = Relinked(projectAccess, u, wanted)
    /\ projectAccess' # projectAccess
    /\ UNCHANGED <<peopleVars, membership, companyAccess, grants, disabled,
                   registryVars>>

\* set_user_companies
SetUserCompanies(u, wanted) ==
    /\ Edit
    /\ companyAccess' = Relinked(companyAccess, u, wanted)
    /\ companyAccess' # companyAccess
    /\ UNCHANGED <<peopleVars, membership, projectAccess, grants, disabled,
                   registryVars>>

\* _handle_create_permission: the console only writes allowed = 1.  Rows equal
\* but for their id (a NULL column defeats the unique key) count as one here:
\* adding the second and deleting the first change nothing a reader sees.
CreatePermission(g) ==
    /\ Edit
    /\ g.allowed
    /\ g \notin grants
    /\ grants' = grants \cup {g}
    /\ UNCHANGED <<peopleVars, scopeVars, disabled, registryVars>>

\* _handle_delete_permission
DeletePermission(g) ==
    /\ Edit
    /\ g \in grants
    /\ grants' = grants \ {g}
    /\ UNCHANGED <<peopleVars, scopeVars, disabled, registryVars>>

\* _handle_delete_group: refused while the group has members.
DeleteGroup(gr) ==
    /\ Edit
    /\ \A m \in membership : m[2] # gr
    /\ grants' = {g \in grants : g.holder # gr}
    /\ grants' # grants
    /\ UNCHANGED <<peopleVars, scopeVars, disabled, registryVars>>

\* set_data_source_disabled: connect or disconnect a source.
SetSourceDisabled(s) ==
    /\ Edit
    /\ disabled' = IF s \in disabled THEN disabled \ {s} ELSE disabled \cup {s}
    /\ UNCHANGED <<peopleVars, scopeVars, grants, registryVars>>

\* register_data_source, set_data_source_status and delete_data_source: a source
\* joins or leaves the rows with status 'active'.
SetSourceActive(s) ==
    /\ Edit
    /\ registry' = IF s \in registry THEN registry \ {s} ELSE registry \cup {s}
    /\ published' = published \cup {registry'}
    /\ UNCHANGED <<peopleVars, scopeVars, grants, disabled>>

GovernanceNext ==
    \/ \E u \in Users :
          \/ \E r \in Roles : UpdateUser(u, r)
          \/ SetUserStatus(u)
          \/ RevokeKey(u)
          \/ CreateKey(u)
          \/ \E wanted \in SUBSET Groups : SetUserGroups(u, wanted)
          \/ \E wanted \in SUBSET Projects : SetUserProjects(u, wanted)
          \/ \E wanted \in SUBSET Companies : SetUserCompanies(u, wanted)
    \/ \E g \in GrantPool : CreatePermission(g) \/ DeletePermission(g)
    \/ \E gr \in Groups : DeleteGroup(gr)
    \/ \E s \in Sources : SetSourceDisabled(s)
    \/ \E s \in RuntimeSources : SetSourceActive(s)
=============================================================================
