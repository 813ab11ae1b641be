---------------------------- MODULE ConsoleRows ----------------------------
(***************************************************************************)
(* The governance rows the console edits (schema.sql): users, groups,      *)
(* memberships and access grants, permission grants and API keys, and the  *)
(* transactions of admin_operations.py, admin_manage.py and identity.py.   *)
(*                                                                         *)
(* Users and keys are never deleted: a row's id is its position.  Groups   *)
(* and permissions are, and SQLite numbers a new row from the highest id   *)
(* left.  Every connection enforces foreign keys (db.connect).             *)
(*                                                                         *)
(* A transaction is one step: it takes the write lock with its first       *)
(* statement.  answer is "answered", "refused" (a form error) or "crashed" *)
(* (an exception no handler expects, after a rollback).                    *)
(***************************************************************************)
EXTENDS Integers, SequencesExt, FiniteSetsExt

CONSTANTS
    Emails,      \* of users; external subjects are among them
    LocalOwner,  \* _LOCAL_OWNER_EMAIL
    Secrets,     \* passwords
    Names,       \* of groups
    Projects,    \* rows of projects
    Companies,   \* rows of companies
    Fields,      \* data fields
    Null

ASSUME ConsoleAssumption ==
    /\ LocalOwner \in Emails
    /\ Null \notin Emails \cup Secrets \cup Names \cup Projects \cup Fields
    /\ Null \notin Nat

VARIABLES
    users,        \* sequence of [email, role, active, secret, subject]
    groups,       \* set of [id, name]
    links,        \* user_group_memberships, project_access, company_access
    permissions,  \* set of [id, group, user, field, project]
    keys          \* sequence of [user, active]

rowVars == <<users, groups, links, permissions, keys>>

Roles == {"admin", "legal"}
Kinds == <<"groups", "projects", "companies">>

UserIds == DOMAIN users
GroupIds == {g.id : g \in groups}
\* Mutant: numbered by the rows there are
HighestId(rows) == Max({0} \cup {r.id : r \in rows})

\* SQLite's rowid
NextId(rows) == 1 + Max({0} \cup {r.id : r \in rows})

Linked(kind, u) == {l[2] : l \in {x \in links[kind] : x[1] = u}}
AllLinks == [u \in UserIds |-> [kind \in ToSet(Kinds) |-> Linked(kind, u)]]

RowsTypeOK ==
    /\ users \in Seq([email : Emails, role : Roles, active : BOOLEAN,
                      secret : Secrets \cup {Null}, subject : Emails \cup {Null}])
    /\ \A g \in groups : g.id \in Nat \ {0} /\ g.name \in Names
    /\ links["groups"] \subseteq UserIds \X (Nat \ {0})
    /\ links["projects"] \subseteq UserIds \X Projects
    /\ links["companies"] \subseteq UserIds \X Companies
    /\ \A p \in permissions : p.id \in Nat \ {0} /\ p.field \in Fields \cup {Null}
    /\ keys \in Seq([user : UserIds, active : BOOLEAN])

IsAdmin(u) == users[u].role = "admin" /\ users[u].active
Admins == {u \in UserIds : IsAdmin(u)}

\* Mutant: a connection without the pragma
ForeignKeysOff == FALSE

\* db.connect
ForeignKeys == TRUE

\* The row a link refers to is there; projects and companies are never deleted
References(kind, x) == ForeignKeys /\ kind = "groups" => x \in GroupIds

-----------------------------------------------------------------------------
\* identity.py

NewUser(email, role, secret) ==
    [email |-> email, role |-> role, active |-> TRUE, secret |-> secret, subject |-> Null]
EmailFree(email) == \A u \in UserIds : users[u].email # email

\* create_user; UNIQUE(email) fails otherwise
CreateUser(email, role, secret) ==
    /\ EmailFree(email)
    /\ users' = Append(users, NewUser(email, role, secret))
    /\ UNCHANGED <<groups, links, permissions, keys>>

CreateKey(f, answer) ==
    /\ f.page = "create key"
    /\ keys' = Append(keys, [user |-> f.user, active |-> TRUE])
    /\ answer = "answered"
    /\ UNCHANGED <<users, groups, links, permissions>>

-----------------------------------------------------------------------------
\* admin_operations.py

\* provision_user: a user with memberships, access and a key, or nothing
Provision(f, answer) ==
    LET fits == /\ EmailFree(f.email)
                /\ \A g \in groups : g.name # f.newGroup
                /\ \A g \in f.wanted["groups"] : References("groups", g)
        u    == Len(users) + 1
        new  == IF f.newGroup = Null THEN {} ELSE {[id |-> NextId(groups), name |-> f.newGroup]}
        held(kind) == f.wanted[kind] \cup (IF kind = "groups" THEN {g.id : g \in new} ELSE {})
    IN  /\ f.page = "provision"
        /\ IF fits
           THEN /\ users' = Append(users, NewUser(f.email, f.role, Null))
                /\ groups' = groups \cup new
                /\ links' = [kind \in DOMAIN links |-> links[kind] \cup ({u} \X held(kind))]
                /\ keys' = IF f.withKey THEN Append(keys, [user |-> u, active |-> TRUE]) ELSE keys
                /\ answer = "answered"
                /\ UNCHANGED permissions
           ELSE answer = "refused" /\ UNCHANGED rowVars

\* set_user_status
SetStatus(f, answer) ==
    /\ f.page = "status"
    /\ users' = [users EXCEPT ![f.user].active = f.active]
    /\ answer = "answered"
    /\ UNCHANGED <<groups, links, permissions, keys>>

\* set_user_password
SetPassword(u, secret) ==
    /\ users' = [users EXCEPT ![u].secret = secret]
    /\ UNCHANGED <<groups, links, permissions, keys>>

\* update_user
SetRole(u, role) ==
    /\ users' = [users EXCEPT ![u].role = role]
    /\ UNCHANGED <<groups, links, permissions, keys>>

Replace(kind, u, wanted, read) ==
    links' = [links EXCEPT ![kind] = (@ \cup ({u} \X (wanted \ read))) \ ({u} \X (read \ wanted))]

\* set_user_groups, set_user_projects, set_user_companies: the difference between
\* what the form wants and what was read before the transaction
Sync(kind, u, wanted, read, answer) ==
    /\ IF \A x \in wanted \ read : References(kind, x) /\ x \notin Linked(kind, u)
       THEN Replace(kind, u, wanted, read) /\ answer = "answered"
       ELSE answer = "refused" /\ UNCHANGED links
    /\ UNCHANGED <<users, groups, permissions, keys>>

RevokeKey(f, answer) ==
    /\ f.page = "revoke key"
    /\ IF keys[f.key].active
       THEN keys' = [keys EXCEPT ![f.key].active = FALSE] /\ answer = "answered"
       ELSE answer = "refused" /\ UNCHANGED keys
    /\ UNCHANGED <<users, groups, links, permissions>>

-----------------------------------------------------------------------------
\* admin_manage.py

\* Create Grant and Create Group Membership: insert or ignore
Link(f, answer) ==
    /\ f.page = "link"
    /\ IF References(f.kind, f.row)
       THEN /\ links' = [links EXCEPT ![f.kind] = @ \cup {<<f.user, f.row>>}]
            /\ answer = "answered"
       ELSE answer = "crashed" /\ UNCHANGED links
    /\ UNCHANGED <<users, groups, permissions, keys>>

LeaveGroup(f, answer) ==
    /\ f.page = "leave"
    /\ links' = [links EXCEPT !["groups"] = @ \ {<<f.user, f.group>>}]
    /\ answer = "answered"
    /\ UNCHANGED <<users, groups, permissions, keys>>

CreateGroup(f, answer) ==
    /\ f.page = "create group"
    /\ IF \A g \in groups : g.name # f.name
       THEN groups' = groups \cup {[id |-> NextId(groups), name |-> f.name]} /\ answer = "answered"
       ELSE answer = "refused" /\ UNCHANGED groups
    /\ UNCHANGED <<users, links, permissions, keys>>

\* What the handler of Delete Group counts first
Members(g) == {l \in links["groups"] : l[2] = g}

\* Members that came since are kept by the foreign key; so are the permissions
DeleteGroup(g, answer) ==
    /\ IF ForeignKeys => Members(g) = {}
       THEN /\ groups' = {x \in groups : x.id # g}
            /\ permissions' = {p \in permissions : p.group # g}
            /\ answer = "answered"
       ELSE answer = "crashed" /\ UNCHANGED <<groups, permissions>>
    /\ UNCHANGED <<users, links, keys>>

Content(p) == <<p.group, p.user, p.field, p.project>>

\* Mutant: a table without the UNIQUE keys
NeverClashes(p) == FALSE

\* UNIQUE over the holder and the content; SQLite takes no NULL for equal to another
Clashes(p) ==
    /\ p.field # Null /\ p.project # Null
    /\ \E q \in permissions : Content(q) = Content(p)

\* _handle_create_permission: insert or ignore
Permit(f, answer) ==
    LET p == [id |-> NextId(permissions), group |-> f.group, user |-> f.user,
              field |-> f.field, project |-> f.project]
    IN  /\ f.page = "permit"
        /\ IF f.group # Null /\ ~References("groups", f.group)
           THEN answer = "crashed" /\ UNCHANGED permissions
           ELSE /\ permissions' = IF Clashes(p) THEN permissions ELSE permissions \cup {p}
                /\ answer = "answered"
        /\ UNCHANGED <<users, groups, links, keys>>

DeletePermission(f, answer) ==
    /\ f.page = "delete permission"
    /\ permissions' = {p \in permissions : p.id # f.permission}
    /\ answer = "answered"
    /\ UNCHANGED <<users, groups, links, keys>>

\* A form names users and keys that a page showed; they are never deleted
Shown(f) ==
    /\ f.page \in {"status", "password", "edit", "create key", "link", "leave"} => f.user \in UserIds
    /\ f.page = "permit" => f.user \in UserIds \cup {Null}
    /\ f.page = "revoke key" => f.key \in DOMAIN keys

\* The handlers that are one transaction
OneTransaction(f, answer) ==
    \/ CreateKey(f, answer) \/ RevokeKey(f, answer)
    \/ Provision(f, answer) \/ SetStatus(f, answer)
    \/ Link(f, answer) \/ LeaveGroup(f, answer) \/ CreateGroup(f, answer)
    \/ Permit(f, answer) \/ DeletePermission(f, answer)
    \/ f.page = "password" /\ SetPassword(f.user, f.secret) /\ answer = "answered"

-----------------------------------------------------------------------------
\* An id that is given out again brings nothing along: a group that was not there
\* has the members its own transaction gives it and no permission, though the
\* group that had the id may have been deleted while a form put someone into it.
NewGroupsStartEmpty ==
    [][\A g \in groups' \ groups :
          /\ \A l \in links["groups"]' : l[2] = g.id => l[1] \notin UserIds
          /\ \A p \in permissions' : p.group # g.id]_rowVars

\* Deleting a permission that names field and project leaves no copy of it in
\* force, though it may have been granted twice.
DeletedPermissionsGo ==
    [][\A p \in permissions \ permissions' :
          (p.field # Null /\ p.project # Null)
              => \A q \in permissions' : Content(q) # Content(p)]_permissions
=============================================================================
