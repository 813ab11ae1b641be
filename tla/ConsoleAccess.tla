--------------------------- MODULE ConsoleAccess ---------------------------
(***************************************************************************)
(* The administrator's console (admin_server.py): sessions, the deployment *)
(* mode, which is kept in the database and in the server's memory, and the *)
(* threads that answer its requests.  Between two statements of a request  *)
(* that are not one transaction every other request may run.               *)
(***************************************************************************)
EXTENDS ConsoleRows

CONSTANTS
    Threads,      \* one per request under way
    Forms,        \* the requests browsers send: records with a page
    SessionHours, \* _SESSION_HOURS
    MaxClock,     \* bound: hours
    MaxRequests,  \* bound: requests in one behaviour
    MaxStarts     \* bound: starts of the server

Modes == {"local", "team"}

\* The pages offer the rows there are, and the handlers parse what comes back
FormOK(f) ==
    /\ f.page = "deployment mode" =>
          f.target \in Modes /\ (f.target = "team" => f.secret \in Secrets \cup {Null})
    /\ f.page = "status" => f.active \in BOOLEAN
    /\ f.page = "password" => f.secret \in Secrets
    /\ f.page \in {"edit", "provision"} =>
          f.role \in Roles /\ f.wanted["projects"] \subseteq Projects
                          /\ f.wanted["companies"] \subseteq Companies
    /\ f.page = "provision" =>
          f.email \in Emails /\ f.newGroup \in Names \cup {Null} /\ f.withKey \in BOOLEAN
    /\ f.page = "link" =>
          \/ f.kind = "groups"
          \/ f.kind = "projects" /\ f.row \in Projects
          \/ f.kind = "companies" /\ f.row \in Companies
    /\ f.page = "create group" => f.name \in Names
    /\ f.page = "permit" => f.field \in Fields \cup {Null}

ASSUME SessionAssumption ==
    /\ SessionHours \in Nat \ {0}
    /\ MaxClock \in Nat /\ MaxRequests \in Nat /\ MaxStarts \in Nat
    /\ Null \notin Forms
    /\ \A f \in Forms : FormOK(f)

VARIABLES
    clock,
    persisted,   \* deployment_settings.mode, or Null
    sessions,    \* admin_sessions: sequence of [user, expires]
    server,      \* [at, mode, loopback]; mode is the one in memory
    at,          \* where each request is
    form,        \* what it asks
    cookie,      \* the session it shows, or 0
    admin,       \* the user it acts as, or 0
    held,        \* what it read and acts upon: [left, read]
    alone,       \* history: no other request was under way since it arrived
    before,      \* history: the edited user's role and links when it arrived
    overlapped,  \* history: two switches of the mode were under way at once
    requests, starts

requestVars == <<at, form, cookie, admin, held, alone, before>>
serverVars == <<server, starts>>
vars == <<rowVars, clock, persisted, sessions, serverVars, requestVars, overlapped, requests>>

Ended == {"idle", "answered", "refused", "turned away", "crashed"}
Steps == {"local", "cookie", "admitted", "choosing", "hashing", "opening", "owning", "creating",
          "recording", "remembering", "deleting", "linking", "syncing"}

TypeOK ==
    /\ RowsTypeOK
    /\ clock \in 0 .. MaxClock
    /\ persisted \in Modes \cup {Null}
    /\ sessions \in Seq([user : UserIds, expires : Nat])
    /\ server \in [at : {"down", "starting", "up"}, mode : Modes, loopback : BOOLEAN]
    /\ at \in [Threads -> Ended \cup Steps]
    /\ form \in [Threads -> Forms \cup {Null}]
    /\ cookie \in [Threads -> 0 .. Len(sessions)]
    /\ admin \in [Threads -> {0} \cup UserIds]
    /\ alone \in [Threads -> BOOLEAN]
    /\ overlapped \in BOOLEAN
    /\ requests \in 0 .. MaxRequests /\ starts \in 0 .. MaxStarts
    \* a server that is not up has no request under way
    /\ server.at # "up" => \A t \in Threads : at[t] \in Ended

Busy(t) == at[t] \notin Ended
Nothing == [left |-> <<>>, read |-> {}]

Init ==
    /\ clock = 0
    /\ persisted = Null
    /\ sessions = <<>>
    /\ server = [at |-> "down", mode |-> "team", loopback |-> TRUE]
    /\ at = [t \in Threads |-> "idle"]
    /\ form = [t \in Threads |-> Null]
    /\ cookie = [t \in Threads |-> 0]
    /\ admin = [t \in Threads |-> 0]
    /\ held = [t \in Threads |-> Nothing]
    /\ alone = [t \in Threads |-> FALSE]
    /\ before = [t \in Threads |-> Null]
    /\ overlapped = FALSE
    /\ requests = 0 /\ starts = 0

-----------------------------------------------------------------------------
\* build_admin_server, which serve-admin calls

\* The mode of the command line counts only if none is stored; it is stored
\* before the host is looked at
Start(mode, loopback) ==
    /\ server.at = "down" /\ starts < MaxStarts
    /\ starts' = starts + 1
    /\ persisted' = IF persisted = Null THEN mode ELSE persisted
    /\ server' = [at |-> "starting", mode |-> persisted', loopback |-> loopback]
    /\ UNCHANGED <<rowVars, clock, sessions, requestVars, overlapped, requests>>

Listen ==
    /\ server.at = "starting" /\ (server.mode = "local" => server.loopback)
    /\ IF server.mode = "local" /\ Admins = {}
       THEN CreateUser(LocalOwner, "admin", Null)
       ELSE UNCHANGED rowVars
    /\ server' = [server EXCEPT !.at = "up"]
    /\ overlapped' = FALSE
    /\ UNCHANGED <<clock, persisted, sessions, starts, requestVars, requests>>

\* Refused for its host, broken by a disabled local owner whose email is taken,
\* or killed; the requests under way end between two transactions
Stop ==
    /\ server.at # "down"
    /\ server' = [server EXCEPT !.at = "down"]
    /\ at' = [t \in Threads |-> IF Busy(t) THEN "crashed" ELSE at[t]]
    /\ form' = [t \in Threads |-> Null]
    /\ cookie' = [t \in Threads |-> 0]
    /\ admin' = [t \in Threads |-> 0]
    /\ held' = [t \in Threads |-> Nothing]
    /\ alone' = [t \in Threads |-> FALSE]
    /\ before' = [t \in Threads |-> Null]
    /\ UNCHANGED <<rowVars, clock, persisted, sessions, starts, overlapped, requests>>

-----------------------------------------------------------------------------
\* do_POST: a request arrives and is admitted

Switches(f) == f.page = "deployment mode"

Arrive(t, f, c) ==
    /\ server.at = "up" /\ ~Busy(t) /\ requests < MaxRequests /\ Shown(f)
    /\ requests' = requests + 1
    /\ at' = [at EXCEPT ![t] = IF f.page = "login" THEN "admitted"
                               ELSE IF server.mode = "local" THEN "local" ELSE "cookie"]
    /\ form' = [form EXCEPT ![t] = f]
    /\ cookie' = [cookie EXCEPT ![t] = c]
    /\ admin' = [admin EXCEPT ![t] = 0]
    /\ held' = [held EXCEPT ![t] = Nothing]
    /\ alone' = [o \in Threads |-> IF o = t THEN \A p \in Threads : ~Busy(p)
                                   ELSE alone[o] /\ ~Busy(o)]
    /\ before' = [before EXCEPT ![t] =
                     IF f.page = "edit" THEN [role |-> users[f.user].role, links |-> AllLinks[f.user]]
                     ELSE Null]
    /\ overlapped' = (overlapped \/ (Switches(f) /\ \E o \in Threads : Busy(o) /\ Switches(form[o])))
    /\ UNCHANGED <<rowVars, clock, persisted, sessions, serverVars>>

\* The thread goes on as user who, holding h, or ends and forgets its request
Go(t, place, who, h) ==
    LET over == place \in Ended
    IN  /\ at' = [at EXCEPT ![t] = place]
        /\ form' = [form EXCEPT ![t] = IF over THEN Null ELSE @]
        /\ cookie' = [cookie EXCEPT ![t] = IF over THEN 0 ELSE @]
        /\ admin' = [admin EXCEPT ![t] = IF over THEN 0 ELSE who]
        /\ held' = [held EXCEPT ![t] = IF over THEN Nothing ELSE h]
        /\ alone' = [alone EXCEPT ![t] = @ /\ ~over]
        /\ before' = [before EXCEPT ![t] = IF over THEN Null ELSE @]
        /\ UNCHANGED <<overlapped, requests, clock, starts>>
Move(t, place) == Go(t, place, admin[t], held[t])
Hold(t, place, ids) == Go(t, place, admin[t], [Nothing EXCEPT !.read = ids])

\* _local_owner: the first active admin
AdmitLocally(t) ==
    /\ at[t] = "local"
    /\ IF Admins = {} THEN Move(t, "turned away") ELSE Go(t, "admitted", Min(Admins), Nothing)
    /\ UNCHANGED <<rowVars, persisted, sessions, server>>

\* _current_admin
Live(c) == c # 0 /\ sessions[c].expires > clock /\ IsAdmin(sessions[c].user)

AdmitByCookie(t) ==
    /\ at[t] = "cookie"
    /\ IF Live(cookie[t])
       THEN Go(t, "admitted", sessions[cookie[t]].user, Nothing)
       ELSE Move(t, "turned away")
    /\ UNCHANGED <<rowVars, persisted, sessions, server>>

-----------------------------------------------------------------------------
\* Handlers.  held is what the thread read in an earlier transaction.

\* Most are one transaction
Handle(t) ==
    /\ at[t] = "admitted"
    /\ \E answer \in {"answered", "refused", "crashed"} :
          OneTransaction(form[t], answer) /\ Move(t, answer)
    /\ UNCHANGED <<persisted, sessions, server>>

Matching(email) == {u \in Admins : users[u].email = email}

\* _handle_login
Login(t) ==
    /\ at[t] = "admitted" /\ form[t].page = "login"
    /\ LET found == {u \in Matching(form[t].email) : users[u].secret = form[t].secret}
       IN  IF found = {} THEN Move(t, "refused") ELSE Hold(t, "opening", found)
    /\ UNCHANGED <<rowVars, persisted, sessions, server>>

\* The session, and for _switch_to_team the mode with it
OpenSession(t) ==
    /\ at[t] = "opening"
    /\ sessions' = Append(sessions, [user |-> Max(held[t].read), expires |-> clock + SessionHours])
    /\ IF Switches(form[t])
       THEN persisted' = "team" /\ Move(t, "remembering")
       ELSE UNCHANGED persisted /\ Move(t, "answered")
    /\ UNCHANGED <<rowVars, server>>

\* Mutant: the host is left to the start of the server
AnyHost == TRUE

\* _switch_to_local
LocalAllowed == server.loopback

\* _handle_deployment_mode
SwitchMode(t) ==
    LET f == form[t]
    IN  /\ at[t] = "admitted" /\ Switches(f)
        /\ \/ f.target = server.mode /\ Move(t, "answered")
           \/ /\ f.target = "team" /\ server.mode # "team"
              /\ Move(t, IF f.secret = Null THEN "refused" ELSE "choosing")
           \/ /\ f.target = "local" /\ server.mode # "local"
              /\ Move(t, IF LocalAllowed THEN "owning" ELSE "refused")
        /\ UNCHANGED <<rowVars, persisted, sessions, server>>

\* _switch_to_team looks the account up
ChooseAdmin(t) ==
    LET found == Matching(form[t].email)
    IN  /\ at[t] = "choosing"
        /\ IF found = {} THEN Move(t, "refused") ELSE Hold(t, "hashing", found)
        /\ UNCHANGED <<rowVars, persisted, sessions, server>>

\* Mutant: the password is checked against its own hash only
SkipPassword(t) ==
    /\ at[t] = "hashing"
    /\ UNCHANGED rowVars
    /\ Move(t, "opening")
    /\ UNCHANGED <<persisted, sessions, server>>

\* and stores the password
StorePassword(t) ==
    /\ at[t] = "hashing"
    /\ SetPassword(Max(held[t].read), form[t].secret)
    /\ Move(t, "opening")
    /\ UNCHANGED <<persisted, sessions, server>>

\* _ensure_local_owner
FindOwner(t) ==
    /\ at[t] = "owning"
    /\ Move(t, IF Admins = {} THEN "creating" ELSE "recording")
    /\ UNCHANGED <<rowVars, persisted, sessions, server>>

CreateOwner(t) ==
    /\ at[t] = "creating"
    /\ \/ CreateUser(LocalOwner, "admin", Null) /\ Move(t, "recording")
       \/ ~EmailFree(LocalOwner) /\ Move(t, "crashed") /\ UNCHANGED rowVars
    /\ UNCHANGED <<persisted, sessions, server>>

RecordLocal(t) ==
    /\ at[t] = "recording"
    /\ persisted' = "local"
    /\ Move(t, "remembering")
    /\ UNCHANGED <<rowVars, sessions, server>>

\* self.server.mode, after the connection is closed
Remember(t) ==
    /\ at[t] = "remembering"
    /\ server' = [server EXCEPT !.mode = form[t].target]
    /\ Move(t, "answered")
    /\ UNCHANGED <<rowVars, persisted, sessions>>

\* _handle_delete_group
CountMembers(t) ==
    /\ at[t] = "admitted" /\ form[t].page = "delete group"
    /\ Move(t, IF Members(form[t].group) = {} THEN "deleting" ELSE "refused")
    /\ UNCHANGED <<rowVars, persisted, sessions, server>>

DropGroup(t) ==
    /\ at[t] = "deleting"
    /\ \E answer \in {"answered", "crashed"} : DeleteGroup(form[t].group, answer) /\ Move(t, answer)
    /\ UNCHANGED <<persisted, sessions, server>>

\* Mutant: the first kind of link is skipped
EditUserSkipping(t) ==
    /\ at[t] = "admitted" /\ form[t].page = "edit"
    /\ SetRole(form[t].user, form[t].role)
    /\ Go(t, "linking", admin[t], [Nothing EXCEPT !.left = Tail(Kinds)])
    /\ UNCHANGED <<persisted, sessions, server>>

\* _handle_update_user: the role, then a transaction for each kind of link
EditUser(t) ==
    /\ at[t] = "admitted" /\ form[t].page = "edit"
    /\ SetRole(form[t].user, form[t].role)
    /\ Go(t, "linking", admin[t], [Nothing EXCEPT !.left = Kinds])
    /\ UNCHANGED <<persisted, sessions, server>>

ReadLinks(t) ==
    /\ at[t] = "linking"
    /\ Go(t, "syncing", admin[t],
          [held[t] EXCEPT !.read = Linked(Head(held[t].left), form[t].user)])
    /\ UNCHANGED <<rowVars, persisted, sessions, server>>

SyncLinks(t) ==
    LET kind == Head(held[t].left)
        rest == Tail(held[t].left)
    IN  /\ at[t] = "syncing"
        /\ \E answer \in {"answered", "refused"} :
             /\ Sync(kind, form[t].user, form[t].wanted[kind], held[t].read, answer)
             /\ Go(t, IF answer = "answered" /\ rest # <<>> THEN "linking" ELSE answer, admin[t],
                   [left |-> rest, read |-> {}])
        /\ UNCHANGED <<persisted, sessions, server>>

\* A statement finds the database locked for longer than SQLite waits
Locked(t) ==
    /\ Busy(t) /\ at[t] # "remembering"
    /\ Move(t, "crashed")
    /\ UNCHANGED <<rowVars, persisted, sessions, server>>

Request(t) ==
    \/ AdmitLocally(t) \/ AdmitByCookie(t) \/ Handle(t) \/ Login(t) \/ OpenSession(t)
    \/ SwitchMode(t) \/ ChooseAdmin(t) \/ StorePassword(t)
    \/ FindOwner(t) \/ CreateOwner(t) \/ RecordLocal(t) \/ Remember(t) \/ CountMembers(t) \/ DropGroup(t)
    \/ EditUser(t) \/ ReadLinks(t) \/ SyncLinks(t) \/ Locked(t)

Tick ==
    /\ clock < MaxClock
    /\ clock' = clock + 1
    /\ UNCHANGED <<rowVars, persisted, sessions, serverVars, requestVars, overlapped, requests>>

Next ==
    \/ \E mode \in Modes, loopback \in BOOLEAN : Start(mode, loopback)
    \/ Listen \/ Stop \/ Tick
    \/ \E t \in Threads :
         Request(t) \/ \E f \in Forms, c \in 0 .. Len(sessions) : Arrive(t, f, c)

-----------------------------------------------------------------------------
\* A console that asks for no password listens on the loopback interface only,
\* however often the mode is switched and the server restarted elsewhere.
PasswordlessIsLoopback ==
    server.at = "up" /\ server.mode = "local" => server.loopback

\* Unless switches overlapped, a restart finds the mode the server has; and one
\* that met no other request leaves a team console someone can log in to.
CalmSwitchesLand ==
    /\ (server.at = "up" /\ ~overlapped /\ \A t \in Threads : at[t] # "remembering")
           => persisted = server.mode
    /\ \A t \in Threads :
          (at[t] = "remembering" /\ alone[t] /\ form[t].target = "team")
              => \E u \in Matching(form[t].email) :
                    users[u].secret = form[t].secret /\ Last(sessions).user = u

\* An edit that met no other request has replaced the role, the groups, the
\* projects and the companies in this order when it ends: all of them if it is
\* answered, and otherwise a first part, the rest being as it was.
Landed(n, f, was, is) ==
    /\ is.role = IF n > 0 THEN f.role ELSE was.role
    /\ \A k \in 1 .. 3 :
          is.links[Kinds[k]] = IF n > k THEN f.wanted[Kinds[k]] ELSE was.links[Kinds[k]]

EditsLandInOrder ==
    [][\A t \in Threads :
          LET f  == form[t]
              is == [role |-> users'[f.user].role, links |-> AllLinks'[f.user]]
          IN  (Busy(t) /\ f.page = "edit" /\ alone[t] /\ at'[t] \in Ended)
                  => IF at'[t] = "answered" THEN Landed(4, f, before[t], is)
                     ELSE \E n \in 0 .. 4 : Landed(n, f, before[t], is)]_vars
=============================================================================
