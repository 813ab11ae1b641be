------------------------ MODULE ConsoleAccess_proofs ------------------------
(*************************************************************************)
(* The requests of a console that take several transactions, for every   *)
(* number of threads, requests, starts and hours, whatever the forms     *)
(* are, from any governance rows that satisfy the constraints of the     *)
(* schema.                                                               *)
(*                                                                       *)
(* A console without passwords stays on the loopback interface. The host *)
(* is looked at twice: when the server starts to listen and when a       *)
(* switch to local begins. Several transactions of the switch follow     *)
(* before the mode in memory changes, and other switches run between     *)
(* them; what carries the check over is that a thread past it says so by *)
(* where it is, that the host does not change while the server is up,    *)
(* and that no thread outlives the server.                               *)
(*                                                                       *)
(* What one transaction writes is true of the rows it wrote, and that    *)
(* each keeps the constraints is shown first. What a request writes in   *)
(* several is still there at the end unless another writer came in       *)
(* between, and the history says when one did: an edit that was alone    *)
(* has landed as far as it got, and a switch that was alone leaves the   *)
(* rows, the memory and the credentials in agreement.                    *)
(*                                                                       *)
(* Nothing moves a credential from one user to another: users and keys   *)
(* stay where they are, and what a key or a subject stands for is a      *)
(* function of them.                                                     *)
(*************************************************************************)
EXTENDS ConsoleAccess, RequestIdentity, WellFoundedInduction, TLAPS

\* The part of TypeOK the argument needs
Shape ==
    /\ at \in [Threads -> Ended \cup Steps]
    /\ form \in [Threads -> Forms \cup {Null}]
    /\ DOMAIN cookie = Threads
    /\ server = [at |-> server.at, mode |-> server.mode, loopback |-> server.loopback]
    /\ server.at \in {"down", "starting", "up"}

\* Past the check of the host, or about to make the console local
PassedHostCheck(t) ==
    \/ at[t] \in {"owning", "creating", "recording"}
    \/ at[t] = "remembering" /\ form[t].target = "local"

SwitchesOnLoopback == server.at = "up" => \A t \in Threads : PassedHostCheck(t) => server.loopback

NoneOutlivesTheServer == server.at # "up" => \A t \in Threads : at[t] \in Ended

\* A switch that stores a password or opens a session is one to team
PasswordsAreForTeams ==
    \A t \in Threads : (at[t] \in {"choosing", "hashing", "opening"} /\ Switches(form[t])) => form[t].target = "team"

IInv == Shape /\ PasswordlessIsLoopback /\ SwitchesOnLoopback /\ NoneOutlivesTheServer /\ PasswordsAreForTeams

USE DEF Ended, Steps

LEMMA InitInv == Init => IInv
BY DEF Init, IInv, Shape, PasswordlessIsLoopback, SwitchesOnLoopback, NoneOutlivesTheServer,
       PasswordsAreForTeams, PassedHostCheck

-----------------------------------------------------------------------------
\* A thread that goes on keeps the invariant where the place it goes to does
MayGo(t, place) ==
    /\ place \in Ended \cup Steps
    /\ place \in {"owning", "creating", "recording"} => server.loopback
    /\ place = "remembering" /\ form[t].target = "local" => server.loopback
    /\ place \in {"choosing", "hashing", "opening"} /\ Switches(form[t]) => form[t].target = "team"

LEMMA GoInv ==
    ASSUME IInv, NEW t \in Threads, NEW place, NEW who, NEW h, at[t] \notin Ended,
           Go(t, place, who, h), MayGo(t, place), UNCHANGED server
    PROVE  IInv'
<1>1. server.at = "up"
  BY DEF IInv, NoneOutlivesTheServer
<1>2. at' = [at EXCEPT ![t] = place]
  BY DEF Go
<1>3. form' = [form EXCEPT ![t] = IF place \in Ended THEN Null ELSE @]
  BY DEF Go
<1>4. \A o \in Threads : o # t => at'[o] = at[o] /\ form'[o] = form[o]
  BY <1>2, <1>3 DEF IInv, Shape
<1>5. at'[t] = place /\ (place \notin Ended => form'[t] = form[t])
  BY <1>2, <1>3 DEF IInv, Shape
<1>6. Shape'
  <2>1. at' \in [Threads -> Ended \cup Steps]
    BY <1>2 DEF IInv, Shape, MayGo
  <2>2. form' \in [Threads -> Forms \cup {Null}]
    BY <1>3 DEF IInv, Shape
  <2>3. DOMAIN cookie' = Threads
    BY DEF IInv, Shape, Go
  <2> QED BY <2>1, <2>2, <2>3 DEF IInv, Shape
<1>7. PasswordlessIsLoopback'
  BY DEF IInv, PasswordlessIsLoopback
<1>8. SwitchesOnLoopback'
  BY <1>4, <1>5 DEF IInv, SwitchesOnLoopback, PassedHostCheck, MayGo
<1>9. NoneOutlivesTheServer'
  BY <1>1 DEF NoneOutlivesTheServer
<1>10. PasswordsAreForTeams'
  BY <1>4, <1>5 DEF IInv, PasswordsAreForTeams, MayGo, Switches
<1> QED BY <1>6, <1>7, <1>8, <1>9, <1>10 DEF IInv

\* Places no part of the invariant speaks of
LEMMA FreePlaces ==
    ASSUME NEW t, NEW place \in Ended \cup {"local", "cookie", "admitted", "deleting",
                                            "linking", "syncing"}
    PROVE  MayGo(t, place)
BY DEF MayGo

-----------------------------------------------------------------------------
\* The server

LEMMA StartInv ==
    ASSUME IInv, NEW mode \in Modes, NEW loopback \in BOOLEAN, Start(mode, loopback)
    PROVE  IInv'
<1>1. server'.at = "starting" /\ UNCHANGED <<at, form, cookie>>
  BY DEF Start, requestVars
<1> QED BY <1>1 DEF IInv, Start, Shape, PasswordlessIsLoopback, SwitchesOnLoopback,
           NoneOutlivesTheServer, PasswordsAreForTeams

LEMMA ListenInv == IInv /\ Listen => IInv'
<1> SUFFICES ASSUME IInv, Listen PROVE IInv'
  OBVIOUS
<1>1. UNCHANGED <<at, form, cookie>> /\ server.at = "starting"
  BY DEF Listen, requestVars
<1>2. server' = [server EXCEPT !.at = "up"]
  BY DEF Listen
<1>3. /\ server'.at = "up" /\ server'.mode = server.mode /\ server'.loopback = server.loopback
      /\ Shape'
  BY <1>1, <1>2 DEF IInv, Shape
<1>4. \A t \in Threads : at'[t] \in Ended
  BY <1>1 DEF IInv, NoneOutlivesTheServer
<1>5. PasswordlessIsLoopback'
  BY <1>3 DEF Listen, PasswordlessIsLoopback
<1> QED BY <1>3, <1>4, <1>5 DEF IInv, SwitchesOnLoopback, NoneOutlivesTheServer,
           PasswordsAreForTeams, PassedHostCheck

LEMMA StopInv == IInv /\ Stop => IInv'
<1> SUFFICES ASSUME IInv, Stop PROVE IInv'
  OBVIOUS
<1>1. server' = [server EXCEPT !.at = "down"]
  BY DEF Stop
<1>2. at' = [t \in Threads |-> IF Busy(t) THEN "crashed" ELSE at[t]]
  BY DEF Stop
<1>3. \A t \in Threads : at'[t] \in Ended
  BY <1>2 DEF Busy
<1>4. at' \in [Threads -> Ended \cup Steps]
  BY <1>2, <1>3
<1>5. Shape' /\ server'.at = "down"
  BY <1>1, <1>4 DEF IInv, Shape, Stop
<1> QED BY <1>3, <1>5 DEF IInv, PasswordlessIsLoopback, SwitchesOnLoopback,
           NoneOutlivesTheServer, PasswordsAreForTeams

LEMMA ArriveInv ==
    ASSUME IInv, NEW t \in Threads, NEW f \in Forms, NEW c, Arrive(t, f, c)
    PROVE  IInv'
<1>1. server.at = "up" /\ UNCHANGED server
  BY DEF Arrive, serverVars
<1>2. at'[t] \in {"admitted", "local", "cookie"} /\ at' \in [Threads -> Ended \cup Steps]
  BY DEF Arrive, IInv, Shape
<1>3. form' \in [Threads -> Forms \cup {Null}] /\ DOMAIN cookie' = Threads
  BY DEF Arrive, IInv, Shape
<1>4. \A o \in Threads : o # t => at'[o] = at[o] /\ form'[o] = form[o]
  BY DEF Arrive, IInv, Shape
<1>5. Shape'
  BY <1>1, <1>2, <1>3 DEF IInv, Shape
<1>6. PasswordlessIsLoopback' /\ NoneOutlivesTheServer'
  BY <1>1 DEF IInv, PasswordlessIsLoopback, NoneOutlivesTheServer
<1>7. SwitchesOnLoopback'
  BY <1>1, <1>2, <1>4 DEF IInv, SwitchesOnLoopback, PassedHostCheck
<1>8. PasswordsAreForTeams'
  BY <1>2, <1>4 DEF IInv, PasswordsAreForTeams, Switches
<1> QED BY <1>5, <1>6, <1>7, <1>8 DEF IInv

-----------------------------------------------------------------------------
\* The requests

\* The one step of a request that changes the mode in memory
LEMMA RememberInv == ASSUME IInv, NEW t \in Threads, Remember(t) PROVE IInv'
<1>1. at[t] = "remembering" /\ server.at = "up"
  BY DEF Remember, IInv, NoneOutlivesTheServer
<1>2. server' = [server EXCEPT !.mode = form[t].target]
  BY DEF Remember
<1>3. /\ server'.at = "up" /\ server'.mode = form[t].target /\ server'.loopback = server.loopback
      /\ server' = [at |-> server'.at, mode |-> server'.mode, loopback |-> server'.loopback]
  BY <1>1, <1>2 DEF IInv, Shape
<1>4. /\ at' = [at EXCEPT ![t] = "answered"]
      /\ form' = [form EXCEPT ![t] = Null]
      /\ DOMAIN cookie' = Threads
  BY DEF Remember, Move, Go, IInv, Shape
<1>5. at'[t] = "answered" /\ \A o \in Threads : o # t => at'[o] = at[o] /\ form'[o] = form[o]
  BY <1>4 DEF IInv, Shape
<1>6. Shape'
  BY <1>3, <1>4 DEF IInv, Shape
<1>7. PasswordlessIsLoopback'
  BY <1>1, <1>3 DEF IInv, PasswordlessIsLoopback, SwitchesOnLoopback, PassedHostCheck
<1>8. SwitchesOnLoopback'
  BY <1>1, <1>3, <1>5 DEF IInv, SwitchesOnLoopback, PassedHostCheck
<1>9. NoneOutlivesTheServer' /\ PasswordsAreForTeams'
  BY <1>3, <1>5 DEF IInv, NoneOutlivesTheServer, PasswordsAreForTeams, Switches
<1> QED BY <1>6, <1>7, <1>8, <1>9 DEF IInv

\* The switches
LEMMA SwitchInv ==
    ASSUME IInv, NEW t \in Threads,
           \/ SwitchMode(t) \/ ChooseAdmin(t) \/ StorePassword(t) \/ OpenSession(t)
           \/ FindOwner(t) \/ CreateOwner(t) \/ RecordLocal(t)
    PROVE  IInv'
<1> DEFINE Went(place) == MayGo(t, place) /\ \E who, h : Go(t, place, who, h)
<1>1. ASSUME NEW place, Went(place), at[t] \notin Ended, UNCHANGED server PROVE IInv'
  BY <1>1, GoInv
<1> HIDE DEF Went
<1>2. CASE SwitchMode(t)
  <2>1. at[t] = "admitted" /\ UNCHANGED server
    BY <1>2 DEF SwitchMode
  <2>2. MayGo(t, "answered") /\ MayGo(t, "refused")
    BY FreePlaces
  <2>3. CASE Move(t, "answered") \/ Move(t, "refused")
    BY <1>1, <2>1, <2>2, <2>3 DEF Move, Went
  <2>4. CASE form[t].target = "team" /\ Move(t, "choosing")
    <3>1. MayGo(t, "choosing")
      BY <2>4 DEF MayGo
    <3> QED BY <1>1, <2>1, <2>4, <3>1 DEF Move, Went
  <2>5. CASE LocalAllowed /\ Move(t, "owning")
    <3>1. MayGo(t, "owning")
      BY <2>5 DEF MayGo, LocalAllowed
    <3> QED BY <1>1, <2>1, <2>5, <3>1 DEF Move, Went
  <2> QED BY <1>2, <2>3, <2>4, <2>5 DEF SwitchMode
<1>3. CASE StorePassword(t)
  <2>1. MayGo(t, "opening")
    BY <1>3 DEF StorePassword, MayGo, IInv, PasswordsAreForTeams
  <2> QED BY <1>1, <1>3, <2>1 DEF StorePassword, Move, Went
<1>4. CASE OpenSession(t)
  <2>1. at[t] = "opening" /\ UNCHANGED server
    BY <1>4 DEF OpenSession
  <2>2. CASE Switches(form[t])
    <3>1. MayGo(t, "remembering")
      BY <2>1, <2>2 DEF MayGo, IInv, PasswordsAreForTeams
    <3> QED BY <1>1, <1>4, <2>1, <2>2, <3>1 DEF OpenSession, Move, Went
  <2>3. CASE ~Switches(form[t])
    <3>1. MayGo(t, "answered")
      BY FreePlaces
    <3> QED BY <1>1, <1>4, <2>1, <2>3, <3>1 DEF OpenSession, Move, Went
  <2> QED BY <2>2, <2>3
<1>5. CASE FindOwner(t)
  <2>1. MayGo(t, "creating") /\ MayGo(t, "recording") /\ at[t] = "owning" /\ UNCHANGED server
    BY <1>5 DEF FindOwner, MayGo, IInv, SwitchesOnLoopback, PassedHostCheck, NoneOutlivesTheServer
  <2> QED BY <1>1, <1>5, <2>1 DEF FindOwner, Move, Went
<1>6. CASE CreateOwner(t)
  <2>1. MayGo(t, "crashed")
    BY FreePlaces
  <2>2. MayGo(t, "recording") /\ at[t] = "creating" /\ UNCHANGED server
    BY <1>6 DEF CreateOwner, MayGo, IInv, SwitchesOnLoopback, PassedHostCheck, NoneOutlivesTheServer
  <2> QED BY <1>1, <1>6, <2>1, <2>2 DEF CreateOwner, Move, Went
<1>7. CASE RecordLocal(t)
  <2>1. MayGo(t, "remembering") /\ at[t] = "recording" /\ UNCHANGED server
    BY <1>7 DEF RecordLocal, MayGo, IInv, SwitchesOnLoopback, PassedHostCheck, NoneOutlivesTheServer
  <2> QED BY <1>1, <1>7, <2>1 DEF RecordLocal, Move, Went
<1>8. CASE ChooseAdmin(t)
  <2>1. MayGo(t, "hashing") /\ MayGo(t, "refused")
    BY <1>8, FreePlaces DEF ChooseAdmin, MayGo, IInv, PasswordsAreForTeams
  <2> QED BY <1>1, <1>8, <2>1 DEF ChooseAdmin, Move, Hold, Went
<1> QED BY <1>2, <1>3, <1>4, <1>5, <1>6, <1>7, <1>8

\* Every other request changes rows and goes to a free place
LEMMA OtherInv ==
    ASSUME IInv, NEW t \in Threads,
           \/ AdmitLocally(t) \/ AdmitByCookie(t) \/ Handle(t) \/ Login(t)
           \/ CountMembers(t) \/ DropGroup(t)
           \/ EditUser(t) \/ ReadLinks(t) \/ SyncLinks(t) \/ Locked(t)
    PROVE  IInv'
<1> DEFINE Free == Ended \cup {"local", "cookie", "admitted", "deleting", "linking", "syncing"}
           Went == \E place \in Free : \E who, h : Go(t, place, who, h)
<1>1. ASSUME Went, at[t] \notin Ended, UNCHANGED server PROVE IInv'
  BY <1>1, GoInv, FreePlaces
<1>2. CASE AdmitLocally(t)
  BY <1>1, <1>2 DEF AdmitLocally, Move
<1>3. CASE AdmitByCookie(t)
  BY <1>1, <1>3 DEF AdmitByCookie, Move
<1>4. CASE Handle(t)
  BY <1>1, <1>4 DEF Handle, Move
<1>5. CASE Login(t)
  <2>1. MayGo(t, "opening") /\ MayGo(t, "refused") /\ at[t] = "admitted" /\ UNCHANGED server
    BY <1>5 DEF Login, MayGo, Switches
  <2>2. \E place \in {"opening", "refused"} : \E who, h : Go(t, place, who, h)
    BY <1>5 DEF Login, Move, Hold
  <2> QED BY <2>1, <2>2, GoInv
<1>6. CASE CountMembers(t)
  BY <1>1, <1>6 DEF CountMembers, Move
<1>7. CASE DropGroup(t)
  BY <1>1, <1>7 DEF DropGroup, Move
<1>8. CASE EditUser(t)
  BY <1>1, <1>8 DEF EditUser
<1>9. CASE ReadLinks(t)
  BY <1>1, <1>9 DEF ReadLinks
<1>10. CASE SyncLinks(t)
  BY <1>1, <1>10 DEF SyncLinks
<1>11. CASE Locked(t)
  BY <1>1, <1>11 DEF Locked, Move, Busy
<1> QED BY <1>2, <1>3, <1>4, <1>5, <1>6, <1>7, <1>8, <1>9, <1>10, <1>11

LEMMA NextInv == IInv /\ [Next]_vars => IInv'
<1> SUFFICES ASSUME IInv, [Next]_vars PROVE IInv'
  OBVIOUS
<1>1. CASE UNCHANGED vars
  BY <1>1 DEF vars, requestVars, serverVars, IInv, Shape, PasswordlessIsLoopback,
     SwitchesOnLoopback, NoneOutlivesTheServer, PasswordsAreForTeams, PassedHostCheck, Switches
<1>2. CASE Tick
  BY <1>2 DEF Tick, requestVars, serverVars, IInv, Shape, PasswordlessIsLoopback,
     SwitchesOnLoopback, NoneOutlivesTheServer, PasswordsAreForTeams, PassedHostCheck, Switches
<1>3. CASE \E mode \in Modes, loopback \in BOOLEAN : Start(mode, loopback)
  BY <1>3, StartInv
<1>4. CASE Listen \/ Stop
  BY <1>4, ListenInv, StopInv
<1>5. ASSUME NEW t \in Threads, Request(t) PROVE IInv'
  BY <1>5, RememberInv, SwitchInv, OtherInv DEF Request
<1>6. ASSUME NEW t \in Threads, NEW f \in Forms, NEW c \in 0 .. Len(sessions), Arrive(t, f, c)
      PROVE  IInv'
  BY <1>6, ArriveInv
<1> QED BY <1>1, <1>2, <1>3, <1>4, <1>5, <1>6 DEF Next

-----------------------------------------------------------------------------
\* A console that asks for no password listens on the loopback interface only,
\* whatever switches, edits, restarts and crashes lead there.
THEOREM LocalMeansLoopback == Init /\ [][Next]_vars => []PasswordlessIsLoopback
<1>1. IInv => PasswordlessIsLoopback
  BY DEF IInv
<1> QED BY InitInv, NextInv, <1>1, PTL

-----------------------------------------------------------------------------
\* Numbers

\* A set of numbers has a least one, the one an ORDER BY id puts first.
LEMMA LeastId ==
    ASSUME NEW T \in SUBSET Nat, T # {}
    PROVE  Min(T) \in T
<1>1. PICK x \in T : \A y \in T : ~(<<y, x>> \in OpToRel(<, Nat))
  BY NatLessThanWellFounded, WFMin
<1>2. \A m, n \in Nat : <<m, n>> \in OpToRel(<, Nat) <=> m < n
  BY Zenon DEF OpToRel
<1>3. \A y \in T : ~(y < x)
  BY <1>1, <1>2
<1>4. \E z \in T : \A y \in T : z =< y
  BY <1>3
<1> QED BY <1>4 DEF Min

\* ... and one below a bound has a greatest one.
LEMMA GreatestId ==
    ASSUME NEW len \in Nat, NEW W \in SUBSET (1 .. len), W # {}
    PROVE  Max(W) \in W /\ \A y \in W : Max(W) >= y
<1> DEFINE T == {len - x : x \in W}
<1>1. T \in SUBSET Nat /\ T # {}
  <2>1. \A x \in W : len - x \in Nat
    OBVIOUS
  <2> QED BY <2>1
<1>2. PICK t \in T : \A y \in T : ~(<<y, t>> \in OpToRel(<, Nat))
  <2> HIDE DEF T
  <2> QED BY <1>1, NatLessThanWellFounded, WFMin
<1>3. \A m, n \in Nat : <<m, n>> \in OpToRel(<, Nat) <=> m < n
  BY Zenon DEF OpToRel
<1>4. \A y \in T : ~(y < t)
  <2> HIDE DEF T
  <2> QED BY <1>1, <1>2, <1>3
<1>5. PICK x \in W : t = len - x
  OBVIOUS
<1>6. \A y \in W : x >= y
  <2> TAKE y \in W
  <2>1. ~(len - y < len - x)
    BY <1>4, <1>5
  <2> QED BY <2>1
<1>7. \E z \in W : \A y \in W : z >= y
  BY <1>6
<1> QED BY <1>7 DEF Max

-----------------------------------------------------------------------------
\* What schema.sql's keys say of the rows.  The theorems below assume it of the
\* rows a behaviour starts from, and show that every transaction keeps it.

\* One of the rows has the highest id
Bounded(rows) == rows = {} \/ \E m \in rows : \A r \in rows : r.id <= m.id

\* Ids have a highest one, a membership and the holder of a permission refer to
\* a group that is there, and a permission that names field and project is
\* there once.  Nothing keeps two users from having one external subject.
Constrained ==
    /\ DOMAIN links = ToSet(Kinds)
    /\ Bounded(groups) /\ Bounded(permissions)
    /\ \A l \in links["groups"] : l[2] \in GroupIds
    /\ \A p \in permissions : p.group \in GroupIds \cup {Null}
    /\ \A p, q \in permissions : (p.field # Null /\ p.project # Null /\ Content(p) = Content(q)) => p = q

RowsFine == RowsTypeOK /\ Constrained

\* The parts of both that speak of one table
UsersFine ==
    users \in Seq([email : Emails, role : Roles, active : BOOLEAN,
                   secret : Secrets \cup {Null}, subject : Emails \cup {Null}])
GroupsFine == Bounded(groups) /\ \A g \in groups : g.id \in Nat \ {0} /\ g.name \in Names
LinksFine ==
    /\ DOMAIN links = {"groups", "projects", "companies"}
    /\ links["groups"] \subseteq UserIds \X (Nat \ {0})
    /\ links["projects"] \subseteq UserIds \X Projects
    /\ links["companies"] \subseteq UserIds \X Companies
    /\ \A l \in links["groups"] : l[2] \in GroupIds
PermissionsFine ==
    /\ Bounded(permissions)
    /\ \A p \in permissions : p.id \in Nat \ {0} /\ p.field \in Fields \cup {Null}
    /\ \A p \in permissions : p.group \in GroupIds \cup {Null}
    /\ \A p, q \in permissions : (p.field # Null /\ p.project # Null /\ Content(p) = Content(q)) => p = q
KeysFine == keys \in Seq([user : UserIds, active : BOOLEAN])

LEMMA ThreeKinds ==
    /\ ToSet(Kinds) = {"groups", "projects", "companies"}
    /\ DOMAIN Kinds = 1 .. 3 /\ Len(Kinds) = 3
    /\ Kinds[1] = "groups" /\ Kinds[2] = "projects" /\ Kinds[3] = "companies"
<1>1. DOMAIN Kinds = 1 .. 3 /\ Kinds[1] = "groups" /\ Kinds[2] = "projects" /\ Kinds[3] = "companies"
  BY DEF Kinds
<1>2. ToSet(Kinds) = {Kinds[i] : i \in 1 .. 3}
  BY <1>1 DEF ToSet
<1> QED BY <1>1, <1>2 DEF Kinds

LEMMA RowsParts ==
    RowsFine <=> UsersFine /\ GroupsFine /\ LinksFine /\ PermissionsFine /\ KeysFine
BY ThreeKinds DEF RowsFine, RowsTypeOK, Constrained, UsersFine, GroupsFine, LinksFine, PermissionsFine, KeysFine

LEMMA RowsPartsNext ==
    RowsFine' <=> (UsersFine /\ GroupsFine /\ LinksFine /\ PermissionsFine /\ KeysFine)'
BY ThreeKinds DEF RowsFine, RowsTypeOK, Constrained, UsersFine, GroupsFine, LinksFine, PermissionsFine, KeysFine

\* A new row gets a number of its own
LEMMA NewNumber ==
    ASSUME NEW rows, Bounded(rows), \A r \in rows : r.id \in Nat \ {0}
    PROVE  NextId(rows) \in Nat \ {0} /\ \A r \in rows : r.id < NextId(rows)
<1> DEFINE S == {0} \cup {r.id : r \in rows}
<1>1. \E x \in S : \A y \in S : x >= y
  <2>1. CASE rows = {}
    BY <2>1
  <2>2. ASSUME NEW m \in rows, \A r \in rows : r.id <= m.id
        PROVE  \E x \in S : \A y \in S : x >= y
    <3>1. m.id \in S /\ \A y \in S : m.id >= y
      BY <2>2
    <3> QED BY <3>1
  <2> QED BY <2>1, <2>2 DEF Bounded
<1>2. Max(S) \in S /\ \A y \in S : Max(S) >= y
  BY <1>1 DEF Max
<1>3. Max(S) \in Nat /\ \A r \in rows : Max(S) >= r.id
  BY <1>2
<1>4. NextId(rows) = 1 + Max(S)
  BY DEF NextId
<1> QED BY <1>3, <1>4

LEMMA AddedBounded ==
    ASSUME NEW rows, Bounded(rows), \A r \in rows : r.id \in Nat \ {0},
           NEW p, p.id = NextId(rows)
    PROVE  Bounded(rows \cup {p})
<1>1. NextId(rows) \in Nat /\ \A r \in rows : r.id < NextId(rows)
  BY NewNumber
<1>2. \A r \in rows \cup {p} : r.id <= p.id
  BY <1>1
<1> QED BY <1>2 DEF Bounded

LEMMA FewerBounded ==
    ASSUME NEW rows, Bounded(rows), \A r \in rows : r.id \in Nat \ {0}, NEW fewer \in SUBSET rows
    PROVE  Bounded(fewer)
<1> SUFFICES ASSUME fewer # {} PROVE \E m \in fewer : \A r \in fewer : r.id <= m.id
  BY DEF Bounded
<1>1. PICK m \in rows : \A r \in rows : r.id <= m.id
  BY DEF Bounded
<1> DEFINE ids == {r.id : r \in fewer}
<1>2. ids \in SUBSET (1 .. m.id) /\ ids # {} /\ m.id \in Nat
  <2>1. \A r \in fewer : r.id \in 1 .. m.id
    BY <1>1
  <2> QED BY <2>1
<1>3. Max(ids) \in ids /\ \A i \in ids : Max(ids) >= i
  <2> HIDE DEF ids
  <2> QED BY <1>2, GreatestId
<1>4. PICK r \in fewer : r.id = Max(ids)
  BY <1>3
<1>5. \A q \in fewer : q.id <= r.id
  <2> TAKE q \in fewer
  <2>1. q.id \in ids /\ q.id \in Nat /\ r.id \in Nat
    OBVIOUS
  <2> QED BY <1>3, <1>4, <2>1
<1> QED BY <1>5

-----------------------------------------------------------------------------
\* The transactions, table by table

\* Rows of users and keys stay where they are, and stand for whom they stood for
Grows ==
    /\ UserIds \subseteq UserIds' /\ DOMAIN keys \subseteq (DOMAIN keys)'
    /\ \A u \in UserIds : users'[u].subject = users[u].subject
    /\ \A u \in UserIds' : u \notin UserIds => users'[u].subject = Null
    /\ \A k \in DOMAIN keys : keys'[k].user = keys[k].user

LEMMA UsersGo ==
    ASSUME RowsFine,
           \/ \E email \in Emails, role \in Roles, secret \in Secrets \cup {Null} :
                 users' = Append(users, NewUser(email, role, secret))
           \/ \E u \in UserIds, b \in BOOLEAN : users' = [users EXCEPT ![u].active = b]
           \/ \E u \in UserIds, secret \in Secrets \cup {Null} : users' = [users EXCEPT ![u].secret = secret]
           \/ \E u \in UserIds, role \in Roles : users' = [users EXCEPT ![u].role = role]
           \/ users' = users
    PROVE  /\ UsersFine' /\ UserIds \subseteq UserIds'
           /\ \A u \in UserIds : users'[u].subject = users[u].subject
           /\ \A u \in UserIds' : u \notin UserIds => users'[u].subject = Null
<1> DEFINE Row == [email : Emails, role : Roles, active : BOOLEAN,
                   secret : Secrets \cup {Null}, subject : Emails \cup {Null}]
<1>1. users \in Seq(Row)
  BY RowsParts DEF UsersFine
<1>2. UserIds = 1 .. Len(users) /\ Len(users) \in Nat
  BY <1>1 DEF UserIds
<1>3. /\ users' \in Seq(Row) /\ UserIds \subseteq UserIds'
      /\ \A u \in UserIds : users'[u].subject = users[u].subject
      /\ \A u \in UserIds' : u \notin UserIds => users'[u].subject = Null
  <2>1. ASSUME NEW email \in Emails, NEW role \in Roles, NEW secret \in Secrets \cup {Null},
               users' = Append(users, NewUser(email, role, secret))
        PROVE  <1>3
    <3>1. NewUser(email, role, secret) \in Row /\ NewUser(email, role, secret).subject = Null
      BY <2>1 DEF NewUser
    <3> DEFINE new == NewUser(email, role, secret)
    <3> HIDE DEF new, Row
    <3>2. users' \in Seq(Row) /\ DOMAIN users' = 1 .. Len(users) + 1
      BY <1>1, <2>1, <3>1 DEF new
    <3>3. /\ \A u \in 1 .. Len(users) : users'[u] = users[u]
          /\ users'[Len(users) + 1].subject = Null
      BY <1>1, <2>1, <3>1 DEF new
    <3>4. UserIds' = 1 .. Len(users) + 1
      BY <3>2 DEF UserIds
    <3>5. \A u \in 1 .. Len(users) + 1 : u \notin 1 .. Len(users) => u = Len(users) + 1
      BY <1>2
    <3>6. UserIds \subseteq UserIds'
      BY <1>2, <3>4
    <3>7. \A u \in UserIds : users'[u].subject = users[u].subject
      BY <1>2, <3>3
    <3>8. \A u \in UserIds' : u \notin UserIds => users'[u].subject = Null
      BY <1>2, <3>3, <3>4, <3>5
    <3> QED BY <3>2, <3>6, <3>7, <3>8
  <2>2. ASSUME NEW u \in UserIds, NEW row \in Row, users' = [users EXCEPT ![u] = row],
               row.subject = users[u].subject
        PROVE  <1>3
    <3> HIDE DEF Row
    <3>1. users' \in Seq(Row) /\ DOMAIN users' = DOMAIN users
      BY <1>1, <1>2, <2>2
    <3>2. \A v \in UserIds : users'[v].subject = users[v].subject
      BY <1>1, <1>2, <2>2
    <3> QED BY <3>1, <3>2 DEF UserIds
  <2>3. \A u \in UserIds : users[u] \in Row
    <3> HIDE DEF Row
    <3> QED BY <1>1, <1>2
  <2>4. ASSUME NEW u \in UserIds, NEW b \in BOOLEAN, users' = [users EXCEPT ![u].active = b] PROVE <1>3
    <3> DEFINE row == [users[u] EXCEPT !.active = b]
    <3>1. row \in Row /\ row.subject = users[u].subject
      BY <2>3, <2>4
    <3>2. users' = [users EXCEPT ![u] = row]
      BY <2>4
    <3> QED BY <2>2, <3>1, <3>2
  <2>5. ASSUME NEW u \in UserIds, NEW secret \in Secrets \cup {Null}, users' = [users EXCEPT ![u].secret = secret]
        PROVE  <1>3
    <3> DEFINE row == [users[u] EXCEPT !.secret = secret]
    <3>1. row \in Row /\ row.subject = users[u].subject
      BY <2>3, <2>5
    <3>2. users' = [users EXCEPT ![u] = row]
      BY <2>5
    <3> QED BY <2>2, <3>1, <3>2
  <2>6. ASSUME NEW u \in UserIds, NEW role \in Roles, users' = [users EXCEPT ![u].role = role] PROVE <1>3
    <3> DEFINE row == [users[u] EXCEPT !.role = role]
    <3>1. row \in Row /\ row.subject = users[u].subject
      BY <2>3, <2>6
    <3>2. users' = [users EXCEPT ![u] = row]
      BY <2>6
    <3> QED BY <2>2, <3>1, <3>2
  <2>7. CASE users' = users
    BY <1>1, <2>7 DEF UserIds
  <2> QED BY <2>1, <2>4, <2>5, <2>6, <2>7
<1> QED BY <1>3 DEF UsersFine

LEMMA KeysGo ==
    ASSUME RowsFine, UserIds \subseteq UserIds',
           \/ \E u \in UserIds' : keys' = Append(keys, [user |-> u, active |-> TRUE])
           \/ \E k \in DOMAIN keys : keys' = [keys EXCEPT ![k].active = FALSE]
           \/ keys' = keys
    PROVE  /\ KeysFine' /\ DOMAIN keys \subseteq (DOMAIN keys)'
           /\ \A k \in DOMAIN keys : keys'[k].user = keys[k].user
<1> DEFINE Row(ids) == [user : ids, active : BOOLEAN]
<1>1. keys \in Seq(Row(UserIds))
  BY RowsParts DEF KeysFine
<1>2. Row(UserIds) \subseteq Row(UserIds')
  OBVIOUS
<1>3. keys \in Seq(Row(UserIds'))
  <2> HIDE DEF Row
  <2> QED BY <1>1, <1>2
<1>4. ASSUME NEW u \in UserIds', keys' = Append(keys, [user |-> u, active |-> TRUE])
      PROVE  /\ keys' \in Seq(Row(UserIds')) /\ DOMAIN keys \subseteq DOMAIN keys'
             /\ \A k \in DOMAIN keys : keys'[k].user = keys[k].user
  <2> DEFINE new == [user |-> u, active |-> TRUE]
  <2>1. new \in Row(UserIds')
    OBVIOUS
  <2> HIDE DEF Row, new
  <2>2. keys' = Append(keys, new)
    BY <1>4 DEF new
  <2>3. keys' \in Seq(Row(UserIds')) /\ DOMAIN keys' = 1 .. Len(keys) + 1 /\ DOMAIN keys = 1 .. Len(keys)
    BY <1>3, <2>1, <2>2
  <2>4. \A k \in 1 .. Len(keys) : keys'[k] = keys[k]
    BY <1>3, <2>2
  <2>5. Len(keys) \in Nat
    BY <1>3
  <2>6. \A j \in 1 .. Len(keys) : j \in 1 .. Len(keys) + 1
    BY <2>5
  <2>7. DOMAIN keys \subseteq DOMAIN keys'
    BY <2>3, <2>6
  <2> QED BY <2>3, <2>4, <2>7
<1>5. ASSUME NEW k \in DOMAIN keys, keys' = [keys EXCEPT ![k].active = FALSE]
      PROVE  /\ keys' \in Seq(Row(UserIds')) /\ DOMAIN keys \subseteq DOMAIN keys'
             /\ \A j \in DOMAIN keys : keys'[j].user = keys[j].user
  <2> DEFINE row == [keys[k] EXCEPT !.active = FALSE]
  <2>1. keys[k] \in Row(UserIds')
    <3> HIDE DEF Row
    <3> QED BY <1>3
  <2>2. row \in Row(UserIds') /\ row.user = keys[k].user /\ keys' = [keys EXCEPT ![k] = row]
    BY <1>5, <2>1
  <2> HIDE DEF Row, row
  <2> QED BY <1>3, <2>2
<1> QED BY <1>3, <1>4, <1>5 DEF KeysFine

LEMMA GroupsGo ==
    ASSUME RowsFine,
           \/ \E name \in Names : groups' = groups \cup {[id |-> NextId(groups), name |-> name]}
           \/ groups' = groups
    PROVE  GroupsFine' /\ GroupIds \subseteq GroupIds'
<1>1. GroupsFine
  BY RowsParts
<1>2. ASSUME NEW name \in Names, groups' = groups \cup {[id |-> NextId(groups), name |-> name]}
      PROVE  GroupsFine' /\ GroupIds \subseteq GroupIds'
  <2> DEFINE new == [id |-> NextId(groups), name |-> name]
  <2>1. new.id = NextId(groups) /\ new.name = name /\ NextId(groups) \in Nat \ {0}
    BY <1>1, NewNumber DEF GroupsFine
  <2>2. Bounded(groups')
    BY <1>1, <1>2, <2>1, AddedBounded DEF GroupsFine
  <2>3. \A g \in groups' : g.id \in Nat \ {0} /\ g.name \in Names
    BY <1>1, <1>2, <2>1 DEF GroupsFine
  <2>4. Bounded(groups)'
    BY <2>2 DEF Bounded
  <2> QED BY <1>2, <2>3, <2>4 DEF GroupsFine, GroupIds
<1>3. CASE groups' = groups
  BY <1>1, <1>3 DEF GroupsFine, GroupIds, Bounded
<1> QED BY <1>2, <1>3

LEMMA LinksStay ==
    ASSUME RowsFine, links' = links, UserIds \subseteq UserIds', GroupIds \subseteq GroupIds'
    PROVE  LinksFine'
<1>1. LinksFine
  BY RowsParts
<1> QED BY <1>1 DEF LinksFine

LEMMA PermissionsStay ==
    ASSUME RowsFine, permissions' = permissions, GroupIds \subseteq GroupIds'
    PROVE  PermissionsFine'
<1>1. PermissionsFine
  BY RowsParts
<1> QED BY <1>1 DEF PermissionsFine, Content, Bounded

\* What no transaction may do to groups and permissions
GroupsStartEmpty ==
    \A g \in groups' \ groups :
        /\ \A l \in links["groups"]' : l[2] = g.id => l[1] \notin UserIds
        /\ \A p \in permissions' : p.group # g.id
PermissionsGoWhole ==
    \A p \in permissions \ permissions' :
        (p.field # Null /\ p.project # Null) => \A q \in permissions' : Content(q) # Content(p)

\* What every transaction does
RowsGo == RowsFine' /\ Grows /\ GroupsStartEmpty /\ PermissionsGoWhole

LEMMA NothingGoes ==
    ASSUME RowsFine, UNCHANGED rowVars
    PROVE  RowsGo
<1>1. RowsFine'
  BY RowsParts, RowsPartsNext, UsersGo, KeysGo, GroupsGo, LinksStay, PermissionsStay DEF rowVars, UserIds, GroupIds
<1>2. Grows /\ GroupsStartEmpty /\ PermissionsGoWhole
  BY DEF rowVars, Grows, UserIds, GroupsStartEmpty, PermissionsGoWhole
<1> QED BY <1>1, <1>2 DEF RowsGo

LEMMA PeopleGo ==
    ASSUME RowsFine, UNCHANGED <<groups, links, permissions, keys>>,
           \/ \E email \in Emails, role \in Roles, secret \in Secrets \cup {Null} :
                 users' = Append(users, NewUser(email, role, secret))
           \/ \E u \in UserIds, b \in BOOLEAN : users' = [users EXCEPT ![u].active = b]
           \/ \E u \in UserIds, secret \in Secrets \cup {Null} : users' = [users EXCEPT ![u].secret = secret]
           \/ \E u \in UserIds, role \in Roles : users' = [users EXCEPT ![u].role = role]
    PROVE  RowsGo
<1>1. /\ UsersFine' /\ UserIds \subseteq UserIds'
      /\ \A u \in UserIds : users'[u].subject = users[u].subject
      /\ \A u \in UserIds' : u \notin UserIds => users'[u].subject = Null
  BY UsersGo
<1>2. GroupsFine' /\ GroupIds \subseteq GroupIds'
  BY GroupsGo
<1>3. LinksFine' /\ PermissionsFine'
  BY <1>1, <1>2, LinksStay, PermissionsStay
<1>4. KeysFine' /\ DOMAIN keys \subseteq (DOMAIN keys)' /\ \A k \in DOMAIN keys : keys'[k].user = keys[k].user
  BY <1>1, KeysGo
<1>5. RowsFine'
  BY <1>1, <1>2, <1>3, <1>4, RowsPartsNext
<1>6. Grows
  BY <1>1, <1>4 DEF Grows
<1> QED BY <1>5, <1>6 DEF RowsGo, GroupsStartEmpty, PermissionsGoWhole

LEMMA KeyTransactions ==
    ASSUME RowsFine, UNCHANGED <<users, groups, links, permissions>>,
           \/ \E u \in UserIds : keys' = Append(keys, [user |-> u, active |-> TRUE])
           \/ \E k \in DOMAIN keys : keys' = [keys EXCEPT ![k].active = FALSE]
           \/ keys' = keys
    PROVE  RowsGo
<1>1. UsersFine' /\ UserIds' = UserIds
  BY UsersGo DEF UserIds
<1>2. GroupsFine' /\ GroupIds \subseteq GroupIds'
  BY GroupsGo
<1>3. LinksFine' /\ PermissionsFine'
  BY <1>1, <1>2, LinksStay, PermissionsStay
<1>4. KeysFine' /\ DOMAIN keys \subseteq (DOMAIN keys)' /\ \A k \in DOMAIN keys : keys'[k].user = keys[k].user
  BY <1>1, KeysGo
<1>5. RowsFine'
  BY <1>1, <1>2, <1>3, <1>4, RowsPartsNext
<1>6. Grows
  BY <1>1, <1>4 DEF Grows
<1> QED BY <1>5, <1>6 DEF RowsGo, GroupsStartEmpty, PermissionsGoWhole

\* What a link of a kind may refer to
Target(kind, x) ==
    /\ kind = "groups" => x \in GroupIds
    /\ kind = "projects" => x \in Projects
    /\ kind = "companies" => x \in Companies

LEMMA LinkTransactions ==
    ASSUME RowsFine, UNCHANGED <<users, groups, permissions, keys>>,
           DOMAIN links' = DOMAIN links,
           \A kind \in ToSet(Kinds) : \A l \in links'[kind] :
              l \in links[kind] \/ \E u \in UserIds : \E x : l = <<u, x>> /\ Target(kind, x)
    PROVE  RowsGo
<1>1. UsersFine' /\ UserIds' = UserIds
  BY UsersGo DEF UserIds
<1>2. GroupsFine' /\ GroupIds' = GroupIds
  BY GroupsGo DEF GroupIds
<1>3. PermissionsFine'
  BY <1>2, PermissionsStay
<1>4. KeysFine'
  BY <1>1, KeysGo
<1>5. LinksFine /\ GroupsFine
  BY RowsParts
<1>6. LinksFine'
  <2>1. GroupIds \subseteq Nat \ {0}
    BY <1>5 DEF GroupsFine, GroupIds
  <2>2. DOMAIN links' = {"groups", "projects", "companies"}
    BY <1>5 DEF LinksFine
  <2>3. /\ links'["groups"] \subseteq UserIds \X (Nat \ {0})
        /\ \A l \in links'["groups"] : l[2] \in GroupIds
    <3> SUFFICES ASSUME NEW l \in links'["groups"]
                 PROVE  l \in UserIds \X (Nat \ {0}) /\ l[2] \in GroupIds
      OBVIOUS
    <3>1. CASE l \in links["groups"]
      BY <1>5, <3>1 DEF LinksFine
    <3>2. ASSUME NEW u \in UserIds, NEW x, l = <<u, x>>, Target("groups", x)
          PROVE  l \in UserIds \X (Nat \ {0}) /\ l[2] \in GroupIds
      BY <2>1, <3>2 DEF Target
    <3> QED BY <3>1, <3>2, ThreeKinds
  <2>4. links'["projects"] \subseteq UserIds \X Projects
    <3> SUFFICES ASSUME NEW l \in links'["projects"] PROVE l \in UserIds \X Projects
      OBVIOUS
    <3>1. CASE l \in links["projects"]
      BY <1>5, <3>1 DEF LinksFine
    <3>2. ASSUME NEW u \in UserIds, NEW x, l = <<u, x>>, Target("projects", x)
          PROVE  l \in UserIds \X Projects
      BY <3>2 DEF Target
    <3> QED BY <3>1, <3>2, ThreeKinds
  <2>5. links'["companies"] \subseteq UserIds \X Companies
    <3> SUFFICES ASSUME NEW l \in links'["companies"] PROVE l \in UserIds \X Companies
      OBVIOUS
    <3>1. CASE l \in links["companies"]
      BY <1>5, <3>1 DEF LinksFine
    <3>2. ASSUME NEW u \in UserIds, NEW x, l = <<u, x>>, Target("companies", x)
          PROVE  l \in UserIds \X Companies
      BY <3>2 DEF Target
    <3> QED BY <3>1, <3>2, ThreeKinds
  <2> QED BY <1>1, <1>2, <2>2, <2>3, <2>4, <2>5 DEF LinksFine
<1>7. RowsFine'
  BY <1>1, <1>2, <1>3, <1>4, <1>6, RowsPartsNext
<1>8. Grows
  BY <1>1 DEF Grows
<1> QED BY <1>7, <1>8 DEF RowsGo, GroupsStartEmpty, PermissionsGoWhole

LEMMA SyncGoes ==
    ASSUME RowsFine, NEW kind \in ToSet(Kinds), NEW u \in UserIds, NEW wanted, NEW read, NEW answer,
           \A x \in wanted : kind = "groups" \/ Target(kind, x),
           Sync(kind, u, wanted, read, answer)
    PROVE  RowsGo
<1>1. DOMAIN links = {"groups", "projects", "companies"}
  BY RowsParts DEF LinksFine
<1>2. CASE links' = links
  <2>1. UNCHANGED rowVars
    BY <1>2 DEF Sync, rowVars
  <2> QED BY <2>1, NothingGoes
<1>3. CASE Replace(kind, u, wanted, read) /\ \A x \in wanted \ read : References(kind, x)
  <2>1. \A x \in wanted \ read : Target(kind, x)
    <3> TAKE x \in wanted \ read
    <3>1. kind = "groups" \/ Target(kind, x)
      OBVIOUS
    <3>2. kind = "groups" => x \in GroupIds
      BY <1>3 DEF References, ForeignKeys
    <3> QED BY <3>1, <3>2 DEF Target
  <2>2. DOMAIN links' = DOMAIN links
    BY <1>3 DEF Replace
  <2>3. \A other \in ToSet(Kinds) : other # kind => links'[other] = links[other]
    BY <1>1, <1>3, ThreeKinds DEF Replace
  <2>4. links'[kind] = (links[kind] \cup ({u} \X (wanted \ read))) \ ({u} \X (read \ wanted))
    BY <1>1, <1>3, ThreeKinds DEF Replace
  <2>5. \A l \in links'[kind] : l \in links[kind] \/ \E x : l = <<u, x>> /\ Target(kind, x)
    BY <2>1, <2>4
  <2>6. \A other \in ToSet(Kinds) : \A l \in links'[other] :
           l \in links[other] \/ \E v \in UserIds : \E x : l = <<v, x>> /\ Target(other, x)
    BY <2>3, <2>5
  <2>7. UNCHANGED <<users, groups, permissions, keys>>
    BY DEF Sync
  <2> QED BY <2>2, <2>6, <2>7, LinkTransactions
<1> QED BY <1>2, <1>3 DEF Sync

LEMMA LinkGoes ==
    ASSUME RowsFine, NEW f \in Forms, NEW answer, Shown(f), Link(f, answer) \/ LeaveGroup(f, answer)
    PROVE  RowsGo
<1>1. DOMAIN links = {"groups", "projects", "companies"}
  BY RowsParts DEF LinksFine
<1>2. UNCHANGED <<users, groups, permissions, keys>>
  BY DEF Link, LeaveGroup
<1>3. CASE links' = links
  <2>1. UNCHANGED rowVars
    BY <1>2, <1>3 DEF rowVars
  <2> QED BY <2>1, NothingGoes
<1>4. CASE LeaveGroup(f, answer)
  <2>1. DOMAIN links' = DOMAIN links /\ \A kind \in ToSet(Kinds) : links'[kind] \subseteq links[kind]
    BY <1>1, <1>4, ThreeKinds DEF LeaveGroup
  <2> QED BY <1>2, <2>1, LinkTransactions
<1>5. CASE Link(f, answer) /\ links' # links
  <2>1. /\ f.page = "link" /\ References(f.kind, f.row)
        /\ links' = [links EXCEPT ![f.kind] = @ \cup {<<f.user, f.row>>}]
    BY <1>5 DEF Link
  <2>2. Target(f.kind, f.row) /\ f.user \in UserIds
    BY <2>1, SessionAssumption DEF FormOK, References, ForeignKeys, Target, Shown
  <2>3. DOMAIN links' = DOMAIN links
    BY <2>1
  <2>4. \A kind \in ToSet(Kinds) : \A l \in links'[kind] :
           l \in links[kind] \/ (kind = f.kind /\ l = <<f.user, f.row>>)
    BY <1>1, <2>1, ThreeKinds
  <2>5. \A kind \in ToSet(Kinds) : \A l \in links'[kind] :
           l \in links[kind] \/ \E v \in UserIds : \E x : l = <<v, x>> /\ Target(kind, x)
    BY <2>2, <2>4
  <2> QED BY <1>2, <2>3, <2>5, LinkTransactions
<1> QED BY <1>3, <1>4, <1>5

LEMMA CreateGroupGoes ==
    ASSUME RowsFine, NEW f \in Forms, NEW answer, CreateGroup(f, answer)
    PROVE  RowsGo
<1>1. CASE groups' = groups
  <2>1. UNCHANGED rowVars
    BY <1>1 DEF CreateGroup, rowVars
  <2> QED BY <2>1, NothingGoes
<1>2. CASE groups' = groups \cup {[id |-> NextId(groups), name |-> f.name]}
  <2> DEFINE new == [id |-> NextId(groups), name |-> f.name]
  <2>1. f.name \in Names /\ UNCHANGED <<users, links, permissions, keys>>
    BY SessionAssumption DEF CreateGroup, FormOK
  <2>2. UsersFine' /\ UserIds' = UserIds
    BY <2>1, UsersGo DEF UserIds
  <2>3. GroupsFine' /\ GroupIds \subseteq GroupIds'
    BY <1>2, <2>1, GroupsGo
  <2>4. LinksFine' /\ PermissionsFine'
    BY <2>1, <2>2, <2>3, LinksStay, PermissionsStay
  <2>5. KeysFine'
    BY <2>1, <2>2, KeysGo
  <2>6. RowsFine'
    BY <2>2, <2>3, <2>4, <2>5, RowsPartsNext
  <2>7. Grows /\ PermissionsGoWhole
    BY <2>1, <2>2 DEF Grows, PermissionsGoWhole
  <2>8. NextId(groups) \notin GroupIds \cup {Null}
    <3>1. NextId(groups) \in Nat /\ \A g \in groups : g.id \in Nat /\ g.id < NextId(groups)
      BY RowsParts, NewNumber DEF GroupsFine
    <3>2. \A g \in groups : g.id # NextId(groups)
      BY <3>1
    <3> QED BY <3>1, <3>2, ConsoleAssumption DEF GroupIds
  <2>9. GroupsStartEmpty
    <3>1. \A g \in groups' \ groups : g.id = NextId(groups)
      BY <1>2
    <3>2. /\ \A l \in links["groups"] : l[2] \in GroupIds
          /\ \A p \in permissions : p.group \in GroupIds \cup {Null}
      BY RowsParts DEF LinksFine, PermissionsFine
    <3> QED BY <2>1, <2>8, <3>1, <3>2 DEF GroupsStartEmpty
  <2> QED BY <2>6, <2>7, <2>9 DEF RowsGo
<1> QED BY <1>1, <1>2 DEF CreateGroup

LEMMA DeleteGroupGoes ==
    ASSUME RowsFine, NEW g, NEW answer, DeleteGroup(g, answer)
    PROVE  RowsGo
<1>1. CASE UNCHANGED <<groups, permissions>>
  <2>1. UNCHANGED rowVars
    BY <1>1 DEF DeleteGroup, rowVars
  <2> QED BY <2>1, NothingGoes
<1>2. CASE /\ Members(g) = {}
           /\ groups' = {x \in groups : x.id # g}
           /\ permissions' = {p \in permissions : p.group # g}
  <2>1. UNCHANGED <<users, links, keys>>
    BY DEF DeleteGroup
  <2>2. UsersFine' /\ UserIds' = UserIds
    BY <2>1, UsersGo DEF UserIds
  <2>3. KeysFine'
    BY <2>1, <2>2, KeysGo
  <2>4. GroupIds' = GroupIds \ {g}
    BY <1>2 DEF GroupIds
  <2>5. GroupsFine'
    <3>1. GroupsFine
      BY RowsParts
    <3>2. Bounded(groups')
      BY <1>2, <3>1, FewerBounded DEF GroupsFine
    <3> QED BY <1>2, <3>1, <3>2 DEF GroupsFine, Bounded
  <2>6. PermissionsFine'
    <3>1. PermissionsFine
      BY RowsParts
    <3>2. Bounded(permissions')
      BY <1>2, <3>1, FewerBounded DEF PermissionsFine
    <3>3. \A p \in permissions' : p.group \in GroupIds' \cup {Null}
      BY <1>2, <2>4, <3>1 DEF PermissionsFine
    <3> QED BY <1>2, <3>1, <3>2, <3>3 DEF PermissionsFine, Bounded, Content
  <2>7. LinksFine'
    <3>1. LinksFine
      BY RowsParts
    <3>2. \A l \in links["groups"] : l[2] # g
      BY <1>2 DEF Members
    <3> QED BY <2>1, <2>2, <2>4, <3>1, <3>2 DEF LinksFine
  <2>8. RowsFine'
    BY <2>2, <2>3, <2>5, <2>6, <2>7, RowsPartsNext
  <2>9. Grows /\ GroupsStartEmpty
    BY <1>2, <2>1, <2>2 DEF Grows, GroupsStartEmpty
  <2>10. PermissionsGoWhole
    BY <1>2 DEF PermissionsGoWhole, Content
  <2> QED BY <2>8, <2>9, <2>10 DEF RowsGo
<1> QED BY <1>1, <1>2 DEF DeleteGroup, ForeignKeys

LEMMA PermitGoes ==
    ASSUME RowsFine, NEW f \in Forms, NEW answer, Permit(f, answer)
    PROVE  RowsGo
<1> DEFINE p == [id |-> NextId(permissions), group |-> f.group, user |-> f.user,
                 field |-> f.field, project |-> f.project]
<1>1. f.page = "permit" /\ UNCHANGED <<users, groups, links, keys>>
  BY DEF Permit
<1>2. CASE permissions' = permissions
  <2>1. UNCHANGED rowVars
    BY <1>1, <1>2 DEF rowVars
  <2> QED BY <2>1, NothingGoes
<1>3. CASE /\ permissions' = permissions \cup {p} /\ ~Clashes(p)
           /\ f.group = Null \/ References("groups", f.group)
  <2>1. UsersFine' /\ UserIds' = UserIds
    BY <1>1, UsersGo DEF UserIds
  <2>2. GroupsFine' /\ GroupIds' = GroupIds
    BY <1>1, GroupsGo DEF GroupIds
  <2>3. LinksFine' /\ KeysFine'
    BY <1>1, <2>1, <2>2, LinksStay, KeysGo
  <2>4. PermissionsFine
    BY RowsParts
  <2>5. /\ p.id = NextId(permissions) /\ NextId(permissions) \in Nat \ {0}
        /\ Bounded(permissions')
    BY <1>3, <2>4, NewNumber, AddedBounded DEF PermissionsFine
  <2>6. p.field \in Fields \cup {Null}
    BY <1>1, SessionAssumption DEF FormOK
  <2>7. p.group \in GroupIds \cup {Null}
    BY <1>3 DEF References, ForeignKeys
  <2>8. \A q \in permissions : ~(p.field # Null /\ p.project # Null /\ Content(q) = Content(p))
    BY <1>3 DEF Clashes
  <2>9. PermissionsFine'
    <3> HIDE DEF p
    <3>1. \A q \in permissions' : q = p \/ q \in permissions
      BY <1>3
    <3>2. \A q \in permissions' : q.id \in Nat \ {0} /\ q.field \in Fields \cup {Null}
      BY <2>4, <2>5, <2>6, <3>1 DEF PermissionsFine
    <3>3. \A q \in permissions' : q.group \in GroupIds' \cup {Null}
      BY <2>2, <2>4, <2>7, <3>1 DEF PermissionsFine
    <3>4. \A q, r \in permissions' :
             (q.field # Null /\ q.project # Null /\ Content(q) = Content(r)) => q = r
      <4>1. \A q, r : Content(q) = Content(r) => q.field = r.field /\ q.project = r.project
        BY DEF Content
      <4>2. \A q, r \in permissions :
               (q.field # Null /\ q.project # Null /\ Content(q) = Content(r)) => q = r
        BY <2>4 DEF PermissionsFine
      <4> QED BY <2>8, <3>1, <4>1, <4>2
    <3> QED BY <2>5, <3>2, <3>3, <3>4 DEF PermissionsFine, Bounded, Content
  <2>10. RowsFine'
    BY <2>1, <2>2, <2>3, <2>9, RowsPartsNext
  <2> QED BY <1>1, <1>3, <2>1, <2>10 DEF RowsGo, Grows, GroupsStartEmpty, PermissionsGoWhole
<1> QED BY <1>2, <1>3 DEF Permit

LEMMA DeletePermissionGoes ==
    ASSUME RowsFine, NEW f, NEW answer, DeletePermission(f, answer)
    PROVE  RowsGo
<1>1. permissions' = {p \in permissions : p.id # f.permission} /\ UNCHANGED <<users, groups, links, keys>>
  BY DEF DeletePermission
<1>2. UsersFine' /\ UserIds' = UserIds
  BY <1>1, UsersGo DEF UserIds
<1>3. GroupsFine' /\ GroupIds' = GroupIds
  BY <1>1, GroupsGo DEF GroupIds
<1>4. LinksFine' /\ KeysFine'
  BY <1>1, <1>2, <1>3, LinksStay, KeysGo
<1>5. PermissionsFine
  BY RowsParts
<1>6. PermissionsFine'
  <2>1. Bounded(permissions')
    BY <1>1, <1>5, FewerBounded DEF PermissionsFine
  <2> QED BY <1>1, <1>3, <1>5, <2>1 DEF PermissionsFine, Bounded, Content
<1>7. RowsFine'
  BY <1>2, <1>3, <1>4, <1>6, RowsPartsNext
<1>8. PermissionsGoWhole
  BY <1>1, <1>5 DEF PermissionsFine, PermissionsGoWhole
<1> QED BY <1>1, <1>2, <1>7, <1>8 DEF RowsGo, Grows, GroupsStartEmpty

LEMMA ProvisionGoes ==
    ASSUME RowsFine, NEW f \in Forms, NEW answer, Provision(f, answer)
    PROVE  RowsGo
<1> DEFINE u == Len(users) + 1
           new == IF f.newGroup = Null THEN {} ELSE {[id |-> NextId(groups), name |-> f.newGroup]}
           gets(kind) == f.wanted[kind] \cup (IF kind = "groups" THEN {g.id : g \in new} ELSE {})
<1>1. CASE UNCHANGED rowVars
  BY <1>1, NothingGoes
<1>2. CASE /\ \A g \in f.wanted["groups"] : References("groups", g)
           /\ users' = Append(users, NewUser(f.email, f.role, Null))
           /\ groups' = groups \cup new
           /\ links' = [kind \in DOMAIN links |-> links[kind] \cup ({u} \X gets(kind))]
           /\ keys' = IF f.withKey THEN Append(keys, [user |-> u, active |-> TRUE]) ELSE keys
           /\ UNCHANGED permissions
  <2>1. /\ f.email \in Emails /\ f.role \in Roles /\ f.newGroup \in Names \cup {Null}
        /\ f.wanted["projects"] \subseteq Projects /\ f.wanted["companies"] \subseteq Companies
    BY SessionAssumption DEF Provision, FormOK
  <2>2. /\ UsersFine' /\ UserIds \subseteq UserIds'
        /\ \A v \in UserIds : users'[v].subject = users[v].subject
        /\ \A v \in UserIds' : v \notin UserIds => users'[v].subject = Null
    BY <1>2, <2>1, UsersGo
  <2>3. u \in UserIds' /\ u \notin UserIds
    <3>1. users \in Seq([email : Emails, role : Roles, active : BOOLEAN,
                      secret : Secrets \cup {Null}, subject : Emails \cup {Null}])
      BY RowsParts DEF UsersFine
    <3> DEFINE Row == [email : Emails, role : Roles, active : BOOLEAN,
                      secret : Secrets \cup {Null}, subject : Emails \cup {Null}]
               x == NewUser(f.email, f.role, Null)
    <3>2. users \in Seq(Row) /\ users' = Append(users, x)
      BY <1>2, <3>1
    <3>3. x \in Row
      BY <2>1 DEF NewUser
    <3> HIDE DEF Row, x
    <3>4. Len(users) \in Nat /\ DOMAIN users = 1 .. Len(users) /\ DOMAIN users' = 1 .. Len(users) + 1
      BY <3>2, <3>3
    <3> QED BY <3>4 DEF UserIds
  <2>4. GroupsFine' /\ GroupIds \subseteq GroupIds'
    <3>1. CASE new = {}
      BY <1>2, <3>1, GroupsGo
    <3>2. CASE f.newGroup # Null
      BY <1>2, <2>1, <3>2, GroupsGo
    <3> QED BY <3>1, <3>2
  <2>5. KeysFine' /\ DOMAIN keys \subseteq (DOMAIN keys)' /\ \A k \in DOMAIN keys : keys'[k].user = keys[k].user
    <3>1. CASE keys' = keys
      BY <2>2, <3>1, KeysGo
    <3>2. CASE keys' = Append(keys, [user |-> u, active |-> TRUE])
      <4> HIDE DEF u
      <4>1. \E v \in UserIds' : keys' = Append(keys, [user |-> v, active |-> TRUE])
        BY <2>3, <3>2
      <4> QED BY <2>2, <4>1, KeysGo
    <3> QED BY <1>2, <3>1, <3>2
  <2>6. PermissionsFine'
    BY <1>2, <2>4, PermissionsStay
  <2>7. LinksFine /\ GroupsFine /\ PermissionsFine
    BY RowsParts
  <2>8. /\ NextId(groups) \in Nat \ {0} /\ NextId(groups) \notin GroupIds \cup {Null}
        /\ GroupIds \subseteq Nat \ {0}
    <3>1. /\ NextId(groups) \in Nat \ {0}
          /\ \A g \in groups : g.id \in Nat \ {0} /\ g.id < NextId(groups)
      BY <2>7, NewNumber DEF GroupsFine
    <3>2. \A g \in groups : g.id # NextId(groups)
      BY <3>1
    <3> QED BY <3>1, <3>2, ConsoleAssumption DEF GroupIds
  <2>9. \A g \in new : g.id = NextId(groups) /\ g.id \in GroupIds'
    <3>1. \A g \in new : g.id = NextId(groups) /\ g \in groups'
      BY <1>2
    <3> QED BY <3>1 DEF GroupIds
  <2>10. \A x \in f.wanted["groups"] : x \in GroupIds
    BY <1>2 DEF References, ForeignKeys
  <2>11. \A x \in gets("groups") : x \in GroupIds' /\ x \in Nat \ {0}
    <3> HIDE DEF new
    <3>1. \A x \in gets("groups") : x \in f.wanted["groups"] \/ \E g \in new : x = g.id
      OBVIOUS
    <3> QED BY <2>4, <2>8, <2>9, <2>10, <3>1
  <2>12. gets("projects") \subseteq Projects /\ gets("companies") \subseteq Companies
    BY <2>1
  <2>13. /\ DOMAIN links' = {"groups", "projects", "companies"}
         /\ links'["groups"] = links["groups"] \cup ({u} \X gets("groups"))
         /\ links'["projects"] = links["projects"] \cup ({u} \X gets("projects"))
         /\ links'["companies"] = links["companies"] \cup ({u} \X gets("companies"))
    <3> HIDE DEF u, gets
    <3> QED BY <1>2, <2>7 DEF LinksFine
  <2>14. LinksFine'
    <3> HIDE DEF u, gets
    <3>1. links["groups"] \subseteq UserIds' \X (Nat \ {0}) /\ \A l \in links["groups"] : l[2] \in GroupIds'
      BY <2>2, <2>4, <2>7 DEF LinksFine
    <3>2. \A l \in links'["groups"] : l \in UserIds' \X (Nat \ {0}) /\ l[2] \in GroupIds'
      BY <2>3, <2>11, <2>13, <3>1
    <3>3. \A l \in links'["projects"] : l \in UserIds' \X Projects
      BY <2>2, <2>3, <2>7, <2>12, <2>13 DEF LinksFine
    <3>4. \A l \in links'["companies"] : l \in UserIds' \X Companies
      BY <2>2, <2>3, <2>7, <2>12, <2>13 DEF LinksFine
    <3> QED BY <2>13, <3>2, <3>3, <3>4 DEF LinksFine
  <2>15. RowsFine'
    BY <2>2, <2>4, <2>5, <2>6, <2>14, RowsPartsNext
  <2>16. Grows
    BY <2>2, <2>5 DEF Grows
  <2>17. GroupsStartEmpty
    <3>1. \A g \in groups' \ groups : g.id = NextId(groups)
      <4> HIDE DEF new
      <4> QED BY <1>2, <2>9
    <3> HIDE DEF u, gets, new
    <3>2. \A l \in links'["groups"] : l[2] = NextId(groups) => l[1] = u
      BY <2>7, <2>8, <2>13 DEF LinksFine
    <3>3. \A p \in permissions' : p.group # NextId(groups)
      BY <1>2, <2>7, <2>8 DEF PermissionsFine
    <3> QED BY <2>3, <3>1, <3>2, <3>3 DEF GroupsStartEmpty
  <2> QED BY <1>2, <2>15, <2>16, <2>17 DEF RowsGo, PermissionsGoWhole
<1> QED BY <1>1, <1>2 DEF Provision

\* A handler that is one transaction
LEMMA PageGoes ==
    ASSUME RowsFine, NEW f \in Forms, NEW answer, Shown(f), OneTransaction(f, answer)
    PROVE  RowsGo
<1>1. CASE CreateKey(f, answer)
  BY <1>1, KeyTransactions DEF CreateKey, Shown
<1>2. CASE RevokeKey(f, answer)
  BY <1>2, KeyTransactions DEF RevokeKey, Shown
<1>3. CASE SetStatus(f, answer)
  <2>1. f.user \in UserIds /\ f.active \in BOOLEAN
    BY <1>3, SessionAssumption DEF SetStatus, Shown, FormOK
  <2> QED BY <1>3, <2>1, PeopleGo DEF SetStatus
<1>4. CASE f.page = "password" /\ SetPassword(f.user, f.secret)
  <2>1. f.user \in UserIds /\ f.secret \in Secrets
    BY <1>4, SessionAssumption DEF Shown, FormOK
  <2> QED BY <1>4, <2>1, PeopleGo DEF SetPassword
<1> QED BY <1>1, <1>2, <1>3, <1>4, ProvisionGoes, LinkGoes, CreateGroupGoes, PermitGoes,
           DeletePermissionGoes DEF OneTransaction

-----------------------------------------------------------------------------
\* Where a request may be, and what it holds there

\* What an edit has left to do when the kinds from the k-th on are to come
Left(k) == IF k = 1 THEN Kinds ELSE IF k = 2 THEN <<"projects", "companies">> ELSE <<"companies">>

\* A request is where its form can lead it, and holds what that step left it
SoundAt(f, place, h) ==
    /\ f \in Forms /\ Shown(f)
    /\ place \in {"choosing", "hashing"} => Switches(f) /\ f.target = "team"
    /\ place = "opening" => f.page = "login" \/ (Switches(f) /\ f.target = "team")
    /\ place \in {"owning", "creating", "recording"} => Switches(f) /\ f.target = "local"
    /\ place = "remembering" => Switches(f)
    /\ place \in {"hashing", "opening"} => h.read # {} /\ h.read \subseteq UserIds
    /\ place \in {"linking", "syncing"} => f.page = "edit" /\ \E k \in 1 .. 3 : h.left = Left(k)
    /\ f.page = "edit" => place \in {"local", "cookie", "admitted", "linking", "syncing"}
Sound(t) == Busy(t) => SoundAt(form[t], at[t], held[t])

\* TypeOK without the rows and what Shape says
Typed ==
    /\ clock \in 0 .. MaxClock
    /\ persisted \in Modes \cup {Null}
    /\ sessions \in Seq([user : UserIds, expires : Nat])
    /\ server.mode \in Modes /\ server.loopback \in BOOLEAN
    /\ cookie \in [Threads -> 0 .. Len(sessions)]
    /\ admin \in [Threads -> {0} \cup UserIds]
    /\ alone \in [Threads -> BOOLEAN]
    /\ DOMAIN held = Threads /\ DOMAIN before = Threads
    /\ overlapped \in BOOLEAN
    /\ requests \in 0 .. MaxRequests /\ starts \in 0 .. MaxStarts

AInv == IInv /\ RowsFine /\ Typed /\ \A t \in Threads : Sound(t)

LEMMA LeftOf ==
    ASSUME NEW k \in 1 .. 3
    PROVE  /\ Left(k) # <<>> /\ Head(Left(k)) = Kinds[k] /\ Head(Left(k)) \in ToSet(Kinds)
           /\ Tail(Left(k)) = <<>> <=> k = 3
           /\ k # 3 => Tail(Left(k)) = Left(k + 1)
<1>1. CASE k = 1
  BY <1>1, ThreeKinds DEF Left, Kinds
<1>2. CASE k = 2
  BY <1>2, ThreeKinds DEF Left, Kinds
<1>3. CASE k = 3
  BY <1>3, ThreeKinds DEF Left, Kinds
<1> QED BY <1>1, <1>2, <1>3

\* Users and keys stay, and so does what a request holds of them
LEMMA SoundStays ==
    ASSUME Grows, NEW o \in Threads, NEW f, NEW place, NEW h, SoundAt(f, place, h),
           form'[o] = f, at'[o] = place, held'[o] = h
    PROVE  Sound(o)'
<1>1. Shown(f)'
  BY DEF Shown, Grows, SoundAt
<1>2. Shown(form[o])'
  BY <1>1 DEF Shown
<1>3. UserIds \subseteq UserIds'
  BY DEF Grows
<1> QED BY <1>2, <1>3 DEF Sound, SoundAt, Switches

LEMMA SessionsStay ==
    ASSUME Typed, UserIds \subseteq UserIds', sessions' = sessions
    PROVE  sessions' \in Seq([user : UserIds', expires : Nat])
<1> DEFINE Row(ids) == [user : ids, expires : Nat]
<1>1. Row(UserIds) \subseteq Row(UserIds') /\ sessions \in Seq(Row(UserIds))
  BY DEF Typed
<1>2. sessions' \in Seq(Row(UserIds'))
  <2> HIDE DEF Row
  <2> QED BY <1>1
<1> QED BY <1>2

LEMMA SessionUser ==
    ASSUME Typed, NEW c \in DOMAIN sessions
    PROVE  sessions[c].user \in UserIds /\ sessions[c].expires \in Nat
<1> DEFINE Row == [user : UserIds, expires : Nat]
<1>1. sessions \in Seq(Row)
  BY DEF Typed
<1>2. sessions[c] \in Row
  <2> HIDE DEF Row
  <2> QED BY <1>1
<1> QED BY <1>2

\* The other threads are as they were
Framed(t, place, who, h) ==
    /\ \A o \in Threads : o # t =>
          /\ at'[o] = at[o] /\ form'[o] = form[o] /\ cookie'[o] = cookie[o]
          /\ admin'[o] = admin[o] /\ held'[o] = held[o] /\ alone'[o] = alone[o]
          /\ before'[o] = before[o]
    /\ at'[t] = place
    /\ place \notin Ended =>
          /\ form'[t] = form[t] /\ cookie'[t] = cookie[t] /\ admin'[t] = who
          /\ held'[t] = h /\ alone'[t] = alone[t] /\ before'[t] = before[t]
    /\ UNCHANGED <<overlapped, requests, clock, starts>>

LEMMA GoFrame ==
    ASSUME AInv, NEW t \in Threads, NEW place, NEW who, NEW h, Go(t, place, who, h)
    PROVE  Framed(t, place, who, h)
<1>1. /\ DOMAIN at = Threads /\ DOMAIN form = Threads /\ DOMAIN cookie = Threads
      /\ DOMAIN admin = Threads /\ DOMAIN held = Threads /\ alone \in [Threads -> BOOLEAN]
      /\ DOMAIN before = Threads
  BY DEF AInv, IInv, Shape, Typed
<1>2. at' = [at EXCEPT ![t] = place]
  BY DEF Go
<1>3. form' = [form EXCEPT ![t] = IF place \in Ended THEN Null ELSE @]
  BY DEF Go
<1>4. cookie' = [cookie EXCEPT ![t] = IF place \in Ended THEN 0 ELSE @]
  BY DEF Go
<1>5. admin' = [admin EXCEPT ![t] = IF place \in Ended THEN 0 ELSE who]
  BY DEF Go
<1>6. held' = [held EXCEPT ![t] = IF place \in Ended THEN Nothing ELSE h]
  BY DEF Go
<1>7. alone' = [alone EXCEPT ![t] = @ /\ place \notin Ended]
  BY DEF Go
<1>8. before' = [before EXCEPT ![t] = IF place \in Ended THEN Null ELSE @]
  BY DEF Go
<1>9. UNCHANGED <<overlapped, requests, clock, starts>>
  BY DEF Go
<1> USE DEF Ended
<1>10. \A o \in Threads : o # t => alone'[o] = alone[o]
  BY <1>1, <1>7
<1>11. place \notin Ended => alone'[t] = alone[t]
  BY <1>1, <1>7
<1>12. /\ at'[t] = place
       /\ \A o \in Threads : o # t => at'[o] = at[o] /\ form'[o] = form[o] /\ cookie'[o] = cookie[o]
  BY <1>1, <1>2, <1>3, <1>4
<1>13. \A o \in Threads : o # t => admin'[o] = admin[o] /\ held'[o] = held[o] /\ before'[o] = before[o]
  BY <1>1, <1>5, <1>6, <1>8
<1>14. place \notin Ended =>
          form'[t] = form[t] /\ cookie'[t] = cookie[t] /\ admin'[t] = who /\ held'[t] = h /\ before'[t] = before[t]
  BY <1>1, <1>3, <1>4, <1>5, <1>6, <1>8
<1> QED BY <1>9, <1>10, <1>11, <1>12, <1>13, <1>14 DEF Framed

LEMMA LenIsNat == \A S : \A q \in Seq(S) : Len(q) \in Nat /\ Len(q) <= Len(q)
OBVIOUS

LEMMA LongerRange ==
    ASSUME NEW m \in Nat, NEW n \in Nat, m <= n
    PROVE  0 .. m \subseteq 0 .. n /\ 0 \in 0 .. n
OBVIOUS

\* A thread that goes on keeps the types and the other threads' places
LEMMA GoTyped ==
    ASSUME AInv, NEW t \in Threads, NEW place \in Ended \cup Steps, NEW who, NEW h,
           Busy(t), Go(t, place, who, h), Grows,
           who \in {0} \cup UserIds',
           sessions' \in Seq([user : UserIds', expires : Nat]), Len(sessions) <= Len(sessions'),
           persisted' \in Modes \cup {Null},
           server'.mode \in Modes /\ server'.loopback \in BOOLEAN,
           place \notin Ended => SoundAt(form[t], place, h)
    PROVE  Typed' /\ \A o \in Threads : Sound(o)'
<1>0. Framed(t, place, who, h)
  BY GoFrame
<1>1. Typed
  BY DEF AInv
<1>2. Typed'
  <2>1. UNCHANGED <<overlapped, requests, clock, starts>>
    BY <1>0 DEF Framed
  <2>2. cookie' \in [Threads -> 0 .. Len(sessions')]
    <3>1. cookie' = [cookie EXCEPT ![t] = IF place \in Ended THEN 0 ELSE @]
      BY DEF Go
    <3>2. cookie \in [Threads -> 0 .. Len(sessions)] /\ Len(sessions) \in Nat /\ Len(sessions') \in Nat
      <4>1. \A S : \A q \in Seq(S) : Len(q) \in Nat
        BY LenIsNat, Zenon
      <4>2. sessions \in Seq([user : UserIds, expires : Nat])
        BY <1>1 DEF Typed
      <4>3. Len(sessions) \in Nat /\ Len(sessions') \in Nat
        BY <4>1, <4>2, Zenon
      <4>4. cookie \in [Threads -> 0 .. Len(sessions)]
        BY <1>1 DEF Typed
      <4> QED BY <4>3, <4>4, Zenon
    <3>3. 0 .. Len(sessions) \subseteq 0 .. Len(sessions')
      BY <3>2, LongerRange, Zenon
    <3>4. 0 \in 0 .. Len(sessions')
      BY <3>2, LongerRange, Zenon
    <3> QED BY <3>1, <3>2, <3>3, <3>4
  <2>3. admin' \in [Threads -> {0} \cup UserIds']
    <3>1. admin' = [admin EXCEPT ![t] = IF place \in Ended THEN 0 ELSE who]
      BY DEF Go
    <3> QED BY <1>1, <3>1 DEF Typed, Grows
  <2>4. alone' \in [Threads -> BOOLEAN]
    <3>1. alone' = [alone EXCEPT ![t] = @ /\ place \notin Ended]
      BY DEF Go
    <3> QED BY <1>1, <3>1 DEF Typed
  <2>5. DOMAIN held' = Threads /\ DOMAIN before' = Threads
    BY <1>1 DEF Go, Typed
  <2> QED BY <1>1, <2>1, <2>2, <2>3, <2>4, <2>5 DEF Typed
<1>3. ASSUME NEW o \in Threads PROVE Sound(o)'
  <2>1. CASE o # t
    <3>1. at'[o] = at[o] /\ form'[o] = form[o] /\ held'[o] = held[o]
      BY <1>0, <2>1 DEF Framed
    <3>2. CASE Busy(o)
      <4>1. SoundAt(form[o], at[o], held[o])
        BY <3>2 DEF AInv, Sound
      <4> QED BY <3>1, <4>1, SoundStays
    <3>3. CASE ~Busy(o)
      BY <3>1, <3>3 DEF Sound, Busy
    <3> QED BY <3>2, <3>3
  <2>2. CASE o = t /\ place \in Ended
    <3>1. at'[t] = place
      BY <1>0 DEF Framed
    <3> QED BY <2>2, <3>1 DEF Sound, Busy
  <2>3. CASE o = t /\ place \notin Ended
    <3>1. at'[t] = place /\ form'[t] = form[t] /\ held'[t] = h
      BY <1>0, <2>3 DEF Framed
    <3>2. SoundAt(form[t], place, h) /\ form'[o] = form[t] /\ at'[o] = place /\ held'[o] = h
      BY <2>3, <3>1
    <3> QED BY <3>2, SoundStays
  <2> QED BY <2>1, <2>2, <2>3
<1> QED BY <1>2, <1>3

-----------------------------------------------------------------------------
\* What every step of a request does to all but the rows
Proceeds(t, place, who, h) ==
    /\ place \in Ended \cup Steps
    /\ Go(t, place, who, h)
    /\ who \in {0} \cup UserIds'
    /\ sessions' \in Seq([user : UserIds', expires : Nat]) /\ Len(sessions) <= Len(sessions')
    /\ persisted' \in Modes \cup {Null}
    /\ server'.mode \in Modes /\ server'.loopback \in BOOLEAN
    /\ place \notin Ended => SoundAt(form[t], place, h)

\* Most steps are about the request and the rows only
LEMMA Quietly ==
    ASSUME AInv, NEW t \in Threads, NEW place \in Ended \cup Steps, NEW who \in {0} \cup UserIds, NEW h,
           Go(t, place, who, h), Grows, UNCHANGED <<persisted, sessions, server>>,
           place \notin Ended => SoundAt(form[t], place, h)
    PROVE  Proceeds(t, place, who, h)
<1>1. Typed
  BY DEF AInv
<1>2. UserIds \subseteq UserIds'
  BY DEF Grows
<1>3. sessions' \in Seq([user : UserIds', expires : Nat])
  BY <1>1, <1>2, SessionsStay
<1>4. Len(sessions) <= Len(sessions')
  <2>1. sessions \in Seq([user : UserIds, expires : Nat])
    BY <1>1 DEF Typed
  <2> QED BY <2>1, LenIsNat, Zenon
<1>5. /\ persisted' \in Modes \cup {Null}
      /\ server'.mode \in Modes /\ server'.loopback \in BOOLEAN
  BY <1>1 DEF Typed
<1>6. who \in {0} \cup UserIds'
  BY <1>2
<1> QED BY <1>3, <1>4, <1>5, <1>6 DEF Proceeds

LEMMA MovesQuietly ==
    ASSUME AInv, NEW t \in Threads, NEW place \in Ended \cup Steps, Move(t, place),
           Grows, UNCHANGED <<persisted, sessions, server>>,
           place \notin Ended => SoundAt(form[t], place, held[t])
    PROVE  \E who, h : Proceeds(t, place, who, h)
<1>1. admin[t] \in {0} \cup UserIds
  BY DEF AInv, Typed
<1> QED BY <1>1, Quietly DEF Move

LEMMA RowsStay == ASSUME RowsFine, UNCHANGED rowVars PROVE RowsGo /\ Grows
BY NothingGoes DEF RowsGo

\* The facts of a request under way
LEMMA HeldFacts ==
    ASSUME AInv, NEW t \in Threads, Busy(t)
    PROVE  /\ SoundAt(form[t], at[t], held[t]) /\ form[t] \in Forms /\ FormOK(form[t]) /\ Shown(form[t])
           /\ RowsFine /\ Typed /\ UserIds \subseteq Nat \ {0}
           /\ UserIds = 1 .. Len(users) /\ Len(users) \in Nat
<1>1. SoundAt(form[t], at[t], held[t])
  BY DEF AInv, Sound
<1>2. form[t] \in Forms /\ FormOK(form[t]) /\ Shown(form[t])
  BY <1>1, SessionAssumption DEF SoundAt
<1>3. RowsFine /\ Typed
  BY DEF AInv
<1>4. UserIds = 1 .. Len(users) /\ Len(users) \in Nat
  BY <1>3, RowsParts DEF UsersFine, UserIds
<1> QED BY <1>1, <1>2, <1>3, <1>4

RequestProceeds(t) == Busy(t) /\ RowsGo /\ \E place, who, h : Proceeds(t, place, who, h)

LEMMA AdmissionProceeds ==
    ASSUME AInv, NEW t \in Threads, AdmitLocally(t) \/ AdmitByCookie(t)
    PROVE  RequestProceeds(t)
<1>1. Busy(t) /\ UNCHANGED rowVars /\ UNCHANGED <<persisted, sessions, server>>
  BY DEF AdmitLocally, AdmitByCookie, Busy
<1>2. RowsGo /\ Grows
  BY <1>1, RowsStay DEF AInv
<1>3. SoundAt(form[t], at[t], held[t]) /\ Typed /\ UserIds \subseteq Nat
  BY <1>1, HeldFacts
<1>4. at[t] \in {"local", "cookie"}
  BY DEF AdmitLocally, AdmitByCookie
<1>5. SoundAt(form[t], "admitted", Nothing)
  BY <1>3, <1>4 DEF SoundAt
<1>6. CASE Move(t, "turned away")
  BY <1>1, <1>2, <1>6, MovesQuietly DEF RequestProceeds
<1>7. CASE Admins # {} /\ Go(t, "admitted", Min(Admins), Nothing)
  <2>1. Min(Admins) \in UserIds
    BY <1>3, <1>7, LeastId DEF Admins
  <2> QED BY <1>1, <1>2, <1>5, <1>7, <2>1, Quietly DEF RequestProceeds
<1>8. CASE /\ at[t] = "cookie" /\ Live(cookie[t])
           /\ Go(t, "admitted", sessions[cookie[t]].user, Nothing)
  <2>1. cookie[t] \in DOMAIN sessions
    <3>1. sessions \in Seq([user : UserIds, expires : Nat]) /\ cookie[t] \in 0 .. Len(sessions)
      BY <1>3 DEF Typed
    <3> QED BY <1>8, <3>1 DEF Live
  <2>2. sessions[cookie[t]].user \in UserIds
    BY <1>3, <2>1, SessionUser
  <2> QED BY <1>1, <1>2, <1>5, <1>8, <2>2, Quietly DEF RequestProceeds
<1> QED BY <1>6, <1>7, <1>8 DEF AdmitLocally, AdmitByCookie

LEMMA HandleProceeds ==
    ASSUME AInv, NEW t \in Threads,
           Handle(t) \/ Login(t) \/ CountMembers(t) \/ DropGroup(t) \/ Locked(t) \/ FindOwner(t)
    PROVE  RequestProceeds(t)
<1>1. Busy(t) /\ UNCHANGED <<persisted, sessions, server>>
  BY DEF Handle, Login, CountMembers, DropGroup, Locked, FindOwner, Busy
<1>2. /\ SoundAt(form[t], at[t], held[t]) /\ form[t] \in Forms /\ Shown(form[t]) /\ RowsFine
      /\ Typed
  BY <1>1, HeldFacts
<1>3. ASSUME NEW place \in Ended, Move(t, place), RowsGo PROVE RequestProceeds(t)
  <2>1. Grows
    BY <1>3 DEF RowsGo
  <2> QED BY <1>1, <1>3, <2>1, MovesQuietly DEF RequestProceeds
<1>4. ASSUME NEW place \in Steps, Move(t, place), UNCHANGED rowVars, SoundAt(form[t], place, held[t])
      PROVE  RequestProceeds(t)
  <2>1. RowsGo /\ Grows
    BY <1>2, <1>4, RowsStay
  <2> QED BY <1>1, <1>4, <2>1, MovesQuietly DEF RequestProceeds
<1>5. ASSUME UNCHANGED rowVars PROVE RowsGo
  BY <1>2, <1>5, RowsStay
<1>6. CASE Handle(t)
  <2>1. PICK answer \in {"answered", "refused", "crashed"} : OneTransaction(form[t], answer) /\ Move(t, answer)
    BY <1>6 DEF Handle
  <2>2. RowsGo
    BY <1>2, <2>1, PageGoes
  <2> QED BY <1>3, <2>1, <2>2
<1>7. CASE Login(t)
  <2>1. UNCHANGED rowVars /\ form[t].page = "login"
    BY <1>7 DEF Login
  <2>2. CASE Move(t, "refused")
    BY <1>3, <1>5, <2>1, <2>2
  <2> DEFINE found == {u \in Matching(form[t].email) : users[u].secret = form[t].secret}
  <2>3. CASE found # {} /\ Hold(t, "opening", found)
    <3>1. found \subseteq UserIds
      BY DEF Matching, Admins
    <3> DEFINE h == [Nothing EXCEPT !.read = found]
    <3>2. h.read = found
      BY DEF Nothing
    <3>3. SoundAt(form[t], "opening", h)
      BY <1>2, <2>1, <2>3, <3>1, <3>2 DEF SoundAt
    <3>4. admin[t] \in {0} \cup UserIds
      BY <1>2 DEF Typed
    <3>5. Go(t, "opening", admin[t], h)
      BY <2>3 DEF Hold
    <3>6. RowsGo /\ Grows
      BY <1>2, <2>1, RowsStay
    <3> HIDE DEF h
    <3> QED BY <1>1, <3>3, <3>4, <3>5, <3>6, Quietly DEF RequestProceeds
  <2> QED BY <1>7, <2>2, <2>3 DEF Login
<1>8. CASE CountMembers(t)
  <2>1. UNCHANGED rowVars /\ SoundAt(form[t], "deleting", held[t])
    BY <1>2, <1>8 DEF CountMembers, SoundAt
  <2> QED BY <1>3, <1>4, <1>5, <1>8, <2>1 DEF CountMembers
<1>9. CASE DropGroup(t)
  <2>1. PICK answer \in {"answered", "crashed"} : DeleteGroup(form[t].group, answer) /\ Move(t, answer)
    BY <1>9 DEF DropGroup
  <2>2. RowsGo
    BY <1>2, <2>1, DeleteGroupGoes
  <2> QED BY <1>3, <2>1, <2>2
<1>10. CASE Locked(t)
  BY <1>3, <1>5, <1>10 DEF Locked
<1>11. CASE FindOwner(t)
  <2>1. UNCHANGED rowVars /\ SoundAt(form[t], "creating", held[t]) /\ SoundAt(form[t], "recording", held[t])
    BY <1>2, <1>11 DEF FindOwner, SoundAt
  <2> QED BY <1>4, <1>11, <2>1 DEF FindOwner
<1> QED BY <1>6, <1>7, <1>8, <1>9, <1>10, <1>11

LEMMA SwitchProceeds ==
    ASSUME AInv, NEW t \in Threads, SwitchMode(t) \/ ChooseAdmin(t) \/ StorePassword(t) \/ CreateOwner(t)
    PROVE  RequestProceeds(t)
<1>1. Busy(t) /\ UNCHANGED <<persisted, sessions, server>>
  BY DEF SwitchMode, ChooseAdmin, StorePassword, CreateOwner, Busy
<1>2. /\ SoundAt(form[t], at[t], held[t]) /\ form[t] \in Forms /\ FormOK(form[t]) /\ RowsFine
      /\ Typed /\ UserIds = 1 .. Len(users) /\ Len(users) \in Nat
  BY <1>1, HeldFacts
<1>3. ASSUME NEW place \in Ended, Move(t, place), RowsGo PROVE RequestProceeds(t)
  <2>1. Grows
    BY <1>3 DEF RowsGo
  <2> QED BY <1>1, <1>3, <2>1, MovesQuietly DEF RequestProceeds
<1>4. ASSUME NEW place \in Steps, Move(t, place), RowsGo, SoundAt(form[t], place, held[t])
      PROVE  RequestProceeds(t)
  <2>1. Grows
    BY <1>4 DEF RowsGo
  <2> QED BY <1>1, <1>4, <2>1, MovesQuietly DEF RequestProceeds
<1>5. ASSUME UNCHANGED rowVars PROVE RowsGo /\ Grows
  BY <1>2, <1>5, RowsStay
<1>6. CASE SwitchMode(t)
  <2>1. UNCHANGED rowVars /\ Switches(form[t])
    BY <1>6 DEF SwitchMode
  <2>2. CASE Move(t, "answered") \/ Move(t, "refused")
    BY <1>3, <1>5, <2>1, <2>2
  <2>3. CASE form[t].target = "team" /\ Move(t, "choosing")
    <3>1. SoundAt(form[t], "choosing", held[t])
      BY <1>2, <2>1, <2>3 DEF SoundAt, Switches
    <3> QED BY <1>4, <1>5, <2>1, <2>3, <3>1
  <2>4. CASE form[t].target = "local" /\ Move(t, "owning")
    <3>1. SoundAt(form[t], "owning", held[t])
      BY <1>2, <2>1, <2>4 DEF SoundAt, Switches
    <3> QED BY <1>4, <1>5, <2>1, <2>4, <3>1
  <2> QED BY <1>6, <2>2, <2>3, <2>4 DEF SwitchMode
<1>9. CASE ChooseAdmin(t)
  <2>1. UNCHANGED rowVars /\ Switches(form[t]) /\ form[t].target = "team"
    BY <1>2, <1>9 DEF ChooseAdmin, SoundAt
  <2>2. CASE Move(t, "refused")
    BY <1>3, <1>5, <2>1, <2>2
  <2>3. CASE Matching(form[t].email) # {} /\ Hold(t, "hashing", Matching(form[t].email))
    <3> DEFINE h == [Nothing EXCEPT !.read = Matching(form[t].email)]
    <3>1. h.read = Matching(form[t].email)
      BY DEF Nothing
    <3>2. h.read \subseteq UserIds /\ h.read # {}
      BY <2>3, <3>1 DEF Matching, Admins
    <3>3. SoundAt(form[t], "hashing", h)
      BY <1>2, <2>1, <3>2 DEF SoundAt, Switches
    <3>4. admin[t] \in {0} \cup UserIds
      BY <1>2 DEF Typed
    <3>5. Go(t, "hashing", admin[t], h)
      BY <2>3 DEF Hold
    <3> HIDE DEF h
    <3> QED BY <1>1, <1>5, <2>1, <3>3, <3>4, <3>5, Quietly DEF RequestProceeds
  <2> QED BY <1>9, <2>2, <2>3 DEF ChooseAdmin
<1>7. CASE StorePassword(t)
  <2>1. /\ at[t] = "hashing" /\ Move(t, "opening")
        /\ SetPassword(Max(held[t].read), form[t].secret)
    BY <1>7 DEF StorePassword
  <2>2. Switches(form[t]) /\ form[t].target = "team" /\ held[t].read # {} /\ held[t].read \subseteq UserIds
    BY <1>2, <2>1 DEF SoundAt
  <2>3. Max(held[t].read) \in UserIds /\ form[t].secret \in Secrets \cup {Null}
    BY <1>2, <2>2, GreatestId DEF FormOK, Switches
  <2>4. RowsGo
    BY <1>2, <2>1, <2>3, PeopleGo DEF SetPassword
  <2>5. SoundAt(form[t], "opening", held[t])
    BY <1>2, <2>2 DEF SoundAt, Switches
  <2> QED BY <1>4, <2>1, <2>4, <2>5
<1>8. CASE CreateOwner(t)
  <2>1. CASE Move(t, "crashed") /\ UNCHANGED rowVars
    BY <1>3, <1>5, <2>1
  <2>2. CASE CreateUser(LocalOwner, "admin", Null) /\ Move(t, "recording")
    <3>1. RowsGo
      BY <1>2, <2>2, ConsoleAssumption, PeopleGo DEF CreateUser, Roles
    <3>2. SoundAt(form[t], "recording", held[t])
      BY <1>2, <1>8 DEF CreateOwner, SoundAt
    <3> QED BY <1>4, <2>2, <3>1, <3>2
  <2> QED BY <1>8, <2>1, <2>2 DEF CreateOwner
<1> QED BY <1>6, <1>7, <1>8, <1>9

LEMMA ModeProceeds ==
    ASSUME AInv, NEW t \in Threads, RecordLocal(t) \/ Remember(t)
    PROVE  RequestProceeds(t)
<1>1. Busy(t) /\ UNCHANGED rowVars /\ UNCHANGED sessions
  BY DEF RecordLocal, Remember, Busy
<1>2. /\ SoundAt(form[t], at[t], held[t]) /\ form[t] \in Forms /\ FormOK(form[t]) /\ RowsFine
      /\ Typed /\ admin[t] \in {0} \cup UserIds
  BY <1>1, HeldFacts DEF Typed
<1>3. RowsGo /\ Grows /\ UserIds \subseteq UserIds'
  BY <1>1, <1>2, RowsStay DEF Grows
<1>4. sessions' \in Seq([user : UserIds', expires : Nat]) /\ Len(sessions) <= Len(sessions')
  <2>1. Len(sessions) \in Nat
    <3>1. sessions \in Seq([user : UserIds, expires : Nat])
      BY <1>2 DEF Typed
    <3> QED BY <3>1, LenIsNat, Zenon
  <2>2. Len(sessions') = Len(sessions)
    BY <1>1
  <2>3. Len(sessions) <= Len(sessions')
    BY <2>1, <2>2
  <2> QED BY <1>1, <1>2, <1>3, <2>3, SessionsStay
<1>5. CASE RecordLocal(t)
  <2>1. /\ Go(t, "remembering", admin[t], held[t]) /\ persisted' = "local" /\ UNCHANGED server
        /\ SoundAt(form[t], "remembering", held[t])
    BY <1>2, <1>5 DEF RecordLocal, Move, SoundAt
  <2>2. Proceeds(t, "remembering", admin[t], held[t])
    BY <1>2, <1>3, <1>4, <2>1 DEF Proceeds, Typed, Modes
  <2> QED BY <1>1, <1>3, <2>2 DEF RequestProceeds
<1>6. CASE Remember(t)
  <2>1. /\ Go(t, "answered", admin[t], held[t]) /\ UNCHANGED persisted
        /\ server' = [server EXCEPT !.mode = form[t].target] /\ at[t] = "remembering"
    BY <1>6 DEF Remember, Move
  <2>2. form[t].target \in Modes
    BY <1>2, <2>1 DEF SoundAt, Switches, FormOK
  <2>3. server'.mode = form[t].target /\ server'.loopback = server.loopback
    BY <2>1 DEF AInv, IInv, Shape
  <2>4. Proceeds(t, "answered", admin[t], held[t])
    BY <1>2, <1>3, <1>4, <2>1, <2>2, <2>3 DEF Proceeds, Typed
  <2> QED BY <1>1, <1>3, <2>4 DEF RequestProceeds
<1> QED BY <1>5, <1>6

LEMMA OpenProceeds ==
    ASSUME AInv, NEW t \in Threads, OpenSession(t)
    PROVE  RequestProceeds(t)
<1>1. Busy(t) /\ UNCHANGED rowVars /\ UNCHANGED server /\ at[t] = "opening"
  BY DEF OpenSession, Busy
<1>2. /\ SoundAt(form[t], at[t], held[t]) /\ form[t] \in Forms /\ RowsFine
      /\ Typed /\ admin[t] \in {0} \cup UserIds /\ UserIds = 1 .. Len(users) /\ Len(users) \in Nat
  BY <1>1, HeldFacts DEF Typed
<1>3. RowsGo /\ Grows /\ UserIds \subseteq UserIds'
  BY <1>1, <1>2, RowsStay DEF Grows
<1>4. sessions' \in Seq([user : UserIds', expires : Nat]) /\ Len(sessions) <= Len(sessions')
  <2> DEFINE Row == [user : UserIds, expires : Nat]
             s == [user |-> Max(held[t].read), expires |-> clock + SessionHours]
  <2>1. Max(held[t].read) \in UserIds
    BY <1>1, <1>2, GreatestId DEF SoundAt
  <2>2. s \in Row
    <3>1. clock + SessionHours \in Nat
      BY <1>2, SessionAssumption DEF Typed
    <3> QED BY <2>1, <3>1
  <2>3. sessions \in Seq(Row) /\ sessions' = Append(sessions, s) /\ UserIds' = UserIds
    BY <1>1, <1>2 DEF OpenSession, Typed, rowVars, UserIds
  <2>4. sessions' \in Seq(Row) /\ Len(sessions) <= Len(sessions')
    <3> HIDE DEF Row, s
    <3>1. sessions' \in Seq(Row) /\ Len(sessions') = Len(sessions) + 1
      BY <2>2, <2>3
    <3>2. Len(sessions) \in Nat
      BY <2>3, LenIsNat, Zenon
    <3> QED BY <3>1, <3>2
  <2> QED BY <2>3, <2>4
<1>5. CASE Switches(form[t])
  <2>1. /\ Go(t, "remembering", admin[t], held[t]) /\ persisted' = "team"
        /\ SoundAt(form[t], "remembering", held[t])
    BY <1>1, <1>2, <1>5 DEF OpenSession, Move, SoundAt, Switches
  <2>2. Proceeds(t, "remembering", admin[t], held[t])
    BY <1>1, <1>2, <1>3, <1>4, <2>1 DEF Proceeds, Typed, Modes
  <2> QED BY <1>1, <1>3, <2>2 DEF RequestProceeds
<1>6. CASE ~Switches(form[t])
  <2>1. Go(t, "answered", admin[t], held[t]) /\ UNCHANGED persisted
    BY <1>6 DEF OpenSession, Move
  <2>2. Proceeds(t, "answered", admin[t], held[t])
    BY <1>1, <1>2, <1>3, <1>4, <2>1 DEF Proceeds, Typed
  <2> QED BY <1>1, <1>3, <2>2 DEF RequestProceeds
<1> QED BY <1>5, <1>6

LEMMA EditProceeds ==
    ASSUME AInv, NEW t \in Threads, EditUser(t) \/ ReadLinks(t) \/ SyncLinks(t)
    PROVE  RequestProceeds(t)
<1>1. Busy(t) /\ UNCHANGED <<persisted, sessions, server>>
  BY DEF EditUser, ReadLinks, SyncLinks, Busy
<1>2. /\ SoundAt(form[t], at[t], held[t]) /\ form[t] \in Forms /\ FormOK(form[t]) /\ Shown(form[t])
      /\ RowsFine /\ Typed /\ admin[t] \in {0} \cup UserIds
  BY <1>1, HeldFacts DEF Typed
<1>3. ASSUME NEW place \in Ended \cup Steps, NEW h, Go(t, place, admin[t], h), RowsGo,
             place \notin Ended => SoundAt(form[t], place, h)
      PROVE  RequestProceeds(t)
  <2>1. Grows
    BY <1>3 DEF RowsGo
  <2> QED BY <1>1, <1>2, <1>3, <2>1, Quietly DEF RequestProceeds
<1>4. form[t].page = "edit" /\ form[t].user \in UserIds
  BY <1>2 DEF EditUser, ReadLinks, SyncLinks, SoundAt, Shown
<1>5. CASE EditUser(t)
  <2> DEFINE h == [Nothing EXCEPT !.left = Kinds]
  <2>1. SetRole(form[t].user, form[t].role) /\ Go(t, "linking", admin[t], h)
    BY <1>5 DEF EditUser
  <2>2. form[t].role \in Roles
    BY <1>2, <1>4 DEF FormOK
  <2>3. RowsGo
    BY <1>2, <1>4, <2>1, <2>2, PeopleGo DEF SetRole
  <2>4. h.left = Left(1)
    BY DEF Nothing, Left
  <2>5. SoundAt(form[t], "linking", h)
    <3> HIDE DEF h
    <3> QED BY <1>2, <1>4, <2>4 DEF SoundAt
  <2> HIDE DEF h
  <2> QED BY <1>3, <2>1, <2>3, <2>5
<1>6. CASE ReadLinks(t)
  <2> DEFINE h == [held[t] EXCEPT !.read = Linked(Head(held[t].left), form[t].user)]
  <2>1. Go(t, "syncing", admin[t], h) /\ UNCHANGED rowVars /\ at[t] = "linking"
    BY <1>6 DEF ReadLinks
  <2>2. h.left = held[t].left
    OBVIOUS
  <2>3. SoundAt(form[t], "syncing", h)
    <3> HIDE DEF h
    <3> QED BY <1>2, <1>4, <2>1, <2>2 DEF SoundAt
  <2>4. RowsGo
    BY <1>2, <2>1, RowsStay
  <2> HIDE DEF h
  <2> QED BY <1>3, <2>1, <2>3, <2>4
<1>7. CASE SyncLinks(t)
  <2> DEFINE kind == Head(held[t].left)
             rest == Tail(held[t].left)
             h == [left |-> rest, read |-> {}]
  <2>1. PICK answer \in {"answered", "refused"} :
             /\ Sync(kind, form[t].user, form[t].wanted[kind], held[t].read, answer)
             /\ Go(t, IF answer = "answered" /\ rest # <<>> THEN "linking" ELSE answer, admin[t], h)
    BY <1>7 DEF SyncLinks
  <2>2. PICK k \in 1 .. 3 : held[t].left = Left(k)
    BY <1>2, <1>7 DEF SyncLinks, SoundAt
  <2>3. kind \in ToSet(Kinds) /\ (rest # <<>> => k # 3 /\ rest = Left(k + 1))
    BY <2>2, LeftOf
  <2>4. \A x \in form[t].wanted[kind] : kind = "groups" \/ Target(kind, x)
    <3> HIDE DEF kind
    <3> QED BY <1>2, <1>4, <2>3, ThreeKinds DEF FormOK, Target
  <2>5. RowsGo
    <3> HIDE DEF kind
    <3> QED BY <1>2, <1>4, <2>1, <2>3, <2>4, SyncGoes
  <2>6. CASE answer = "answered" /\ rest # <<>>
    <3>1. h.left = Left(k + 1) /\ k + 1 \in 1 .. 3
      BY <2>3, <2>6
    <3> HIDE DEF h, kind, rest
    <3>2. SoundAt(form[t], "linking", h)
      BY <1>2, <1>4, <3>1 DEF SoundAt
    <3> QED BY <1>3, <2>1, <2>5, <2>6, <3>2
  <2>7. CASE ~(answer = "answered" /\ rest # <<>>)
    <3> HIDE DEF h, kind, rest
    <3>1. Go(t, answer, admin[t], h)
      BY <2>1, <2>7
    <3> QED BY <1>3, <2>1, <2>5, <3>1
  <2> QED BY <2>6, <2>7
<1> QED BY <1>5, <1>6, <1>7

\* Every step of a request
LEMMA EveryRequestProceeds ==
    ASSUME AInv, NEW t \in Threads, Request(t)
    PROVE  RequestProceeds(t)
BY AdmissionProceeds, HandleProceeds, SwitchProceeds, ModeProceeds, OpenProceeds, EditProceeds DEF Request

LEMMA RequestTyped ==
    ASSUME AInv, NEW t \in Threads, Request(t)
    PROVE  AInv' /\ RowsGo
<1>1. Busy(t) /\ RowsGo
  BY EveryRequestProceeds DEF RequestProceeds
<1>2. PICK place, who, h : Proceeds(t, place, who, h)
  BY EveryRequestProceeds DEF RequestProceeds
<1>3. Typed' /\ \A o \in Threads : Sound(o)'
  <2>1. /\ place \in Ended \cup Steps /\ Go(t, place, who, h) /\ who \in {0} \cup UserIds'
        /\ sessions' \in Seq([user : UserIds', expires : Nat]) /\ Len(sessions) <= Len(sessions')
        /\ persisted' \in Modes \cup {Null}
        /\ server'.mode \in Modes /\ server'.loopback \in BOOLEAN
        /\ place \notin Ended => SoundAt(form[t], place, h)
    BY <1>2 DEF Proceeds
  <2>2. Grows
    BY <1>1 DEF RowsGo
  <2> QED BY <1>1, <2>1, <2>2, GoTyped
<1>4. IInv'
  <2>1. Next
    BY DEF Next
  <2> QED BY <2>1, NextInv DEF AInv
<1> QED BY <1>1, <1>3, <1>4 DEF AInv, RowsGo

-----------------------------------------------------------------------------
\* The server, the clock and what arrives

\* Steps that leave the requests alone
LEMMA RequestsStay ==
    ASSUME AInv, Grows, UNCHANGED <<at, form, held>>
    PROVE  \A o \in Threads : Sound(o)'
<1> TAKE o \in Threads
<1>1. CASE Busy(o)
  <2>1. SoundAt(form[o], at[o], held[o]) /\ form'[o] = form[o] /\ at'[o] = at[o] /\ held'[o] = held[o]
    BY <1>1 DEF AInv, Sound
  <2> QED BY <2>1, SoundStays
<1>2. CASE ~Busy(o)
  BY <1>2 DEF Sound, Busy
<1> QED BY <1>1, <1>2

LEMMA ServerTyped ==
    ASSUME AInv, \/ \E mode \in Modes, loopback \in BOOLEAN : Start(mode, loopback)
                 \/ Listen \/ Tick
    PROVE  AInv' /\ RowsGo
<1>1. RowsFine /\ Typed /\ IInv
  BY DEF AInv
<1>2. UNCHANGED <<at, form, cookie, admin, held, alone, before, sessions, requests>>
  BY DEF Start, Listen, Tick, requestVars, serverVars
<1>3. RowsGo
  <2>1. CASE UNCHANGED rowVars
    BY <1>1, <2>1, RowsStay
  <2>2. CASE CreateUser(LocalOwner, "admin", Null)
    BY <1>1, <2>2, ConsoleAssumption, PeopleGo DEF CreateUser, Roles
  <2> QED BY <2>1, <2>2 DEF Start, Listen, Tick
<1>4. Grows /\ UserIds \subseteq UserIds'
  BY <1>3 DEF RowsGo, Grows
<1>5. \A o \in Threads : Sound(o)'
  BY <1>2, <1>4, RequestsStay
<1>6. Typed'
  <2>1. sessions' \in Seq([user : UserIds', expires : Nat])
    BY <1>1, <1>2, <1>4, SessionsStay
  <2>2. /\ cookie' \in [Threads -> 0 .. Len(sessions')]
        /\ admin' \in [Threads -> {0} \cup UserIds']
        /\ alone' \in [Threads -> BOOLEAN] /\ DOMAIN held' = Threads /\ DOMAIN before' = Threads
        /\ requests' \in 0 .. MaxRequests
    BY <1>1, <1>2, <1>4 DEF Typed
  <2>3. /\ clock' \in 0 .. MaxClock /\ overlapped' \in BOOLEAN /\ starts' \in 0 .. MaxStarts
        /\ persisted' \in Modes \cup {Null} /\ server'.mode \in Modes /\ server'.loopback \in BOOLEAN
    <3>1. CASE \E mode \in Modes, loopback \in BOOLEAN : Start(mode, loopback)
      <4>1. PICK mode \in Modes, loopback \in BOOLEAN : Start(mode, loopback)
        BY <3>1
      <4>2. persisted' \in Modes
        BY <1>1, <4>1 DEF Start, Typed
      <4>3. starts' \in 0 .. MaxStarts
        BY <1>1, <4>1, SessionAssumption DEF Start, Typed
      <4>4. server'.mode = persisted' /\ server'.loopback = loopback /\ UNCHANGED <<clock, overlapped>>
        BY <4>1 DEF Start
      <4> QED BY <1>1, <4>2, <4>3, <4>4 DEF Typed
    <3>2. CASE Listen
      <4>1. server'.mode = server.mode /\ server'.loopback = server.loopback
        BY <1>1, <3>2 DEF Listen, IInv, Shape
      <4> QED BY <1>1, <3>2, <4>1 DEF Listen, Typed
    <3>3. CASE Tick
      <4>1. clock' \in 0 .. MaxClock
        BY <1>1, <3>3, SessionAssumption DEF Tick, Typed
      <4> QED BY <1>1, <3>3, <4>1 DEF Tick, Typed, serverVars
    <3> QED BY <3>1, <3>2, <3>3
  <2> QED BY <2>1, <2>2, <2>3 DEF Typed
<1>7. IInv'
  BY <1>1, NextInv DEF Next
<1> QED BY <1>3, <1>5, <1>6, <1>7 DEF AInv, RowsGo

LEMMA StopTyped == ASSUME AInv, Stop PROVE AInv' /\ RowsGo
<1>1. RowsFine /\ Typed /\ IInv
  BY DEF AInv
<1>2. RowsGo /\ Grows /\ UserIds \subseteq UserIds'
  <2>1. UNCHANGED rowVars
    BY DEF Stop
  <2> QED BY <1>1, <2>1, RowsStay DEF Grows
<1>3. \A o \in Threads : at'[o] \in Ended
  BY DEF Stop, Busy
<1>4. \A o \in Threads : Sound(o)'
  BY <1>3 DEF Sound, Busy
<1>5. Typed'
  <2>1. sessions' \in Seq([user : UserIds', expires : Nat])
    BY <1>1, <1>2, SessionsStay DEF Stop
  <2>2. /\ cookie' \in [Threads -> 0 .. Len(sessions')]
        /\ admin' \in [Threads -> {0} \cup UserIds']
        /\ alone' \in [Threads -> BOOLEAN] /\ DOMAIN held' = Threads /\ DOMAIN before' = Threads
    <3>1. Len(sessions') \in Nat
      BY <2>1, LenIsNat, Zenon
    <3>2. 0 \in 0 .. Len(sessions')
      BY <3>1
    <3> QED BY <3>2 DEF Stop
  <2>3. server'.mode = server.mode /\ server'.loopback = server.loopback
    BY <1>1 DEF Stop, IInv, Shape
  <2>4. UNCHANGED <<clock, persisted, overlapped, requests, starts>>
    BY DEF Stop
  <2> QED BY <1>1, <2>1, <2>2, <2>3, <2>4 DEF Typed
<1>6. IInv'
  BY <1>1, NextInv DEF Next
<1> QED BY <1>2, <1>4, <1>5, <1>6 DEF AInv, RowsGo

LEMMA ArriveTyped ==
    ASSUME AInv, NEW t \in Threads, NEW f \in Forms, NEW c \in 0 .. Len(sessions), Arrive(t, f, c)
    PROVE  AInv' /\ RowsGo
<1>1. RowsFine /\ Typed /\ IInv
  BY DEF AInv
<1>2. UNCHANGED rowVars /\ UNCHANGED <<clock, persisted, sessions, server, starts>>
  BY DEF Arrive, serverVars
<1>3. RowsGo /\ Grows /\ UserIds \subseteq UserIds' /\ Shown(f)
  BY <1>1, <1>2, RowsStay DEF Grows, Arrive
<1>4. Typed'
  <2>1. sessions' \in Seq([user : UserIds', expires : Nat])
    BY <1>1, <1>2, <1>3, SessionsStay
  <2>2. /\ cookie' \in [Threads -> 0 .. Len(sessions')]
        /\ admin' \in [Threads -> {0} \cup UserIds']
    BY <1>1, <1>2, <1>3 DEF Arrive, Typed
  <2>3. alone' \in [Threads -> BOOLEAN]
    <3>1. alone' = [o \in Threads |-> IF o = t THEN \A p \in Threads : ~Busy(p) ELSE alone[o] /\ ~Busy(o)]
      BY DEF Arrive
    <3>2. \A o \in Threads : (IF o = t THEN \A p \in Threads : ~Busy(p) ELSE alone[o] /\ ~Busy(o)) \in BOOLEAN
      OBVIOUS
    <3> QED BY <3>1, <3>2
  <2>4. DOMAIN held' = Threads /\ DOMAIN before' = Threads
    BY <1>1 DEF Arrive, Typed
  <2>5. requests' \in 0 .. MaxRequests
    BY <1>1, SessionAssumption DEF Arrive, Typed
  <2>6. overlapped' \in BOOLEAN
    BY DEF Arrive
  <2> QED BY <1>1, <1>2, <2>1, <2>2, <2>3, <2>4, <2>5, <2>6 DEF Typed
<1>5. ASSUME NEW o \in Threads PROVE Sound(o)'
  <2>1. CASE o # t
    <3>1. at'[o] = at[o] /\ form'[o] = form[o] /\ held'[o] = held[o]
      BY <1>1, <2>1 DEF Arrive, IInv, Shape, Typed
    <3>2. CASE Busy(o)
      <4>1. SoundAt(form[o], at[o], held[o])
        BY <3>2 DEF AInv, Sound
      <4> QED BY <1>3, <3>1, <4>1, SoundStays
    <3>3. CASE ~Busy(o)
      BY <3>1, <3>3 DEF Sound, Busy
    <3> QED BY <3>2, <3>3
  <2>2. CASE o = t
    <3>1. form'[t] = f /\ at'[t] \in {"admitted", "local", "cookie"}
      BY <1>1 DEF Arrive, IInv, Shape
    <3>2. SoundAt(f, at'[t], held'[t])
      BY <1>3, <3>1 DEF SoundAt
    <3> QED BY <1>3, <2>2, <3>1, <3>2, SoundStays
  <2> QED BY <2>1, <2>2
<1>6. IInv'
  <2>1. Next
    BY DEF Next
  <2> QED BY <1>1, <2>1, NextInv
<1> QED BY <1>3, <1>4, <1>5, <1>6 DEF AInv, RowsGo

LEMMA InitTyped == Init /\ RowsFine => AInv
<1> SUFFICES ASSUME Init, RowsFine PROVE AInv
  OBVIOUS
<1>1. IInv
  BY InitInv
<1>2. Typed
  <2>1. sessions \in Seq([user : UserIds, expires : Nat]) /\ Len(sessions) = 0
    BY DEF Init
  <2>2. cookie \in [Threads -> 0 .. Len(sessions)]
    BY <2>1 DEF Init
  <2>3. clock \in 0 .. MaxClock /\ requests \in 0 .. MaxRequests /\ starts \in 0 .. MaxStarts
    BY SessionAssumption DEF Init
  <2>4. admin \in [Threads -> {0} \cup UserIds] /\ alone \in [Threads -> BOOLEAN]
    BY DEF Init
  <2>5. server.mode \in Modes /\ server.loopback \in BOOLEAN
    BY DEF Init, Modes
  <2> QED BY <2>1, <2>2, <2>3, <2>4, <2>5 DEF Init, Typed
<1>3. \A t \in Threads : Sound(t)
  BY DEF Init, Sound, Busy
<1> QED BY <1>1, <1>2, <1>3 DEF AInv

LEMMA NextTyped == AInv /\ [Next]_vars => AInv' /\ RowsGo
<1> SUFFICES ASSUME AInv, [Next]_vars PROVE AInv' /\ RowsGo
  OBVIOUS
<1>1. CASE UNCHANGED vars
  <2>1. /\ UNCHANGED rowVars
        /\ UNCHANGED <<at, form, cookie, admin, held, alone, before, sessions, requests, clock, persisted,
                       server, starts, overlapped>>
    BY <1>1 DEF vars, requestVars, serverVars
  <2>2. RowsGo /\ Grows /\ UserIds' = UserIds
    BY <2>1, RowsStay DEF AInv, rowVars, UserIds
  <2>3. \A o \in Threads : Sound(o)'
    BY <2>1, <2>2, RequestsStay
  <2>4. Typed'
    BY <2>1, <2>2 DEF AInv, Typed
  <2>5. IInv'
    BY NextInv DEF AInv
  <2> QED BY <2>2, <2>3, <2>4, <2>5 DEF AInv, RowsGo
<1>2. CASE Next
  BY <1>2, ServerTyped, StopTyped, RequestTyped, ArriveTyped DEF Next
<1> QED BY <1>1, <1>2

-----------------------------------------------------------------------------
\* What the rows keep

\* The rows keep what schema.sql says of them and every request is where its
\* form can lead it, whatever requests interleave.
THEOREM ConsoleIsTyped ==
    Init /\ RowsTypeOK /\ Constrained /\ [][Next]_vars => []TypeOK
<1>1. AInv => TypeOK
  <2> SUFFICES ASSUME AInv PROVE TypeOK
    OBVIOUS
  <2>1. RowsTypeOK /\ Typed
    BY DEF AInv, RowsFine
  <2>2. /\ server \in [at : {"down", "starting", "up"}, mode : Modes, loopback : BOOLEAN]
        /\ at \in [Threads -> Ended \cup Steps] /\ form \in [Threads -> Forms \cup {Null}]
    BY <2>1 DEF AInv, IInv, Shape, Typed
  <2>3. server.at # "up" => \A t \in Threads : at[t] \in Ended
    BY DEF AInv, IInv, NoneOutlivesTheServer
  <2> QED BY <2>1, <2>2, <2>3 DEF TypeOK, Typed
<1> QED BY InitTyped, NextTyped, <1>1, PTL DEF RowsFine

\* A group that was not there has no members but those its own transaction gives
\* it and no permission, though its id may have been another group's.
THEOREM GroupsComeEmpty ==
    Init /\ RowsTypeOK /\ Constrained /\ [][Next]_vars => NewGroupsStartEmpty
<1>1. AInv /\ [Next]_vars =>
        [\A g \in groups' \ groups :
            /\ \A l \in links["groups"]' : l[2] = g.id => l[1] \notin UserIds
            /\ \A p \in permissions' : p.group # g.id]_rowVars
  BY NextTyped DEF RowsGo, GroupsStartEmpty
<1> QED BY InitTyped, NextTyped, <1>1, PTL DEF RowsFine, NewGroupsStartEmpty

\* Deleting a permission that names field and project leaves no copy of it in
\* force.
THEOREM PermissionsGo ==
    Init /\ RowsTypeOK /\ Constrained /\ [][Next]_vars => DeletedPermissionsGo
<1>1. AInv /\ [Next]_vars =>
        [\A p \in permissions \ permissions' :
            (p.field # Null /\ p.project # Null)
                => \A q \in permissions' : Content(q) # Content(p)]_permissions
  BY NextTyped DEF RowsGo, PermissionsGoWhole
<1> QED BY InitTyped, NextTyped, <1>1, PTL DEF RowsFine, DeletedPermissionsGo

-----------------------------------------------------------------------------
\* Credentials

\* One key, before and after a step, is one user's
LEMMA KeysStandForOne ==
    ASSUME Grows, NEW k, KeyUser(k) # {}, KeyUser(k)' # {}
    PROVE  KeyUser(k)' = KeyUser(k)
BY DEF Grows, KeyUser

\* One subject, before and after a step, is one user, if one was given it and only
\* its own user counts
LEMMA SubjectsStandForOne ==
    ASSUME Grows, NEW s, s # Null,
           \A u, v \in UserIds : (users[u].subject = s /\ users[v].subject = s) => u = v,
           SubjectUser(s, FALSE) # {}, SubjectUser(s, FALSE)' # {}
    PROVE  SubjectUser(s, FALSE)' = SubjectUser(s, FALSE)
<1> DEFINE named == {u \in UserIds : users[u].active /\ users[u].subject = s}
<1>1. SubjectUser(s, FALSE) = named
  BY DEF SubjectUser
<1>2. SubjectUser(s, FALSE)' = named'
  BY DEF SubjectUser
<1>3. \A u, v \in UserIds' : (users'[u].subject = s /\ users'[v].subject = s) => u = v
  BY DEF Grows
<1>4. \A u \in named : u \in UserIds' /\ users'[u].subject = s
  BY DEF Grows
<1>5. \A u \in named, v \in named' : u = v
  BY <1>3, <1>4
<1>6. PICK x \in named, y \in named' : TRUE
  BY <1>1, <1>2
<1>7. named = {x} /\ named' = {x}
  BY <1>5, <1>6
<1> QED BY <1>1, <1>2, <1>7

LEMMA AnswersKeepTheirUser ==
    ASSUME Grows, NEW d, NEW h, ~MayPassOn(h, d),
           Answer(h, d).status = "served", Answer(h, d)'.status = "served"
    PROVE  Answer(h, d) = Answer(h, d)'
<1> DEFINE bearer == h.bearer # Null
           header == d.proxied /\ h.subject # Null
<1>1. \A status : status # "served" => Rejected(status).status # "served"
  BY DEF Rejected
<1>2. OriginAllowed(h, d) /\ ClientVersionAllowed(h, d)
  BY <1>1 DEF Answer
<1>3. Answer(h, d) = AccessContext(h, d)
  BY <1>2 DEF Answer
<1>4. Answer(h, d)' = AccessContext(h, d)'
  BY <1>2 DEF Answer, OriginAllowed, ClientVersionAllowed
<1>5. CASE bearer /\ header
  <2>1. AccessContext(h, d) = Rejected("conflicting_identity")
    BY <1>5 DEF AccessContext
  <2> QED BY <1>1, <1>3, <2>1
<1>6. CASE ~bearer /\ ~header
  <2>1. AccessContext(h, d) = Rejected("unauthorized")
    BY <1>6 DEF AccessContext
  <2> QED BY <1>1, <1>3, <2>1
<1>7. CASE bearer /\ ~header
  <2>1. AccessContext(h, d) = BearerToken(h, d)
    BY <1>7 DEF AccessContext
  <2>2. AccessContext(h, d)' = BearerToken(h, d)'
    BY <1>7 DEF AccessContext
  <2>3. CASE h.bearer = 0
    <3>1. BearerToken(h, d) = BearerToken(h, d)'
      BY <2>3 DEF BearerToken, Context, Rejected
    <3> QED BY <1>3, <1>4, <2>1, <2>2, <3>1
  <2>4. CASE h.bearer # 0
    <3>1. KeyUser(h.bearer) # {} /\ BearerToken(h, d) = Context(Max(KeyUser(h.bearer)), FALSE)
      BY <1>1, <1>3, <2>1, <2>4 DEF BearerToken
    <3>2. KeyUser(h.bearer)' # {} /\ BearerToken(h, d)' = Context(Max(KeyUser(h.bearer)'), FALSE)
      BY <1>1, <1>4, <2>2, <2>4 DEF BearerToken, Context
    <3>3. KeyUser(h.bearer)' = KeyUser(h.bearer)
      BY <3>1, <3>2, KeysStandForOne
    <3> QED BY <1>3, <1>4, <2>1, <2>2, <3>1, <3>2, <3>3
  <2> QED BY <2>3, <2>4
<1>8. CASE ~bearer /\ header
  <2>1. AccessContext(h, d) = TrustedHeader(h, d)
    BY <1>8 DEF AccessContext
  <2>2. AccessContext(h, d)' = TrustedHeader(h, d)'
    BY <1>8 DEF AccessContext
  <2>3. /\ h.subject # Null /\ ~d.fallback
        /\ \A u, v \in UserIds : (users[u].subject = h.subject /\ users[v].subject = h.subject) => u = v
    BY <1>8 DEF MayPassOn
  <2> DEFINE found == SubjectUser(h.subject, d.fallback)
  <2>4. found # {} /\ TrustedHeader(h, d) = Context(Min(found), FALSE)
    BY <1>1, <1>3, <2>1 DEF TrustedHeader
  <2>5. found' # {} /\ TrustedHeader(h, d)' = Context(Min(found'), FALSE)
    BY <1>1, <1>4, <2>2 DEF TrustedHeader, Context
  <2>6. found = SubjectUser(h.subject, FALSE) /\ found' = SubjectUser(h.subject, FALSE)'
    BY <2>3 DEF SubjectUser
  <2>7. found' = found
    BY <2>3, <2>4, <2>5, <2>6, SubjectsStandForOne
  <2> QED BY <1>3, <1>4, <2>1, <2>2, <2>4, <2>5, <2>7
<1> QED BY <1>5, <1>6, <1>7, <1>8

\* Whatever the console does, what a client carries never starts to stand for
\* another person, but a subject whose user is disabled, where the fallback by
\* email or another user of the same subject takes over.
THEOREM CredentialsKeepOwners ==
    Init /\ RowsTypeOK /\ Constrained /\ [][Next]_vars => CredentialsKeepTheirOwner
<1>1. AInv /\ [Next]_vars =>
        [<<users, keys>>' # <<users, keys>> =>
            \A d \in Deployments : \A h \in Headers :
               (/\ ~MayPassOn(h, d)
                /\ Answer(h, d).status = "served" /\ Answer(h, d)'.status = "served")
                   => Answer(h, d) = Answer(h, d)']_<<users, keys>>
  <2> SUFFICES ASSUME AInv, [Next]_vars, NEW d \in Deployments, NEW h \in Headers,
                      ~MayPassOn(h, d),
                      Answer(h, d).status = "served", Answer(h, d)'.status = "served"
               PROVE  Answer(h, d) = Answer(h, d)'
    OBVIOUS
  <2>1. Grows
    BY NextTyped DEF RowsGo
  <2> QED BY <2>1, AnswersKeepTheirUser
<1> QED BY InitTyped, NextTyped, <1>1, PTL DEF RowsFine, CredentialsKeepTheirOwner

HIDE DEF Ended, Steps

LEMMA EndedPlaces ==
    /\ {"idle", "answered", "refused", "turned away", "crashed"} \subseteq Ended
    /\ \A place \in {"local", "cookie", "admitted", "choosing", "hashing", "opening", "remembering", "linking", "syncing"} :
          place \notin Ended
BY DEF Ended

-----------------------------------------------------------------------------
\* A request that met no other is the only one
Solitude == \A t, o \in Threads : (alone[t] /\ Busy(t) /\ Busy(o)) => o = t

SInv == AInv /\ Solitude

\* A step of one request leaves the others where they are
LEMMA OthersStand ==
    ASSUME AInv, NEW t \in Threads, Request(t)
    PROVE  /\ Busy(t) /\ UNCHANGED <<overlapped, clock>>
           /\ \A o \in Threads : o # t =>
                 /\ at'[o] = at[o] /\ form'[o] = form[o] /\ held'[o] = held[o]
                 /\ alone'[o] = alone[o] /\ before'[o] = before[o]
           /\ at'[t] \notin Ended => form'[t] = form[t] /\ alone'[t] = alone[t] /\ before'[t] = before[t]
<1>1. Busy(t)
  BY EveryRequestProceeds DEF RequestProceeds
<1>2. PICK place, who, h : Go(t, place, who, h)
  BY EveryRequestProceeds DEF RequestProceeds, Proceeds
<1>3. Framed(t, place, who, h)
  BY <1>2, GoFrame
<1> QED BY <1>1, <1>3 DEF Framed

\* Where a step leads the request that takes it
LEMMA GoesTo ==
    ASSUME AInv, NEW t \in Threads, NEW place, NEW who, NEW h, Go(t, place, who, h)
    PROVE  at'[t] = place /\ (place \notin Ended => held'[t] = h)
BY GoFrame DEF Framed

LEMMA NextSolitude == SInv /\ [Next]_vars => SInv'
<1> SUFFICES ASSUME SInv, [Next]_vars PROVE SInv'
  OBVIOUS
<1>1. AInv /\ AInv'
  BY NextTyped DEF SInv
<1>2. CASE UNCHANGED <<at, alone>>
  BY <1>1, <1>2 DEF SInv, Solitude, Busy
<1>3. CASE Stop
  <2>1. \A o \in Threads : at'[o] \in Ended
    BY <1>3, EndedPlaces DEF Stop, Busy
  <2> QED BY <1>1, <2>1 DEF SInv, Solitude, Busy
<1>4. ASSUME NEW t \in Threads, Request(t) PROVE SInv'
  <2>1. /\ Busy(t)
        /\ \A o \in Threads : o # t => at'[o] = at[o] /\ alone'[o] = alone[o]
        /\ at'[t] \notin Ended => alone'[t] = alone[t]
    BY <1>1, <1>4, OthersStand
  <2>2. ASSUME NEW o \in Threads, Busy(o)' PROVE Busy(o) /\ alone'[o] = alone[o]
    <3>1. CASE o = t
      BY <2>1, <2>2, <3>1 DEF Busy
    <3>2. CASE o # t
      BY <2>1, <2>2, <3>2 DEF Busy
    <3> QED BY <3>1, <3>2
  <2>3. Solitude'
    BY <2>2 DEF SInv, Solitude
  <2> QED BY <1>1, <2>3 DEF SInv
<1>5. ASSUME NEW t \in Threads, NEW f \in Forms, NEW c \in 0 .. Len(sessions), Arrive(t, f, c) PROVE SInv'
  <2>1. /\ \A o \in Threads : o # t => at'[o] = at[o]
        /\ alone' = [o \in Threads |-> IF o = t THEN \A p \in Threads : ~Busy(p) ELSE alone[o] /\ ~Busy(o)]
    BY <1>1, <1>5 DEF Arrive, AInv, IInv, Shape
  <2>2. \A o \in Threads : o # t => (Busy(o)' <=> Busy(o)) /\ (alone'[o] => ~Busy(o))
    BY <2>1 DEF Busy
  <2>3. alone'[t] => \A p \in Threads : ~Busy(p)
    BY <2>1
  <2>4. Solitude'
    BY <2>2, <2>3 DEF Solitude
  <2> QED BY <1>1, <2>4 DEF SInv
<1> QED BY <1>2, <1>3, <1>4, <1>5 DEF Next, vars, requestVars, Start, Listen, Tick

LEMMA InitSolitude == Init /\ RowsFine => SInv
BY InitTyped DEF SInv, Solitude, Init, Busy

-----------------------------------------------------------------------------
\* Edits

\* The first n parts of an edit of the user who was have been carried out
Come(n, f, was) ==
    /\ users[f.user].role = IF n > 0 THEN f.role ELSE was.role
    /\ \A k \in 1 .. 3 :
          Linked(Kinds[k], f.user) = IF n > k THEN f.wanted[Kinds[k]] ELSE was.links[Kinds[k]]

\* How far an edit that met no other request has come
EditAt(f, place, h, was) ==
    /\ place \in {"local", "cookie", "admitted"} => Come(0, f, was)
    /\ place \in {"linking", "syncing"} => \E k \in 1 .. 3 : h.left = Left(k) /\ Come(k, f, was)
    /\ place = "linking" => "read" \in DOMAIN h
    /\ place = "syncing" => h.read = Linked(Head(h.left), f.user)
Edits(t) == (Busy(t) /\ form[t].page = "edit" /\ alone[t]) => EditAt(form[t], at[t], held[t], before[t])

EInv == SInv /\ \A t \in Threads : Edits(t)

\* Come says what Landed says of the row and the links there are
LEMMA LandedIsCome ==
    ASSUME NEW f, f.user \in UserIds, NEW n, NEW was
    PROVE  Landed(n, f, was, [role |-> users[f.user].role, links |-> AllLinks[f.user]]) <=> Come(n, f, was)
<1> DEFINE is == [role |-> users[f.user].role, links |-> AllLinks[f.user]]
<1>1. \A k \in 1 .. 3 : is.links[Kinds[k]] = Linked(Kinds[k], f.user)
  <2>1. \A kind \in ToSet(Kinds) : AllLinks[f.user][kind] = Linked(kind, f.user)
    BY DEF AllLinks
  <2>2. \A k \in 1 .. 3 : Kinds[k] \in ToSet(Kinds)
    BY ThreeKinds
  <2> QED BY <2>1, <2>2
<1>2. is.role = users[f.user].role
  OBVIOUS
<1> HIDE DEF is
<1>3. Landed(n, f, was, is) <=> Come(n, f, was)
  BY <1>1, <1>2 DEF Landed, Come
<1> QED BY <1>3 DEF is

LEMMA LandedIsComeNext ==
    ASSUME NEW f, f.user \in UserIds', NEW n, NEW was
    PROVE  Landed(n, f, was, [role |-> users'[f.user].role, links |-> AllLinks'[f.user]]) <=> Come(n, f, was)'
<1> DEFINE is == [role |-> users'[f.user].role, links |-> AllLinks'[f.user]]
<1>1. \A k \in 1 .. 3 : is.links[Kinds[k]] = Linked(Kinds[k], f.user)'
  <2>1. \A kind \in ToSet(Kinds) : AllLinks'[f.user][kind] = Linked(kind, f.user)'
    BY DEF AllLinks
  <2>2. \A k \in 1 .. 3 : Kinds[k] \in ToSet(Kinds)
    BY ThreeKinds
  <2> QED BY <2>1, <2>2
<1>2. is.role = users'[f.user].role
  OBVIOUS
<1> HIDE DEF is
<1>3. Landed(n, f, was, is) <=> Come(n, f, was)'
  BY <1>1, <1>2 DEF Landed, Come
<1> QED BY <1>3 DEF is

LEMMA ComeStays ==
    ASSUME UNCHANGED <<users, links>>, NEW n, NEW f, NEW was
    PROVE  Come(n, f, was)' <=> Come(n, f, was)
<1>1. \A kind, u : Linked(kind, u)' = Linked(kind, u)
  BY DEF Linked
<1> QED BY <1>1 DEF Come

LEMMA SyncLands ==
    ASSUME LinksFine, NEW kind \in ToSet(Kinds), NEW u, NEW wanted,
           Replace(kind, u, wanted, Linked(kind, u))
    PROVE  /\ Linked(kind, u)' = wanted
           /\ \A other \in ToSet(Kinds) : other # kind => Linked(other, u)' = Linked(other, u)
<1> DEFINE read == Linked(kind, u)
           L == links[kind]
<1>1. DOMAIN links = ToSet(Kinds)
  BY ThreeKinds DEF LinksFine
<1>2. links'[kind] = (L \cup ({u} \X (wanted \ read))) \ ({u} \X (read \ wanted))
  BY <1>1 DEF Replace
<1>3. \A other \in ToSet(Kinds) : other # kind => links'[other] = links[other]
  BY <1>1 DEF Replace
<1>4. \A l \in L : l = <<l[1], l[2]>>
  BY ThreeKinds DEF LinksFine
<1>5. \A x : x \in read <=> <<u, x>> \in L
  BY <1>4 DEF Linked
<1>6. \A l \in links'[kind] : l = <<l[1], l[2]>>
  BY <1>2, <1>4
<1>7. \A x : x \in Linked(kind, u)' <=> <<u, x>> \in links'[kind]
  BY <1>6 DEF Linked
<1>8. \A x : <<u, x>> \in links'[kind] <=> x \in wanted
  <2> HIDE DEF read, L
  <2> QED BY <1>2, <1>5
<1>9. Linked(kind, u)' = wanted
  BY <1>7, <1>8
<1> HIDE DEF read, L
<1>10. \A other \in ToSet(Kinds) : other # kind => Linked(other, u)' = Linked(other, u)
  BY <1>3 DEF Linked
<1> QED BY <1>9, <1>10

\* What the edit of t says once t has taken a step
LEMMA EditStep ==
    ASSUME EInv, NEW t \in Threads, Request(t), alone[t],
           NEW f, f = form[t], f.page = "edit", NEW was, was = before[t],
           NEW place, place = at'[t], NEW h, place \notin Ended => h = held'[t]
    PROVE  /\ place = "answered" => Come(4, f, was)'
           /\ place \in Ended => \E n \in 0 .. 4 : Come(n, f, was)'
           /\ place \notin Ended => EditAt(f, place, h, was)'
<1> DEFINE Goal == /\ place = "answered" => Come(4, f, was)'
                   /\ place \in Ended => \E n \in 0 .. 4 : Come(n, f, was)'
                   /\ place \notin Ended => EditAt(f, place, h, was)'
<1>1. AInv /\ Busy(t)
  BY OthersStand DEF EInv, SInv
<1>2. EditAt(f, at[t], held[t], was)
  BY <1>1 DEF EInv, Edits
<1>3. /\ SoundAt(f, at[t], held[t]) /\ f.user \in UserIds /\ LinksFine
      /\ at[t] \in {"local", "cookie", "admitted", "linking", "syncing"}
      /\ users \in Seq([email : Emails, role : Roles, active : BOOLEAN,
                        secret : Secrets \cup {Null}, subject : Emails \cup {Null}])
  BY <1>1, HeldFacts, RowsParts DEF SoundAt, Shown, UsersFine
<1>4. PICK n \in 0 .. 3 : Come(n, f, was) /\ (at[t] \in {"local", "cookie", "admitted"} => n = 0)
  BY <1>2, <1>3 DEF EditAt
<1>5. ASSUME NEW end \in Ended \ {"answered"}, Move(t, end), UNCHANGED rowVars PROVE Goal
  <2>1. place = end
    BY <1>1, <1>5, GoesTo DEF Move
  <2>2. Come(n, f, was)'
    BY <1>4, <1>5, ComeStays DEF rowVars
  <2> QED BY <2>1, <2>2
<1>6. CASE AdmitLocally(t) \/ AdmitByCookie(t)
  <2>1. UNCHANGED rowVars /\ n = 0
    BY <1>4, <1>6 DEF AdmitLocally, AdmitByCookie
  <2>2. Come(0, f, was)'
    BY <1>4, <2>1, ComeStays DEF rowVars
  <2>3. CASE Move(t, "turned away")
    BY <1>5, <2>1, <2>3, EndedPlaces
  <2>4. ASSUME NEW who, Go(t, "admitted", who, Nothing) PROVE Goal
    <3>1. place = "admitted"
      BY <1>1, <2>4, GoesTo
    <3>2. EditAt(f, place, h, was)'
      BY <2>2, <3>1 DEF EditAt
    <3> QED BY <3>1, <3>2, EndedPlaces
  <2> QED BY <1>6, <2>3, <2>4 DEF AdmitLocally, AdmitByCookie
<1>7. CASE EditUser(t)
  <2> DEFINE hh == [Nothing EXCEPT !.left = Kinds]
  <2>1. /\ SetRole(f.user, f.role) /\ place = "linking" /\ h = hh /\ n = 0
    BY <1>1, <1>4, <1>7, GoesTo, EndedPlaces DEF EditUser
  <2>2. hh.left = Left(1)
    BY DEF Nothing, Left
  <2>3. users'[f.user].role = f.role
    <3> DEFINE Row == [email : Emails, role : Roles, active : BOOLEAN,
                       secret : Secrets \cup {Null}, subject : Emails \cup {Null}]
    <3>1. users[f.user] \in Row
      <4>1. users \in Seq(Row) /\ f.user \in DOMAIN users
        BY <1>3 DEF UserIds
      <4> HIDE DEF Row
      <4> QED BY <4>1
    <3>2. users' = [users EXCEPT ![f.user].role = f.role] /\ f.user \in DOMAIN users
      BY <1>3, <2>1 DEF SetRole, UserIds
    <3> QED BY <3>1, <3>2
  <2>4. \A k \in 1 .. 3 : Linked(Kinds[k], f.user)' = Linked(Kinds[k], f.user)
    BY <2>1 DEF SetRole, Linked
  <2>5. Come(1, f, was)'
    <3>1. \A k \in 1 .. 3 : ~(1 > k) /\ ~(0 > k)
      OBVIOUS
    <3>2. Come(0, f, was)
      BY <1>4, <2>1
    <3>3. \A k \in 1 .. 3 : Linked(Kinds[k], f.user)' = was.links[Kinds[k]]
      BY <2>4, <3>1, <3>2 DEF Come
    <3> QED BY <2>3, <3>1, <3>3 DEF Come
  <2>6. EditAt(f, place, h, was)'
    <3>1. h.left = Left(1) /\ "read" \in DOMAIN h
      BY <2>1, <2>2 DEF Nothing
    <3> HIDE DEF hh
    <3> QED BY <2>1, <2>5, <3>1 DEF EditAt
  <2> QED BY <2>1, <2>6, EndedPlaces
<1>8. CASE ReadLinks(t)
  <2> DEFINE hh == [held[t] EXCEPT !.read = Linked(Head(held[t].left), f.user)]
  <2>1. place = "syncing" /\ h = hh /\ UNCHANGED rowVars /\ at[t] = "linking"
    <3>1. Go(t, "syncing", admin[t], hh) /\ UNCHANGED rowVars /\ at[t] = "linking"
      BY <1>8 DEF ReadLinks
    <3> HIDE DEF hh
    <3> QED BY <1>1, <3>1, GoesTo, EndedPlaces
  <2>2. PICK k \in 1 .. 3 : held[t].left = Left(k) /\ Come(k, f, was)
    BY <1>2, <2>1 DEF EditAt
  <2>3. Come(k, f, was)'
    BY <2>1, <2>2, ComeStays DEF rowVars
  <2>4. hh.left = Left(k) /\ hh.read = Linked(Head(hh.left), f.user)
    BY <1>2, <2>1, <2>2 DEF EditAt
  <2>5. Linked(Head(h.left), f.user)' = Linked(Head(h.left), f.user)
    BY <2>1 DEF Linked, rowVars
  <2>6. EditAt(f, place, h, was)'
    <3> HIDE DEF hh
    <3>1. h.left = Left(k) /\ h.read = Linked(Head(h.left), f.user)'
      BY <2>1, <2>4, <2>5
    <3> QED BY <2>1, <2>3, <3>1 DEF EditAt
  <2> QED BY <2>1, <2>6, EndedPlaces
<1>9. CASE SyncLinks(t)
  <2> DEFINE rest == Tail(held[t].left)
             hh == [left |-> rest, read |-> {}]
  <2>1. PICK k \in 1 .. 3 : held[t].left = Left(k) /\ Come(k, f, was)
    BY <1>2, <1>9 DEF EditAt, SyncLinks
  <2> DEFINE kind == Kinds[k]
  <2>2. /\ kind = Head(held[t].left) /\ kind \in ToSet(Kinds) /\ (rest = <<>> <=> k = 3)
        /\ rest # <<>> => rest = Left(k + 1)
    BY <2>1, LeftOf
  <2>3. PICK answer \in {"answered", "refused"} :
             /\ Sync(kind, f.user, f.wanted[kind], held[t].read, answer)
             /\ Go(t, IF answer = "answered" /\ rest # <<>> THEN "linking" ELSE answer, admin[t], hh)
    BY <1>9, <2>2 DEF SyncLinks
  <2>4. held[t].read = Linked(kind, f.user) /\ UNCHANGED users
    BY <1>2, <1>9, <2>2, <2>3 DEF EditAt, SyncLinks, Sync
  <2>5. CASE answer = "refused"
    <3>1. UNCHANGED links
      BY <2>3, <2>5 DEF Sync
    <3>2. Come(k, f, was)'
      BY <2>1, <2>4, <3>1, ComeStays
    <3>3. place = "refused"
      <4>1. Go(t, "refused", admin[t], hh)
        BY <2>3, <2>5
      <4> QED BY <1>1, <4>1, GoesTo
    <3>4. k \in 0 .. 4
      OBVIOUS
    <3> QED BY <3>2, <3>3, <3>4, EndedPlaces
  <2>6. CASE answer = "answered"
    <3>1. Replace(kind, f.user, f.wanted[kind], Linked(kind, f.user))
      BY <2>3, <2>4, <2>6 DEF Sync
    <3>2. /\ Linked(kind, f.user)' = f.wanted[kind]
          /\ \A other \in ToSet(Kinds) : other # kind => Linked(other, f.user)' = Linked(other, f.user)
      <4> HIDE DEF kind
      <4> QED BY <1>3, <2>2, <3>1, SyncLands
    <3>3. \A j \in 1 .. 3 : j # k => Kinds[j] \in ToSet(Kinds) /\ Kinds[j] # kind
      BY <2>2, ThreeKinds
    <3>4. \A j \in 1 .. 3 : k + 1 > j <=> (k > j \/ j = k)
      OBVIOUS
    <3>5. \A m : m = k + 1 => Come(m, f, was)'
      <4> TAKE m
      <4> HAVE m = k + 1
      <4> HIDE DEF kind
      <4>1. \A j \in 1 .. 3 :
               Linked(Kinds[j], f.user)' = IF m > j THEN f.wanted[Kinds[j]] ELSE was.links[Kinds[j]]
        <5> TAKE j \in 1 .. 3
        <5>1. CASE j = k
          BY <3>2, <3>4, <5>1 DEF kind
        <5>2. CASE j # k
          <6>1. Linked(Kinds[j], f.user)' = Linked(Kinds[j], f.user)
            BY <3>2, <3>3, <5>2
          <6>2. Linked(Kinds[j], f.user) = IF k > j THEN f.wanted[Kinds[j]] ELSE was.links[Kinds[j]]
            BY <2>1 DEF Come
          <6> QED BY <3>4, <5>2, <6>1, <6>2
        <5> QED BY <5>1, <5>2
      <4>2. users'[f.user].role = f.role
        BY <2>1, <2>4 DEF Come
      <4> QED BY <4>1, <4>2 DEF Come
    <3>6. CASE rest # <<>>
      <4>1. Go(t, "linking", admin[t], hh)
        BY <2>3, <2>6, <3>6
      <4>2. place = "linking" /\ h = hh
        BY <1>1, <4>1, GoesTo, EndedPlaces
      <4>3. hh.left = Left(k + 1) /\ k + 1 \in 1 .. 3 /\ "read" \in DOMAIN hh
        BY <2>2, <3>6
      <4>4. EditAt(f, place, h, was)'
        <5> HIDE DEF hh, rest
        <5> QED BY <3>5, <4>2, <4>3 DEF EditAt
      <4> QED BY <4>2, <4>4, EndedPlaces
    <3>7. CASE rest = <<>>
      <4>1. Go(t, "answered", admin[t], hh)
        BY <2>3, <2>6, <3>7
      <4>2. place = "answered"
        BY <1>1, <4>1, GoesTo
      <4>3. 4 = k + 1 /\ 4 \in 0 .. 4
        BY <2>2, <3>7
      <4>4. Come(4, f, was)'
        BY <3>5, <4>3
      <4> QED BY <4>2, <4>3, <4>4, EndedPlaces
    <3> QED BY <3>6, <3>7
  <2> QED BY <2>5, <2>6
<1>10. CASE Locked(t)
  BY <1>5, <1>10, EndedPlaces DEF Locked
<1>11. ~Handle(t)
  BY DEF Handle, OneTransaction, CreateKey, RevokeKey, Provision, SetStatus, Link, LeaveGroup,
         CreateGroup, Permit, DeletePermission
<1>12. Goal
  BY <1>3, <1>6, <1>7, <1>8, <1>9, <1>10, <1>11 DEF Request, Login, OpenSession, SwitchMode, ChooseAdmin, Switches,
     StorePassword, FindOwner, CreateOwner, RecordLocal, Remember, CountMembers, DropGroup
<1> QED BY <1>12

\* What holds of the edit once the step is taken, said of what t then holds
LEMMA EditsNext ==
    ASSUME NEW t \in Threads, NEW f, f = form'[t], NEW place, place = at'[t],
           NEW h, h = held'[t], NEW was, was = before'[t], EditAt(f, place, h, was)'
    PROVE  Edits(t)'
BY DEF Edits, EditAt, Come, Linked

LEMMA EditAtStays ==
    ASSUME UNCHANGED <<users, links>>, NEW f, NEW place, NEW h, NEW was, EditAt(f, place, h, was)
    PROVE  EditAt(f, place, h, was)'
<1>1. \A n : Come(n, f, was)' <=> Come(n, f, was)
  BY ComeStays
<1>2. \A kind, u : Linked(kind, u)' = Linked(kind, u)
  BY DEF Linked
<1>3. Linked(Head(h.left), f.user)' = Linked(Head(h.left), f.user)
  BY <1>2
<1> QED BY <1>1, <1>3 DEF EditAt

LEMMA EditsStay ==
    ASSUME NEW t \in Threads, Edits(t),
           UNCHANGED <<users, links>>, at'[t] = at[t], form'[t] = form[t], held'[t] = held[t],
           alone'[t] = alone[t], before'[t] = before[t]
    PROVE  Edits(t)'
<1>1. CASE Busy(t) /\ form[t].page = "edit" /\ alone[t]
  <2>1. PICK f, place, h, was : f = form[t] /\ place = at[t] /\ h = held[t] /\ was = before[t]
    OBVIOUS
  <2>2. EditAt(f, place, h, was)
    BY <1>1, <2>1 DEF Edits
  <2>3. EditAt(f, place, h, was)'
    BY <2>2, EditAtStays
  <2> QED BY <2>1, <2>3, EditsNext
<1>2. CASE ~(Busy(t) /\ form[t].page = "edit" /\ alone[t])
  BY <1>2 DEF Edits, Busy
<1> QED BY <1>1, <1>2

LEMMA ArriveEdits ==
    ASSUME EInv, NEW t \in Threads, NEW f \in Forms, NEW c, Arrive(t, f, c), NEW o \in Threads
    PROVE  Edits(o)'
<1>1. AInv
  BY DEF EInv, SInv
<1>2. /\ \A p \in Threads : p # t => at'[p] = at[p]
      /\ at'[t] \in {"local", "cookie", "admitted"} /\ form'[t] = f /\ UNCHANGED <<users, links>>
      /\ alone' = [p \in Threads |-> IF p = t THEN \A q \in Threads : ~Busy(q) ELSE alone[p] /\ ~Busy(p)]
  BY <1>1 DEF Arrive, AInv, IInv, Shape, rowVars
<1>3. CASE o # t
  <2>1. alone'[o] => ~Busy(o)'
    BY <1>2, <1>3 DEF Busy
  <2> QED BY <2>1 DEF Edits
<1>4. CASE o = t /\ f.page # "edit"
  BY <1>2, <1>4 DEF Edits
<1>5. CASE o = t /\ f.page = "edit"
  <2> DEFINE now == [role |-> users[f.user].role, links |-> AllLinks[f.user]]
  <2>1. before'[t] = now
    BY <1>1, <1>5 DEF Arrive, AInv, Typed
  <2>2. f.user \in UserIds
    BY <1>5 DEF Arrive, Shown
  <2>3. PICK place, h, was : place = at'[t] /\ h = held'[t] /\ was = now
    OBVIOUS
  <2>4. Landed(0, f, was, was)
    <3>1. \A k \in 1 .. 3 : ~(0 > k)
      OBVIOUS
    <3> QED BY <3>1 DEF Landed
  <2>5. Come(0, f, was)
    BY <2>2, <2>3, <2>4, LandedIsCome
  <2>6. Come(0, f, was)'
    BY <1>2, <2>5, ComeStays
  <2>7. EditAt(f, place, h, was)'
    BY <1>2, <2>3, <2>6 DEF EditAt
  <2> QED BY <1>2, <1>5, <2>1, <2>3, <2>7, EditsNext
<1> QED BY <1>3, <1>4, <1>5

LEMMA NextEdits == EInv /\ [Next]_vars => EInv'
<1> SUFFICES ASSUME EInv, [Next]_vars PROVE EInv'
  OBVIOUS
<1>1. SInv' /\ AInv /\ Solitude
  BY NextSolitude DEF EInv, SInv
<1>2. ASSUME NEW o \in Threads PROVE Edits(o)'
  <2>1. CASE UNCHANGED <<users, links, at, form, held, alone, before>>
    BY <1>2, <2>1, EditsStay DEF EInv
  <2>2. CASE Stop
    <3>1. at'[o] \in Ended
      BY <2>2, EndedPlaces DEF Stop, Busy
    <3> QED BY <3>1 DEF Edits, Busy
  <2>3. CASE Listen
    <3>1. at'[o] = at[o] /\ at[o] \in Ended
      BY <1>1, <2>3 DEF Listen, requestVars, AInv, IInv, NoneOutlivesTheServer
    <3> QED BY <3>1 DEF Edits, Busy
  <2>4. ASSUME NEW t \in Threads, Request(t) PROVE Edits(o)'
    <3>1. CASE o # t
      <4>1. Busy(t) /\ at'[o] = at[o] /\ alone'[o] = alone[o]
        BY <1>1, <2>4, <3>1, OthersStand
      <4>2. ~(alone'[o] /\ Busy(o)')
        BY <1>1, <3>1, <4>1 DEF Solitude, Busy
      <4> QED BY <4>2 DEF Edits
    <3>2. CASE o = t /\ at'[t] \notin Ended /\ form'[t].page = "edit" /\ alone'[t]
      <4>1. form'[t] = form[t] /\ alone'[t] = alone[t] /\ before'[t] = before[t]
        BY <1>1, <2>4, <3>2, OthersStand
      <4>2. PICK f, place, h, was : f = form[t] /\ place = at'[t] /\ h = held'[t] /\ was = before[t]
        OBVIOUS
      <4>3. EditAt(f, place, h, was)'
        BY <2>4, <3>2, <4>1, <4>2, EditStep
      <4> QED BY <3>2, <4>1, <4>2, <4>3, EditsNext
    <3>3. CASE o = t /\ ~(at'[t] \notin Ended /\ form'[t].page = "edit" /\ alone'[t])
      BY <3>3 DEF Edits, Busy
    <3> QED BY <3>1, <3>2, <3>3
  <2>5. ASSUME NEW t \in Threads, NEW f \in Forms, NEW c \in 0 .. Len(sessions), Arrive(t, f, c)
        PROVE  Edits(o)'
    BY <2>5, ArriveEdits
  <2> QED BY <2>1, <2>2, <2>3, <2>4, <2>5 DEF Next, vars, requestVars, rowVars, Start, Tick
<1> QED BY <1>1, <1>2 DEF EInv

LEMMA InitEdits == Init /\ RowsFine => EInv
<1> SUFFICES ASSUME Init, RowsFine PROVE EInv
  OBVIOUS
<1>1. \A t \in Threads : ~Busy(t)
  BY EndedPlaces DEF Init, Busy
<1> QED BY <1>1, InitSolitude DEF EInv, Edits

\* An edit that met no other request has replaced the role and the links in order
\* when it ends, all of them if it is answered and a first part otherwise, whether
\* it is answered, refused, locked out or killed with the server.
THEOREM EditsLand ==
    Init /\ RowsTypeOK /\ Constrained /\ [][Next]_vars => EditsLandInOrder
<1>1. EInv /\ [Next]_vars =>
        [\A t \in Threads :
          LET f  == form[t]
              is == [role |-> users'[f.user].role, links |-> AllLinks'[f.user]]
          IN  (Busy(t) /\ f.page = "edit" /\ alone[t] /\ at'[t] \in Ended)
                  => IF at'[t] = "answered" THEN Landed(4, f, before[t], is)
                     ELSE \E n \in 0 .. 4 : Landed(n, f, before[t], is)]_vars
  <2> SUFFICES ASSUME EInv, [Next]_vars, NEW t \in Threads,
                      Busy(t), form[t].page = "edit", alone[t], at'[t] \in Ended,
                      NEW f, f = form[t], NEW was, was = before[t], NEW place, place = at'[t]
               PROVE  LET is == [role |-> users'[f.user].role, links |-> AllLinks'[f.user]]
                      IN  IF place = "answered" THEN Landed(4, f, was, is)
                          ELSE \E n \in 0 .. 4 : Landed(n, f, was, is)
    OBVIOUS
  <2>1. AInv /\ RowsGo
    BY NextTyped DEF EInv, SInv
  <2>2. f.user \in UserIds'
    <3>1. f.user \in UserIds
      BY <2>1, HeldFacts DEF SoundAt, Shown
    <3> QED BY <2>1, <3>1 DEF RowsGo, Grows
  <2>3. \A n : Landed(n, f, was, [role |-> users'[f.user].role, links |-> AllLinks'[f.user]])
                  <=> Come(n, f, was)'
    BY <2>2, LandedIsComeNext
  <2>4. (place = "answered" => Come(4, f, was)') /\ \E n \in 0 .. 4 : Come(n, f, was)'
    <3>1. CASE Request(t)
      BY <3>1, EditStep
    <3>2. CASE Stop
      <4>1. place = "crashed" /\ UNCHANGED <<users, links>>
        BY <2>1, <3>2 DEF Stop, rowVars
      <4>2. at[t] \in {"local", "cookie", "admitted", "linking", "syncing"}
        BY <2>1, HeldFacts DEF SoundAt
      <4>3. EditAt(f, at[t], held[t], was)
        BY DEF EInv, Edits
      <4>4. \E n \in 0 .. 4 : Come(n, f, was)
        BY <4>2, <4>3 DEF EditAt
      <4> QED BY <4>1, <4>4, ComeStays
    <3>3. ASSUME NEW o \in Threads, o # t, Request(o) PROVE FALSE
      <4>1. at'[t] = at[t]
        BY <2>1, <3>3, OthersStand
      <4> QED BY <4>1 DEF Busy
    <3>4. ASSUME NEW o \in Threads, NEW g \in Forms, NEW c, Arrive(o, g, c) PROVE FALSE
      <4>1. ~Busy(o) /\ (o # t => at'[t] = at[t])
        BY <2>1, <3>4 DEF Arrive, AInv, IInv, Shape
      <4> QED BY <4>1 DEF Busy
    <3>5. at' # at
      BY DEF Busy
    <3> QED BY <3>1, <3>2, <3>3, <3>4, <3>5 DEF Next, vars, requestVars, Start, Listen, Tick
  <2> QED BY <2>3, <2>4
<1> QED BY InitEdits, NextEdits, <1>1, PTL DEF RowsFine, EditsLandInOrder

-----------------------------------------------------------------------------
\* Switches of the mode

\* What a switch to team that met no other request has done: the account it set
\* the password of matches, and the last session is that account's
EarnAt(f, place, h) ==
    /\ place = "hashing" => h.read = Matching(f.email)
    /\ place = "opening" => Max(h.read) \in Matching(f.email) /\ users[Max(h.read)].secret = f.secret
    /\ place = "remembering" =>
          \E u \in Matching(f.email) : users[u].secret = f.secret /\ Last(sessions).user = u
Earns(t) ==
    (Busy(t) /\ Switches(form[t]) /\ form[t].target = "team" /\ alone[t])
        => EarnAt(form[t], at[t], held[t])

\* The stored mode is the one in memory, or the one a switch is about to put
\* there; as long as no two overlapped there is at most one
Agreement ==
    /\ server.at = "starting" => persisted = server.mode
    /\ (server.at = "up" /\ ~overlapped) =>
          /\ (\A t \in Threads : at[t] # "remembering") => persisted = server.mode
          /\ \A t \in Threads : at[t] = "remembering" => persisted = form[t].target
          /\ \A t, o \in Threads : (Busy(t) /\ Switches(form[t]) /\ Busy(o) /\ Switches(form[o])) => t = o

GInv == SInv /\ Agreement /\ \A t \in Threads : Earns(t)

LEMMA EarnsNext ==
    ASSUME NEW t \in Threads, NEW f, f = form'[t], NEW place, place = at'[t], NEW h, h = held'[t],
           EarnAt(f, place, h)'
    PROVE  Earns(t)'
BY DEF Earns, EarnAt, Matching, Admins, IsAdmin, UserIds, Switches

LEMMA EarnsStay ==
    ASSUME NEW t \in Threads, Earns(t), UNCHANGED <<users, sessions>>,
           at'[t] = at[t], form'[t] = form[t], held'[t] = held[t], alone'[t] = alone[t]
    PROVE  Earns(t)'
BY DEF Earns, EarnAt, Matching, Admins, IsAdmin, UserIds, Switches, Busy

\* What a step of a switch does to the account and the session
LEMMA EarnStep ==
    ASSUME GInv, NEW t \in Threads, Request(t), alone[t],
           NEW f, f = form[t], Switches(f), f.target = "team",
           NEW place, place = at'[t], place \notin Ended, NEW h, h = held'[t]
    PROVE  EarnAt(f, place, h)'
<1>1. AInv /\ Busy(t)
  BY OthersStand DEF GInv, SInv
<1>2. EarnAt(f, at[t], held[t])
  BY <1>1 DEF GInv, Earns
<1>3. /\ SoundAt(f, at[t], held[t]) /\ UserIds = 1 .. Len(users) /\ Len(users) \in Nat
      /\ users \in Seq([email : Emails, role : Roles, active : BOOLEAN,
                        secret : Secrets \cup {Null}, subject : Emails \cup {Null}])
  BY <1>1, HeldFacts, RowsParts DEF UsersFine
<1>4. ASSUME NEW p \in {"local", "cookie", "admitted", "choosing", "owning", "creating", "recording", "deleting"},
             place = p
      PROVE  EarnAt(f, place, h)'
  BY <1>4 DEF EarnAt
<1>5. ASSUME NEW p, NEW who, NEW g, Go(t, p, who, g) PROVE place = p /\ h = g
  BY <1>1, <1>5, GoesTo
<1>6. CASE ChooseAdmin(t)
  <2>1. CASE Hold(t, "hashing", Matching(f.email)) /\ UNCHANGED rowVars
    <3> DEFINE g == [Nothing EXCEPT !.read = Matching(f.email)]
    <3>1. Go(t, "hashing", admin[t], g)
      BY <2>1 DEF Hold
    <3>2. place = "hashing" /\ h = g
      <4> HIDE DEF g
      <4> QED BY <1>5, <3>1
    <3>3. g.read = Matching(f.email)
      BY DEF Nothing
    <3>4. Matching(f.email)' = Matching(f.email)
      BY <2>1 DEF Matching, Admins, IsAdmin, UserIds, rowVars
    <3> HIDE DEF g
    <3> QED BY <3>2, <3>3, <3>4 DEF EarnAt
  <2>2. CASE Move(t, "refused")
    BY <1>5, <2>2, EndedPlaces DEF Move
  <2> QED BY <1>6, <2>1, <2>2 DEF ChooseAdmin
<1>7. CASE StorePassword(t)
  <2> DEFINE u == Max(held[t].read)
  <2>1. at[t] = "hashing" /\ Go(t, "opening", admin[t], held[t]) /\ SetPassword(u, f.secret)
    BY <1>7 DEF StorePassword, Move
  <2>2. place = "opening" /\ h = held[t]
    BY <1>5, <2>1
  <2>3. u \in held[t].read
    <3>1. held[t].read # {} /\ held[t].read \subseteq UserIds
      BY <1>3, <2>1 DEF SoundAt
    <3> QED BY <1>3, <3>1, GreatestId
  <2>4. u \in Matching(f.email)
    BY <1>2, <2>1, <2>3 DEF EarnAt
  <2> HIDE DEF u
  <2>5. u \in Matching(f.email)' /\ users'[u].secret = f.secret
    <3> DEFINE Row == [email : Emails, role : Roles, active : BOOLEAN,
                       secret : Secrets \cup {Null}, subject : Emails \cup {Null}]
    <3>1. users \in Seq(Row) /\ u \in DOMAIN users
      BY <1>3, <2>4 DEF Matching, Admins, UserIds
    <3>2. users[u] \in Row
      <4> HIDE DEF Row
      <4> QED BY <3>1
    <3>3. users' = [users EXCEPT ![u].secret = f.secret]
      BY <2>1 DEF SetPassword
    <3>4. /\ DOMAIN users' = DOMAIN users /\ users'[u].secret = f.secret
          /\ users'[u].email = users[u].email /\ users'[u].role = users[u].role
          /\ users'[u].active = users[u].active
      BY <3>1, <3>2, <3>3
    <3> QED BY <2>4, <3>4 DEF Matching, Admins, IsAdmin, UserIds
  <2> QED BY <2>2, <2>5 DEF EarnAt, u
<1>8. CASE OpenSession(t)
  <2> DEFINE u == Max(held[t].read)
             s == [user |-> u, expires |-> clock + SessionHours]
  <2>1. at[t] = "opening" /\ Go(t, "remembering", admin[t], held[t]) /\ UNCHANGED rowVars
    BY <1>8 DEF OpenSession, Move
  <2>2. place = "remembering"
    BY <1>5, <2>1
  <2>3. u \in Matching(f.email) /\ users[u].secret = f.secret
    BY <1>2, <2>1 DEF EarnAt
  <2>4. Last(sessions').user = u
    <3>1. sessions' = Append(sessions, s)
      BY <1>8 DEF OpenSession
    <3>2. sessions \in Seq([user : UserIds, expires : Nat])
      BY <1>1 DEF AInv, Typed
    <3>3. s.user = u
      OBVIOUS
    <3> HIDE DEF s, u
    <3>4. Last(sessions') = s
      BY <3>1, <3>2 DEF Last
    <3> QED BY <3>3, <3>4
  <2> HIDE DEF u
  <2>5. u \in Matching(f.email)' /\ users'[u].secret = f.secret
    BY <2>1, <2>3 DEF Matching, Admins, IsAdmin, UserIds, rowVars
  <2> QED BY <2>2, <2>4, <2>5 DEF EarnAt
<1>9. CASE Remember(t) \/ Locked(t) \/ Handle(t) \/ DropGroup(t)
  <2>1. \E p \in Ended : \E who, g : Go(t, p, who, g)
    BY <1>9, EndedPlaces DEF Remember, Locked, Handle, DropGroup, Move
  <2> QED BY <1>5, <2>1
<1>10. CASE \/ AdmitLocally(t) \/ AdmitByCookie(t) \/ SwitchMode(t)
            \/ FindOwner(t) \/ CreateOwner(t) \/ CountMembers(t)
  <2>1. \E p \in {"admitted", "choosing", "owning", "creating", "recording", "deleting",
                  "turned away", "crashed", "answered", "refused"} : \E who, g : Go(t, p, who, g)
    <3>1. CASE AdmitLocally(t) \/ AdmitByCookie(t) \/ SwitchMode(t)
      BY <3>1 DEF AdmitLocally, AdmitByCookie, SwitchMode, Move
    <3>2. CASE FindOwner(t) \/ CreateOwner(t) \/ CountMembers(t)
      BY <3>2 DEF FindOwner, CreateOwner, CountMembers, Move
    <3> QED BY <1>10, <3>1, <3>2
  <2> QED BY <1>4, <1>5, <2>1, EndedPlaces
<1>11. ~Login(t) /\ ~RecordLocal(t) /\ ~EditUser(t) /\ ~ReadLinks(t) /\ ~SyncLinks(t)
  BY <1>3 DEF Login, RecordLocal, EditUser, ReadLinks, SyncLinks, SoundAt, Switches
<1> QED BY <1>6, <1>7, <1>8, <1>9, <1>10, <1>11 DEF Request

\* What a step of a request does to the mode, stored and in memory
LEMMA ModeStep ==
    ASSUME AInv, NEW t \in Threads, Request(t)
    PROVE  \/ UNCHANGED <<persisted, server>> /\ at[t] # "remembering" /\ at'[t] # "remembering"
           \/ /\ at'[t] = "remembering" /\ Switches(form[t])
              /\ persisted' = form[t].target /\ UNCHANGED server
           \/ /\ at[t] = "remembering" /\ at'[t] \in Ended
              /\ server'.mode = form[t].target /\ server'.at = server.at /\ UNCHANGED persisted
<1>1. Busy(t)
  BY OthersStand
<1>2. SoundAt(form[t], at[t], held[t])
  BY <1>1, HeldFacts
<1>3. ASSUME NEW p, NEW who, NEW g, Go(t, p, who, g) PROVE at'[t] = p
  BY <1>3, GoesTo
<1>4. CASE OpenSession(t)
  BY <1>2, <1>3, <1>4 DEF OpenSession, Move, SoundAt, Switches
<1>5. CASE RecordLocal(t)
  BY <1>2, <1>3, <1>5 DEF RecordLocal, Move, SoundAt
<1>6. CASE Remember(t)
  <2>1. Go(t, "answered", admin[t], held[t]) /\ server' = [server EXCEPT !.mode = form[t].target]
    BY <1>6 DEF Remember, Move
  <2>2. server'.mode = form[t].target /\ server'.at = server.at
    BY <2>1 DEF AInv, IInv, Shape
  <2> QED BY <1>3, <1>6, <2>1, <2>2, EndedPlaces DEF Remember
<1>7. CASE \/ AdmitLocally(t) \/ AdmitByCookie(t) \/ Login(t) \/ SwitchMode(t) \/ ChooseAdmin(t)
           \/ StorePassword(t) \/ FindOwner(t) \/ CreateOwner(t) \/ CountMembers(t)
  <2>1. UNCHANGED <<persisted, server>> /\ at[t] # "remembering"
    BY <1>7 DEF AdmitLocally, AdmitByCookie, Login, SwitchMode, ChooseAdmin, StorePassword, FindOwner,
       CreateOwner, CountMembers
  <2>2. \E p \in {"turned away", "admitted", "refused", "opening", "answered", "choosing", "hashing", "owning",
                  "creating", "recording", "crashed", "deleting"} : \E who, g : Go(t, p, who, g)
    <3>1. CASE AdmitLocally(t) \/ AdmitByCookie(t) \/ StorePassword(t)
      BY <3>1 DEF AdmitLocally, AdmitByCookie, StorePassword, Move
    <3>2. CASE Login(t) \/ SwitchMode(t) \/ ChooseAdmin(t)
      BY <3>2 DEF Login, SwitchMode, ChooseAdmin, Move, Hold
    <3>3. CASE FindOwner(t) \/ CreateOwner(t) \/ CountMembers(t)
      BY <3>3 DEF FindOwner, CreateOwner, CountMembers, Move
    <3> QED BY <1>7, <3>1, <3>2, <3>3
  <2> QED BY <1>3, <2>1, <2>2
<1>8. CASE Handle(t) \/ DropGroup(t) \/ EditUser(t) \/ ReadLinks(t) \/ SyncLinks(t) \/ Locked(t)
  <2>1. /\ UNCHANGED <<persisted, server>> /\ at[t] # "remembering"
        /\ \E p, who, g : Go(t, p, who, g) /\ p # "remembering"
    BY <1>8 DEF Handle, DropGroup, EditUser, ReadLinks, SyncLinks, Locked, Move
  <2> QED BY <1>3, <2>1
<1> QED BY <1>4, <1>5, <1>6, <1>7, <1>8 DEF Request

LEMMA RequestAgrees ==
    ASSUME GInv, NEW t \in Threads, Request(t)
    PROVE  Agreement'
<1>1. AInv /\ Agreement
  BY DEF GInv, SInv
<1>2. /\ Busy(t) /\ UNCHANGED overlapped
      /\ \A o \in Threads : o # t => at'[o] = at[o] /\ form'[o] = form[o]
      /\ at'[t] \notin Ended => form'[t] = form[t]
  BY <1>1, OthersStand
<1>3. server.at = "up"
  BY <1>1, <1>2 DEF AInv, IInv, NoneOutlivesTheServer, Busy
<1>4. \A o \in Threads : Busy(o)' => Busy(o) /\ form'[o] = form[o]
  BY <1>2 DEF Busy
<1>5. \A o \in Threads : at[o] = "remembering" => Busy(o) /\ Switches(form[o])
  <2> TAKE o \in Threads
  <2> HAVE at[o] = "remembering"
  <2>1. Busy(o)
    BY EndedPlaces DEF Busy
  <2>2. SoundAt(form[o], at[o], held[o])
    BY <1>1, <2>1, HeldFacts
  <2> QED BY <2>1, <2>2 DEF SoundAt
<1>6. CASE overlapped
  <2>1. server'.at = "up"
    BY <1>1, <1>3, ModeStep
  <2> QED BY <1>2, <1>6, <2>1 DEF Agreement
<1>7. CASE ~overlapped
  <2>1. \A o \in Threads : (Busy(t) /\ Switches(form[t]) /\ Busy(o) /\ Switches(form[o])) => o = t
    BY <1>1, <1>3, <1>7 DEF Agreement
  <2>2. \A o, p \in Threads :
           (Busy(o)' /\ Switches(form'[o]) /\ Busy(p)' /\ Switches(form'[p])) => o = p
    BY <1>1, <1>3, <1>4, <1>7 DEF Agreement
  <2>3. /\ (\A o \in Threads : at[o] # "remembering") => persisted = server.mode
        /\ \A o \in Threads : at[o] = "remembering" => persisted = form[o].target
    BY <1>1, <1>3, <1>7 DEF Agreement
  <2>4. /\ server'.at = "up"
        /\ (\A o \in Threads : at'[o] # "remembering") => persisted' = server'.mode
        /\ \A o \in Threads : at'[o] = "remembering" => persisted' = form'[o].target
    <3>1. CASE UNCHANGED <<persisted, server>> /\ at[t] # "remembering" /\ at'[t] # "remembering"
      BY <1>2, <1>3, <2>3, <3>1
    <3>2. CASE /\ at'[t] = "remembering" /\ Switches(form[t])
               /\ persisted' = form[t].target /\ UNCHANGED server
      BY <1>2, <1>3, <1>5, <2>1, <3>2, EndedPlaces
    <3>3. CASE /\ at[t] = "remembering" /\ at'[t] \in Ended
               /\ server'.mode = form[t].target /\ server'.at = server.at /\ UNCHANGED persisted
      BY <1>2, <1>3, <1>5, <2>1, <2>3, <3>3, EndedPlaces
    <3> QED BY <1>1, <3>1, <3>2, <3>3, ModeStep
  <2> QED BY <2>2, <2>4 DEF Agreement, Switches
<1> QED BY <1>6, <1>7

LEMMA ArriveAgrees ==
    ASSUME GInv, NEW t \in Threads, NEW f \in Forms, NEW c, Arrive(t, f, c)
    PROVE  Agreement' /\ \A o \in Threads : Earns(o)'
<1>1. AInv /\ Agreement
  BY DEF GInv, SInv
<1>2. /\ server.at = "up" /\ ~Busy(t) /\ UNCHANGED <<persisted, server>>
      /\ \A p \in Threads : p # t => at'[p] = at[p] /\ form'[p] = form[p]
      /\ at'[t] \in {"local", "cookie", "admitted"} /\ form'[t] = f
  BY <1>1 DEF Arrive, AInv, IInv, Shape, serverVars
<1>3. ASSUME NEW o \in Threads PROVE Earns(o)'
  <2>1. CASE o = t
    BY <1>2, <2>1 DEF Earns, EarnAt
  <2>2. CASE o # t
    <3>1. alone' = [p \in Threads |-> IF p = t THEN \A q \in Threads : ~Busy(q) ELSE alone[p] /\ ~Busy(p)]
      BY DEF Arrive
    <3>2. alone'[o] => ~Busy(o)'
      BY <1>2, <2>2, <3>1 DEF Busy
    <3> QED BY <3>2 DEF Earns
  <2> QED BY <2>1, <2>2
<1>4. at[t] # "remembering" /\ at'[t] # "remembering"
  BY <1>2, EndedPlaces DEF Busy
<1>5. CASE overlapped'
  <2>1. server'.at = "up"
    BY <1>2
  <2> QED BY <1>3, <1>5, <2>1 DEF Agreement
<1>6. CASE ~overlapped'
  <2>1. ~overlapped /\ ~(Switches(f) /\ \E o \in Threads : Busy(o) /\ Switches(form[o]))
    BY <1>6 DEF Arrive
  <2>2. \A o \in Threads : o # t /\ Busy(o)' /\ Switches(form'[o]) => Busy(o) /\ Switches(form[o])
    BY <1>2 DEF Busy
  <2>3. \A o, p \in Threads :
           (Busy(o)' /\ Switches(form'[o]) /\ Busy(p)' /\ Switches(form'[p])) => o = p
    BY <1>1, <1>2, <2>1, <2>2 DEF Agreement
  <2>4. /\ (\A o \in Threads : at'[o] # "remembering") => persisted' = server'.mode
        /\ \A o \in Threads : at'[o] = "remembering" => persisted' = form'[o].target
    BY <1>1, <1>2, <1>4, <2>1 DEF Agreement
  <2>5. Agreement'
    BY <1>2, <2>3, <2>4 DEF Agreement, Switches
  <2> QED BY <1>3, <2>5
<1> QED BY <1>5, <1>6

LEMMA NextAgrees == GInv /\ [Next]_vars => GInv'
<1> SUFFICES ASSUME GInv, [Next]_vars PROVE GInv'
  OBVIOUS
<1>1. SInv' /\ AInv /\ Solitude /\ Agreement
  BY NextSolitude DEF GInv, SInv
<1>2. CASE UNCHANGED <<users, sessions, at, form, held, alone, overlapped, persisted, server>>
  <2>1. \A t \in Threads : Earns(t)'
    BY <1>2, EarnsStay DEF GInv
  <2>2. Agreement'
    BY <1>1, <1>2 DEF Agreement, Busy, Switches
  <2> QED BY <1>1, <2>1, <2>2 DEF GInv
<1>3. ASSUME server'.at # "up" \/ ~overlapped', \A t \in Threads : at'[t] \in Ended,
             server'.at \in {"starting", "up"} => persisted' = server'.mode
      PROVE  GInv'
  <2>1. \A t \in Threads : Earns(t)'
    BY <1>3 DEF Earns, Busy
  <2>2. \A t \in Threads : ~Busy(t)' /\ at'[t] # "remembering"
    BY <1>3, EndedPlaces DEF Busy
  <2>3. Agreement'
    BY <1>3, <2>2 DEF Agreement
  <2> QED BY <1>1, <2>1, <2>3 DEF GInv
<1>4. CASE \E mode \in Modes, loopback \in BOOLEAN : Start(mode, loopback)
  <2>1. PICK mode \in Modes, loopback \in BOOLEAN : Start(mode, loopback)
    BY <1>4
  <2>2. server'.at = "starting" /\ server'.mode = persisted' /\ UNCHANGED at /\ server.at = "down"
    BY <2>1 DEF Start, requestVars
  <2> QED BY <1>1, <1>3, <2>2 DEF AInv, IInv, NoneOutlivesTheServer
<1>5. CASE Listen
  <2>1. /\ server.at = "starting" /\ server'.mode = server.mode /\ ~overlapped'
        /\ UNCHANGED <<at, persisted>>
    BY <1>1, <1>5 DEF Listen, requestVars, AInv, IInv, Shape
  <2> QED BY <1>1, <1>3, <2>1 DEF AInv, IInv, NoneOutlivesTheServer, Agreement
<1>6. CASE Stop
  <2>1. server'.at = "down" /\ \A t \in Threads : at'[t] \in Ended
    BY <1>1, <1>6, EndedPlaces DEF Stop, Busy, AInv, IInv, Shape
  <2> QED BY <1>3, <2>1
<1>7. ASSUME NEW t \in Threads, Request(t) PROVE GInv'
  <2>1. Agreement'
    BY <1>7, RequestAgrees
  <2>2. ASSUME NEW o \in Threads PROVE Earns(o)'
    <3>1. CASE o # t
      <4>1. Busy(t) /\ at'[o] = at[o] /\ alone'[o] = alone[o]
        BY <1>1, <1>7, <3>1, OthersStand
      <4>2. ~(alone'[o] /\ Busy(o)')
        BY <1>1, <3>1, <4>1 DEF Solitude, Busy
      <4> QED BY <4>2 DEF Earns
    <3>2. CASE o = t /\ at'[t] \notin Ended /\ Switches(form'[t]) /\ form'[t].target = "team" /\ alone'[t]
      <4>1. form'[t] = form[t] /\ alone'[t] = alone[t]
        BY <1>1, <1>7, <3>2, OthersStand
      <4>2. PICK f, place, h : f = form[t] /\ place = at'[t] /\ h = held'[t]
        OBVIOUS
      <4>3. EarnAt(f, place, h)'
        BY <1>7, <3>2, <4>1, <4>2, EarnStep
      <4> QED BY <3>2, <4>1, <4>2, <4>3, EarnsNext
    <3>3. CASE o = t /\ ~(at'[t] \notin Ended /\ Switches(form'[t]) /\ form'[t].target = "team" /\ alone'[t])
      BY <3>3 DEF Earns, Busy, Switches
    <3> QED BY <3>1, <3>2, <3>3
  <2> QED BY <1>1, <2>1, <2>2 DEF GInv
<1>8. ASSUME NEW t \in Threads, NEW f \in Forms, NEW c \in 0 .. Len(sessions), Arrive(t, f, c)
      PROVE  GInv'
  BY <1>1, <1>8, ArriveAgrees DEF GInv
<1> QED BY <1>2, <1>4, <1>5, <1>6, <1>7, <1>8 DEF Next, vars, rowVars, requestVars, serverVars, Tick

\* Unless two switches overlapped, a restart finds the mode the server has; and a
\* switch to team that met no other request leaves a console the account it set
\* the password of can log in to, and is logged in to.
THEOREM SwitchesLand ==
    Init /\ RowsTypeOK /\ Constrained /\ [][Next]_vars => []CalmSwitchesLand
<1>1. Init /\ RowsFine => GInv
  <2> SUFFICES ASSUME Init, RowsFine PROVE GInv
    OBVIOUS
  <2>1. \A t \in Threads : ~Busy(t)
    BY EndedPlaces DEF Init, Busy
  <2>2. Agreement
    BY DEF Init, Agreement
  <2> QED BY <2>1, <2>2, InitSolitude DEF GInv, Earns
<1>2. GInv => CalmSwitchesLand
  <2> SUFFICES ASSUME GInv PROVE CalmSwitchesLand
    OBVIOUS
  <2>1. (server.at = "up" /\ ~overlapped /\ \A t \in Threads : at[t] # "remembering") => persisted = server.mode
    BY DEF GInv, Agreement
  <2>2. ASSUME NEW t \in Threads, at[t] = "remembering", alone[t], form[t].target = "team"
        PROVE  \E u \in Matching(form[t].email) : users[u].secret = form[t].secret /\ Last(sessions).user = u
    <3>1. Busy(t)
      BY <2>2, EndedPlaces DEF Busy
    <3>2. Switches(form[t])
      BY <2>2, <3>1, HeldFacts DEF GInv, SInv, SoundAt
    <3> QED BY <2>2, <3>1, <3>2 DEF GInv, Earns, EarnAt
  <2> QED BY <2>1, <2>2 DEF CalmSwitchesLand
<1> QED BY <1>1, <1>2, NextAgrees, PTL DEF RowsFine
=============================================================================
