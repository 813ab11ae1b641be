-------------------------- MODULE MCConsoleAccess --------------------------
(* A small instance of ConsoleAccess, with the requests of RequestIdentity. *)
EXTENDS ConsoleAccess, RequestIdentity

CONSTANTS caseA, firmA

Wanted(gs, ps, ks) == [groups |-> gs, projects |-> ps, companies |-> ks]

mcForms ==
    { [page |-> "login", email |-> "ann", secret |-> "old"],
      [page |-> "deployment mode", target |-> "team", email |-> "ann", secret |-> "new"],
      [page |-> "deployment mode", target |-> "team", email |-> "bob", secret |-> Null],
      [page |-> "deployment mode", target |-> "local"],
      [page |-> "status", user |-> 1, active |-> FALSE],
      [page |-> "status", user |-> 1, active |-> TRUE],
      [page |-> "password", user |-> 1, secret |-> "new"],
      [page |-> "edit", user |-> 1, role |-> "legal", wanted |-> Wanted({1}, {}, {firmA})],
      [page |-> "edit", user |-> 2, role |-> "admin", wanted |-> Wanted({}, {caseA}, {})],
      [page |-> "provision", email |-> "bob", role |-> "legal", newGroup |-> "b",
       wanted |-> Wanted({1}, {caseA}, {}), withKey |-> TRUE],
      [page |-> "provision", email |-> "bob", role |-> "admin", newGroup |-> Null,
       wanted |-> Wanted({}, {}, {}), withKey |-> FALSE],
      [page |-> "create key", user |-> 1],
      [page |-> "revoke key", key |-> 1],
      [page |-> "link", kind |-> "groups", user |-> 1, row |-> 1],
      [page |-> "leave", user |-> 1, group |-> 1],
      [page |-> "create group", name |-> "a"],
      [page |-> "delete group", group |-> 1],
      [page |-> "permit", group |-> 1, user |-> Null, field |-> "f", project |-> Null],
      [page |-> "permit", group |-> Null, user |-> 1, field |-> "f", project |-> caseA],
      [page |-> "delete permission", permission |-> 1] }

User(email, role, active, secret, subject) ==
    [email |-> email, role |-> role, active |-> active, secret |-> secret, subject |-> subject]

\* A new database, a team two of which were given one external subject, and one
\* whose former local owner was disabled
mcUsers ==
    { <<>>,
      << User("ann", "admin", TRUE, "old", "bob"), User("sue", "legal", TRUE, Null, "bob") >>,
      << User("ann", "admin", TRUE, "old", "bob"), User(LocalOwner, "admin", FALSE, Null, Null) >> }

MCInit ==
    /\ users \in mcUsers
    /\ groups = IF users = <<>> THEN {} ELSE {[id |-> 1, name |-> "a"]}
    /\ links = [kind \in ToSet(Kinds) |-> {}]
    /\ permissions = {}
    /\ keys = IF users = <<>> THEN <<>> ELSE <<[user |-> 1, active |-> TRUE]>>
    /\ Init

Spec == MCInit /\ [][Next]_vars

Carries(origin, version, bearer, subject, trusted) ==
    [origin |-> origin, version |-> version, bearer |-> bearer, subject |-> subject, trusted |-> trusted]
mcHeaders ==
    { Carries(Null, 2, Null, Null, TRUE), Carries(Null, 2, 0, Null, TRUE), Carries(Null, 2, 1, Null, TRUE),
      Carries(Null, 2, Null, "bob", TRUE), Carries(Null, 2, Null, "bob", FALSE),
      Carries(Null, 2, 1, "bob", TRUE), Carries("home", 2, 1, Null, TRUE), Carries(Null, Null, 2, Null, TRUE) }

Deployment(minimum, fallback) ==
    [origins |-> {}, minimum |-> minimum, legacy |-> TRUE, full |-> FALSE, proxied |-> TRUE,
     fallback |-> fallback]
mcDeployments == { Deployment(2, FALSE), Deployment(0, TRUE) }

ThreadsAlike == Permutations(Threads)
=============================================================================
