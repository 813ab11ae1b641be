-------------------------- MODULE RequestIdentity --------------------------
(***************************************************************************)
(* Whom an HTTP request is answered as (http_server.py, whose do_POST asks *)
(* identity_resolver.py): the gates before it, the two ways to carry an    *)
(* identity, and the rows of the console they are looked up in.  One query *)
(* decides, so the answer is a function of the rows committed by then.     *)
(***************************************************************************)
EXTENDS ConsoleRows

CONSTANTS
    Headers,     \* [origin, version, bearer, subject, trusted]; Null is no header
    Deployments  \* [origins, minimum, legacy, full, proxied, fallback]

\* A user of 0 is the legacy context, which has none
Context(user, unrestricted) ==
    [status |-> "served", user |-> user, unrestricted |-> unrestricted]
Rejected(status) == [status |-> status, user |-> 0, unrestricted |-> FALSE]

OriginAllowed(h, d) == h.origin = Null \/ h.origin \in d.origins
ClientVersionAllowed(h, d) == d.minimum = 0 \/ (h.version # Null /\ h.version >= d.minimum)

\* verify_api_key: the row of the key, if it and its user are active
KeyUser(k) ==
    IF k \in DOMAIN keys /\ keys[k].active /\ users[keys[k].user].active THEN {keys[k].user} ELSE {}

\* BearerTokenSource.resolve; bearer is 0, the legacy token, or the id of a key
BearerToken(h, d) ==
    IF h.bearer = 0
    THEN IF d.legacy THEN Context(0, d.full) ELSE Rejected("unauthorized")
    ELSE IF KeyUser(h.bearer) = {} THEN Rejected("unauthorized")
         ELSE Context(Max(KeyUser(h.bearer)), FALSE)

\* Mutant: the fallback is taken whatever the deployment says
SubjectUserAnyway(subject, fallback) ==
    LET active == {u \in UserIds : users[u].active}
        named  == {u \in active : users[u].subject = subject}
    IN  IF named # {} THEN named ELSE {u \in active : users[u].email = subject}

\* verify_external_subject
SubjectUser(subject, fallback) ==
    LET active == {u \in UserIds : users[u].active}
        named  == {u \in active : users[u].subject = subject}
    IN  IF named # {} \/ ~fallback THEN named ELSE {u \in active : users[u].email = subject}

\* TrustedHeaderSource.resolve
TrustedHeader(h, d) ==
    LET found == SubjectUser(h.subject, d.fallback)
    IN  IF h.trusted /\ found # {} THEN Context(Min(found), FALSE) ELSE Rejected("unauthorized")

\* resolve_access_context: exactly one of the sources is present
AccessContext(h, d) ==
    LET bearer == h.bearer # Null
        header == d.proxied /\ h.subject # Null
    IN  CASE bearer /\ header   -> Rejected("conflicting_identity")
          [] bearer /\ ~header  -> BearerToken(h, d)
          [] ~bearer /\ header  -> TrustedHeader(h, d)
          [] ~bearer /\ ~header -> Rejected("unauthorized")

\* do_POST
Answer(h, d) ==
    IF ~OriginAllowed(h, d) THEN Rejected("origin_not_allowed")
    ELSE IF ~ClientVersionAllowed(h, d) THEN Rejected("client_update_required")
    ELSE AccessContext(h, d)

-----------------------------------------------------------------------------
\* A subject may pass on when its user is disabled: to the user with that email,
\* where the fallback is on, or to another user the same subject was given to,
\* which no key of the schema prevents
MayPassOn(h, d) ==
    h.subject # Null
        /\ \/ d.fallback
           \/ \E u, v \in UserIds : u # v /\ users[u].subject = h.subject /\ users[v].subject = h.subject

\* Whatever the console does, what a client carries never starts to stand for
\* another person: a key stays with its user, and so does a subject only one
\* user was given, where the email fallback is off.
CredentialsKeepTheirOwner ==
    [][<<users, keys>>' # <<users, keys>> =>
          \A d \in Deployments : \A h \in Headers :
             (/\ ~MayPassOn(h, d)
              /\ Answer(h, d).status = "served" /\ Answer(h, d)'.status = "served")
                 => Answer(h, d) = Answer(h, d)']_<<users, keys>>
=============================================================================
