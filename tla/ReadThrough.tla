---------------------------- MODULE ReadThrough ----------------------------
(***************************************************************************)
(* A read through a connector: request threads share one Feishu connector, *)
(* whose client caches the tenant access token in two unlocked fields      *)
(* (feishu_bitable.py), one Tencent Docs connector, whose client has a     *)
(* token that does not expire here (tencent_docs.py), and one connector    *)
(* for a file (local_file.py).                                             *)
(*                                                                         *)
(* A token is the time at which the service stops taking it.  The service  *)
(* gives every token the same Lifetime, answers a page with any number of  *)
(* the rows left, none of them included, keeps its rows during a call, and *)
(* does not call a page the last while rows are left.  It may say that     *)
(* there is more and give no page_token to ask with.                       *)
(***************************************************************************)
EXTENDS ConnectorFilters, FiniteSets

CONSTANTS
    Callers,    \* request threads
    Queries,    \* what each asks: [kind, source, fields, filters, limit]
    NoQuery,
    Table,      \* the rows of the source
    Columns,    \* its columns
    MaxPage,    \* _MAX_PAGE_SIZE of each service
    Lifetime,   \* "expire" of a token
    Margin,     \* _TOKEN_SAFETY_MARGIN
    Delay,      \* longest stay of a thread inside _ensure_token once it has an answer
    MaxClock,   \* bound: time
    NoToken

Services == {"feishu", "tencent"}

\* A ConnectorQuery, or a call of describe_schema
QueryOK(q) ==
    /\ q.kind \in {"records", "columns"} /\ q.source \in Services \cup {"file"}
    /\ q.limit \in Nat
    /\ \A f \in q.filters : FilterOK(f)

ASSUME ReadThroughAssumption ==
    /\ {Lifetime, Margin, Delay, MaxClock} \subseteq Nat
    /\ Margin <= Lifetime
    /\ NoToken \notin Int
    /\ \A t \in Callers : NoQuery \notin Queries[t] /\ \A q \in Queries[t] : QueryOK(q)
    /\ Table \in Seq([FilterFields -> Values \cup {Null}]) /\ Len(Columns) \in Nat
    /\ MaxPage \in [Services -> Nat]

VARIABLES
    clock,       \* time.monotonic()
    token,       \* _token
    tokenExpiry, \* _token_expiry
    pc,          \* where each thread is
    query,       \* its query
    issued,      \* the token its renewal was answered with
    held,        \* the token in its headers
    cursor,      \* rows the pages so far covered: page_token
    collected,   \* rows collected
    outcome,     \* the rows it answers
    cutOff,      \* history: the calls whose service said more and gave no page_token
    since,       \* history: when its stay in _ensure_token got its answer
    taken        \* history: when it put the token in its headers

tokenVars == <<token, tokenExpiry>>
threadVars == <<pc, query, issued, held, cursor, collected, outcome, cutOff, since,
                taken>>
vars == <<clock, tokenVars, threadVars>>

Places == {"idle", "checking", "cached", "renewing", "storing", "stamping", "returning",
           "paging", "answered", "refused", "expired", "failed"}
Times == 0 .. MaxClock

TypeOK ==
    /\ clock \in Times
    /\ token \in Nat \cup {NoToken}
    /\ tokenExpiry \in Int
    /\ pc \in [Callers -> Places]
    /\ \A t \in Callers : query[t] \in Queries[t] \cup {NoQuery}
    /\ issued \in [Callers -> Nat]
    /\ held \in [Callers -> Nat \cup {NoToken}]
    /\ cursor \in [Callers -> Nat]
    /\ collected \in [Callers -> Seq(Nat)]
    /\ outcome \in [Callers -> Seq(Nat)]
    /\ cutOff \in SUBSET Callers
    /\ since \in [Callers -> Times]
    /\ taken \in [Callers -> Times]
    /\ \A t \in Callers : pc[t] # "paging" => cursor[t] = 0 /\ collected[t] = <<>>

Init ==
    /\ clock = 0
    /\ token = NoToken
    /\ tokenExpiry = 0
    /\ pc = [t \in Callers |-> "idle"]
    /\ query = [t \in Callers |-> NoQuery]
    /\ issued = [t \in Callers |-> 0]
    /\ held = [t \in Callers |-> NoToken]
    /\ cursor = [t \in Callers |-> 0]
    /\ collected = [t \in Callers |-> <<>>]
    /\ outcome = [t \in Callers |-> <<>>]
    /\ cutOff = {}
    /\ since = [t \in Callers |-> 0]
    /\ taken = [t \in Callers |-> 0]

-----------------------------------------------------------------------------
\* The connector: the checks of query and the filter it sends

\* query raises before it reads: no known field, a filter on a field that is
\* not declared, an operator that cannot be pushed down
Refuses(q) ==
    /\ q.kind = "records"
    /\ \/ q.fields \cap KnownFields = {}
       \/ \E f \in q.filters : ~(f.names \subseteq FilterFields)
       \/ q.source # "file" /\ \E f \in q.filters : ~Pushable(f)

\* The chosen rows in the order of the table: the k-th has k - 1 before it
InOrder ==
    [chosen \in SUBSET DOMAIN Table |->
        [k \in 1 .. Cardinality(chosen) |->
            CHOOSE i \in chosen : Cardinality({j \in chosen : j < i}) = k - 1]]

\* The rows of the source a call may be answered with, in its order
ServedRows(q) == InOrder[{i \in DOMAIN Table : BodyHolds(Body(q.filters), Table[i])}]
ServedColumns == [i \in 1 .. Len(Columns) |-> i]

Served(q) == IF q.kind = "columns" THEN ServedColumns ELSE ServedRows(q)

FileRows(q) == InOrder[{i \in DOMAIN Table : build_where(q.filters, Table[i])}]

Prefix(s, n) == SubSeq(s, 1, IF n < Len(s) THEN n ELSE Len(s))

\* A thread starts a call with nothing of the last one
Start(t, q, place) ==
    /\ pc[t] \in {"idle", "answered", "refused", "expired", "failed"}
    /\ pc' = [pc EXCEPT ![t] = place]
    /\ query' = [query EXCEPT ![t] = q]
    /\ cutOff' = cutOff \ {t}
    /\ UNCHANGED <<clock, tokenVars, issued, held, cursor, collected, since, taken>>

Refuse(t, q) ==
    /\ Refuses(q)
    /\ outcome' = [outcome EXCEPT ![t] = <<>>]
    /\ Start(t, q, "refused")

\* LocalFileConnector.query and describe_schema: one read of the file
ReadFile(t, q) ==
    /\ ~Refuses(q) /\ q.source = "file"
    /\ outcome' = [outcome EXCEPT ![t] =
                      IF q.kind = "columns" THEN ServedColumns ELSE Prefix(FileRows(q), q.limit)]
    /\ Start(t, q, "answered")

\* The file cannot be opened or is not in its format
FileFails(t, q) ==
    /\ ~Refuses(q) /\ q.source = "file"
    /\ outcome' = [outcome EXCEPT ![t] = <<>>]
    /\ Start(t, q, "failed")

\* Tencent's headers hold its one token; Feishu's wait for _ensure_token
CallService(t, q) ==
    /\ ~Refuses(q) /\ q.source # "file"
    /\ outcome' = [outcome EXCEPT ![t] = <<>>]
    /\ Start(t, q, IF q.source = "feishu" THEN "checking" ELSE "paging")

-----------------------------------------------------------------------------
\* FeishuClient._ensure_token: two unlocked fields, read and written one by one

Goto(t, place) == pc' = [pc EXCEPT ![t] = place]

\* Mutant: the position in the table outlives the call
EndUnfinished(t, place) ==
    /\ Goto(t, place)
    /\ held' = [held EXCEPT ![t] = NoToken]
    /\ taken' = [taken EXCEPT ![t] = 0]
    /\ collected' = [collected EXCEPT ![t] = <<>>]
    /\ UNCHANGED <<clock, tokenVars, query, issued, since, cursor>>

\* A call that ends takes its local variables with it
End(t, place) ==
    /\ Goto(t, place)
    /\ held' = [held EXCEPT ![t] = NoToken]
    /\ taken' = [taken EXCEPT ![t] = 0]
    /\ cursor' = [cursor EXCEPT ![t] = 0]
    /\ collected' = [collected EXCEPT ![t] = <<>>]
    /\ UNCHANGED <<clock, tokenVars, query, issued, since>>

\* Mutant: the cached token is used whatever its expiry
ReadCacheUnchecked(t) ==
    /\ pc[t] = "checking"
    /\ Goto(t, IF token # NoToken THEN "cached" ELSE "renewing")
    /\ since' = [since EXCEPT ![t] = IF token # NoToken THEN clock ELSE @]
    /\ UNCHANGED <<clock, tokenVars, query, issued, held, cursor, collected, outcome, cutOff,
                   taken>>

ReadCache(t) ==
    /\ pc[t] = "checking"
    /\ IF token # NoToken /\ clock < tokenExpiry
       THEN Goto(t, "cached") /\ since' = [since EXCEPT ![t] = clock]
       ELSE Goto(t, "renewing") /\ UNCHANGED since
    /\ UNCHANGED <<clock, tokenVars, query, issued, held, cursor, collected, outcome, cutOff,
                   taken>>

\* The service's answer to the POST: a token, counted from now
Renew(t) ==
    /\ pc[t] = "renewing"
    /\ Goto(t, "storing")
    /\ issued' = [issued EXCEPT ![t] = clock + Lifetime]
    /\ since' = [since EXCEPT ![t] = clock]
    /\ UNCHANGED <<clock, tokenVars, query, held, cursor, collected, outcome, cutOff,
                   taken>>

StoreToken(t) ==
    /\ pc[t] = "storing"
    /\ Goto(t, "stamping")
    /\ token' = issued[t]
    /\ UNCHANGED <<clock, tokenExpiry, query, issued, held, cursor, collected, outcome, cutOff,
                   since, taken>>

\* Mutant: no safety margin
StampExpiryInFull(t) ==
    /\ pc[t] = "stamping"
    /\ Goto(t, "returning")
    /\ tokenExpiry' = clock + Lifetime
    /\ UNCHANGED <<clock, token, query, issued, held, cursor, collected, outcome, cutOff,
                   since, taken>>

\* The time is read again for the expiry, after the answer came
StampExpiry(t) ==
    /\ pc[t] = "stamping"
    /\ Goto(t, "returning")
    /\ tokenExpiry' = clock + Lifetime - Margin
    /\ UNCHANGED <<clock, token, query, issued, held, cursor, collected, outcome, cutOff,
                   since, taken>>

\* Mutant: the token is checked again before it is returned, and waited for
TakeTokenRechecked(t) ==
    /\ pc[t] \in {"cached", "returning"} /\ clock < tokenExpiry
    /\ Goto(t, "paging")
    /\ held' = [held EXCEPT ![t] = token]
    /\ taken' = [taken EXCEPT ![t] = clock]
    /\ issued' = [issued EXCEPT ![t] = 0]
    /\ since' = [since EXCEPT ![t] = 0]
    /\ UNCHANGED <<clock, tokenVars, query, cursor, collected, outcome, cutOff>>

\* Either return reads _token, which another thread may have replaced
TakeToken(t) ==
    /\ pc[t] \in {"cached", "returning"}
    /\ Goto(t, "paging")
    /\ held' = [held EXCEPT ![t] = token]
    /\ taken' = [taken EXCEPT ![t] = clock]
    /\ issued' = [issued EXCEPT ![t] = 0]
    /\ since' = [since EXCEPT ![t] = 0]
    /\ UNCHANGED <<clock, tokenVars, query, cursor, collected, outcome, cutOff>>

-----------------------------------------------------------------------------
\* search_records, list_records, list_fields: pages until the limit

Accepted(t) == query[t].source = "feishu" => clock < held[t]

\* A page holds at most per_page of the rows after the cursor.  "more" is has_more with
\* a page_token, "stuck" is has_more without: it ends the call as "last" does.
\* Tencent's list_fields is one request, for all columns.
Page(t) ==
    /\ pc[t] = "paging" /\ Accepted(t)
    /\ LET q        == query[t]
           all      == Served(q)
           per_page == IF q.kind = "records" /\ q.limit < MaxPage[q.source]
                       THEN q.limit ELSE MaxPage[q.source]
           left     == Len(all) - cursor[t]
       IN  \E n \in 0 .. left, says \in {"last", "more", "stuck"} :
             /\ says = "last" => n = left
             /\ IF q.kind = "columns" /\ q.source = "tencent" THEN says = "last" ELSE n <= per_page
             /\ LET got  == collected[t] \o SubSeq(all, cursor[t] + 1, cursor[t] + n)
                    full == q.kind = "records" /\ n > 0 /\ Len(got) >= q.limit
                IN  IF full \/ says # "more"
                    THEN /\ End(t, "answered")
                         /\ outcome' = [outcome EXCEPT ![t] =
                                IF q.kind = "records" THEN Prefix(got, q.limit) ELSE got]
                         /\ cutOff' = IF full \/ says = "last" THEN cutOff ELSE cutOff \cup {t}
                    ELSE /\ cursor' = [cursor EXCEPT ![t] = @ + n]
                         /\ collected' = [collected EXCEPT ![t] = got]
                         /\ UNCHANGED <<clock, tokenVars, pc, query, issued, held, outcome, cutOff,
                                        since, taken>>

\* _check raises for a code: the token is past its time
TokenRejected(t) ==
    /\ pc[t] = "paging" /\ ~Accepted(t)
    /\ End(t, "expired")
    /\ UNCHANGED <<outcome, cutOff>>

\* Mutant: a failed page ends the call with the rows it has
TransportFailsWithAPart(t) ==
    /\ pc[t] \in {"renewing", "paging"}
    /\ End(t, IF pc[t] = "paging" THEN "answered" ELSE "failed")
    /\ outcome' = [outcome EXCEPT ![t] = IF pc[t] = "paging" THEN collected[t] ELSE @]
    /\ UNCHANGED cutOff

\* Any request may fail; what was collected is lost with the exception
TransportFails(t) ==
    /\ pc[t] \in {"renewing", "paging"}
    /\ End(t, "failed")
    /\ UNCHANGED <<outcome, cutOff>>

\* No thread stays longer than Delay between an answer and its use
Tick ==
    /\ clock < MaxClock
    /\ \A t \in Callers : pc[t] \in {"cached", "storing", "stamping", "returning"}
                              => clock < since[t] + Delay
    /\ clock' = clock + 1
    /\ UNCHANGED <<tokenVars, threadVars>>

Ask(t) ==
    \E q \in Queries[t] : Refuse(t, q) \/ ReadFile(t, q) \/ FileFails(t, q) \/ CallService(t, q)

Proceed(t) ==
    \/ ReadCache(t) \/ Renew(t) \/ StoreToken(t) \/ StampExpiry(t) \/ TakeToken(t)
    \/ TransportFails(t) \/ TokenRejected(t) \/ Page(t)

Next == Tick \/ \E t \in Callers : Ask(t) \/ Proceed(t)

\* An empty page with a page_token changes nothing here: that a thread proceeds assumes
\* that a service does not send such pages for ever, the code asks again after each
Spec == Init /\ [][Next]_vars /\ \A t \in Callers : WF_vars(Proceed(t))

-----------------------------------------------------------------------------
\* The pair of fields never says a token is good for longer than it is, however
\* the threads that renew it interleave: what is left of Margin after two stays
\* in _ensure_token (one thread's token under another's expiry) is a slack the
\* token always has over its _token_expiry.
TokenOutlivesItsExpiry ==
    token # NoToken => tokenExpiry + Margin <= token + 2 * Delay

\* A call whose token is not older than Margin less three stays in _ensure_token
\* is not rejected for it: the renewal never hands out a token about to expire.
YoungTokensAreTaken ==
    \A t \in Callers :
        (pc[t] = "paging" /\ query[t].source = "feishu")
            => taken[t] + Margin <= held[t] + 3 * Delay

\* A remote answer is what the filters mean, from the first row on and as far as
\* the limit, whatever pages the service cut it into and whatever failed: a part
\* of it, still from the first row on, only where the service itself said that
\* there is more and gave no page_token, which the two clients take for the end.
RemoteAnswersAreWhole ==
    \A t \in Callers :
        (pc[t] = "answered" /\ query[t].kind = "records" /\ query[t].source # "file") =>
            LET meant == InOrder[{i \in DOMAIN Table :
                             \A f \in query[t].filters : Satisfies(f, Table[i])}]
            IN  \/ outcome[t] = Prefix(meant, query[t].limit)
                \/ t \in cutOff /\ \E n \in 0 .. query[t].limit : outcome[t] = Prefix(meant, n)

\* A file is filtered as a service is but for case (eq and contains ignore it),
\* for a date left blank (before every date, and in a range that begins blank) and
\* for a relationship (blank in every row): other filters choose the same rows.
FileAnswersMeanTheSame ==
    \A t \in Callers :
        LET q == query[t]
            Alike(f) == /\ f.names \subseteq KnownFields /\ f.operator # "date_before"
                        /\ f.operator = "date_between" => f.value[1] # EmptyText
        IN  (pc[t] = "answered" /\ q.kind = "records" /\ q.source = "file"
                /\ \A f \in q.filters : Alike(f))
                => outcome[t] = Prefix(InOrder[{i \in DOMAIN Table :
                                   \A f \in q.filters : SatisfiesFolded(f, Table[i])}], q.limit)

\* Every call ends, with rows or with an error, though others renew, the token may
\* expire at any page and any page may be empty.
CallsEnd ==
    \A t \in Callers :
        pc[t] \in {"checking", "paging"}
            ~> pc[t] \in {"answered", "refused", "expired", "failed"}
=============================================================================
