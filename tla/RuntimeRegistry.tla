-------------------------- MODULE RuntimeRegistry --------------------------
(***************************************************************************)
(* The runtime registry of data sources (table data_sources) and the setup *)
(* cache of connector_config.py.  A request reads the active rows and the  *)
(* fingerprint in two statements, each a snapshot of its own, then looks   *)
(* the fingerprint up in the process-wide cache and builds the setup on a  *)
(* miss, while administrators commit and other requests do the same.       *)
(*                                                                         *)
(* draft and disabled rows are alike here.  updated_at has a resolution of *)
(* one second: a stamp is the value of clock at the commit.                *)
(***************************************************************************)
EXTENDS Naturals, FiniteSets, FiniteSetsExt

CONSTANTS
    Names,       \* names of sources
    Configs,     \* declarations (config_json)
    Absent,      \* the row of a name that is not registered
    Requests,
    NoSetup,
    MaxClock,    \* bound: seconds
    MaxCommits,  \* bound: administrator commits
    BusyReads    \* whether a read may time out on a lock

Entry == Names \X Configs
Row   == [active : BOOLEAN, stamp : 0 .. MaxClock, config : Configs]
Key   == (0 .. Cardinality(Names)) \X (0 .. MaxClock)

ASSUME RegistryAssumption ==
    /\ IsFiniteSet(Names)
    /\ MaxClock \in Nat \ {0}
    /\ MaxCommits \in Nat
    /\ BusyReads \in BOOLEAN
    /\ Absent \notin Row
    /\ \A table \in SUBSET Entry : table # NoSetup

VARIABLES
    rows,       \* the table
    clock,      \* datetime('now')
    cache,      \* _EFFECTIVE_CACHE for one database and one YAML base
    pc,         \* where each request is in effective_connector_setup
    active,     \* the active entries it read
    key,        \* the fingerprint it read
    setup,      \* the runtime part of the setup it returned
    commits,
    history,    \* history: every set of active entries there has been
    lastStamp,  \* history: the last second a stamp was written in
    gone,       \* history: the sources with no row when a request began, nor since
    calm        \* history: no commit has raced with a stamp or a request's reads

tableVars   == <<rows, commits, history, lastStamp>>
requestVars == <<pc, active, key, setup>>
vars == <<tableVars, requestVars, clock, cache, gone, calm>>

TypeOK ==
    /\ rows \in [Names -> Row \cup {Absent}]
    /\ clock \in 1 .. MaxClock
    /\ DOMAIN cache \subseteq Key
    /\ \A k \in DOMAIN cache : cache[k] \subseteq Entry
    /\ pc \in [Requests -> {"start", "read", "keyed", "building", "done", "failed"}]
    /\ active \in [Requests -> SUBSET Entry]
    /\ key \in [Requests -> Key]
    /\ setup \in [Requests -> {NoSetup} \cup SUBSET Entry]
    /\ commits \in 0 .. MaxCommits
    /\ history \subseteq SUBSET Entry
    /\ lastStamp \in 0 .. MaxClock
    /\ gone \in [Requests -> SUBSET Names]
    /\ calm \in BOOLEAN

ActiveNames(table) == {n \in Names : table[n] # Absent /\ table[n].active}

Deleted(table) == {n \in Names : table[n] = Absent}

\* active_data_sources
Active(table) == {<<n, table[n].config>> : n \in ActiveNames(table)}

\* Mutant: only the latest stamp makes the fingerprint.
FingerprintStampOnly(table) ==
    <<0, IF ActiveNames(table) = {} THEN 0
         ELSE Max({table[n].stamp : n \in ActiveNames(table)})>>

\* data_sources_fingerprint: (count, max(updated_at)) of the active rows.
Fingerprint(table) ==
    <<Cardinality(ActiveNames(table)),
      IF ActiveNames(table) = {} THEN 0
      ELSE Max({table[n].stamp : n \in ActiveNames(table)})>>

Init ==
    /\ rows \in [Names -> {Absent} \cup [active : {TRUE}, stamp : {0}, config : Configs]]
    /\ clock = 1
    /\ cache = [k \in {} |-> {}]
    /\ pc = [r \in Requests |-> "start"]
    /\ active = [r \in Requests |-> {}]
    /\ key = [r \in Requests |-> <<0, 0>>]
    /\ setup = [r \in Requests |-> NoSetup]
    /\ commits = 0
    /\ history = {Active(rows)}
    /\ lastStamp = 0
    /\ gone = [r \in Requests |-> {}]
    /\ calm = TRUE

-----------------------------------------------------------------------------
(* Administrator commits. *)

BetweenReads == \E r \in Requests : pc[r] = "read"

Commit(table) ==
    /\ commits < MaxCommits
    /\ commits' = commits + 1
    /\ rows' = table
    /\ history' = history \cup {Active(table)}
    /\ gone' = [r \in Requests |-> gone[r] \cap Deleted(table)]
    /\ UNCHANGED <<requestVars, clock, cache>>

\* A commit that stamps a row, calm when no other did so in the same second.
Stamped(table) ==
    /\ Commit(table)
    /\ lastStamp' = clock
    /\ calm' = (calm /\ lastStamp < clock /\ ~BetweenReads)

\* Mutant: rows are stamped by a clock that runs ahead.
RegisterAhead(n, c) ==
    /\ rows[n] = Absent
    /\ Stamped([rows EXCEPT ![n] = [active |-> TRUE, stamp |-> clock + 1, config |-> c]])

\* register_data_source; the name is unique.
Register(n, c) ==
    /\ rows[n] = Absent
    /\ Stamped([rows EXCEPT ![n] = [active |-> TRUE, stamp |-> clock, config |-> c]])

\* set_data_source_status stamps the row even when the status stays.
SetStatus(n, on) ==
    /\ rows[n] # Absent
    /\ Stamped([rows EXCEPT ![n].active = on, ![n].stamp = clock])

\* delete_data_source stamps nothing.
Delete(n) ==
    /\ rows[n] # Absent
    /\ Commit([rows EXCEPT ![n] = Absent])
    /\ calm' = (calm /\ ~BetweenReads)
    /\ UNCHANGED lastStamp

Tick ==
    /\ clock < MaxClock
    /\ clock' = clock + 1
    /\ UNCHANGED <<tableVars, requestVars, cache, gone, calm>>

-----------------------------------------------------------------------------
(* effective_connector_setup, one request. *)

Step(r, from, to) == pc[r] = from /\ pc' = [pc EXCEPT ![r] = to]

\* The rows; an OperationalError reads as an empty registry.
ReadActive(r) ==
    /\ Step(r, "start", "read")
    /\ \/ active' = [active EXCEPT ![r] = Active(rows)] /\ UNCHANGED calm
       \/ BusyReads /\ active' = [active EXCEPT ![r] = {}] /\ calm' = FALSE
    /\ gone' = [gone EXCEPT ![r] = Deleted(rows)]
    /\ UNCHANGED <<tableVars, clock, cache, key, setup>>

\* The fingerprint, in a statement of its own.
ReadFingerprint(r) ==
    /\ Step(r, "read", "keyed")
    /\ \/ key' = [key EXCEPT ![r] = Fingerprint(rows)] /\ UNCHANGED calm
       \/ BusyReads /\ key' = [key EXCEPT ![r] = <<0, 0>>] /\ calm' = FALSE
    /\ UNCHANGED <<tableVars, clock, cache, active, setup, gone>>

\* The call's local variables end with it, but for the rows the properties cite.
Return(r, table) ==
    /\ setup' = [setup EXCEPT ![r] = table]
    /\ key' = [key EXCEPT ![r] = <<0, 0>>]

\* No active row: the base, whatever the cache holds.
ReturnBase(r) ==
    /\ active[r] = {}
    /\ Step(r, "keyed", "done")
    /\ Return(r, {})
    /\ UNCHANGED <<tableVars, clock, cache, active, gone, calm>>

ReturnCached(r) ==
    /\ active[r] # {}
    /\ key[r] \in DOMAIN cache
    /\ Step(r, "keyed", "done")
    /\ Return(r, cache[key[r]])
    /\ UNCHANGED <<tableVars, clock, cache, active, gone, calm>>

Miss(r) ==
    /\ active[r] # {}
    /\ key[r] \notin DOMAIN cache
    /\ Step(r, "keyed", "building")
    /\ UNCHANGED <<tableVars, clock, cache, active, key, setup, gone, calm>>

Cached(k, table) ==
    cache' = [j \in DOMAIN cache \cup {k} |-> IF j = k THEN table ELSE cache[j]]

\* Mutant: the routes of the base are merged into, not copied.
BuildIntoBase(r) ==
    /\ Step(r, "building", "done")
    /\ LET table == active[r] \cup UNION {cache[k] : k \in DOMAIN cache} IN
         Cached(key[r], table) /\ Return(r, table)
    /\ UNCHANGED <<tableVars, clock, active, gone, calm>>

\* The setup built from the rows read, stored under the fingerprint read; two
\* requests may build the same key, and the last store stays.
Build(r) ==
    /\ Step(r, "building", "done")
    /\ Cached(key[r], active[r])
    /\ Return(r, active[r])
    /\ UNCHANGED <<tableVars, clock, active, gone, calm>>

\* A declaration that cannot be built fails the request; nothing is stored.
BuildFails(r) ==
    /\ Step(r, "building", "failed")
    /\ active' = [active EXCEPT ![r] = {}]
    /\ key' = [key EXCEPT ![r] = <<0, 0>>]
    /\ UNCHANGED <<tableVars, clock, cache, setup, gone, calm>>

\* The process ends: the cache and the requests in flight are gone.
Restart ==
    /\ DOMAIN cache # {}
    /\ cache' = [k \in {} |-> {}]
    /\ pc' = [r \in Requests |-> IF pc[r] \in {"start", "done"} THEN pc[r] ELSE "failed"]
    /\ active' = [r \in Requests |-> IF pc[r] = "done" THEN active[r] ELSE {}]
    /\ key' = [r \in Requests |-> <<0, 0>>]
    /\ UNCHANGED <<tableVars, clock, setup, gone, calm>>

Next ==
    \/ \E n \in Names :
          \/ \E c \in Configs : Register(n, c)
          \/ \E on \in BOOLEAN : SetStatus(n, on)
          \/ Delete(n)
    \/ Tick
    \/ \E r \in Requests :
          \/ ReadActive(r)
          \/ ReadFingerprint(r)
          \/ ReturnBase(r)
          \/ ReturnCached(r)
          \/ Miss(r)
          \/ Build(r)
          \/ BuildFails(r)
    \/ Restart

Spec == Init /\ [][Next]_vars
-----------------------------------------------------------------------------
(* Properties. *)

Table == INSTANCE RoutingTable WITH
    Entries <- Entry, registry <- Active(rows), published <- history, setups <- setup

\* Through any interleaving of reads, builds and commits, the runtime part of a
\* setup is one whole state the registry has had (or the base alone).
ImplementsRoutingTable == Table!Spec

\* When no two stamps fall into one second, no commit falls between the two
\* reads of a request and no read times out, the fingerprint identifies the
\* registry: a request gets the very rows it read, from the cache or not.
CalmSetupsAreFresh ==
    calm => \A r \in Requests : pc[r] = "done" => setup[r] = active[r]

\* delete_data_source "Its domain leaves the live catalog on the next request":
\* no request that began after a source was deleted is served it, as long as
\* nobody registers it again.
DeletedSourceGone ==
    \A r \in Requests :
        pc[r] = "done" => \A entry \in setup[r] : entry[1] \notin gone[r]
=============================================================================
