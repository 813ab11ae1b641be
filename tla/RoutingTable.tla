---------------------------- MODULE RoutingTable ----------------------------
(***************************************************************************)
(* What effective_connector_setup promises a request, apart from how it    *)
(* reads and caches: a routing table that is one whole state the runtime   *)
(* registry has had, never a mixture of two, or the YAML base alone.       *)
(* AgentTurn relies on exactly this (its `published`); RuntimeRegistry     *)
(* implements it.                                                          *)
(***************************************************************************)
CONSTANTS
    Requests,
    Entries,    \* a registered source and its declaration
    NoSetup     \* the setup of a request that has none yet

VARIABLES
    registry,   \* the active entries
    published,  \* every value registry has had
    setups      \* the runtime part of the routing table each request got

routingVars == <<registry, published, setups>>

Init ==
    /\ registry \in SUBSET Entries
    /\ published = {registry}
    /\ setups = [r \in Requests |-> NoSetup]

\* An administrator changes the active entries.
Commit ==
    /\ registry' \in SUBSET Entries
    /\ published' = published \cup {registry'}
    /\ UNCHANGED setups

\* A request gets a table that was published, or the base alone when the
\* registry cannot be read.
Resolve(r) ==
    /\ setups[r] = NoSetup
    /\ \E table \in published \cup {{}} : setups' = [setups EXCEPT ![r] = table]
    /\ UNCHANGED <<registry, published>>

Next == Commit \/ \E r \in Requests : Resolve(r)

Spec == Init /\ [][Next]_routingVars
=============================================================================
