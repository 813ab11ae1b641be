----------------------- MODULE RuntimeRegistry_proofs -----------------------
(***************************************************************************)
(* Proofs, for any number of sources, requests and commits, that           *)
(* RuntimeRegistry implements RoutingTable, and that in calm times a       *)
(* fingerprint stands for the rows it was taken from.                      *)
(***************************************************************************)
EXTENDS RuntimeRegistry, FiniteSetTheorems, TLAPS

\* The part of the type invariant the induction needs.
Shape ==
    /\ rows \in [Names -> Row \cup {Absent}]
    /\ clock \in 1 .. MaxClock
    /\ setup \in [Requests -> {NoSetup} \cup SUBSET Entry]

\* A table somebody may hold: a whole state of the registry, or nothing.
Whole == history \cup {{}}

\* The rows a request read, and every cached setup, are whole; a request that
\* has not returned has no setup.
Held ==
    /\ \A r \in Requests : active[r] \in Whole
    /\ \A k \in DOMAIN cache : cache[k] \in Whole
    /\ \A r \in Requests : pc[r] # "done" => setup[r] = NoSetup
    /\ Active(rows) \in history
    /\ active \in [Requests -> SUBSET Entry]
    /\ pc \in [Requests -> {"start", "read", "keyed", "building", "done", "failed"}]
    /\ history \subseteq SUBSET Entry

RInv == Shape /\ Held

\* The active rows of a table are entries.
LEMMA ActiveTyped ==
    ASSUME NEW table \in [Names -> Row \cup {Absent}]
    PROVE  Active(table) \in SUBSET Entry
<1>1. \A n \in ActiveNames(table) : n \in Names /\ table[n].config \in Configs
    BY DEF ActiveNames, Row
<1>2. QED
    BY <1>1 DEF Active, Entry

\* The registry starts published, and no request holds anything.
LEMMA RegistryInit == Init => RInv /\ Table!Init
<1> SUFFICES ASSUME Init PROVE RInv /\ Table!Init
    OBVIOUS
<1>1. rows \in [Names -> Row \cup {Absent}]
    <2>1. [active : {TRUE}, stamp : {0}, config : Configs] \subseteq Row
        <3>1. 0 \in 0 .. MaxClock
            BY RegistryAssumption
        <3>2. QED
            BY <3>1 DEF Row
    <2>2. QED
        BY <2>1 DEF Init
<1>2. Active(rows) \in SUBSET Entry
    BY <1>1, ActiveTyped
<1>3. Shape
    BY <1>1, RegistryAssumption DEF Init, Shape
<1>4. Held
    BY <1>2 DEF Init, Held, Whole
<1>5. Table!Init
    BY <1>2 DEF Init, Table!Init
<1>6. QED
    BY <1>3, <1>4, <1>5 DEF RInv

\* A commit publishes the new state and leaves what requests hold alone.
LEMMA CommitStep ==
    ASSUME RInv, NEW table \in [Names -> Row \cup {Absent}], Commit(table)
    PROVE  RInv' /\ Table!Commit
<1>1. Active(table) \in SUBSET Entry
    BY ActiveTyped
<1>2. Shape'
    BY DEF Commit, RInv, Shape, requestVars
<1>3. Active(rows)' = Active(table)
    BY DEF Commit, Active, ActiveNames
<1>4. Held'
    BY <1>1, <1>3 DEF Commit, RInv, Held, Whole, requestVars
<1>5. Table!Commit
    BY <1>1, <1>3 DEF Commit, requestVars, Table!Commit
<1>6. QED
    BY <1>2, <1>4, <1>5 DEF RInv

\* The tables administrators' requests write are tables.
LEMMA AdminStep ==
    ASSUME RInv, NEW n \in Names,
           \/ \E c \in Configs : Register(n, c)
           \/ \E on \in BOOLEAN : SetStatus(n, on)
           \/ Delete(n)
    PROVE  RInv' /\ Table!Commit
<1>1. clock \in 0 .. MaxClock
    BY RegistryAssumption DEF RInv, Shape
<1>2. ASSUME NEW c \in Configs, Register(n, c)
      PROVE  RInv' /\ Table!Commit
    <2> DEFINE table == [rows EXCEPT ![n] = [active |-> TRUE, stamp |-> clock, config |-> c]]
    <2>1. table \in [Names -> Row \cup {Absent}]
        BY <1>1 DEF RInv, Shape, Row
    <2>2. Commit(table)
        BY <1>2 DEF Register, Stamped
    <2>3. QED
        BY <2>1, <2>2, CommitStep
<1>3. ASSUME NEW on \in BOOLEAN, SetStatus(n, on)
      PROVE  RInv' /\ Table!Commit
    <2> DEFINE table == [rows EXCEPT ![n].active = on, ![n].stamp = clock]
    <2>1. rows[n] \in Row
        BY <1>3 DEF SetStatus, RInv, Shape
    <2>2. table \in [Names -> Row \cup {Absent}]
        BY <1>1, <2>1 DEF RInv, Shape, Row
    <2>3. Commit(table)
        BY <1>3 DEF SetStatus, Stamped
    <2>4. QED
        BY <2>2, <2>3, CommitStep
<1>4. CASE Delete(n)
    <2> DEFINE table == [rows EXCEPT ![n] = Absent]
    <2>1. table \in [Names -> Row \cup {Absent}]
        BY DEF RInv, Shape
    <2>2. Commit(table)
        BY <1>4 DEF Delete
    <2>3. QED
        BY <2>1, <2>2, CommitStep
<1>5. QED
    BY <1>2, <1>3, <1>4

\* A request that returns gets a whole table.
LEMMA ReturnStep ==
    ASSUME RInv, NEW r \in Requests, ReturnBase(r) \/ ReturnCached(r) \/ Build(r)
    PROVE  RInv' /\ Table!Resolve(r)
<1> USE DEF RInv, Shape, Held, tableVars, Step
<1>1. setup[r] = NoSetup
    BY DEF ReturnBase, ReturnCached, Build
<1>2. PICK table \in Whole : Return(r, table) /\ (cache' = cache \/ Cached(key[r], table))
    BY DEF ReturnBase, ReturnCached, Build, Whole
<1>3. table \in SUBSET Entry
    BY DEF Whole
<1>4. /\ UNCHANGED <<rows, history, clock, active>>
      /\ pc' = [pc EXCEPT ![r] = "done"]
    BY DEF ReturnBase, ReturnCached, Build
<1>5. Active(rows)' = Active(rows)
    BY <1>4 DEF Active, ActiveNames
<1>6. Shape'
    BY <1>2, <1>3, <1>4 DEF Return
<1>7. \A k \in DOMAIN cache' : cache'[k] \in Whole
    BY <1>2 DEF Cached
<1>8. Held'
    BY <1>2, <1>4, <1>5, <1>7 DEF Return, Whole
<1>9. Table!Resolve(r)
    BY <1>1, <1>2, <1>4, <1>5 DEF Table!Resolve, Return, Whole
<1>10. QED
    BY <1>6, <1>8, <1>9

\* Reading, missing, failing, the clock and a restart change no promise.
LEMMA SilentStep ==
    ASSUME RInv,
           \/ Tick \/ Restart \/ UNCHANGED vars
           \/ \E r \in Requests : ReadActive(r) \/ ReadFingerprint(r) \/ Miss(r) \/ BuildFails(r)
    PROVE  RInv' /\ UNCHANGED <<Active(rows), history, setup>>
<1> USE DEF tableVars, requestVars, Step, vars
<1>1. UNCHANGED <<rows, history, setup>>
    BY DEF Tick, Restart, ReadActive, ReadFingerprint, Miss, BuildFails
<1>2. Active(rows)' = Active(rows)
    BY <1>1 DEF Active, ActiveNames
<1>3. clock' \in 1 .. MaxClock
    BY RegistryAssumption
    DEF Tick, Restart, ReadActive, ReadFingerprint, Miss, BuildFails, RInv, Shape
<1>4. Shape'
    BY <1>1, <1>3 DEF RInv, Shape
<1>5. Held'
    <2> USE DEF RInv, Held, Whole
    <2>1. CASE Tick \/ UNCHANGED vars
        BY <1>1, <1>2, <2>1 DEF Tick
    <2>2. CASE Restart
        <3>1. \A r \in Requests : active'[r] \in {active[r], {}}
            BY <2>2 DEF Restart
        <3>2. \A r \in Requests : pc'[r] # "done" => pc[r] # "done"
            BY <2>2 DEF Restart
        <3>3. /\ active' \in [Requests -> SUBSET Entry]
              /\ pc' \in [Requests -> {"start", "read", "keyed", "building", "done", "failed"}]
            BY <2>2 DEF Restart
        <3>4. DOMAIN cache' = {}
            BY <2>2 DEF Restart
        <3>5. QED
            BY <1>1, <1>2, <3>1, <3>2, <3>3, <3>4
    <2>3. ASSUME NEW r \in Requests,
                 ReadActive(r) \/ ReadFingerprint(r) \/ Miss(r) \/ BuildFails(r)
          PROVE  Held'
        <3>1. /\ cache' = cache
              /\ \/ active' = active
                 \/ active' = [active EXCEPT ![r] = Active(rows)]
                 \/ active' = [active EXCEPT ![r] = {}]
            BY <2>3 DEF ReadActive, ReadFingerprint, Miss, BuildFails
        <3>2. \E to \in {"read", "keyed", "building", "failed"} :
                 pc' = [pc EXCEPT ![r] = to] /\ pc[r] # "done"
            BY <2>3 DEF ReadActive, ReadFingerprint, Miss, BuildFails
        <3>3. QED
            BY <1>1, <1>2, <3>1, <3>2
    <2>4. QED
        BY <2>1, <2>2, <2>3
<1>6. QED
    BY <1>1, <1>2, <1>4, <1>5 DEF RInv

\* Through any interleaving of reads, builds and commits, a request's routing
\* table is one whole state of the registry or the base alone.
THEOREM RegistryImplementsRoutingTable == Spec => ImplementsRoutingTable
<1>1. RInv /\ [Next]_vars => RInv' /\ [Table!Next]_(Table!routingVars)
    <2> SUFFICES ASSUME RInv, [Next]_vars
                 PROVE  RInv' /\ (Table!Next \/ UNCHANGED Table!routingVars)
        OBVIOUS
    <2>1. CASE \E n \in Names : \/ \E c \in Configs : Register(n, c)
                                \/ \E on \in BOOLEAN : SetStatus(n, on)
                                \/ Delete(n)
        BY <2>1, AdminStep DEF Table!Next
    <2>2. CASE \E r \in Requests : ReturnBase(r) \/ ReturnCached(r) \/ Build(r)
        BY <2>2, ReturnStep DEF Table!Next
    <2>3. CASE \/ Tick \/ Restart \/ UNCHANGED vars
               \/ \E r \in Requests : ReadActive(r) \/ ReadFingerprint(r)
                                        \/ Miss(r) \/ BuildFails(r)
        BY <2>3, SilentStep DEF Table!routingVars
    <2>4. QED
        BY <2>1, <2>2, <2>3 DEF Next
<1>2. QED
    BY <1>1, RegistryInit, PTL DEF Spec, ImplementsRoutingTable, Table!Spec
-----------------------------------------------------------------------------
(* Fingerprints. *)

\* A finite set of numbers has a greatest one.
LEMMA MaxOf ==
    ASSUME NEW S \in SUBSET Nat, IsFiniteSet(S), S # {}
    PROVE  Max(S) \in S /\ \A x \in S : x <= Max(S)
<1> DEFINE Above(x) == {y \in S : y > x}
           T == {Above(x) : x \in S}
<1>1. IsWellFoundedOn(StrictSubsetOrdering(S), SUBSET S)
    BY FS_StrictSubsetOrderingWellFounded, FS_FiniteSubsetsOfFinite
<1>2. T \subseteq SUBSET S /\ T # {}
    OBVIOUS
<1> HIDE DEF T
<1>3. PICK U \in T : \A V \in T : <<V, U>> \notin StrictSubsetOrdering(S)
    BY <1>1, <1>2, WFMin
<1>4. PICK x \in S : U = Above(x)
    BY DEF T
<1>5. \A y \in S : ~(y > x)
    <2> SUFFICES ASSUME NEW y \in S, y > x PROVE FALSE
        OBVIOUS
    <2>1. Above(y) \in T
        BY DEF T
    <2>2. Above(y) \subseteq U /\ y \in U /\ y \notin Above(y)
        <3>1. \A z \in S : z \in Nat
            OBVIOUS
        <3>2. y \in Above(x) /\ y \notin Above(y)
            BY <3>1
        <3>3. \A z \in Above(y) : z \in Above(x)
            BY <3>1
        <3>4. QED
            BY <1>4, <3>2, <3>3
    <2>3. <<Above(y), U>> \in StrictSubsetOrdering(S)
        BY <1>2, <2>1, <2>2 DEF StrictSubsetOrdering
    <2>4. QED
        BY <1>3, <2>1, <2>3
<1>6. \E m \in S : \A y \in S : m >= y
    BY <1>5
<1>7. QED
    BY <1>6 DEF Max

\* A fingerprint counts the active entries and dates the latest of them.
LEMMA FingerprintOf ==
    ASSUME NEW table \in [Names -> Row \cup {Absent}]
    PROVE  /\ Fingerprint(table) \in Key
           /\ IsFiniteSet(Active(table))
           /\ Fingerprint(table)[1] = Cardinality(Active(table))
           /\ \A n \in ActiveNames(table) : table[n].stamp <= Fingerprint(table)[2]
           /\ \/ Fingerprint(table)[2] = 0
              \/ \E n \in ActiveNames(table) : table[n].stamp = Fingerprint(table)[2]
<1> DEFINE names == ActiveNames(table)
           stamps == {table[n].stamp : n \in names}
           entry == [n \in names |-> <<n, table[n].config>>]
<1>1. IsFiniteSet(names) /\ Cardinality(names) <= Cardinality(Names)
    BY RegistryAssumption, FS_Subset DEF ActiveNames
<1>2. Cardinality(names) \in Nat /\ Cardinality(Names) \in Nat
    BY <1>1, RegistryAssumption, FS_CardinalityType
<1>3. entry \in Bijection(names, Active(table))
    <2>1. Active(table) = {<<n, table[n].config>> : n \in names}
        BY DEF Active
    <2>2. entry \in [names -> Active(table)]
        BY <2>1
    <2>3. \A a, b \in names : entry[a] = entry[b] => a = b
        OBVIOUS
    <2>4. \A e \in Active(table) : \E n \in names : entry[n] = e
        BY <2>1
    <2>5. QED
        BY <2>2, <2>3, <2>4 DEF Bijection, Injection, Surjection, IsInjective
<1>4. IsFiniteSet(Active(table)) /\ Cardinality(Active(table)) = Cardinality(names)
    BY <1>1, <1>3, FS_Bijection DEF ExistsBijection
<1>5. stamps \subseteq 0 .. MaxClock
    BY DEF ActiveNames, Row
<1>6. CASE names = {}
    BY <1>1, <1>2, <1>4, <1>6, RegistryAssumption DEF Fingerprint, Key
<1>7. CASE names # {}
    <2>1. IsFiniteSet(stamps) /\ stamps \in SUBSET Nat /\ stamps # {}
        <3>1. stamps \in SUBSET Nat /\ \A s \in stamps : s <= MaxClock
            BY <1>5, RegistryAssumption
        <3>2. stamps # {}
            BY <1>7
        <3> HIDE DEF stamps
        <3>3. IsFiniteSet(stamps)
            BY <3>1, RegistryAssumption, FS_BoundedSetOfNaturals
        <3>4. QED
            BY <3>1, <3>2, <3>3
    <2>2. Max(stamps) \in stamps /\ \A x \in stamps : x <= Max(stamps)
        BY <2>1, MaxOf
    <2>3. Fingerprint(table) = <<Cardinality(names), Max(stamps)>>
        BY <1>7 DEF Fingerprint
    <2>4. Fingerprint(table) \in Key
        BY <1>1, <1>2, <1>5, <2>2, <2>3 DEF Key
    <2>5. /\ \A n \in names : table[n].stamp <= Max(stamps)
          /\ \E n \in names : table[n].stamp = Max(stamps)
        BY <2>2
    <2>6. Fingerprint(table)[1] = Cardinality(names) /\ Fingerprint(table)[2] = Max(stamps)
        BY <2>3
    <2>7. /\ \A n \in names : table[n].stamp <= Fingerprint(table)[2]
          /\ \E n \in names : table[n].stamp = Fingerprint(table)[2]
        BY <2>5, <2>6
    <2>8. QED
        BY <1>4, <2>4, <2>6, <2>7
<1>8. QED
    BY <1>6, <1>7
-----------------------------------------------------------------------------
(* Types. *)

\* The first state has the types.
LEMMA InitTyped == Init => TypeOK
<1> SUFFICES ASSUME Init PROVE TypeOK
    OBVIOUS
<1>1. Shape /\ Held
    BY RegistryInit DEF RInv
<1>2. <<0, 0>> \in Key
    BY RegistryAssumption, FS_CardinalityType DEF Key
<1>3. clock \in 1 .. MaxClock /\ lastStamp \in 0 .. MaxClock /\ commits \in 0 .. MaxCommits
    BY RegistryAssumption DEF Init
<1>4. DOMAIN cache = {}
    BY DEF Init
<1>5. QED
    BY <1>1, <1>2, <1>3, <1>4 DEF Init, TypeOK, Shape, Held

\* A commit keeps the types of what it writes.
LEMMA CommitTyped ==
    ASSUME TypeOK, NEW n \in Names,
           \/ \E c \in Configs : Register(n, c)
           \/ \E on \in BOOLEAN : SetStatus(n, on)
           \/ Delete(n)
    PROVE  TypeOK'
<1>1. clock \in 0 .. MaxClock
    BY RegistryAssumption DEF TypeOK
<1>2. PICK table \in [Names -> Row \cup {Absent}] :
         /\ Commit(table)
         /\ lastStamp' \in {lastStamp, clock}
         /\ calm' \in BOOLEAN
    <2>1. ASSUME NEW c \in Configs, Register(n, c)
          PROVE  /\ [rows EXCEPT ![n] = [active |-> TRUE, stamp |-> clock, config |-> c]]
                       \in [Names -> Row \cup {Absent}]
                 /\ lastStamp' = clock /\ calm' \in BOOLEAN
        BY <1>1, <2>1 DEF Register, Stamped, TypeOK, Row
    <2>2. ASSUME NEW on \in BOOLEAN, SetStatus(n, on)
          PROVE  /\ [rows EXCEPT ![n].active = on, ![n].stamp = clock]
                       \in [Names -> Row \cup {Absent}]
                 /\ lastStamp' = clock /\ calm' \in BOOLEAN
        <3>1. rows[n] \in Row
            BY <2>2 DEF SetStatus, TypeOK
        <3>2. QED
            BY <1>1, <2>2, <3>1 DEF SetStatus, Stamped, TypeOK, Row
    <2>3. ASSUME Delete(n)
          PROVE  /\ [rows EXCEPT ![n] = Absent] \in [Names -> Row \cup {Absent}]
                 /\ lastStamp' = lastStamp /\ calm' \in BOOLEAN
        BY <2>3 DEF Delete, TypeOK
    <2>4. QED
        BY <2>1, <2>2, <2>3 DEF Register, SetStatus, Delete, Stamped
<1>3. commits' \in 0 .. MaxCommits
    BY <1>2, RegistryAssumption DEF Commit, TypeOK
<1>4. history' \subseteq SUBSET Entry
    BY <1>2, ActiveTyped DEF Commit, TypeOK
<1>5. gone' \in [Requests -> SUBSET Names]
    BY <1>2 DEF Commit, TypeOK
<1>6. QED
    BY <1>1, <1>2, <1>3, <1>4, <1>5 DEF Commit, TypeOK, requestVars

\* A request's step keeps the types.
LEMMA RequestTyped ==
    ASSUME TypeOK, NEW r \in Requests,
           \/ ReadActive(r) \/ ReadFingerprint(r) \/ ReturnBase(r) \/ ReturnCached(r)
           \/ Miss(r) \/ Build(r) \/ BuildFails(r)
    PROVE  TypeOK'
<1> USE DEF TypeOK, Step
<1>1. Active(rows) \in SUBSET Entry /\ Fingerprint(rows) \in Key
    BY ActiveTyped, FingerprintOf
<1>2. <<0, 0>> \in Key
    BY RegistryAssumption, FS_CardinalityType DEF Key
<1>3. UNCHANGED <<tableVars, clock>>
    BY DEF ReadActive, ReadFingerprint, ReturnBase, ReturnCached, Miss, Build, BuildFails
<1>4. /\ pc' \in [Requests -> {"start", "read", "keyed", "building", "done", "failed"}]
      /\ active' \in [Requests -> SUBSET Entry]
      /\ key' \in [Requests -> Key]
      /\ calm' \in BOOLEAN
    <2>1. pc' \in [Requests -> {"start", "read", "keyed", "building", "done", "failed"}]
        BY DEF ReadActive, ReadFingerprint, ReturnBase, ReturnCached, Miss, Build, BuildFails
    <2>2. active' \in [Requests -> SUBSET Entry]
        BY <1>1
        DEF ReadActive, ReadFingerprint, ReturnBase, ReturnCached, Miss, Build, BuildFails
    <2>3. key' \in [Requests -> Key]
        BY <1>1, <1>2
        DEF ReadActive, ReadFingerprint, ReturnBase, ReturnCached, Miss, Build, BuildFails,
            Return
    <2>4. calm' \in BOOLEAN
        BY DEF ReadActive, ReadFingerprint, ReturnBase, ReturnCached, Miss, Build, BuildFails
    <2>5. QED
        BY <2>1, <2>2, <2>3, <2>4
<1>5. setup' \in [Requests -> {NoSetup} \cup SUBSET Entry]
    BY DEF ReadActive, ReadFingerprint, ReturnBase, ReturnCached, Miss, Build, BuildFails, Return
<1>6. DOMAIN cache' \subseteq Key /\ \A k \in DOMAIN cache' : cache'[k] \subseteq Entry
    BY DEF ReadActive, ReadFingerprint, ReturnBase, ReturnCached, Miss, Build, BuildFails, Cached
<1>7. gone' \in [Requests -> SUBSET Names]
    <2>1. Deleted(rows) \in SUBSET Names
        BY DEF Deleted
    <2>2. gone' = gone \/ gone' = [gone EXCEPT ![r] = Deleted(rows)]
        BY DEF ReadActive, ReadFingerprint, ReturnBase, ReturnCached, Miss, Build, BuildFails
    <2>3. QED
        BY <2>1, <2>2
<1>8. QED
    BY <1>3, <1>4, <1>5, <1>6, <1>7 DEF tableVars

\* Every step keeps the types.
LEMMA NextTyped == TypeOK /\ [Next]_vars => TypeOK'
<1> SUFFICES ASSUME TypeOK, [Next]_vars PROVE TypeOK'
    OBVIOUS
<1>1. CASE Tick
    BY <1>1, RegistryAssumption DEF Tick, TypeOK, tableVars, requestVars
<1>2. CASE Restart
    <2>1. <<0, 0>> \in Key
        BY RegistryAssumption, FS_CardinalityType DEF Key
    <2>2. DOMAIN cache' = {}
        BY <1>2 DEF Restart
    <2>3. QED
        BY <1>2, <2>1, <2>2 DEF Restart, TypeOK, tableVars
<1>3. CASE UNCHANGED vars
    BY <1>3 DEF vars, TypeOK, tableVars, requestVars
<1>4. QED
    BY <1>1, <1>2, <1>3, CommitTyped, RequestTyped DEF Next

\* Every variable of the registry keeps its type.
THEOREM RegistryTyped == Spec => []TypeOK
BY InitTyped, NextTyped, PTL DEF Spec
-----------------------------------------------------------------------------
(* In calm times equal fingerprints mean equal active rows. *)

\* The active entries stamped no later than s.
Old(s) == {<<n, rows[n].config>> : n \in {m \in ActiveNames(rows) : rows[m].stamp <= s}}

\* The requests that hold a fingerprint.
Keyed == {r \in Requests : pc[r] \in {"keyed", "building"}}

\* The fingerprints known, each with the table it was taken with: those of the
\* cache and those of the requests in flight.
Known ==
    {<<k, cache[k]>> : k \in DOMAIN cache} \cup {<<key[r], active[r]>> : r \in Keyed}

\* A fingerprint counts its table, and of today's entries those old enough to
\* have been counted are in it: later stamps are greater.
Dated(k, a) ==
    /\ k[2] <= lastStamp
    /\ IsFiniteSet(a)
    /\ Cardinality(a) = k[1]
    /\ Old(k[2]) \subseteq a

Calm ==
    /\ \A n \in Names : rows[n] # Absent => rows[n].stamp <= lastStamp
    /\ \A r \in Requests : pc[r] = "read" => active[r] = Active(rows)
    /\ \A p \in Known : Dated(p[1], p[2])
    /\ \A p, q \in Known : p[1] = q[1] => p[2] = q[2]
    /\ \A r \in Requests : pc[r] = "done" => setup[r] = active[r]

CalmInv == calm => Calm

LEMMA InitCalm == Init => CalmInv
<1> SUFFICES ASSUME Init PROVE Calm
    BY DEF CalmInv
<1>1. \A n \in Names : rows[n] # Absent => rows[n].stamp = 0
    BY DEF Init
<1>2. Known = {}
    BY DEF Init, Known, Keyed
<1>3. QED
    BY <1>1, <1>2 DEF Init, Calm

\* A table dated by today's fingerprint is today's.
LEMMA DatedByToday ==
    ASSUME TypeOK, NEW a, Dated(Fingerprint(rows), a)
    PROVE  a = Active(rows)
<1>1. \A n \in ActiveNames(rows) : rows[n].stamp <= Fingerprint(rows)[2]
    BY FingerprintOf DEF TypeOK
<1>2. Old(Fingerprint(rows)[2]) = Active(rows)
    BY <1>1 DEF Old, Active
<1>3. IsFiniteSet(a) /\ Active(rows) \in SUBSET a
    BY <1>2 DEF Dated
<1>4. Cardinality(a) = Cardinality(Active(rows))
    BY FingerprintOf DEF TypeOK, Dated
<1>5. QED
    BY <1>3, <1>4, FS_Subset

\* What is known stays dated while commits stamp later than what is known.
LEMMA CommitCalm ==
    ASSUME TypeOK, Calm, ~BetweenReads,
           NEW n \in Names, NEW table, Commit(table),
           \A m \in Names \ {n} : table[m] = rows[m],
           lastStamp <= lastStamp', lastStamp' \in Nat,
           \/ table[n] = Absent
           \/ table[n].stamp = lastStamp' /\ lastStamp < lastStamp'
    PROVE  Calm'
<1>1. rows' = table /\ UNCHANGED <<pc, active, key, setup, cache>>
    BY DEF Commit, requestVars
<1>2. lastStamp \in Nat /\ \A m \in Names : rows[m] # Absent => rows[m].stamp \in Nat
    BY RegistryAssumption DEF TypeOK, Row
<1>3. \A m \in Names : rows'[m] # Absent => rows'[m].stamp <= lastStamp'
    <2> SUFFICES ASSUME NEW m \in Names, rows'[m] # Absent PROVE rows'[m].stamp <= lastStamp'
        OBVIOUS
    <2>1. CASE m = n
        BY <1>1, <2>1
    <2>2. CASE m # n
        BY <1>1, <1>2, <2>2 DEF Calm
    <2>3. QED
        BY <2>1, <2>2
<1>4. Known' = Known
    BY <1>1 DEF Known, Keyed
<1>5. ASSUME NEW p \in Known PROVE Dated(p[1], p[2])'
    <2>1. Dated(p[1], p[2]) /\ p[1][2] \in Nat
        <3>1. \A k \in Key : k[2] \in Nat
            BY RegistryAssumption DEF Key
        <3>2. p[1] \in Key
            BY DEF Known, Keyed, TypeOK
        <3>3. QED
            BY <3>1, <3>2 DEF Calm
    <2> DEFINE s == p[1][2]
    <2>2. Old(s)' \subseteq Old(s)
        <3> SUFFICES ASSUME NEW m \in ActiveNames(rows'), rows'[m].stamp <= s
                     PROVE  m \in ActiveNames(rows) /\ rows'[m] = rows[m]
            BY DEF Old
        <3>1. m \in Names /\ rows'[m] # Absent
            BY DEF ActiveNames
        <3>2. m # n
            BY <1>1, <1>2, <2>1, <3>1 DEF Dated
        <3>3. QED
            BY <1>1, <3>1, <3>2 DEF ActiveNames
    <2>3. p[1][2] <= lastStamp'
        BY <1>2, <2>1 DEF Dated
    <2>4. QED
        BY <2>1, <2>2, <2>3 DEF Dated
<1>6. \A r \in Requests : pc'[r] # "read"
    BY <1>1 DEF BetweenReads
<1>7. QED
    BY <1>1, <1>3, <1>4, <1>5, <1>6 DEF Calm

\* Administrators' commits keep the registry calm, or end the calm.
LEMMA AdminCalm ==
    ASSUME TypeOK, CalmInv, NEW n \in Names,
           \/ \E c \in Configs : Register(n, c)
           \/ \E on \in BOOLEAN : SetStatus(n, on)
           \/ Delete(n)
    PROVE  CalmInv'
<1> SUFFICES ASSUME calm' PROVE Calm'
    BY DEF CalmInv
<1>1. lastStamp \in Nat /\ clock \in Nat
    BY RegistryAssumption DEF TypeOK
<1>2. calm /\ ~BetweenReads
    BY DEF Register, SetStatus, Delete, Stamped
<1>3. Calm
    BY <1>2 DEF CalmInv
<1>4. ASSUME NEW c \in Configs, Register(n, c) PROVE Calm'
    <2> DEFINE table == [rows EXCEPT ![n] = [active |-> TRUE, stamp |-> clock, config |-> c]]
    <2>1. lastStamp' = clock /\ lastStamp < clock /\ Commit(table)
        BY <1>4 DEF Register, Stamped
    <2>2. table[n].stamp = clock /\ \A m \in Names \ {n} : table[m] = rows[m]
        BY DEF TypeOK
    <2> HIDE DEF table
    <2>3. QED
        BY <1>1, <1>2, <1>3, <2>1, <2>2, CommitCalm
<1>5. ASSUME NEW on \in BOOLEAN, SetStatus(n, on) PROVE Calm'
    <2> DEFINE table == [rows EXCEPT ![n].active = on, ![n].stamp = clock]
    <2>1. lastStamp' = clock /\ lastStamp < clock /\ Commit(table)
        BY <1>5 DEF SetStatus, Stamped
    <2>2. rows[n] \in Row
        BY <1>5 DEF SetStatus, TypeOK
    <2>3. table[n].stamp = clock /\ \A m \in Names \ {n} : table[m] = rows[m]
        BY <2>2 DEF TypeOK, Row
    <2> HIDE DEF table
    <2>4. QED
        BY <1>1, <1>2, <1>3, <2>1, <2>3, CommitCalm
<1>6. ASSUME Delete(n) PROVE Calm'
    <2> DEFINE table == [rows EXCEPT ![n] = Absent]
    <2>1. lastStamp' = lastStamp /\ Commit(table)
        BY <1>6 DEF Delete
    <2>2. table[n] = Absent /\ \A m \in Names \ {n} : table[m] = rows[m]
        BY DEF TypeOK
    <2> HIDE DEF table
    <2>3. QED
        BY <1>1, <1>2, <1>3, <2>1, <2>2, CommitCalm
<1>7. QED
    BY <1>4, <1>5, <1>6

\* A step that leaves the table alone and learns nothing keeps the calm.
LEMMA KnownCalm ==
    ASSUME Calm, UNCHANGED <<rows, lastStamp>>, Known' \subseteq Known,
           \A r \in Requests : pc'[r] = "read" => active'[r] = Active(rows),
           \A r \in Requests : pc'[r] = "done" => setup'[r] = active'[r]
    PROVE  Calm'
<1>1. \A s : Old(s)' = Old(s)
    BY DEF Old, ActiveNames
<1>2. \A k, a : Dated(k, a) => Dated(k, a)'
    BY <1>1 DEF Dated
<1>3. Active(rows)' = Active(rows)
    BY DEF Active, ActiveNames
<1>4. QED
    BY <1>2, <1>3 DEF Calm

\* The second read learns today's fingerprint with today's rows.
LEMMA FingerprintCalm ==
    ASSUME TypeOK, Calm, NEW r \in Requests, ReadFingerprint(r), calm'
    PROVE  Calm'
<1>1. key' = [key EXCEPT ![r] = Fingerprint(rows)]
    BY DEF ReadFingerprint
<1>2. /\ UNCHANGED <<rows, lastStamp, cache, active, setup>>
      /\ pc[r] = "read" /\ pc' = [pc EXCEPT ![r] = "keyed"]
    BY DEF ReadFingerprint, tableVars, Step
<1>3. active[r] = Active(rows)
    BY <1>2 DEF Calm
<1> DEFINE new == <<Fingerprint(rows), Active(rows)>>
<1>4. Known' \subseteq Known \cup {new}
    <2>1. ASSUME NEW q \in Keyed' PROVE <<key'[q], active'[q]>> \in Known \cup {new}
        <3>1. CASE q = r
            BY <1>1, <1>2, <1>3, <3>1 DEF TypeOK
        <3>2. CASE q # r
            <4>1. q \in Keyed /\ key'[q] = key[q] /\ active'[q] = active[q]
                BY <1>1, <1>2, <2>1, <3>2 DEF TypeOK, Keyed
            <4>2. QED
                BY <4>1 DEF Known
        <3>3. QED
            BY <3>1, <3>2
    <2>2. QED
        BY <1>2, <2>1 DEF Known
<1>5. Dated(Fingerprint(rows), Active(rows))
    <2>1. Old(Fingerprint(rows)[2]) \subseteq Active(rows)
        BY DEF Old, Active
    <2>2. Fingerprint(rows)[2] <= lastStamp
        <3>1. 0 <= lastStamp
            BY RegistryAssumption DEF TypeOK
        <3>2. \A n \in ActiveNames(rows) : rows[n].stamp <= lastStamp
            BY DEF Calm, ActiveNames
        <3>3. QED
            BY <3>1, <3>2, FingerprintOf DEF TypeOK
    <2>3. QED
        BY <2>1, <2>2, FingerprintOf DEF Dated, TypeOK
<1>6. \A p \in Known \cup {new} : Dated(p[1], p[2])
    BY <1>5 DEF Calm
<1>7. \A p, q \in Known \cup {new} : p[1] = q[1] => p[2] = q[2]
    <2>1. \A p \in Known : p[1] = Fingerprint(rows) => p[2] = Active(rows)
        BY <1>6, DatedByToday
    <2>2. QED
        BY <2>1 DEF Calm
<1>8. \A k, a : Dated(k, a) => Dated(k, a)'
    BY <1>2 DEF Dated, Old, ActiveNames
<1>9. Active(rows)' = Active(rows)
    BY <1>2 DEF Active, ActiveNames
<1>10. /\ \A q \in Requests : pc'[q] = "read" => pc[q] = "read"
       /\ \A q \in Requests : pc'[q] = "done" => pc[q] = "done"
    BY <1>2 DEF TypeOK
<1> HIDE DEF new
<1>11. QED
    BY <1>2, <1>4, <1>6, <1>7, <1>8, <1>9, <1>10 DEF Calm

\* The other steps of a request learn no new fingerprint, and what one returns
\* is what it read: from the cache too, where its fingerprint is known.
LEMMA RequestCalm ==
    ASSUME TypeOK, CalmInv, NEW r \in Requests,
           \/ ReadActive(r) \/ ReadFingerprint(r) \/ ReturnBase(r) \/ ReturnCached(r)
           \/ Miss(r) \/ Build(r) \/ BuildFails(r)
    PROVE  CalmInv'
<1> SUFFICES ASSUME calm' PROVE Calm'
    BY DEF CalmInv
<1>1. calm
    BY DEF ReadActive, ReadFingerprint, ReturnBase, ReturnCached, Miss, Build, BuildFails
<1>2. Calm
    BY <1>1 DEF CalmInv
<1>3. CASE ReadFingerprint(r)
    BY <1>2, <1>3, FingerprintCalm
<1>4. ASSUME \/ ReadActive(r) \/ ReturnBase(r) \/ ReturnCached(r)
             \/ Miss(r) \/ Build(r) \/ BuildFails(r)
      PROVE  Calm'
    <2>1. UNCHANGED <<rows, lastStamp>>
        BY <1>4
        DEF ReadActive, ReturnBase, ReturnCached, Miss, Build, BuildFails, tableVars
    <2>2. /\ \A q \in Requests \ {r} : /\ pc'[q] = pc[q]
                                       /\ active'[q] = active[q]
                                       /\ key'[q] = key[q]
                                       /\ setup'[q] = setup[q]
          /\ r \in Keyed' => r \in Keyed /\ key'[r] = key[r] /\ active'[r] = active[r]
          /\ pc'[r] = "read" => active'[r] = Active(rows)
        BY <1>4
        DEF ReadActive, ReturnBase, ReturnCached, Miss, Build, BuildFails, Step, Return,
            TypeOK, Keyed
    <2>3. \A q \in Keyed' : q \in Keyed /\ key'[q] = key[q] /\ active'[q] = active[q]
        BY <2>2 DEF Keyed
    <2>4. \A k \in DOMAIN cache' : <<k, cache'[k]>> \in Known
        <3>1. CASE Build(r)
            <4>1. <<key[r], active[r]>> \in Known
                BY <3>1 DEF Build, Step, Known, Keyed
            <4>2. QED
                BY <3>1, <4>1 DEF Build, Cached, Known
        <3>2. CASE ~Build(r)
            <4>1. cache' = cache
                BY <1>4, <3>2 DEF ReadActive, ReturnBase, ReturnCached, Miss, BuildFails
            <4>2. QED
                BY <4>1 DEF Known
        <3>3. QED
            BY <3>1, <3>2
    <2>5. Known' \subseteq Known
        BY <2>3, <2>4 DEF Known
    <2>6. pc'[r] = "done" => setup'[r] = active'[r]
        <3>1. CASE ReturnCached(r)
            <4>1. <<key[r], active[r]>> \in Known /\ <<key[r], cache[key[r]]>> \in Known
                BY <3>1 DEF ReturnCached, Step, Known, Keyed
            <4>2. cache[key[r]] = active[r]
                BY <1>2, <4>1 DEF Calm
            <4>3. QED
                BY <3>1, <4>2 DEF ReturnCached, Return, TypeOK
        <3>2. CASE ReturnBase(r) \/ Build(r)
            BY <3>2 DEF ReturnBase, Build, Return, TypeOK
        <3>3. CASE ReadActive(r) \/ Miss(r) \/ BuildFails(r)
            BY <3>3 DEF ReadActive, Miss, BuildFails, Step, TypeOK
        <3>4. QED
            BY <1>4, <3>1, <3>2, <3>3
    <2>7. /\ \A q \in Requests : pc'[q] = "read" => active'[q] = Active(rows)
          /\ \A q \in Requests : pc'[q] = "done" => setup'[q] = active'[q]
        BY <1>2, <2>2, <2>6 DEF Calm
    <2>8. QED
        BY <1>2, <2>1, <2>5, <2>7, KnownCalm
<1>5. QED
    BY <1>3, <1>4

\* Every step keeps the calm or ends it.
LEMMA NextCalm == TypeOK /\ CalmInv /\ [Next]_vars => CalmInv'
<1> SUFFICES ASSUME TypeOK, CalmInv, [Next]_vars PROVE CalmInv'
    OBVIOUS
<1>1. CASE Tick \/ UNCHANGED vars
    <2>1. UNCHANGED <<calm, rows, lastStamp, pc, active, key, setup, cache>>
        BY <1>1 DEF Tick, vars, tableVars, requestVars
    <2>2. Known' = Known
        BY <2>1 DEF Known, Keyed
    <2>3. ASSUME Calm PROVE Calm'
        BY <2>1, <2>2, <2>3, KnownCalm DEF Calm
    <2>4. QED
        BY <2>1, <2>3 DEF CalmInv
<1>2. CASE Restart
    <2>1. UNCHANGED <<calm, rows, lastStamp, setup>>
        BY <1>2 DEF Restart, tableVars
    <2>2. /\ DOMAIN cache' = {}
          /\ \A r \in Requests : pc'[r] \in {"start", "done", "failed"}
          /\ \A r \in Requests : pc'[r] = "done" => pc[r] = "done" /\ active'[r] = active[r]
        BY <1>2 DEF Restart
    <2>3. Known' = {}
        BY <2>2 DEF Known, Keyed
    <2>4. ASSUME Calm PROVE Calm'
        <3>1. \A r \in Requests : pc'[r] = "done" => setup'[r] = active'[r]
            BY <2>1, <2>2, <2>4 DEF Calm
        <3>2. QED
            BY <2>1, <2>2, <2>3, <2>4, <3>1, KnownCalm
    <2>5. QED
        BY <2>1, <2>4 DEF CalmInv
<1>3. QED
    BY <1>1, <1>2, AdminCalm, RequestCalm DEF Next

\* When no two stamps fall into one second, no commit falls between the two
\* reads of a request and no read times out, a request gets the very rows it
\* read, from the cache of connector_config.py or not.
THEOREM CalmRequestsAreFresh == Spec => []CalmSetupsAreFresh
<1>1. CalmInv => CalmSetupsAreFresh
    BY DEF CalmInv, Calm, CalmSetupsAreFresh
<1>2. QED
    BY <1>1, InitTyped, NextTyped, InitCalm, NextCalm, PTL DEF Spec
=============================================================================
