-------------------------- MODULE AgentTurn_proofs --------------------------
(***************************************************************************)
(* Proofs about AgentTurn for every value of its constants.                *)
(***************************************************************************)
EXTENDS AgentTurn, TLAPS

-----------------------------------------------------------------------------
(* Type correctness. *)

\* The governance database starts well typed.
LEMMA GovernanceInitTyped == GovernanceInit => GovernanceTypeOK
BY GovernanceAssumption DEF GovernanceInit, GovernanceTypeOK

\* An administrator's commit keeps the edit counter within its bound.
LEMMA EditTyped == GovernanceTypeOK /\ Edit => edits' \in 0 .. MaxEdits
BY GovernanceAssumption DEF GovernanceTypeOK, Edit

\* Every administrator commit keeps the governance database well typed.
LEMMA GovernanceTyped == GovernanceTypeOK /\ GovernanceNext => GovernanceTypeOK'
<1> SUFFICES ASSUME GovernanceTypeOK, GovernanceNext PROVE GovernanceTypeOK'
    OBVIOUS
<1> USE EditTyped, GovernanceAssumption
    DEF GovernanceTypeOK, peopleVars, scopeVars, registryVars
<1>1. ASSUME NEW u \in Users, NEW r \in Roles, UpdateUser(u, r)
      PROVE  GovernanceTypeOK'
    BY <1>1 DEF UpdateUser
<1>2. ASSUME NEW u \in Users, SetUserStatus(u)
      PROVE  GovernanceTypeOK'
    BY <1>2 DEF SetUserStatus
<1>3. ASSUME NEW u \in Users, RevokeKey(u) \/ CreateKey(u)
      PROVE  GovernanceTypeOK'
    BY <1>3 DEF RevokeKey, CreateKey
<1>4. ASSUME NEW u \in Users, NEW wanted \in SUBSET Groups, SetUserGroups(u, wanted)
      PROVE  GovernanceTypeOK'
    BY <1>4 DEF SetUserGroups, Relinked
<1>5. ASSUME NEW u \in Users, NEW wanted \in SUBSET Projects, SetUserProjects(u, wanted)
      PROVE  GovernanceTypeOK'
    BY <1>5 DEF SetUserProjects, Relinked
<1>6. ASSUME NEW u \in Users, NEW wanted \in SUBSET Companies, SetUserCompanies(u, wanted)
      PROVE  GovernanceTypeOK'
    BY <1>6 DEF SetUserCompanies, Relinked
<1>7. ASSUME NEW g \in GrantPool, CreatePermission(g) \/ DeletePermission(g)
      PROVE  GovernanceTypeOK'
    BY <1>7 DEF CreatePermission, DeletePermission
<1>8. ASSUME NEW gr \in Groups, DeleteGroup(gr)
      PROVE  GovernanceTypeOK'
    BY <1>8 DEF DeleteGroup
<1>9. ASSUME NEW s \in Sources, SetSourceDisabled(s)
      PROVE  GovernanceTypeOK'
    BY <1>9 DEF SetSourceDisabled
<1>10. ASSUME NEW s \in RuntimeSources, SetSourceActive(s)
       PROVE  GovernanceTypeOK'
    BY <1>10 DEF SetSourceActive
<1>11. QED
    BY <1>1, <1>2, <1>3, <1>4, <1>5, <1>6, <1>7, <1>8, <1>9, <1>10
    DEF GovernanceNext

\* Every result an action writes is well typed.
LEMMA ResultsTyped ==
    /\ NoResult \in Result /\ ErrorResult \in Result /\ Guidance \in Result
    /\ \A rs \in SUBSET Rows, s \in Sources \cup {NoSource} : RowsOf(rs, s) \in Result
    /\ \A ss \in SUBSET Sources : ChoiceOf(ss) \in Result
BY DEF NoResult, ErrorResult, Guidance, RowsOf, ChoiceOf, Result, ResultKinds

Hit == [source : Sources, rows : SUBSET Rows]

\* The local variables a turn starts with are well typed.
LEMMA BlankTyped == Blank \in Job
BY TurnAssumption DEF Blank, Job

\* The updates the steps of a turn make to its local variables.
LEMMA JobTyped ==
    ASSUME NEW j \in Job
    PROVE  /\ \A n \in 1 .. MaxPlanAttempts : [j EXCEPT !.attempt = n] \in Job
           /\ [j EXCEPT !.retried = TRUE] \in Job
           /\ \A ss \in SUBSET Sources : [j EXCEPT !.pending = ss] \in Job
           /\ \A s \in Sources : [j EXCEPT !.at = s] \in Job
           /\ \A rs \in SUBSET Rows : [j EXCEPT !.scoped = rs] \in Job
           /\ \A ss \in SUBSET Sources, s \in Sources :
                 [j EXCEPT !.pending = ss, !.primary = s,
                           !.at = NoSource, !.scoped = {}] \in Job
           /\ \A ss \in SUBSET Sources, hs \in SUBSET Hit :
                 [j EXCEPT !.pending = ss, !.hits = hs,
                           !.at = NoSource, !.scoped = {}] \in Job
BY DEF Job, Hit

\* A turn's local variables stay well typed when the value written is.
LEMMA WorkTyped ==
    ASSUME TurnTypeOK, NEW t \in Turns, NEW j \in Job, Work(t, j)
    PROVE  job' \in [Turns -> Job]
BY DEF TurnTypeOK, Work

\* The sources a plan may be sent to are sources.
LEMMA CandidatesTyped ==
    ASSUME TypeOK, NEW t \in Turns, NEW off
    PROVE  Candidates(t, off) \subseteq Sources
BY TurnAssumption
DEF TypeOK, TurnTypeOK, Request, Candidates, SourcesFor

\* The initial state is well typed.
LEMMA InitTyped == Init => TypeOK
<1> SUFFICES ASSUME Init PROVE TypeOK
    OBVIOUS
<1>1. GovernanceTypeOK
    BY GovernanceInitTyped DEF Init
<1>2. \A t \in Turns : request[t] \in Request
    BY DEF Init, Request, Nobody, Context, Roles
<1>3. \A t \in Turns : witness[t] \in Witness
    BY DEF Init, Witness
<1>4. TurnTypeOK
    BY <1>2, <1>3, ResultsTyped, BlankTyped DEF Init, TurnTypeOK, Stages
<1>5. QED
    BY <1>1, <1>4 DEF TypeOK

\* What a watched turn's history becomes is well typed.
LEMMA WitnessTyped ==
    ASSUME TypeOK, NEW t \in Turns
    PROVE  /\ [projects |-> VisibleProjects(ctxOf(t)),
               held |-> VisibleProjects(ctxOf(t)),
               companies |-> VisibleCompanies(ctxOf(t)),
               cells |-> GrantedCells(t), joined |-> {},
               sources |-> witness[t].sources] \in Witness
           /\ Watch(t) \in Witness
BY DEF TypeOK, TurnTypeOK, Witness, Watch, VisibleProjects, VisibleCompanies, GrantedCells

\* A commit, and what the watching turns note of it, is well typed.
LEMMA AdministerTyped == TypeOK /\ Administer => TypeOK'
<1> SUFFICES ASSUME TypeOK, Administer PROVE TypeOK'
    OBVIOUS
<1>1. GovernanceTypeOK'
    BY GovernanceTyped DEF TypeOK, Administer
<1>2. witness' \in [Turns -> Witness]
    BY WitnessTyped DEF Administer, TypeOK, TurnTypeOK
<1>3. QED
    BY <1>1, <1>2 DEF Administer, TypeOK, TurnTypeOK

\* The history of a turn stays well typed through a step that leaves governance
\* alone.
LEMMA StandingGovernance ==
    TypeOK /\ UNCHANGED governanceVars => GovernanceTypeOK'
BY DEF TypeOK, GovernanceTypeOK, governanceVars, peopleVars, scopeVars, registryVars

\* A request is served under a context of a known user or of the operator.
LEMMA AuthenticatedTyped == TypeOK => Authenticated \subseteq Context
<1> SUFFICES ASSUME TypeOK, NEW c \in Authenticated PROVE c \in Context
    OBVIOUS
<1>1. ASSUME NEW u \in enabled \cap keyed,
             c = [user |-> u, role |-> role[u], unrestricted |-> FALSE]
      PROVE  c \in Context
    <2>1. u \in Users /\ role[u] \in Roles
        BY DEF TypeOK, GovernanceTypeOK
    <2>2. QED
        BY <1>1, <2>1 DEF Context
<1>2. CASE c = [user |-> NoUser, role |-> "admin", unrestricted |-> TRUE]
    BY <1>2 DEF Context, Roles
<1>3. QED
    BY <1>1, <1>2 DEF Authenticated

\* Admission and planning keep the turn well typed.
LEMMA PlanningTyped ==
    ASSUME TypeOK, NEW t \in Turns,
           \/ \E c \in Authenticated, conv \in Conversations \cup {NoConversation} :
                 Open(t, c, conv)
           \/ Route(t)
           \/ LoadContext(t)
           \/ \E p \in PlanPool : SubmitPlan(t, p) \/ ModelSelects(t, p)
           \/ ModelRejected(t)
           \/ ModelDeclines(t)
    PROVE  TypeOK'
<1> USE ResultsTyped DEF TurnTypeOK, Goto, SettleWith
<1> TurnTypeOK
    BY DEF TypeOK
<1>1. ASSUME NEW c \in Authenticated, NEW conv \in Conversations \cup {NoConversation},
             Open(t, c, conv)
      PROVE  TypeOK'
    <2>1. c \in Context
        BY AuthenticatedTyped
    <2>2. [request[t] EXCEPT !.ctx = c, !.conv = conv] \in Request
        BY <2>1 DEF Request
    <2>3. request' \in [Turns -> Request]
        BY <1>1, <2>2 DEF Open
    <2>4. QED
        BY <1>1, <2>3, StandingGovernance DEF Open, TypeOK, Stages
<1>2. CASE Route(t)
    <2>1. PICK known \in published \cup {{}} :
             request' = [request EXCEPT ![t].routes = BaseSources \cup known]
        BY <1>2 DEF Route
    <2>2. BaseSources \cup known \in SUBSET Sources
        BY GovernanceAssumption DEF TypeOK, GovernanceTypeOK, BaseSources
    <2>3. request' \in [Turns -> Request]
        BY <2>1, <2>2 DEF Request
    <2>4. QED
        BY <1>2, <2>3, StandingGovernance DEF Route, TypeOK, Stages
<1>3. CASE LoadContext(t)
    <2>1. PICK found \in Memory \cup {NoMemory} :
             request' = [request EXCEPT ![t].context = found]
        BY <1>3 DEF LoadContext
    <2>2. [request[t] EXCEPT !.context = found] \in Request
        BY DEF Request
    <2>3. request' \in [Turns -> Request]
        BY <2>1, <2>2
    <2>4. QED
        BY <1>3, <2>3, StandingGovernance DEF LoadContext, TypeOK, Stages
<1>4. ASSUME NEW p \in PlanPool, SubmitPlan(t, p) \/ ModelSelects(t, p)
      PROVE  TypeOK'
    <2>1. request' \in [Turns -> Request]
        <3>1. request' = [request EXCEPT ![t].plan = p]
            BY <1>4 DEF SubmitPlan, ModelSelects
        <3>2. [request[t] EXCEPT !.plan = p] \in Request
            BY DEF Request
        <3>3. QED
            BY <3>1, <3>2
    <2>2. job' \in [Turns -> Job]
        <3>1. [job[t] EXCEPT !.attempt = 1] \in Job
            <4>1. job[t] \in Job /\ 1 \in 1 .. MaxPlanAttempts
                BY TurnAssumption
            <4>2. QED
                BY <4>1, JobTyped
        <3>2. job' = job \/ Work(t, [job[t] EXCEPT !.attempt = 1])
            BY <1>4 DEF SubmitPlan, ModelSelects
        <3>3. QED
            BY <3>1, <3>2, WorkTyped
    <2>3. QED
        BY <1>4, <2>1, <2>2, StandingGovernance DEF SubmitPlan, ModelSelects, TypeOK, Stages
<1>5. CASE ModelRejected(t)
    <2>1. job[t].attempt \in 1 .. MaxPlanAttempts
        BY DEF Job
    <2>2. job[t].attempt < MaxPlanAttempts => job[t].attempt + 1 \in 1 .. MaxPlanAttempts
        BY <2>1, TurnAssumption
    <2>3. \A n \in 1 .. MaxPlanAttempts : [job[t] EXCEPT !.attempt = n] \in Job
        BY DEF Job
    <2>4. job' \in [Turns -> Job]
        BY <1>5, <2>2, <2>3, WorkTyped DEF ModelRejected
    <2>5. QED
        BY <1>5, <2>4, StandingGovernance DEF ModelRejected, TypeOK, Stages
<1>6. CASE ModelDeclines(t)
    BY <1>6, StandingGovernance DEF ModelDeclines, TypeOK, Stages
<1>7. QED
    BY <1>1, <1>2, <1>3, <1>4, <1>5, <1>6

\* The end of a dispatch writes well-typed variables.
LEMMA ConcludeTyped ==
    ASSUME TurnTypeOK, NEW t \in Turns, NEW res \in Result, Conclude(t, res)
    PROVE  /\ job' \in [Turns -> Job]
           /\ result' \in [Turns -> Result]
           /\ stage' \in [Turns -> Stages]
<1>1. [Blank EXCEPT !.retried = job[t].retried] \in Job
    BY BlankTyped DEF TurnTypeOK, Job
<1>2. QED
    BY <1>1, WorkTyped DEF Conclude, TurnTypeOK, Goto, Stages

\* The verdict over the fallbacks is a result.
LEMMA VerdictTyped ==
    ASSUME TurnTypeOK, NEW t \in Turns, NEW hits \in SUBSET Hit
    PROVE  Verdict(t, hits) \subseteq Result
<1>1. job[t].primary \in Sources \cup {NoSource}
    BY DEF TurnTypeOK, Job
<1>2. \A h \in hits : h.rows \in SUBSET Rows /\ h.source \in Sources
    BY DEF Hit
<1>3. {h.source : h \in hits} \in SUBSET Sources
    BY <1>2
<1>4. QED
    BY <1>1, <1>2, <1>3, ResultsTyped DEF Verdict

\* Taking in the outcome of one source writes well-typed variables.
LEMMA AbsorbTyped ==
    ASSUME TurnTypeOK, NEW t \in Turns, NEW s \in Sources, NEW res \in Result,
           Absorb(t, s, res)
    PROVE  /\ job' \in [Turns -> Job]
           /\ result' \in [Turns -> Result]
           /\ stage' \in [Turns -> Stages]
<1> DEFINE rest == job[t].pending \ {s}
           hits == IF res.kind = "rows" /\ res.rows # {}
                     THEN job[t].hits \cup {[source |-> s, rows |-> res.rows]}
                     ELSE job[t].hits
<1>1. rest \in SUBSET Sources
    BY DEF TurnTypeOK, Job
<1>2. hits \in SUBSET Hit
    BY DEF TurnTypeOK, Job, Hit, Result
<1>3. CASE Conclude(t, res)
    BY <1>3, ConcludeTyped
<1>4. CASE \E verdict \in Verdict(t, hits) : Conclude(t, verdict)
    BY <1>4, <1>2, VerdictTyped, ConcludeTyped
<1>5. CASE /\ Work(t, [job[t] EXCEPT !.pending = rest, !.primary = s,
                                   !.at = NoSource, !.scoped = {}])
           /\ Goto(t, "gate")
           /\ UNCHANGED result
    <2>1. job' \in [Turns -> Job]
        BY <1>1, <1>5, JobTyped, WorkTyped, TurnAssumption DEF TurnTypeOK
    <2>2. QED
        BY <1>5, <2>1 DEF TurnTypeOK, Goto, Stages
<1>6. CASE /\ Work(t, [job[t] EXCEPT !.pending = rest, !.hits = hits,
                                   !.at = NoSource, !.scoped = {}])
           /\ Goto(t, "gate")
           /\ UNCHANGED result
    <2> HIDE DEF rest, hits
    <2>1. job' \in [Turns -> Job]
        BY <1>1, <1>2, <1>6, JobTyped, WorkTyped, TurnAssumption DEF TurnTypeOK
    <2>2. QED
        BY <1>6, <2>1 DEF TurnTypeOK, Goto, Stages
<1>7. QED
    BY <1>3, <1>4, <1>5, <1>6 DEF Absorb

\* Validation, authorization and the rescue keep the turn well typed.
LEMMA AuthorizationTyped ==
    ASSUME TypeOK, NEW t \in Turns,
           Validate(t) \/ ReadCatalog(t) \/ Authorize(t) \/ Rescue(t)
    PROVE  TypeOK'
<1> USE ResultsTyped DEF TurnTypeOK, Goto, SettleWith
<1> TurnTypeOK
    BY DEF TypeOK
<1>1. CASE Validate(t)
    BY <1>1, StandingGovernance DEF Validate, TypeOK, Stages
<1>2. CASE ReadCatalog(t)
    <2>1. witness' \in [Turns -> Witness]
        <3>1. [witness[t] EXCEPT !.sources = Sources \ disabled] \in Witness
            BY DEF Witness
        <3>2. QED
            BY <1>2, <3>1 DEF ReadCatalog
    <2>2. QED
        BY <1>2, <2>1, StandingGovernance DEF ReadCatalog, TypeOK, Stages
<1>3. CASE Authorize(t)
    BY <1>3, StandingGovernance DEF Authorize, TypeOK, Stages
<1>4. CASE Rescue(t)
    <2>1. job' \in [Turns -> Job]
        BY <1>4, JobTyped, WorkTyped, TurnAssumption DEF Rescue
    <2>2. QED
        BY <1>4, <2>1, StandingGovernance DEF Rescue, TypeOK, Stages
<1>5. QED
    BY <1>1, <1>2, <1>3, <1>4

\* A turn that reads a record scope or rows has a source it reads them for:
\* what TypeOK needs to be inductive.
AskedSource == \A t \in Turns : stage[t] \in {"scope", "fetch"} => job[t].at \in Sources

\* The steps of a dispatch keep the turn well typed.
LEMMA DispatchTyped ==
    ASSUME TypeOK, AskedSource, NEW t \in Turns,
           Dispatch(t) \/ Gate(t) \/ ReadScope(t) \/ Fetch(t)
    PROVE  TypeOK'
<1> USE ResultsTyped
<1> TurnTypeOK
    BY DEF TypeOK
<1> SUFFICES /\ UNCHANGED <<governanceVars, request, failed, memory>>
             /\ witness' \in [Turns -> Witness]
             /\ job' \in [Turns -> Job]
             /\ result' \in [Turns -> Result]
             /\ stage' \in [Turns -> Stages]
    BY StandingGovernance DEF TypeOK, TurnTypeOK
<1>1. CASE Dispatch(t)
    <2>1. witness' \in [Turns -> Witness]
        BY <1>1, WitnessTyped DEF Dispatch, OpenWindow, TurnTypeOK
    <2>2. PICK off \in DisabledViews :
             \/ Conclude(t, ErrorResult)
             \/ /\ Work(t, [job[t] EXCEPT !.pending = Candidates(t, off)])
                /\ Goto(t, "gate")
                /\ UNCHANGED result
        BY <1>1 DEF Dispatch
    <2>3. CASE Conclude(t, ErrorResult)
        BY <1>1, <2>1, <2>3, ConcludeTyped DEF Dispatch
    <2>4. CASE /\ Work(t, [job[t] EXCEPT !.pending = Candidates(t, off)])
               /\ Goto(t, "gate")
               /\ UNCHANGED result
        <3>1. job' \in [Turns -> Job]
            BY <2>4, CandidatesTyped, JobTyped, WorkTyped DEF TurnTypeOK
        <3>2. QED
            BY <1>1, <2>1, <2>4, <3>1 DEF Dispatch, TurnTypeOK, Goto, Stages
    <2>5. QED
        BY <2>2, <2>3, <2>4
<1>2. CASE Gate(t)
    <2>1. PICK s \in job[t].pending :
             \/ /\ Work(t, [job[t] EXCEPT !.at = s])
                /\ Goto(t, "scope")
                /\ UNCHANGED result
             \/ Absorb(t, s, ErrorResult)
        BY <1>2 DEF Gate
    <2>2. s \in Sources
        BY DEF TurnTypeOK, Job
    <2>3. CASE Absorb(t, s, ErrorResult)
        BY <1>2, <2>2, <2>3, AbsorbTyped DEF Gate, TurnTypeOK
    <2>4. CASE /\ Work(t, [job[t] EXCEPT !.at = s])
               /\ Goto(t, "scope")
               /\ UNCHANGED result
        <3>1. job' \in [Turns -> Job]
            BY <2>2, <2>4, JobTyped, WorkTyped DEF TurnTypeOK
        <3>2. QED
            BY <1>2, <2>4, <3>1 DEF Gate, TurnTypeOK, Goto, Stages
    <2>5. QED
        BY <2>1, <2>3, <2>4
<1>3. CASE ReadScope(t)
    <2> DEFINE scoped == ScopeRows(ctxOf(t), Mode(t, job[t].at))
    <2>1. job[t].at \in Sources
        BY <1>3 DEF ReadScope, AskedSource
    <2>2. CASE Absorb(t, job[t].at, RowsOf({}, job[t].at))
        BY <1>3, <2>1, <2>2, AbsorbTyped DEF ReadScope, TurnTypeOK
    <2>3. CASE /\ Work(t, [job[t] EXCEPT !.scoped = scoped])
               /\ Goto(t, "fetch")
               /\ UNCHANGED result
        <3>1. scoped \in SUBSET Rows
            BY DEF ScopeRows
        <3> HIDE DEF scoped
        <3>2. job' \in [Turns -> Job]
            BY <2>3, <3>1, JobTyped, WorkTyped DEF TurnTypeOK
        <3>3. QED
            BY <1>3, <2>3, <3>2 DEF ReadScope, TurnTypeOK, Goto, Stages
    <2>4. QED
        BY <1>3, <2>2, <2>3 DEF ReadScope
<1>4. CASE Fetch(t)
    <2>1. job[t].at \in Sources
        BY <1>4 DEF Fetch, AskedSource
    <2>2. \A page : Fetched(t, page) \in SUBSET Rows
        BY DEF Fetched, TurnTypeOK, Job
    <2>3. PICK res \in Result : Absorb(t, job[t].at, res)
        BY <1>4, <2>1, <2>2 DEF Fetch
    <2>4. QED
        BY <1>4, <2>1, <2>3, AbsorbTyped DEF Fetch, TurnTypeOK
<1>5. QED
    BY <1>1, <1>2, <1>3, <1>4

\* Memory, run log, audit and the ways a turn breaks off keep it well typed.
LEMMA AnswerTyped ==
    ASSUME TypeOK, NEW t \in Turns,
           \/ RecordContext(t) \/ RecordRun(t) \/ Audit(t)
           \/ DatabaseError(t) \/ Drop(t)
    PROVE  TypeOK'
<1> USE StandingGovernance DEF TurnTypeOK, Goto
<1> TurnTypeOK
    BY DEF TypeOK
<1>a. Work(t, Blank) => job' \in [Turns -> Job]
    BY BlankTyped, WorkTyped
<1>1. CASE RecordContext(t)
    <2>1. Remembered(t) \subseteq Memory
        <3>1. result[t].rows \subseteq Rows
            BY DEF Result
        <3>2. QED
            BY <3>1 DEF Remembered, Entities, Memory
    <2>2. memory' \in [Conversations -> Memory \cup {NoMemory}]
        BY <1>1, <2>1 DEF RecordContext
    <2>3. QED
        BY <1>1, <1>a, <2>2 DEF RecordContext, TypeOK, Stages
<1>2. CASE RecordRun(t)
    BY <1>2 DEF RecordRun, TypeOK, Stages
<1>3. CASE Audit(t)
    BY <1>3 DEF Audit, TypeOK, Stages
<1>4. CASE DatabaseError(t)
    BY <1>4, <1>a DEF DatabaseError, TypeOK, Stages
<1>5. CASE Drop(t)
    BY <1>5, <1>a DEF Drop, TypeOK, Stages
<1>6. QED
    BY <1>1, <1>2, <1>3, <1>4, <1>5

-----------------------------------------------------------------------------
(* What a turn's own step leaves alone. *)

\* Every step that belongs to turn t.
TurnStep(t) ==
    \/ \E c \in Authenticated, conv \in Conversations \cup {NoConversation} :
          Open(t, c, conv)
    \/ Proceed(t)
    \/ DatabaseError(t)
    \/ Drop(t)

\* The variables of turn u stay as they are.
Still(u) ==
    /\ stage'[u] = stage[u]
    /\ request'[u] = request[u]
    /\ job'[u] = job[u]
    /\ result'[u] = result[u]
    /\ witness'[u] = witness[u]

\* Concluding a dispatch of t leaves every other turn alone, and leads to the
\* rescue or to the last nodes of the graph.
LEMMA ConcludeFrame ==
    ASSUME TurnTypeOK, NEW t \in Turns, NEW res, Conclude(t, res)
    PROVE  /\ \A u \in Turns \ {t} : /\ stage'[u] = stage[u]
                                     /\ job'[u] = job[u]
                                     /\ result'[u] = result[u]
           /\ stage'[t] \in {"rescue", "settled"}
BY DEF TurnTypeOK, Conclude, Work, Goto

\* Taking in the outcome of a source of t leaves every other turn alone, and
\* leads to the next source or concludes.
LEMMA AbsorbFrame ==
    ASSUME TurnTypeOK, NEW t \in Turns, NEW s, NEW res, Absorb(t, s, res)
    PROVE  /\ \A u \in Turns \ {t} : /\ stage'[u] = stage[u]
                                     /\ job'[u] = job[u]
                                     /\ result'[u] = result[u]
           /\ stage'[t] \in {"gate", "rescue", "settled"}
<1>1. CASE \E verdict : Conclude(t, verdict)
    BY <1>1, ConcludeFrame
<1>2. CASE /\ \E j : Work(t, j)
           /\ Goto(t, "gate")
           /\ UNCHANGED result
    BY <1>2 DEF TurnTypeOK, Work, Goto
<1>3. QED
    BY <1>1, <1>2 DEF Absorb

\* A step of one turn leaves the governance database and every other turn alone.
LEMMA TurnFrame ==
    ASSUME TypeOK, NEW t \in Turns, TurnStep(t)
    PROVE  /\ UNCHANGED governanceVars
           /\ \A u \in Turns \ {t} : Still(u)
<1> USE DEF TurnTypeOK, Still, Goto, SettleWith, Work
<1> TurnTypeOK
    BY DEF TypeOK
<1>1. ASSUME NEW c \in Authenticated, NEW conv \in Conversations \cup {NoConversation},
             Open(t, c, conv)
      PROVE  UNCHANGED governanceVars /\ \A u \in Turns \ {t} : Still(u)
    BY <1>1 DEF Open
<1>2. CASE Route(t) \/ LoadContext(t)
    BY <1>2 DEF Route, LoadContext
<1>3. ASSUME NEW p \in PlanPool, SubmitPlan(t, p) \/ ModelSelects(t, p)
      PROVE  UNCHANGED governanceVars /\ \A u \in Turns \ {t} : Still(u)
    BY <1>3 DEF SubmitPlan, ModelSelects
<1>4. CASE ModelRejected(t) \/ ModelDeclines(t)
    BY <1>4 DEF ModelRejected, ModelDeclines
<1>5. CASE Validate(t) \/ ReadCatalog(t) \/ Authorize(t) \/ Rescue(t)
    BY <1>5 DEF Validate, ReadCatalog, Authorize, Rescue
<1>6. CASE Dispatch(t)
    <2>1. \A u \in Turns \ {t} : witness'[u] = witness[u]
        BY <1>6 DEF Dispatch, OpenWindow
    <2>2. \A u \in Turns \ {t} : /\ stage'[u] = stage[u]
                                 /\ job'[u] = job[u]
                                 /\ result'[u] = result[u]
        BY <1>6, ConcludeFrame DEF Dispatch
    <2>3. QED
        BY <1>6, <2>1, <2>2 DEF Dispatch
<1>7. CASE Gate(t)
    BY <1>7, AbsorbFrame DEF Gate
<1>8. CASE ReadScope(t)
    BY <1>8, AbsorbFrame DEF ReadScope
<1>9. CASE Fetch(t)
    BY <1>9, AbsorbFrame DEF Fetch
<1>10. CASE RecordContext(t) \/ RecordRun(t) \/ Audit(t) \/ DatabaseError(t) \/ Drop(t)
    BY <1>10 DEF RecordContext, RecordRun, Audit, DatabaseError, Drop
<1>11. QED
    BY <1>1, <1>2, <1>3, <1>4, <1>5, <1>6, <1>7, <1>8, <1>9, <1>10
    DEF TurnStep, Proceed

\* A source is in hand whenever a turn is about to read for it.
LEMMA AskedSourceStep ==
    TypeOK /\ AskedSource /\ [Next]_vars => AskedSource'
<1> SUFFICES ASSUME TypeOK, AskedSource, [Next]_vars,
                    NEW u \in Turns, stage'[u] \in {"scope", "fetch"}
             PROVE  job'[u].at \in Sources
    BY DEF AskedSource
<1> TurnTypeOK
    BY DEF TypeOK
<1>1. CASE Administer \/ Finished \/ UNCHANGED vars
    BY <1>1 DEF Administer, Finished, vars, turnVars, AskedSource
<1>2. ASSUME NEW t \in Turns, TurnStep(t), u # t
      PROVE  job'[u].at \in Sources
    BY <1>2, TurnFrame DEF AskedSource, Still
<1>3. CASE Gate(u)
    <2>1. PICK s \in job[u].pending :
             \/ Work(u, [job[u] EXCEPT !.at = s])
             \/ Absorb(u, s, ErrorResult)
        BY <1>3 DEF Gate
    <2>2. s \in Sources /\ job[u] \in Job
        BY DEF TurnTypeOK, Job
    <2>3. Work(u, [job[u] EXCEPT !.at = s]) => job'[u].at = s
        BY <2>2 DEF Work, TurnTypeOK, Job
    <2>4. QED
        BY <2>1, <2>2, <2>3, AbsorbFrame
<1>4. CASE ReadScope(u)
    <2>1. job[u].at \in Sources /\ job[u] \in Job
        BY <1>4 DEF ReadScope, AskedSource, TurnTypeOK
    <2>2. \A rs : Work(u, [job[u] EXCEPT !.scoped = rs]) => job'[u].at = job[u].at
        BY <2>1 DEF Work, TurnTypeOK, Job
    <2>3. QED
        BY <1>4, <2>1, <2>2, AbsorbFrame DEF ReadScope
<1>5. CASE Fetch(u)
    BY <1>5, AbsorbFrame DEF Fetch
<1>6. CASE Dispatch(u)
    BY <1>6, ConcludeFrame DEF Dispatch, Goto, TurnTypeOK
<1>7. CASE TurnStep(u) /\ ~(Gate(u) \/ ReadScope(u) \/ Fetch(u) \/ Dispatch(u))
    <2> USE DEF TurnTypeOK, Goto, SettleWith
    <2>1. CASE \E c \in Authenticated, conv \in Conversations \cup {NoConversation} :
                  Open(u, c, conv)
        BY <2>1 DEF Open
    <2>2. CASE \/ Route(u) \/ LoadContext(u) \/ ModelRejected(u) \/ ModelDeclines(u)
               \/ \E p \in PlanPool : SubmitPlan(u, p) \/ ModelSelects(u, p)
        BY <2>2
        DEF Route, LoadContext, ModelRejected, ModelDeclines, SubmitPlan, ModelSelects
    <2>3. CASE Validate(u) \/ ReadCatalog(u) \/ Authorize(u) \/ Rescue(u)
        BY <2>3 DEF Validate, ReadCatalog, Authorize, Rescue
    <2>4. CASE RecordContext(u) \/ RecordRun(u) \/ Audit(u) \/ DatabaseError(u) \/ Drop(u)
        BY <2>4 DEF RecordContext, RecordRun, Audit, DatabaseError, Drop
    <2>5. QED
        BY <1>7, <2>1, <2>2, <2>3, <2>4 DEF TurnStep, Proceed
<1>8. QED
    BY <1>1, <1>2, <1>3, <1>4, <1>5, <1>6, <1>7 DEF Next, TurnStep

\* Every step keeps the state well typed.
LEMMA StepTyped == TypeOK /\ AskedSource /\ [Next]_vars => TypeOK'
<1> SUFFICES ASSUME TypeOK, AskedSource, [Next]_vars PROVE TypeOK'
    OBVIOUS
<1>1. CASE Administer
    BY <1>1, AdministerTyped
<1>2. ASSUME NEW t \in Turns, TurnStep(t)
      PROVE  TypeOK'
    BY <1>2, PlanningTyped, AuthorizationTyped, DispatchTyped, AnswerTyped
    DEF TurnStep, Proceed
<1>3. CASE UNCHANGED vars
    BY <1>3, StandingGovernance DEF vars, turnVars, TypeOK, TurnTypeOK
<1>4. QED
    BY <1>1, <1>2, <1>3 DEF Next, TurnStep, Finished

\* Every variable of a gateway keeps its type, for any policy, deployment and
\* number of turns.
THEOREM TypeCorrect == Spec => []TypeOK
<1>1. Init => TypeOK /\ AskedSource
    BY InitTyped DEF Init, AskedSource
<1>2. TypeOK /\ AskedSource /\ [Next]_vars => (TypeOK /\ AskedSource)'
    BY StepTyped, AskedSourceStep
<1>3. QED
    BY <1>1, <1>2, PTL DEF Spec

-----------------------------------------------------------------------------
(* Disclosure.  The induction goes from the record scope the policy has, over  *)
(* the scope a turn read and the rows it holds, to the rows it answers with.   *)

Dispatching == {"gate", "scope", "fetch"}
Ended       == {"settled", "remembered", "audit", "answered", "dropped"}

\* The window has seen the scope the policy has now.
WindowOpen(t) ==
    stage[t] \in Dispatching =>
        /\ VisibleProjects(ctxOf(t)) \subseteq witness[t].projects
        /\ VisibleCompanies(ctxOf(t)) \subseteq witness[t].companies

\* The scope that was read, and the rows kept from fallbacks, are within it.
ScopeSeen(t) ==
    stage[t] = "fetch" => \A r \in job[t].scoped : WasInScope(t, job[t].at, r)

HitsSeen(t) ==
    /\ \A h \in job[t].hits : \A r \in h.rows : WasInScope(t, h.source, r)
    /\ stage[t] \notin Dispatching => job[t].hits = {}

\* No rows are answered before a dispatch concludes with them.
AnswerSeen(t) ==
    /\ \A r \in result[t].rows : WasInScope(t, result[t].from, r)
    /\ stage[t] \notin Ended => result[t].rows = {}

TurnInv(t) == WindowOpen(t) /\ ScopeSeen(t) /\ HitsSeen(t) /\ AnswerSeen(t)

ScopeInv == \A t \in Turns : TurnInv(t)

\* What was in scope stays so while the request stands and its window only grows.
LEMMA ScopeGrows ==
    ASSUME NEW u \in Turns, request'[u] = request[u],
           witness[u].projects \subseteq witness'[u].projects,
           witness[u].companies \subseteq witness'[u].companies
    PROVE  \A s, r : WasInScope(u, s, r) => WasInScope(u, s, r)'
BY DEF WasInScope, Mode, ByConnector, ctxOf, planOf

\* The policy shows a turn the same records while governance and request stand.
LEMMA SameView ==
    ASSUME NEW u \in Turns, UNCHANGED governanceVars, request'[u] = request[u]
    PROVE  /\ VisibleProjects(ctxOf(u))' = VisibleProjects(ctxOf(u))
           /\ VisibleCompanies(ctxOf(u))' = VisibleCompanies(ctxOf(u))
BY DEF VisibleProjects, VisibleCompanies, ctxOf, governanceVars, scopeVars

\* A turn that stands still keeps its invariant while governance does.
LEMMA StillInv ==
    ASSUME NEW u \in Turns, TurnInv(u), Still(u), UNCHANGED governanceVars
    PROVE  TurnInv(u)'
<1> USE DEF Still
<1>1. \A s, r : WasInScope(u, s, r) => WasInScope(u, s, r)'
    BY ScopeGrows
<1>2. WindowOpen(u)'
    BY SameView DEF TurnInv, WindowOpen
<1>3. QED
    BY <1>1, <1>2 DEF TurnInv, ScopeSeen, HitsSeen, AnswerSeen

\* A commit is seen by every open window, which only grows.
LEMMA AdministerInv ==
    ASSUME TypeOK, ScopeInv, Administer, NEW u \in Turns
    PROVE  TurnInv(u)'
<1> TurnInv(u)
    BY DEF ScopeInv
<1>1. CASE stage[u] \in Watched
    <2>1. witness'[u] = Watch(u)
        BY <1>1 DEF Administer
    <2>2. \A s, r : WasInScope(u, s, r) => WasInScope(u, s, r)'
        BY <2>1, ScopeGrows DEF Administer, Watch
    <2>3. WindowOpen(u)'
        BY <2>1 DEF WindowOpen, Watch
    <2>4. QED
        BY <2>2, <2>3 DEF Administer, TurnInv, ScopeSeen, HitsSeen, AnswerSeen
<1>2. CASE stage[u] \notin Watched
    <2>1. witness'[u] = witness[u]
        BY <1>2 DEF Administer
    <2>2. \A s, r : WasInScope(u, s, r) => WasInScope(u, s, r)'
        BY <2>1, ScopeGrows DEF Administer
    <2>3. WindowOpen(u)'
        BY <1>2 DEF Administer, WindowOpen, Watched, Dispatching
    <2>4. QED
        BY <2>2, <2>3 DEF Administer, TurnInv, ScopeSeen, HitsSeen, AnswerSeen
<1>3. QED
    BY <1>1, <1>2

\* Concluding with rows that were in scope.
LEMMA ConcludeInv ==
    ASSUME TypeOK, NEW t \in Turns, TurnInv(t), NEW res \in Result,
           Conclude(t, res), UNCHANGED <<governanceVars, request, witness>>,
           \A r \in res.rows : WasInScope(t, res.from, r),
           stage[t] \notin Ended
    PROVE  TurnInv(t)'
<1> TurnTypeOK
    BY DEF TypeOK
<1>1. \A s, r : WasInScope(t, s, r) => WasInScope(t, s, r)'
    BY ScopeGrows
<1>2. stage'[t] = IF Rescues(t, res) THEN "rescue" ELSE "settled"
    BY DEF Conclude, Goto, TurnTypeOK
<1>3. result'[t] = IF KeepsFirst(t, res) THEN result[t] ELSE res
    BY DEF Conclude, TurnTypeOK
<1>4. job'[t].hits = {}
    BY DEF Conclude, Work, Blank, TurnTypeOK
<1>5. AnswerSeen(t)'
    <2>1. (\A r \in result[t].rows : WasInScope(t, result[t].from, r))'
        <3>1. CASE result'[t] = res
            BY <1>1, <3>1
        <3>2. CASE result'[t] = result[t]
            BY <1>1, <3>2 DEF TurnInv, AnswerSeen
        <3>3. QED
            BY <1>3, <3>1, <3>2
    <2>2. CASE Rescues(t, res)
        <3>1. result'[t].rows = {}
            BY <1>3, <2>2 DEF Rescues, IsEmpty, AnswerSeen, TurnInv
        <3>2. QED
            BY <2>1, <3>1 DEF AnswerSeen
    <2>3. CASE ~Rescues(t, res)
        BY <1>2, <2>1, <2>3 DEF AnswerSeen, Ended
    <2>4. QED
        BY <2>2, <2>3
<1>6. WindowOpen(t)' /\ ScopeSeen(t)'
    BY <1>2 DEF WindowOpen, ScopeSeen, Dispatching
<1>7. HitsSeen(t)'
    BY <1>4 DEF HitsSeen
<1>8. QED
    BY <1>5, <1>6, <1>7 DEF TurnInv

\* The verdict over the fallbacks discloses only what one of them returned.
LEMMA VerdictSeen ==
    ASSUME NEW t \in Turns, NEW hits,
           \A h \in hits : \A r \in h.rows : WasInScope(t, h.source, r),
           NEW verdict \in Verdict(t, hits)
    PROVE  \A r \in verdict.rows : WasInScope(t, verdict.from, r)
<1>1. CASE verdict = RowsOf({}, job[t].primary)
    BY <1>1 DEF RowsOf
<1>2. CASE \E h \in hits : verdict = RowsOf(h.rows, h.source)
    BY <1>2 DEF RowsOf
<1>3. CASE \E ss : verdict = ChoiceOf(ss)
    BY <1>3 DEF ChoiceOf, NoResult
<1>4. QED
    BY <1>1, <1>2, <1>3 DEF Verdict

\* Taking in the rows of a source that were in scope by that source's mode.
LEMMA AbsorbInv ==
    ASSUME TypeOK, NEW t \in Turns, TurnInv(t), NEW s \in Sources, NEW res \in Result,
           Absorb(t, s, res), UNCHANGED <<governanceVars, request, witness>>,
           \A r \in res.rows : WasInScope(t, s, r) /\ res.from = s,
           stage[t] \in Dispatching
    PROVE  TurnInv(t)'
<1> DEFINE hits == IF res.kind = "rows" /\ res.rows # {}
                     THEN job[t].hits \cup {[source |-> s, rows |-> res.rows]}
                     ELSE job[t].hits
           rest == job[t].pending \ {s}
<1> TurnTypeOK
    BY DEF TypeOK
<1>1. \A h \in hits : \A r \in h.rows : WasInScope(t, h.source, r)
    BY DEF TurnInv, HitsSeen
<1>2. hits \in SUBSET Hit
    BY DEF TurnTypeOK, Job, Hit, Result
<1>3. stage[t] \notin Ended
    BY DEF Dispatching, Ended
<1>4. CASE Conclude(t, res)
    BY <1>3, <1>4, ConcludeInv
<1>5. CASE \E verdict \in Verdict(t, hits) : Conclude(t, verdict)
    <2> HIDE DEF hits
    <2>1. PICK verdict \in Verdict(t, hits) : Conclude(t, verdict)
        BY <1>5
    <2>2. verdict \in Result
        BY <1>2, VerdictTyped
    <2>3. \A r \in verdict.rows : WasInScope(t, verdict.from, r)
        BY <1>1, VerdictSeen
    <2>4. QED
        BY <1>3, <2>1, <2>2, <2>3, ConcludeInv
<1>6. CASE /\ \/ Work(t, [job[t] EXCEPT !.pending = rest, !.primary = s,
                                        !.at = NoSource, !.scoped = {}])
              \/ Work(t, [job[t] EXCEPT !.pending = rest, !.hits = hits,
                                        !.at = NoSource, !.scoped = {}])
           /\ Goto(t, "gate")
           /\ UNCHANGED result
    <2>1. job'[t].hits \in {hits, job[t].hits}
        <3> HIDE DEF hits, rest
        <3>1. job[t] \in Job
            BY DEF TurnTypeOK
        <3>2. [job[t] EXCEPT !.pending = rest, !.primary = s,
                             !.at = NoSource, !.scoped = {}].hits = job[t].hits
            BY <3>1 DEF Job
        <3>3. [job[t] EXCEPT !.pending = rest, !.hits = hits,
                             !.at = NoSource, !.scoped = {}].hits = hits
            BY <3>1 DEF Job
        <3>4. QED
            BY <1>6, <3>2, <3>3 DEF Work, TurnTypeOK
    <2>2. \A h \in job'[t].hits : \A r \in h.rows : WasInScope(t, h.source, r)
        BY <1>1, <2>1 DEF TurnInv, HitsSeen
    <2>3. stage'[t] = "gate"
        BY <1>6 DEF Goto, TurnTypeOK
    <2>4. \A x, r : WasInScope(t, x, r) => WasInScope(t, x, r)'
        BY ScopeGrows
    <2>5. HitsSeen(t)'
        BY <2>2, <2>3, <2>4 DEF HitsSeen, Dispatching
    <2>6. AnswerSeen(t)'
        BY <1>3, <1>6, <2>3, <2>4 DEF TurnInv, AnswerSeen, Ended
    <2>7. WindowOpen(t)'
        BY SameView DEF TurnInv, WindowOpen
    <2>8. QED
        BY <2>3, <2>5, <2>6, <2>7 DEF TurnInv, ScopeSeen
<1>7. QED
    BY <1>4, <1>5, <1>6 DEF Absorb

\* Outside a dispatch, a turn without rows has nothing to answer for.
LEMMA NoRowsInv ==
    ASSUME NEW t \in Turns, stage'[t] \notin Dispatching,
           job'[t].hits = {}, result'[t].rows = {}
    PROVE  TurnInv(t)'
BY DEF TurnInv, WindowOpen, ScopeSeen, HitsSeen, AnswerSeen, Dispatching

\* The results of a turn that found nothing hold no rows.
LEMMA RowlessResults ==
    /\ NoResult.rows = {} /\ ErrorResult.rows = {} /\ Guidance.rows = {}
BY DEF NoResult, ErrorResult, Guidance

\* Planning, authorization and the rescue hold no rows.
LEMMA BeforeDispatchInv ==
    ASSUME TypeOK, NEW t \in Turns, TurnInv(t),
           \/ \E c \in Authenticated, conv \in Conversations \cup {NoConversation} :
                 Open(t, c, conv)
           \/ Route(t) \/ LoadContext(t)
           \/ \E p \in PlanPool : SubmitPlan(t, p) \/ ModelSelects(t, p)
           \/ ModelRejected(t) \/ ModelDeclines(t)
           \/ Validate(t) \/ ReadCatalog(t) \/ Authorize(t) \/ Rescue(t)
    PROVE  TurnInv(t)'
<1> USE DEF TurnTypeOK, Goto, SettleWith
<1> TurnTypeOK
    BY DEF TypeOK
<1>1. stage[t] \notin Dispatching \cup Ended
    BY DEF Open, Route, LoadContext, SubmitPlan, ModelSelects, ModelRejected,
           ModelDeclines, Validate, ReadCatalog, Authorize, Rescue, Dispatching, Ended
<1>2. job[t].hits = {} /\ result[t].rows = {} /\ job[t] \in Job
    BY <1>1 DEF TurnInv, HitsSeen, AnswerSeen
<1>3. stage'[t] \notin Dispatching
    <2>1. CASE \/ \E c \in Authenticated, conv \in Conversations \cup {NoConversation} :
                     Open(t, c, conv)
               \/ Route(t) \/ LoadContext(t)
               \/ \E p \in PlanPool : SubmitPlan(t, p) \/ ModelSelects(t, p)
        BY <2>1 DEF Open, Route, LoadContext, SubmitPlan, ModelSelects, Dispatching
    <2>2. CASE ModelRejected(t) \/ ModelDeclines(t)
        BY <1>1, <2>2 DEF ModelRejected, ModelDeclines, Dispatching
    <2>3. CASE Validate(t) \/ ReadCatalog(t) \/ Authorize(t) \/ Rescue(t)
        BY <2>3 DEF Validate, ReadCatalog, Authorize, Rescue, Dispatching
    <2>4. QED
        BY <2>1, <2>2, <2>3
<1>4. result'[t].rows = {}
    <2>1. result'[t] \in {result[t], ErrorResult, Guidance}
        BY DEF Open, Route, LoadContext, SubmitPlan, ModelSelects, ModelRejected,
               ModelDeclines, Validate, ReadCatalog, Authorize, Rescue
    <2>2. QED
        BY <1>2, <2>1, RowlessResults
<1>5. job'[t].hits = {}
    <2>1. \A n : [job[t] EXCEPT !.attempt = n].hits = {}
        BY <1>2 DEF Job
    <2>2. [job[t] EXCEPT !.retried = TRUE].hits = {}
        BY <1>2 DEF Job
    <2>3. CASE ModelRejected(t) \/ \E p \in PlanPool : ModelSelects(t, p)
        BY <1>2, <2>1, <2>3 DEF ModelRejected, ModelSelects, Work
    <2>4. CASE Rescue(t)
        BY <1>2, <2>2, <2>4 DEF Rescue, Work
    <2>5. CASE job' = job
        BY <1>2, <2>5
    <2>6. QED
        BY <2>3, <2>4, <2>5
        DEF Open, Route, LoadContext, SubmitPlan, ModelDeclines,
            Validate, ReadCatalog, Authorize
<1>6. QED
    BY <1>3, <1>4, <1>5, NoRowsInv

\* A dispatch opens its window at the scope the policy has.
LEMMA DispatchInv ==
    ASSUME TypeOK, NEW t \in Turns, TurnInv(t), Dispatch(t)
    PROVE  TurnInv(t)'
<1> TurnTypeOK
    BY DEF TypeOK
<1>1. job[t] \in Job /\ job[t].hits = {} /\ result[t].rows = {}
    BY DEF Dispatch, TurnInv, HitsSeen, AnswerSeen, Dispatching, Ended, TurnTypeOK
<1>2. CASE Conclude(t, ErrorResult)
    <2>1. stage'[t] \notin Dispatching
        BY <1>2, ConcludeFrame DEF Dispatching
    <2>2. job'[t].hits = {}
        BY <1>2 DEF Conclude, Work, Blank, TurnTypeOK
    <2>3. result'[t] \in {result[t], ErrorResult}
        BY <1>2 DEF Conclude, TurnTypeOK
    <2>4. QED
        BY <1>1, <2>1, <2>2, <2>3, RowlessResults, NoRowsInv
<1>3. ASSUME NEW off, Work(t, [job[t] EXCEPT !.pending = Candidates(t, off)]),
             Goto(t, "gate"), UNCHANGED result
      PROVE  TurnInv(t)'
    <2>1. stage'[t] = "gate" /\ result'[t].rows = {}
        BY <1>1, <1>3 DEF Goto, TurnTypeOK
    <2>2. \A ss : [job[t] EXCEPT !.pending = ss].hits = {}
        BY <1>1 DEF Job
    <2>3. job'[t].hits = {}
        BY <1>3, <2>2 DEF Work, TurnTypeOK
    <2>4. /\ witness'[t].projects = VisibleProjects(ctxOf(t))
          /\ witness'[t].companies = VisibleCompanies(ctxOf(t))
        BY DEF Dispatch, OpenWindow, TurnTypeOK
    <2>5. WindowOpen(t)'
        BY <2>4, SameView DEF Dispatch, WindowOpen
    <2>6. QED
        BY <2>1, <2>3, <2>5 DEF TurnInv, ScopeSeen, HitsSeen, AnswerSeen
<1>4. QED
    BY <1>2, <1>3 DEF Dispatch

\* Inside a dispatch, moving on with the rows in hand keeps them in scope.
LEMMA MovesOn ==
    ASSUME TypeOK, NEW t \in Turns, TurnInv(t), stage[t] \in Dispatching,
           UNCHANGED <<governanceVars, request, witness, result>>,
           stage'[t] \in Dispatching, job'[t].hits = job[t].hits
    PROVE  WindowOpen(t)' /\ HitsSeen(t)' /\ AnswerSeen(t)'
<1>1. \A s, r : WasInScope(t, s, r) => WasInScope(t, s, r)'
    BY ScopeGrows
<1>2. WindowOpen(t)'
    BY SameView DEF TurnInv, WindowOpen
<1>3. HitsSeen(t)'
    BY <1>1 DEF TurnInv, HitsSeen
<1>4. AnswerSeen(t)'
    BY <1>1 DEF TurnInv, AnswerSeen, Dispatching, Ended
<1>5. QED
    BY <1>2, <1>3, <1>4

\* The gate lets a source be asked, or ends its part with an error.
LEMMA GateInv ==
    ASSUME TypeOK, NEW t \in Turns, TurnInv(t), Gate(t)
    PROVE  TurnInv(t)'
<1> TurnTypeOK
    BY DEF TypeOK
<1>1. stage[t] \in Dispatching
    BY DEF Gate, Dispatching
<1>2. PICK s \in job[t].pending :
         \/ /\ Work(t, [job[t] EXCEPT !.at = s])
            /\ Goto(t, "scope")
            /\ UNCHANGED result
         \/ Absorb(t, s, ErrorResult)
    BY DEF Gate
<1>3. s \in Sources /\ job[t] \in Job
    BY DEF TurnTypeOK, Job
<1>4. CASE Absorb(t, s, ErrorResult)
    BY <1>1, <1>3, <1>4, AbsorbInv, ResultsTyped, RowlessResults DEF Gate
<1>5. CASE /\ Work(t, [job[t] EXCEPT !.at = s])
           /\ Goto(t, "scope")
           /\ UNCHANGED result
    <2>1. [job[t] EXCEPT !.at = s].hits = job[t].hits
        BY <1>3 DEF Job
    <2>2. job'[t].hits = job[t].hits /\ stage'[t] = "scope"
        BY <1>5, <2>1 DEF Work, Goto, TurnTypeOK
    <2>3. QED
        BY <1>1, <1>5, <2>2, MovesOn DEF Gate, TurnInv, ScopeSeen, Dispatching
<1>6. QED
    BY <1>2, <1>4, <1>5

\* The scope a turn reads is one its window has seen.
LEMMA ReadScopeInv ==
    ASSUME TypeOK, AskedSource, NEW t \in Turns, TurnInv(t), ReadScope(t)
    PROVE  TurnInv(t)'
<1> DEFINE scoped == ScopeRows(ctxOf(t), Mode(t, job[t].at))
<1> TurnTypeOK
    BY DEF TypeOK
<1>1. stage[t] \in Dispatching /\ job[t].at \in Sources /\ job[t] \in Job
    BY DEF ReadScope, Dispatching, AskedSource, TurnTypeOK
<1>2. CASE Absorb(t, job[t].at, RowsOf({}, job[t].at))
    <2>1. RowsOf({}, job[t].at) \in Result /\ RowsOf({}, job[t].at).rows = {}
        BY <1>1, ResultsTyped DEF RowsOf
    <2>2. QED
        BY <1>1, <1>2, <2>1, AbsorbInv DEF ReadScope
<1>3. CASE /\ Work(t, [job[t] EXCEPT !.scoped = scoped])
           /\ Goto(t, "fetch")
           /\ UNCHANGED result
    <2>1. \A r \in scoped : WasInScope(t, job[t].at, r)
        BY <1>1 DEF ScopeRows, WasInScope, TurnInv, WindowOpen
    <2> HIDE DEF scoped
    <2>2. /\ [job[t] EXCEPT !.scoped = scoped].hits = job[t].hits
          /\ [job[t] EXCEPT !.scoped = scoped].scoped = scoped
          /\ [job[t] EXCEPT !.scoped = scoped].at = job[t].at
        BY <1>1 DEF Job
    <2>3. /\ job'[t].hits = job[t].hits
          /\ job'[t].scoped = scoped
          /\ job'[t].at = job[t].at
          /\ stage'[t] = "fetch"
        BY <1>3, <2>2 DEF Work, Goto, TurnTypeOK
    <2>4. \A s, r : WasInScope(t, s, r) => WasInScope(t, s, r)'
        BY ScopeGrows DEF ReadScope
    <2>5. ScopeSeen(t)'
        BY <2>1, <2>3, <2>4 DEF ScopeSeen
    <2>6. QED
        BY <1>1, <1>3, <2>3, <2>5, MovesOn DEF ReadScope, TurnInv, Dispatching
<1>4. QED
    BY <1>2, <1>3 DEF ReadScope

\* The rows kept of a page are within the scope that was read.
LEMMA FetchInv ==
    ASSUME TypeOK, AskedSource, NEW t \in Turns, TurnInv(t), Fetch(t)
    PROVE  TurnInv(t)'
<1> TurnTypeOK
    BY DEF TypeOK
<1>1. stage[t] = "fetch" /\ job[t].at \in Sources /\ job[t] \in Job
    BY DEF Fetch, AskedSource, TurnTypeOK
<1>2. CASE Absorb(t, job[t].at, ErrorResult)
    BY <1>1, <1>2, AbsorbInv, ResultsTyped, RowlessResults DEF Fetch, Dispatching
<1>3. ASSUME NEW page, Absorb(t, job[t].at, RowsOf(Fetched(t, page), job[t].at))
      PROVE  TurnInv(t)'
    <2> DEFINE res == RowsOf(Fetched(t, page), job[t].at)
    <2>1. Fetched(t, page) \in SUBSET Rows
        BY <1>1 DEF Fetched, Job
    <2>2. res \in Result
        BY <1>1, <2>1, ResultsTyped
    <2>3. \A r \in res.rows : WasInScope(t, job[t].at, r) /\ res.from = job[t].at
        BY <1>1 DEF RowsOf, Fetched, TurnInv, ScopeSeen
    <2> HIDE DEF res
    <2>4. Absorb(t, job[t].at, res)
        BY <1>3 DEF res
    <2>5. QED
        BY <1>1, <2>2, <2>3, <2>4, AbsorbInv DEF Fetch, Dispatching
<1>4. QED
    BY <1>2, <1>3 DEF Fetch

\* What follows a dispatch leaves its answer as it is.
LEMMA AfterDispatchInv ==
    ASSUME TypeOK, NEW t \in Turns, TurnInv(t),
           \/ RecordContext(t) \/ RecordRun(t) \/ Audit(t)
           \/ DatabaseError(t) \/ Drop(t)
    PROVE  TurnInv(t)'
<1> USE DEF TurnTypeOK, RecordContext, RecordRun, Audit, DatabaseError, Drop, Goto
<1> TurnTypeOK
    BY DEF TypeOK
<1>1. \A s, r : WasInScope(t, s, r) => WasInScope(t, s, r)'
    BY ScopeGrows
<1>2. stage'[t] \in Ended
    BY DEF Ended
<1>3. AnswerSeen(t)'
    BY <1>1, <1>2 DEF TurnInv, AnswerSeen
<1>4. job'[t].hits = {}
    <2>1. Work(t, Blank) => job'[t].hits = {}
        BY DEF Work, Blank
    <2>2. job' = job /\ stage[t] \notin Dispatching => job'[t].hits = {}
        BY DEF TurnInv, HitsSeen
    <2>3. QED
        BY <2>1, <2>2 DEF Dispatching
<1>5. QED
    BY <1>2, <1>3, <1>4
    DEF TurnInv, WindowOpen, ScopeSeen, HitsSeen, Dispatching, Ended

\* Every step keeps rows in hand and rows answered within the scope seen.
LEMMA ScopeInvStep == TypeOK /\ AskedSource /\ ScopeInv /\ [Next]_vars => ScopeInv'
<1> SUFFICES ASSUME TypeOK, AskedSource, ScopeInv, [Next]_vars, NEW u \in Turns
             PROVE  TurnInv(u)'
    BY DEF ScopeInv
<1> TurnInv(u)
    BY DEF ScopeInv
<1>1. CASE Administer
    BY <1>1, AdministerInv
<1>2. CASE UNCHANGED vars
    BY <1>2, StillInv DEF vars, turnVars, Still
<1>3. ASSUME NEW t \in Turns, TurnStep(t), t # u
      PROVE  TurnInv(u)'
    BY <1>3, TurnFrame, StillInv
<1>4. CASE TurnStep(u)
    BY <1>4, BeforeDispatchInv, DispatchInv, GateInv, ReadScopeInv, FetchInv,
       AfterDispatchInv
    DEF TurnStep, Proceed
<1>5. QED
    BY <1>1, <1>2, <1>3, <1>4 DEF Next, TurnStep, Finished

\* Through the primary, a fallback or the rescue, and whatever administrators
\* commit meanwhile, a turn answers only with rows that were in its requester's
\* record scope at some moment since the dispatch opened.
THEOREM NoDisclosureOutOfScope == Spec => []DisclosedRowsWereInScope
<1>1. Init => TypeOK /\ AskedSource /\ ScopeInv
    <2>1. Init => ScopeInv
        BY RowlessResults
        DEF Init, ScopeInv, TurnInv, WindowOpen, ScopeSeen, HitsSeen, AnswerSeen,
            Dispatching, Ended, Blank
    <2>2. QED
        BY <2>1, InitTyped DEF Init, AskedSource
<1>2. TypeOK /\ AskedSource /\ ScopeInv /\ [Next]_vars => (TypeOK /\ AskedSource /\ ScopeInv)'
    BY StepTyped, AskedSourceStep, ScopeInvStep
<1>3. ScopeInv => DisclosedRowsWereInScope
    BY DEF ScopeInv, TurnInv, AnswerSeen, DisclosedRowsWereInScope
<1>4. QED
    BY <1>1, <1>2, <1>3, PTL DEF Spec
=============================================================================
