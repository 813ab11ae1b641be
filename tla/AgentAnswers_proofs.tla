------------------------ MODULE AgentAnswers_proofs ------------------------
(***************************************************************************)
(* What a query turn answers with and leaves behind, for every value of    *)
(* the constants: rows of one source that was asked for them, matched by   *)
(* the plan's filters, with the gated cells granted; choices of at least   *)
(* two sources; and memories of such answers only.                         *)
(*                                                                         *)
(* The invariant follows a row from the source that holds it to the        *)
(* answer: a source is Askable when it is queued, its rows are Backed when *)
(* the gateway has cut them, and nothing joins an answer on another way.   *)
(***************************************************************************)
EXTENDS AgentTurn_proofs, FiniteSetTheorems

\* Stages at which a turn has a plan it may still carry out
Planned == {"planned", "valid", "cataloged", "authorized", "gate", "scope", "fetch", "rescue"}

Pinned(t) == planOf(t).pin # NoSource /\ ByConnector(t)

\* Source s was connected at some moment since the plan was authorized, unless a
\* read of the disconnected ones may fail
Connected(t, s) == (~BusyReads /\ planOf(t).domain # CrossDomain) => s \in witness[t].sources

\* Source s may be asked for rows of the plan
Askable(t, s) == (Pinned(t) => s = planOf(t).pin) /\ Connected(t, s)

\* Scoped by owner or company, the gated cells were granted at every project the
\* requester has seen since the dispatch opened
HeldGranted(t, s) ==
    Mode(t, s) \in {"by_owner", "by_company"} =>
        \A cell \in planOf(t).cells, p \in witness[t].held : <<cell, p>> \in witness[t].cells

\* The gated cells of row r of source s were granted: DisclosedCellsWereGranted of one row
CellsGranted(t, s, r) ==
    /\ \A cell \in planOf(t).cells :
        /\ Mode(t, s) = "none" => <<cell, AnyProject>> \in witness[t].cells
        /\ (Mode(t, s) = "by_governed_code" /\ RowProject[r] \notin witness[t].joined)
             => \E p \in {RowProject[r], AnyProject} : <<cell, p>> \in witness[t].cells
    /\ HeldGranted(t, s)

\* Row r may be answered as one of source s
Backed(t, s, r) ==
    /\ Askable(t, s)
    /\ r \in SourceRows[s]
    /\ ~planOf(t).lone => r \in planOf(t).matches
    /\ CellsGranted(t, s, r)

Neutral(res) == res.rows = {} /\ res.choice = {} /\ res.kind # "choice"

SoundAnswer(t, res) ==
    /\ \A r \in res.rows : Backed(t, res.from, r)
    /\ res.kind = "choice" => res.rows = {} /\ Cardinality(res.choice) > 1
    /\ \A s \in res.choice : Askable(t, s) /\ ~Pinned(t)

-----------------------------------------------------------------------------
(* The inductive invariant, of one turn. *)

PlanHeld(t) == stage[t] \in Planned => planOf(t) \in PlanPool

\* Only the rescue widens a plan, and only a lone one
Widening(t) ==
    /\ job[t].retried =>
          /\ planOf(t).lone
          /\ stage[t] \in {"authorized", "gate", "scope", "fetch", "settled"}
    /\ stage[t] = "rescue" => planOf(t).lone

\* The window has seen what is connected, and granted, now
SourcesSeen(t) ==
    stage[t] \in Watched =>
        /\ Sources \ disabled \subseteq witness[t].sources
        /\ ~ByConnector(t) => Connected(t, Local)

CellsSeen(t) ==
    stage[t] \in Dispatching =>
        /\ GrantedCells(t) \subseteq witness[t].cells
        /\ witness[t].held \subseteq VisibleProjects(ctxOf(t))

\* The sources still to be asked, and those that have answered
Queue(t) ==
    stage[t] \in Dispatching =>
        /\ \A s \in job[t].pending : Askable(t, s)
        /\ Pinned(t) => job[t].primary = NoSource
        /\ stage[t] \in {"scope", "fetch"} => job[t].at \in job[t].pending
        /\ \A h \in job[t].hits : h.source \notin job[t].pending

\* Rows in hand, at most one set of them for a source
HitsBacked(t) ==
    /\ IsFiniteSet(job[t].hits)
    /\ \A h, k \in job[t].hits : h.source = k.source => h = k
    /\ \A h \in job[t].hits : Askable(t, h.source) /\ \A r \in h.rows : Backed(t, h.source, r)
    /\ stage[t] \notin Dispatching => job[t].hits = {} /\ job[t].primary = NoSource

\* Past the gate, what a scope shows has its cells granted; so has what it showed
GatePassed(t) ==
    /\ stage[t] \in {"scope", "fetch"} => HeldGranted(t, job[t].at)
    /\ stage[t] = "scope" =>
          \A r \in ScopeRows(ctxOf(t), Mode(t, job[t].at)) : CellsGranted(t, job[t].at, r)
    /\ stage[t] = "fetch" => \A r \in job[t].scoped : CellsGranted(t, job[t].at, r)

AnswerSound(t) ==
    /\ SoundAnswer(t, result[t])
    /\ stage[t] \notin Ended => Neutral(result[t])

AnswerInv(t) ==
    /\ PlanHeld(t) /\ Widening(t) /\ SourcesSeen(t) /\ CellsSeen(t)
    /\ Queue(t) /\ HitsBacked(t) /\ GatePassed(t) /\ AnswerSound(t)

AnswersInv == \A t \in Turns : AnswerInv(t)

-----------------------------------------------------------------------------
(* What holds of a row goes on to hold while the request stands. *)

WindowGrows(t) ==
    /\ request'[t] = request[t]
    /\ witness[t].cells \subseteq witness'[t].cells
    /\ witness[t].joined \subseteq witness'[t].joined
    /\ witness'[t].held \subseteq witness[t].held
    /\ witness[t].sources \subseteq witness'[t].sources

\* A row that is backed stays so while the request stands and its window grows.
LEMMA BackedGrows ==
    ASSUME NEW t \in Turns, WindowGrows(t)
    PROVE  /\ \A s : Askable(t, s) => Askable(t, s)'
           /\ \A s : HeldGranted(t, s) => HeldGranted(t, s)'
           /\ \A s, r : CellsGranted(t, s, r) => CellsGranted(t, s, r)'
           /\ \A s, r : Backed(t, s, r) => Backed(t, s, r)'
<1> USE DEF WindowGrows, Mode, ByConnector, ctxOf, planOf
<1>1. \A s : Askable(t, s) => Askable(t, s)'
  BY DEF Askable, Pinned, Connected
<1>a. \A s : HeldGranted(t, s) => HeldGranted(t, s)'
  BY DEF HeldGranted
<1>2. \A s, r : CellsGranted(t, s, r) => CellsGranted(t, s, r)'
  BY <1>a DEF CellsGranted
<1>3. \A s, r : Backed(t, s, r) => Backed(t, s, r)'
  <2> SUFFICES ASSUME NEW s, NEW r, Backed(t, s, r) PROVE Backed(t, s, r)'
    OBVIOUS
  <2> HIDE DEF Mode, ByConnector
  <2> QED BY <1>1, <1>2 DEF Backed
<1> QED BY <1>a, <1>1, <1>2, <1>3

\* An answer that is sound stays so.
LEMMA SoundGrows ==
    ASSUME NEW t \in Turns, WindowGrows(t), NEW res, SoundAnswer(t, res), result'[t] = res
    PROVE  SoundAnswer(t, result[t])'
<1>1. Pinned(t)' = Pinned(t)
  BY DEF WindowGrows, Pinned, ByConnector, planOf
<1> QED BY <1>1, BackedGrows DEF SoundAnswer

\* A result that holds nothing is a sound answer of any turn.
LEMMA NeutralIsSound == \A t, res : Neutral(res) => SoundAnswer(t, res)
BY DEF Neutral, SoundAnswer

\* The results of a turn that found nothing.
LEMMA NeutralResults ==
    /\ Neutral(NoResult) /\ Neutral(ErrorResult) /\ Neutral(Guidance)
    /\ \A s : Neutral(RowsOf({}, s))
BY DEF Neutral, NoResult, ErrorResult, Guidance, RowsOf

\* What the policy shows a turn is the same while governance and request stand.
LEMMA SamePolicy ==
    ASSUME NEW t \in Turns, UNCHANGED governanceVars, request'[t] = request[t]
    PROVE  /\ GrantedCells(t)' = GrantedCells(t)
           /\ VisibleProjects(ctxOf(t))' = VisibleProjects(ctxOf(t))
           /\ \A s : ScopeRows(ctxOf(t), Mode(t, s))' = ScopeRows(ctxOf(t), Mode(t, s))
           /\ disabled' = disabled
           /\ ByConnector(t)' = ByConnector(t) /\ planOf(t)' = planOf(t) /\ Pinned(t)' = Pinned(t)
<1>1. UNCHANGED <<membership, grants, disabled>> /\ ctxOf(t)' = ctxOf(t) /\ planOf(t)' = planOf(t)
  BY DEF governanceVars, scopeVars, ctxOf, planOf
<1>2. GrantedCells(t)' = GrantedCells(t)
  BY <1>1 DEF GrantedCells, Granted, Holders
<1>3. ByConnector(t)' = ByConnector(t)
  BY <1>1 DEF ByConnector
<1>4. Pinned(t)' = Pinned(t)
  BY <1>1, <1>3 DEF Pinned
<1>5. \A s : Mode(t, s)' = Mode(t, s)
  BY <1>1, <1>3 DEF Mode
<1>6. ASSUME NEW s
      PROVE  ScopeRows(ctxOf(t), Mode(t, s))' = ScopeRows(ctxOf(t), Mode(t, s))
  BY <1>1, <1>5, SameView DEF ScopeRows
<1> QED BY <1>1, <1>2, <1>3, <1>4, <1>6, SameView

\* A turn that stands still keeps its invariant while governance does.
LEMMA StillAnswers ==
    ASSUME NEW t \in Turns, AnswerInv(t), Still(t), UNCHANGED governanceVars
    PROVE  AnswerInv(t)'
<1> USE DEF Still
<1>1. WindowGrows(t)
  BY DEF WindowGrows
<1>2. PlanHeld(t)' /\ Widening(t)' /\ SourcesSeen(t)' /\ CellsSeen(t)'
  BY <1>1, SamePolicy, BackedGrows
  DEF AnswerInv, PlanHeld, Widening, SourcesSeen, CellsSeen, Askable, Connected
<1>3. Queue(t)' /\ HitsBacked(t)'
  BY <1>1, SamePolicy, BackedGrows DEF AnswerInv, Queue, HitsBacked
<1>4. GatePassed(t)'
  BY <1>1, SamePolicy, BackedGrows DEF AnswerInv, GatePassed
<1>5. AnswerSound(t)'
  BY <1>1, SoundGrows DEF AnswerInv, AnswerSound, Neutral
<1> QED BY <1>2, <1>3, <1>4, <1>5 DEF AnswerInv

\* A row that a commit puts into the scope is one of a project that joins, or
\* the gate has seen its cells granted.
LEMMA CommitKeepsGate ==
    ASSUME TypeOK, NEW t \in Turns, AnswerInv(t), Administer, stage[t] = "scope"
    PROVE  GatePassed(t)'
<1> PICK s : s = job[t].at
  OBVIOUS
<1>1. witness'[t] = Watch(t) /\ UNCHANGED <<stage, request, job>>
  BY DEF Administer, Watched
<1>2. WindowGrows(t)
  BY <1>1 DEF WindowGrows, Watch
<1>3. /\ ctxOf(t)' = ctxOf(t) /\ planOf(t)' = planOf(t) /\ Mode(t, s)' = Mode(t, s)
  BY <1>1 DEF ctxOf, planOf, Mode, ByConnector
<1>4. ASSUME NEW r \in Rows, r \in ScopeRows(ctxOf(t), Mode(t, s))'
      PROVE  CellsGranted(t, s, r)'
  <2>a. HeldGranted(t, s)'
    BY <1>2, BackedGrows DEF AnswerInv, GatePassed
  <2>1. CASE r \in ScopeRows(ctxOf(t), Mode(t, s))
    BY <1>2, <2>1, BackedGrows DEF AnswerInv, GatePassed
  <2>2. CASE /\ r \notin ScopeRows(ctxOf(t), Mode(t, s))
             /\ Mode(t, s) = "by_governed_code"
    <3>1. RowProject[r] \in VisibleProjects(ctxOf(t))' \ VisibleProjects(ctxOf(t))
      BY <1>3, <1>4, <2>2 DEF ScopeRows
    <3>2. RowProject[r] \in witness'[t].joined
      BY <1>1, <3>1 DEF Watch
    <3> QED BY <1>3, <2>a, <2>2, <3>2 DEF CellsGranted
  <2>3. CASE /\ r \notin ScopeRows(ctxOf(t), Mode(t, s))
             /\ Mode(t, s) # "by_governed_code"
    <3>1. Mode(t, s) # "none"
      BY <2>3 DEF ScopeRows
    <3> QED BY <1>3, <2>a, <2>3, <3>1 DEF CellsGranted
  <2> QED BY <2>1, <2>2, <2>3
<1>5. HeldGranted(t, s)'
  BY <1>2, BackedGrows DEF AnswerInv, GatePassed
<1> QED BY <1>1, <1>4, <1>5 DEF GatePassed, ScopeRows

\* A commit is seen by every open window, which only grows.
LEMMA AdministerAnswers ==
    ASSUME TypeOK, NEW t \in Turns, AnswerInv(t), Administer
    PROVE  AnswerInv(t)'
<1>1. UNCHANGED <<stage, request, job, result>>
  BY DEF Administer
<1>2. planOf(t)' = planOf(t) /\ ByConnector(t)' = ByConnector(t) /\ Pinned(t)' = Pinned(t)
  BY <1>1 DEF planOf, ByConnector, Pinned
<1>3. witness'[t] = IF stage[t] \in Watched THEN Watch(t) ELSE witness[t]
  BY DEF Administer
<1>4. WindowGrows(t)
  BY <1>1, <1>3 DEF WindowGrows, Watch
<1>5. PlanHeld(t)' /\ Widening(t)'
  BY <1>1, <1>2 DEF AnswerInv, PlanHeld, Widening
<1>6. SourcesSeen(t)'
  <2>1. Connected(t, Local) => Connected(t, Local)'
    BY <1>2, <1>4 DEF Connected, WindowGrows
  <2> QED BY <1>1, <1>2, <1>3, <2>1 DEF AnswerInv, SourcesSeen, Watch
<1>7. CellsSeen(t)'
  BY <1>1, <1>3 DEF CellsSeen, Watch, Watched, Dispatching
<1>8. Queue(t)' /\ HitsBacked(t)'
  BY <1>1, <1>2, <1>4, BackedGrows DEF AnswerInv, Queue, HitsBacked
<1>9. GatePassed(t)'
  <2>1. CASE stage[t] = "scope"
    BY <2>1, CommitKeepsGate
  <2>2. CASE stage[t] # "scope"
    BY <1>1, <1>4, <2>2, BackedGrows DEF AnswerInv, GatePassed
  <2> QED BY <2>1, <2>2
<1>10. AnswerSound(t)'
  BY <1>1, <1>4, SoundGrows DEF AnswerInv, AnswerSound, Neutral
<1> QED BY <1>5, <1>6, <1>7, <1>8, <1>9, <1>10 DEF AnswerInv

-----------------------------------------------------------------------------
(* Before and after a dispatch. *)

\* Outside a dispatch there is no queue, and there are no hits.
LEMMA OutsideDispatch ==
    ASSUME NEW t \in Turns, stage'[t] \notin Dispatching, job'[t].hits = {},
           job'[t].primary = NoSource, PlanHeld(t)', Widening(t)', SourcesSeen(t)', AnswerSound(t)'
    PROVE  AnswerInv(t)'
<1>1. IsFiniteSet({})
  BY FS_EmptySet
<1>2. CellsSeen(t)' /\ Queue(t)' /\ GatePassed(t)'
  BY DEF CellsSeen, Queue, GatePassed, Dispatching
<1>3. HitsBacked(t)'
  BY <1>1 DEF HitsBacked
<1> QED BY <1>2, <1>3 DEF AnswerInv

\* The window follows the sources from the authorization's catalog on, when what
\* the plan would be dispatched to was connected.
LEMMA CatalogSeen ==
    ASSUME TypeOK, NEW t \in Turns, ReadCatalog(t)
    PROVE  SourcesSeen(t)'
<1> TurnTypeOK
  BY DEF TypeOK
<1>1. stage[t] = "valid" /\ UNCHANGED <<disabled, request>>
  BY DEF ReadCatalog, governanceVars
<1>2. PICK off \in DisabledViews :
          \/ /\ planOf(t).domain \in LiveDomains(request[t].routes, off)
             /\ Goto(t, "cataloged")
             /\ witness' = [witness EXCEPT ![t].sources = Sources \ disabled]
          \/ SettleWith(t, ErrorResult)
  BY DEF ReadCatalog
<1>3. CASE SettleWith(t, ErrorResult)
  BY <1>3 DEF SettleWith, Goto, TurnTypeOK, SourcesSeen, Watched
<1>4. CASE /\ planOf(t).domain \in LiveDomains(request[t].routes, off)
           /\ witness' = [witness EXCEPT ![t].sources = Sources \ disabled]
  <2>1. witness'[t].sources = Sources \ disabled
    BY <1>4 DEF TurnTypeOK, Witness
  <2>2. ~BusyReads => off = disabled
    BY DEF DisabledViews
  <2>3. ASSUME ~ByConnector(t), ~BusyReads, planOf(t).domain # CrossDomain
        PROVE  Local \notin disabled
    <3>1. PICK s \in Sources \ disabled : Leads(s, SourcesFor(request[t].routes, planOf(t).domain))
      BY <1>4, <2>2, <2>3 DEF LiveDomains
    <3>2. s \in SourcesFor(request[t].routes, planOf(t).domain)
      BY <3>1 DEF Leads
    <3>3. s = Local
      BY <2>3, <3>2 DEF SourcesFor, ByConnector, ConnectorDomains
    <3> QED BY <3>1, <3>3
  <2>4. ByConnector(t)' = ByConnector(t) /\ planOf(t)' = planOf(t)
    BY <1>1 DEF ByConnector, planOf
  <2>5. ~ByConnector(t) => Connected(t, Local)'
    BY <2>1, <2>3, <2>4, TurnAssumption DEF Connected
  <2> QED BY <1>1, <2>1, <2>4, <2>5 DEF SourcesSeen
<1> QED BY <1>2, <1>3, <1>4

\* Planning, authorization and the rescue hold no rows.
LEMMA BeforeDispatchAnswers ==
    ASSUME TypeOK, NEW t \in Turns, AnswerInv(t),
           \/ \E c \in Authenticated, conv \in Conversations \cup {NoConversation} :
                 Open(t, c, conv)
           \/ Route(t) \/ LoadContext(t)
           \/ \E p \in PlanPool : SubmitPlan(t, p) \/ ModelSelects(t, p)
           \/ ModelRejected(t) \/ ModelDeclines(t)
           \/ Validate(t) \/ ReadCatalog(t) \/ Authorize(t) \/ Rescue(t)
    PROVE  AnswerInv(t)'
<1> USE DEF TurnTypeOK, Goto, SettleWith
<1> TurnTypeOK
  BY DEF TypeOK
<1>1. stage[t] \notin Dispatching \cup Ended
  BY DEF Open, Route, LoadContext, SubmitPlan, ModelSelects, ModelRejected,
         ModelDeclines, Validate, ReadCatalog, Authorize, Rescue, Dispatching, Ended
<1>2. job[t].hits = {} /\ job[t].primary = NoSource /\ Neutral(result[t]) /\ job[t] \in Job
  BY <1>1 DEF AnswerInv, HitsBacked, AnswerSound
<1>3. Neutral(result[t])'
  <2>1. result'[t] \in {result[t], ErrorResult, Guidance}
    BY DEF Open, Route, LoadContext, SubmitPlan, ModelSelects, ModelRejected,
           ModelDeclines, Validate, ReadCatalog, Authorize, Rescue
  <2> QED BY <1>2, <2>1, NeutralResults DEF Neutral
<1>4. AnswerSound(t)'
  BY <1>3, NeutralIsSound DEF AnswerSound, Neutral, SoundAnswer
<1>5. CASE \/ \E c \in Authenticated, conv \in Conversations \cup {NoConversation} :
                 Open(t, c, conv)
           \/ Route(t) \/ LoadContext(t)
  <2>1. stage'[t] \in {"admitted", "audit", "routed", "planning"}
    BY <1>5 DEF Open, Route, LoadContext
  <2>2. job' = job
    BY <1>5 DEF Open, Route, LoadContext
  <2>3. ~job[t].retried
    BY <1>5 DEF AnswerInv, Widening, Open, Route, LoadContext
  <2>4. PlanHeld(t)' /\ Widening(t)' /\ SourcesSeen(t)'
    BY <2>1, <2>2, <2>3 DEF PlanHeld, Widening, SourcesSeen, Planned, Watched
  <2> QED BY <1>2, <1>4, <2>1, <2>2, <2>4, OutsideDispatch DEF Dispatching
<1>6. ASSUME NEW p \in PlanPool, SubmitPlan(t, p) \/ ModelSelects(t, p)
      PROVE  AnswerInv(t)'
  <2>1. stage'[t] = "planned" /\ stage[t] = "planning"
    BY <1>6 DEF SubmitPlan, ModelSelects
  <2>a. job'[t].hits = {} /\ job'[t].primary = NoSource /\ job'[t].retried = job[t].retried
    <3>1. /\ [job[t] EXCEPT !.attempt = 1].hits = {}
          /\ [job[t] EXCEPT !.attempt = 1].primary = NoSource
          /\ [job[t] EXCEPT !.attempt = 1].retried = job[t].retried
      BY <1>2 DEF Job
    <3>2. job' = job \/ Work(t, [job[t] EXCEPT !.attempt = 1])
      BY <1>6 DEF SubmitPlan, ModelSelects
    <3> QED BY <1>2, <3>1, <3>2 DEF Work
  <2>2. planOf(t)' = p
    BY <1>6 DEF SubmitPlan, ModelSelects, planOf, Request
  <2>3. ~job[t].retried
    BY <2>1 DEF AnswerInv, Widening
  <2>4. PlanHeld(t)' /\ Widening(t)' /\ SourcesSeen(t)'
    BY <2>a, <2>1, <2>2, <2>3 DEF PlanHeld, Widening, SourcesSeen, Planned, Watched
  <2> QED BY <2>a, <1>4, <2>1, <2>4, OutsideDispatch DEF Dispatching
<1>7. CASE ModelRejected(t) \/ ModelDeclines(t)
  <2>1. stage[t] = "planning" /\ stage'[t] \in {"planning", "settled"}
    BY <1>7 DEF ModelRejected, ModelDeclines
  <2>2. \A n : [job[t] EXCEPT !.attempt = n].hits = {}
               /\ [job[t] EXCEPT !.attempt = n].primary = NoSource
               /\ [job[t] EXCEPT !.attempt = n].retried = job[t].retried
    BY <1>2 DEF Job
  <2>3. job'[t].hits = {} /\ job'[t].primary = NoSource /\ job'[t].retried = job[t].retried
    <3>1. job' = job \/ Work(t, [job[t] EXCEPT !.attempt = job[t].attempt + 1])
      BY <1>7 DEF ModelRejected, ModelDeclines
    <3>2. CASE job' = job
      BY <1>2, <3>2
    <3>3. CASE Work(t, [job[t] EXCEPT !.attempt = job[t].attempt + 1])
      BY <2>2, <3>3 DEF Work
    <3> QED BY <3>1, <3>2, <3>3
  <2>4. ~job[t].retried
    BY <2>1 DEF AnswerInv, Widening
  <2>5. PlanHeld(t)' /\ Widening(t)' /\ SourcesSeen(t)'
    BY <2>1, <2>3, <2>4 DEF PlanHeld, Widening, SourcesSeen, Planned, Watched
  <2> QED BY <1>4, <2>1, <2>3, <2>5, OutsideDispatch DEF Dispatching
<1>8. CASE Validate(t) \/ ReadCatalog(t) \/ Authorize(t)
  <2>1. /\ stage[t] \in {"planned", "valid", "cataloged"}
        /\ stage'[t] \in {"valid", "cataloged", "authorized", "settled"}
        /\ job' = job /\ request' = request /\ UNCHANGED governanceVars
    BY <1>8 DEF Validate, ReadCatalog, Authorize
  <2>2. ~job[t].retried
    BY <2>1 DEF AnswerInv, Widening
  <2>3. planOf(t)' = planOf(t) /\ ByConnector(t)' = ByConnector(t) /\ disabled' = disabled
    BY <2>1 DEF planOf, ByConnector, governanceVars
  <2>4. PlanHeld(t)' /\ Widening(t)'
    BY <2>1, <2>2, <2>3 DEF AnswerInv, PlanHeld, Widening, Planned
  <2>5. CASE Validate(t)
    <3>1. SourcesSeen(t)'
      BY <2>5 DEF Validate, SourcesSeen, Watched
    <3> QED BY <1>2, <1>4, <2>1, <2>4, <3>1, OutsideDispatch DEF Dispatching
  <2>6. CASE ReadCatalog(t)
    BY <1>2, <1>4, <2>1, <2>4, <2>6, CatalogSeen, OutsideDispatch DEF Dispatching
  <2>7. CASE Authorize(t)
    <3>1. stage[t] \in Watched /\ witness' = witness
      BY <2>7 DEF Authorize, Watched
    <3>2. SourcesSeen(t)'
      BY <2>3, <3>1 DEF AnswerInv, SourcesSeen, Connected
    <3> QED BY <1>2, <1>4, <2>1, <2>4, <3>2, OutsideDispatch DEF Dispatching
  <2> QED BY <1>8, <2>5, <2>6, <2>7
<1>9. CASE Rescue(t)
  <2>1. /\ stage[t] = "rescue" /\ stage'[t] \in {"authorized", "settled"}
        /\ request' = request /\ witness' = witness /\ UNCHANGED governanceVars
    BY <1>9 DEF Rescue
  <2>2. /\ [job[t] EXCEPT !.retried = TRUE].hits = {}
        /\ [job[t] EXCEPT !.retried = TRUE].primary = NoSource
    BY <1>2 DEF Job
  <2>3. job'[t].hits = {} /\ job'[t].primary = NoSource
    BY <1>2, <1>9, <2>2 DEF Rescue, Work
  <2>4. planOf(t)' = planOf(t) /\ ByConnector(t)' = ByConnector(t) /\ disabled' = disabled
    BY <2>1 DEF planOf, ByConnector, governanceVars
  <2>5. PlanHeld(t)' /\ Widening(t)'
    BY <2>1, <2>4 DEF AnswerInv, PlanHeld, Widening, Planned
  <2>6. SourcesSeen(t)'
    BY <2>1, <2>4 DEF AnswerInv, SourcesSeen, Connected, Watched
  <2> QED BY <1>4, <2>1, <2>3, <2>5, <2>6, OutsideDispatch DEF Dispatching
<1> QED BY <1>5, <1>6, <1>7, <1>8, <1>9

\* What follows a dispatch, and what breaks a turn off, leaves its answer as it is.
LEMMA AfterDispatchAnswers ==
    ASSUME TypeOK, NEW t \in Turns, AnswerInv(t),
           \/ RecordContext(t) \/ RecordRun(t) \/ Audit(t)
           \/ DatabaseError(t) \/ Drop(t)
    PROVE  AnswerInv(t)'
<1> USE DEF TurnTypeOK, RecordContext, RecordRun, Audit, DatabaseError, Drop, Goto
<1> TurnTypeOK
  BY DEF TypeOK
<1>1. stage'[t] \in {"remembered", "audit", "answered", "dropped"}
  OBVIOUS
<1>2. WindowGrows(t) /\ result' = result
  BY DEF WindowGrows
<1>3. AnswerSound(t)'
  BY <1>1, <1>2, SoundGrows DEF AnswerInv, AnswerSound, Ended
<1>4. job'[t].hits = {} /\ job'[t].primary = NoSource /\ ~job'[t].retried
  <2>1. Work(t, Blank) => job'[t].hits = {} /\ job'[t].primary = NoSource /\ ~job'[t].retried
    BY DEF Work, Blank
  <2>2. job' = job /\ stage[t] \in {"remembered", "audit"} =>
            job'[t].hits = {} /\ job'[t].primary = NoSource /\ ~job'[t].retried
    BY DEF AnswerInv, HitsBacked, Widening, Dispatching
  <2> QED BY <2>1, <2>2
<1>5. PlanHeld(t)' /\ Widening(t)' /\ SourcesSeen(t)'
  BY <1>1, <1>4 DEF PlanHeld, Widening, SourcesSeen, Planned, Watched
<1> QED BY <1>1, <1>3, <1>4, <1>5, OutsideDispatch DEF Dispatching

-----------------------------------------------------------------------------
(* The dispatch. *)

\* Concluding with a sound answer.
LEMMA ConcludeAnswers ==
    ASSUME TypeOK, NEW t \in Turns, AnswerInv(t), NEW res \in Result,
           Conclude(t, res), UNCHANGED <<governanceVars, request>>, WindowGrows(t),
           SoundAnswer(t, res), res.kind = "rows" => res.choice = {},
           stage[t] \in Dispatching \cup {"authorized"},
           witness'[t].sources = witness[t].sources
    PROVE  AnswerInv(t)'
<1> TurnTypeOK
  BY DEF TypeOK
<1>1. stage'[t] = IF Rescues(t, res) THEN "rescue" ELSE "settled"
  BY DEF Conclude, Goto, TurnTypeOK
<1>2. result'[t] = IF KeepsFirst(t, res) THEN result[t] ELSE res
  BY DEF Conclude, TurnTypeOK
<1>3. job'[t].hits = {} /\ job'[t].primary = NoSource /\ job'[t].retried = job[t].retried
  BY DEF Conclude, Work, Blank, TurnTypeOK
<1>4. planOf(t)' = planOf(t) /\ ByConnector(t)' = ByConnector(t) /\ disabled' = disabled
  BY DEF planOf, ByConnector, governanceVars
<1>5. SoundAnswer(t, result[t])'
  BY <1>2, SoundGrows DEF AnswerInv, AnswerSound
<1>6. CASE Rescues(t, res)
  <2>1. planOf(t).lone /\ ~job[t].retried /\ res.kind = "rows" /\ res.rows = {}
    BY <1>6 DEF Rescues, IsEmpty
  <2>2. result'[t] = res
    BY <1>2, <2>1 DEF KeepsFirst
  <2>3. AnswerSound(t)'
    BY <1>5, <2>1, <2>2 DEF AnswerSound, Neutral
  <2>4. PlanHeld(t)' /\ Widening(t)'
    BY <1>1, <1>3, <1>4, <1>6, <2>1
    DEF AnswerInv, PlanHeld, Widening, Planned, Dispatching
  <2>5. SourcesSeen(t)'
    BY <1>1, <1>4, <1>6 DEF AnswerInv, SourcesSeen, Connected, Watched, Dispatching
  <2> QED BY <1>1, <1>3, <1>6, <2>3, <2>4, <2>5, OutsideDispatch DEF Dispatching
<1>7. CASE ~Rescues(t, res)
  <2>1. AnswerSound(t)'
    BY <1>1, <1>5, <1>7 DEF AnswerSound, Ended
  <2>2. PlanHeld(t)' /\ Widening(t)' /\ SourcesSeen(t)'
    BY <1>1, <1>3, <1>4, <1>7
    DEF AnswerInv, PlanHeld, Widening, SourcesSeen, Planned, Watched
  <2> QED BY <1>1, <1>3, <1>7, <2>1, <2>2, OutsideDispatch DEF Dispatching
<1> QED BY <1>6, <1>7

\* Several sets of rows are rows of as many sources.
LEMMA AsManySources ==
    ASSUME NEW hits, IsFiniteSet(hits), \A h, k \in hits : h.source = k.source => h = k
    PROVE  Cardinality({h.source : h \in hits}) = Cardinality(hits)
<1> DEFINE sources == {h.source : h \in hits}
           source == [h \in hits |-> h.source]
<1>1. source \in Bijection(hits, sources)
  BY DEF Bijection, Injection, Surjection, IsInjective
<1>2. ExistsBijection(hits, sources)
  BY <1>1 DEF ExistsBijection
<1> QED BY <1>2, FS_Bijection

\* What the fallbacks' rows amount to is a sound answer.
LEMMA VerdictSound ==
    ASSUME NEW t \in Turns, NEW hits, IsFiniteSet(hits),
           \A h, k \in hits : h.source = k.source => h = k,
           \A h \in hits : Askable(t, h.source) /\ \A r \in h.rows : Backed(t, h.source, r),
           ~Pinned(t),
           NEW verdict \in Verdict(t, hits)
    PROVE  SoundAnswer(t, verdict) /\ (verdict.kind = "rows" => verdict.choice = {})
<1>1. CASE verdict = RowsOf({}, job[t].primary)
  BY <1>1, NeutralResults, NeutralIsSound DEF RowsOf
<1>2. CASE \E h \in hits : verdict = RowsOf(h.rows, h.source)
  BY <1>2 DEF RowsOf, SoundAnswer
<1>3. CASE Cardinality(hits) > 1 /\ verdict = ChoiceOf({h.source : h \in hits})
  BY <1>3, AsManySources DEF ChoiceOf, NoResult, SoundAnswer
<1> QED BY <1>1, <1>2, <1>3 DEF Verdict

\* Inside a dispatch, moving on touches the queue and the rows in hand only.
LEMMA MovesOnAnswers ==
    ASSUME NEW t \in Turns, AnswerInv(t), stage[t] \in Dispatching,
           UNCHANGED <<governanceVars, request, witness, result>>,
           stage'[t] \in Dispatching, job'[t].retried = job[t].retried
    PROVE  /\ PlanHeld(t)' /\ Widening(t)' /\ SourcesSeen(t)' /\ CellsSeen(t)' /\ AnswerSound(t)'
           /\ WindowGrows(t)
<1>1. WindowGrows(t)
  BY DEF WindowGrows
<1>2. AnswerSound(t)'
  BY <1>1, SoundGrows DEF AnswerInv, AnswerSound, Neutral, Dispatching, Ended
<1>3. PlanHeld(t)' /\ Widening(t)' /\ SourcesSeen(t)' /\ CellsSeen(t)'
  BY SamePolicy
  DEF AnswerInv, PlanHeld, Widening, SourcesSeen, CellsSeen, Connected, Planned, Watched,
      Dispatching
<1> QED BY <1>1, <1>2, <1>3

\* Taking in what a queued source returned: an error, or rows that are backed.
LEMMA AbsorbAnswers ==
    ASSUME TypeOK, NEW t \in Turns, AnswerInv(t), stage[t] \in Dispatching,
           NEW s \in Sources, s \in job[t].pending, NEW res \in Result,
           \A r \in res.rows : Backed(t, s, r) /\ res.from = s,
           res.choice = {}, res.kind # "choice",
           Absorb(t, s, res), UNCHANGED <<governanceVars, request, witness>>
    PROVE  AnswerInv(t)'
<1> DEFINE hits == IF res.kind = "rows" /\ res.rows # {}
                     THEN job[t].hits \cup {[source |-> s, rows |-> res.rows]}
                     ELSE job[t].hits
           rest == job[t].pending \ {s}
<1> TurnTypeOK /\ job[t] \in Job
  BY DEF TypeOK, TurnTypeOK
<1>1. WindowGrows(t)
  BY DEF WindowGrows
<1>2. SoundAnswer(t, res)
  BY DEF SoundAnswer
<1>3. Askable(t, s)
  BY DEF AnswerInv, Queue
<1>4. Pinned(t) => rest = {} /\ job[t].primary = NoSource
  BY <1>3 DEF AnswerInv, Queue, Askable
<1>5. /\ IsFiniteSet(hits)
      /\ \A h, k \in hits : h.source = k.source => h = k
      /\ \A h \in hits : Askable(t, h.source) /\ \A r \in h.rows : Backed(t, h.source, r)
      /\ \A h \in hits : h.source \notin rest
  <2>1. IsFiniteSet(hits)
    BY FS_AddElement DEF AnswerInv, HitsBacked
  <2>2. \A h \in job[t].hits : h.source # s /\ h.source \notin rest
    BY DEF AnswerInv, Queue
  <2> QED BY <1>3, <2>1, <2>2 DEF AnswerInv, HitsBacked
<1>6. CASE Conclude(t, res)
  BY <1>1, <1>2, <1>6, ConcludeAnswers
<1>7. CASE job[t].primary # NoSource /\ \E verdict \in Verdict(t, hits) : Conclude(t, verdict)
  <2> HIDE DEF hits
  <2>1. PICK verdict \in Verdict(t, hits) : Conclude(t, verdict)
    BY <1>7
  <2>2. verdict \in Result
    <3>1. hits \in SUBSET Hit
      BY DEF hits, Job, Hit, Result
    <3> QED BY <3>1, VerdictTyped
  <2>3. SoundAnswer(t, verdict) /\ (verdict.kind = "rows" => verdict.choice = {})
    BY <1>4, <1>5, <1>7, VerdictSound
  <2> QED BY <1>1, <2>1, <2>2, <2>3, ConcludeAnswers
<1>8. CASE /\ \/ rest # {} /\ Work(t, [job[t] EXCEPT !.pending = rest, !.primary = s,
                                              !.at = NoSource, !.scoped = {}])
              \/ Work(t, [job[t] EXCEPT !.pending = rest, !.hits = hits,
                                        !.at = NoSource, !.scoped = {}])
           /\ Goto(t, "gate")
           /\ UNCHANGED result
  <2> HIDE DEF hits, rest
  <2>1. /\ job'[t].pending = rest
        /\ job'[t].retried = job[t].retried
        /\ job'[t].hits \in {hits, job[t].hits}
        /\ Pinned(t) => job'[t].primary = NoSource
    <3>1. CASE rest # {} /\ Work(t, [job[t] EXCEPT !.pending = rest, !.primary = s,
                                                   !.at = NoSource, !.scoped = {}])
      BY <1>4, <3>1 DEF Work, TurnTypeOK, Job
    <3>2. CASE Work(t, [job[t] EXCEPT !.pending = rest, !.hits = hits,
                                      !.at = NoSource, !.scoped = {}])
      BY <1>4, <3>2 DEF Work, TurnTypeOK, Job
    <3> QED BY <1>8, <3>1, <3>2
  <2>2. stage'[t] = "gate"
    BY <1>8 DEF Goto, TurnTypeOK
  <2>3. /\ PlanHeld(t)' /\ Widening(t)' /\ SourcesSeen(t)' /\ CellsSeen(t)' /\ AnswerSound(t)'
    BY <1>8, <2>1, <2>2, MovesOnAnswers DEF Dispatching
  <2>4. /\ IsFiniteSet(job'[t].hits)
        /\ \A h, k \in job'[t].hits : h.source = k.source => h = k
        /\ \A h \in job'[t].hits : Askable(t, h.source) /\ \A r \in h.rows : Backed(t, h.source, r)
        /\ \A h \in job'[t].hits : h.source \notin rest
    <3>1. \A h \in job[t].hits : h.source \notin rest
      BY DEF rest, AnswerInv, Queue
    <3> QED BY <1>5, <2>1, <3>1 DEF AnswerInv, HitsBacked
  <2>5. HitsBacked(t)'
    BY <1>1, <2>2, <2>4, BackedGrows DEF HitsBacked, Dispatching
  <2>6. Queue(t)'
    <3>1. \A x \in rest : Askable(t, x)
      BY DEF rest, AnswerInv, Queue
    <3>2. \A x \in rest : Askable(t, x)'
      BY <1>1, <3>1, BackedGrows
    <3>3. Pinned(t)' = Pinned(t)
      BY SamePolicy
    <3> QED BY <2>1, <2>2, <2>4, <3>2, <3>3 DEF Queue
  <2>7. GatePassed(t)'
    BY <2>2 DEF GatePassed
  <2> QED BY <2>3, <2>5, <2>6, <2>7 DEF AnswerInv
<1> QED BY <1>6, <1>7, <1>8 DEF Absorb

\* The sources a plan is dispatched to may be asked for its rows.
LEMMA CandidatesAskable ==
    ASSUME TypeOK, NEW t \in Turns, AnswerInv(t), stage[t] = "authorized",
           NEW off \in DisabledViews
    PROVE  \A s \in Candidates(t, off) : Askable(t, s)
<1>1. Sources \ disabled \subseteq witness[t].sources /\ (~ByConnector(t) => Connected(t, Local))
  BY DEF AnswerInv, SourcesSeen, Watched
<1>2. ~BusyReads => off = disabled
  BY DEF DisabledViews
<1>3. CASE ByConnector(t)
  <2>1. \A s \in Candidates(t, off) : s \in Sources \ off /\ (Pinned(t) => s = planOf(t).pin)
    BY <1>3, CandidatesTyped DEF Candidates, Pinned
  <2> QED BY <1>1, <1>2, <2>1 DEF Askable, Connected
<1>4. CASE ~ByConnector(t)
  BY <1>1, <1>4 DEF Candidates, Askable, Pinned
<1> QED BY <1>3, <1>4

\* A dispatch opens its window at the policy there is.
LEMMA DispatchAnswers ==
    ASSUME TypeOK, NEW t \in Turns, AnswerInv(t), Dispatch(t)
    PROVE  AnswerInv(t)'
<1> TurnTypeOK
  BY DEF TypeOK
<1>1. /\ stage[t] = "authorized" /\ request' = request /\ UNCHANGED governanceVars
      /\ job[t] \in Job /\ job[t].hits = {} /\ job[t].primary = NoSource /\ Neutral(result[t])
  BY DEF Dispatch, AnswerInv, HitsBacked, AnswerSound, Dispatching, Ended, TurnTypeOK
<1>2. /\ witness'[t].cells = GrantedCells(t) /\ witness'[t].held = VisibleProjects(ctxOf(t))
      /\ witness'[t].sources = witness[t].sources
  BY DEF Dispatch, OpenWindow, TurnTypeOK
<1>3. planOf(t)' = planOf(t) /\ ByConnector(t)' = ByConnector(t) /\ disabled' = disabled
      /\ GrantedCells(t)' = GrantedCells(t) /\ Pinned(t)' = Pinned(t)
      /\ VisibleProjects(ctxOf(t))' = VisibleProjects(ctxOf(t))
  BY <1>1, SamePolicy
<1>4. SourcesSeen(t)'
  BY <1>1, <1>2, <1>3 DEF AnswerInv, SourcesSeen, Connected, Watched
<1>5. PICK off \in DisabledViews :
          \/ Conclude(t, ErrorResult)
          \/ /\ Work(t, [job[t] EXCEPT !.pending = Candidates(t, off)])
             /\ Goto(t, "gate")
             /\ UNCHANGED result
  BY DEF Dispatch
<1>6. CASE Conclude(t, ErrorResult)
  <2>1. stage'[t] = "settled"
    BY <1>6 DEF Conclude, Goto, TurnTypeOK, Rescues, IsEmpty, ErrorResult, NoResult
  <2>2. job'[t].hits = {} /\ job'[t].primary = NoSource /\ job'[t].retried = job[t].retried
    BY <1>6 DEF Conclude, Work, Blank, TurnTypeOK
  <2>3. result'[t] \in {result[t], ErrorResult}
    BY <1>6 DEF Conclude, TurnTypeOK
  <2>4. Neutral(result'[t])
    BY <1>1, <2>3, NeutralResults
  <2>5. AnswerSound(t)'
    BY <2>4 DEF AnswerSound, Neutral, SoundAnswer
  <2>6. PlanHeld(t)' /\ Widening(t)'
    BY <1>1, <1>3, <2>1, <2>2 DEF AnswerInv, PlanHeld, Widening, Planned
  <2> QED BY <1>4, <2>1, <2>2, <2>5, <2>6, OutsideDispatch DEF Dispatching
<1>7. CASE /\ Work(t, [job[t] EXCEPT !.pending = Candidates(t, off)])
           /\ Goto(t, "gate")
           /\ UNCHANGED result
  <2>1. /\ job'[t].pending = Candidates(t, off) /\ job'[t].hits = {}
        /\ job'[t].retried = job[t].retried /\ job'[t].primary = job[t].primary
    BY <1>1, <1>7 DEF Work, TurnTypeOK, Job
  <2>2. stage'[t] = "gate" /\ result'[t] = result[t]
    BY <1>7 DEF Goto, TurnTypeOK
  <2>3. \A s \in Candidates(t, off) : Askable(t, s)'
    BY <1>1, <1>2, <1>3, CandidatesAskable DEF Askable, Connected
  <2>4. Queue(t)'
    BY <1>1, <1>3, <2>1, <2>2, <2>3 DEF Queue
  <2>5. HitsBacked(t)' /\ GatePassed(t)' /\ CellsSeen(t)'
    <3>1. IsFiniteSet({})
      BY FS_EmptySet
    <3> QED BY <1>2, <1>3, <2>1, <2>2, <3>1 DEF HitsBacked, GatePassed, CellsSeen, Dispatching
  <2>6. PlanHeld(t)' /\ Widening(t)'
    BY <1>1, <1>3, <2>1, <2>2 DEF AnswerInv, PlanHeld, Widening, Planned
  <2>7. AnswerSound(t)'
    BY <1>1, <2>2 DEF AnswerSound, Neutral, SoundAnswer
  <2> QED BY <1>4, <2>4, <2>5, <2>6, <2>7 DEF AnswerInv
<1> QED BY <1>5, <1>6, <1>7

\* What passes the gate of a source has its cells granted wherever the scope
\* shows rows now, and at every project seen since the dispatch opened.
LEMMA GateGrants ==
    ASSUME TypeOK, NEW t \in Turns, AnswerInv(t), stage[t] = "gate", NEW s \in Sources,
           GatePasses(ctxOf(t), planOf(t).cells, Mode(t, s))
    PROVE  /\ HeldGranted(t, s)
           /\ \A r \in ScopeRows(ctxOf(t), Mode(t, s)) : CellsGranted(t, s, r)
<1>1. planOf(t).cells \subseteq Cell
  <2>1. planOf(t) \in Plan
    BY TurnAssumption DEF AnswerInv, PlanHeld, Planned
  <2> QED BY <2>1 DEF Plan
<1>2. GrantedCells(t) \subseteq witness[t].cells /\ witness[t].held \subseteq VisibleProjects(ctxOf(t))
  BY DEF AnswerInv, CellsSeen, Dispatching
<1>3. ASSUME NEW cell \in planOf(t).cells, NEW p \in Projects \cup {AnyProject},
             Granted(ctxOf(t), cell, p)
      PROVE  <<cell, p>> \in witness[t].cells
  BY <1>1, <1>2, <1>3 DEF GrantedCells
<1>4. ASSUME NEW cell \in planOf(t).cells, NEW p \in GateProjects(ctxOf(t), Mode(t, s))
      PROVE  <<cell, p>> \in witness[t].cells
  <2>1. p \in Projects \cup {AnyProject}
    BY DEF GateProjects, VisibleProjects
  <2>2. Granted(ctxOf(t), cell, p)
    BY DEF GatePasses
  <2> QED BY <1>3, <2>1, <2>2
<1>5. HeldGranted(t, s)
  <2> SUFFICES ASSUME Mode(t, s) \in {"by_owner", "by_company"},
                      NEW cell \in planOf(t).cells, NEW p \in witness[t].held
               PROVE  <<cell, p>> \in witness[t].cells
    BY DEF HeldGranted
  <2>1. p \in Projects /\ p \in VisibleProjects(ctxOf(t))
    BY <1>2 DEF VisibleProjects
  <2>2. CASE ctxOf(t).unrestricted
    BY <1>3, <2>1, <2>2 DEF Granted
  <2>3. CASE ~ctxOf(t).unrestricted
    BY <1>4, <2>1, <2>3 DEF GateProjects
  <2> QED BY <2>2, <2>3
<1>6. ASSUME NEW r \in ScopeRows(ctxOf(t), Mode(t, s))
      PROVE  CellsGranted(t, s, r)
  <2>1. Mode(t, s) = "none" => AnyProject \in GateProjects(ctxOf(t), Mode(t, s))
    BY DEF GateProjects
  <2>2. Mode(t, s) = "by_governed_code" =>
            \E p \in {RowProject[r], AnyProject} : p \in GateProjects(ctxOf(t), Mode(t, s))
    BY DEF GateProjects, ScopeRows
  <2> QED BY <1>4, <1>5, <2>1, <2>2 DEF CellsGranted
<1> QED BY <1>5, <1>6

\* The gate lets a source be asked, or ends its part with an error.
LEMMA GateAnswers ==
    ASSUME TypeOK, NEW t \in Turns, AnswerInv(t), Gate(t)
    PROVE  AnswerInv(t)'
<1> TurnTypeOK /\ job[t] \in Job
  BY DEF TypeOK, TurnTypeOK
<1>1. stage[t] = "gate" /\ UNCHANGED <<governanceVars, request, witness>>
  BY DEF Gate
<1>2. PICK s \in job[t].pending :
          \/ /\ GatePasses(ctxOf(t), planOf(t).cells, Mode(t, s))
             /\ Work(t, [job[t] EXCEPT !.at = s])
             /\ Goto(t, "scope")
             /\ UNCHANGED result
          \/ Absorb(t, s, ErrorResult)
  BY DEF Gate
<1>3. s \in Sources
  BY DEF Job
<1>4. CASE Absorb(t, s, ErrorResult)
  <2>1. ErrorResult \in Result /\ Neutral(ErrorResult)
    BY ResultsTyped, NeutralResults
  <2> QED BY <1>1, <1>3, <1>4, <2>1, AbsorbAnswers DEF Neutral, Dispatching
<1>5. CASE /\ GatePasses(ctxOf(t), planOf(t).cells, Mode(t, s))
           /\ Work(t, [job[t] EXCEPT !.at = s])
           /\ Goto(t, "scope")
           /\ UNCHANGED result
  <2>1. /\ job'[t].at = s /\ job'[t].pending = job[t].pending /\ job'[t].hits = job[t].hits
        /\ job'[t].retried = job[t].retried /\ job'[t].primary = job[t].primary
    BY <1>5 DEF Work, TurnTypeOK, Job
  <2>2. stage'[t] = "scope"
    BY <1>5 DEF Goto, TurnTypeOK
  <2>3. /\ PlanHeld(t)' /\ Widening(t)' /\ SourcesSeen(t)' /\ CellsSeen(t)' /\ AnswerSound(t)'
        /\ WindowGrows(t)
    BY <1>1, <1>5, <2>1, <2>2, MovesOnAnswers DEF Dispatching
  <2>4. Queue(t)' /\ HitsBacked(t)'
    <3>1. Pinned(t)' = Pinned(t)
      BY <1>1, SamePolicy
    <3> QED BY <1>1, <2>1, <2>2, <2>3, <3>1, BackedGrows
            DEF AnswerInv, Queue, HitsBacked, Dispatching
  <2>5. GatePassed(t)'
    <3>1. /\ HeldGranted(t, s)
          /\ \A r \in ScopeRows(ctxOf(t), Mode(t, s)) : CellsGranted(t, s, r)
      BY <1>1, <1>3, <1>5, GateGrants
    <3>2. /\ HeldGranted(t, s) => HeldGranted(t, s)'
          /\ \A r : CellsGranted(t, s, r) => CellsGranted(t, s, r)'
      BY <2>3, BackedGrows
    <3>3. ScopeRows(ctxOf(t), Mode(t, s))' = ScopeRows(ctxOf(t), Mode(t, s))
      BY <1>1, SamePolicy
    <3> QED BY <2>1, <2>2, <3>1, <3>2, <3>3 DEF GatePassed
  <2> QED BY <2>3, <2>4, <2>5 DEF AnswerInv
<1> QED BY <1>2, <1>4, <1>5

\* The scope a turn reads shows rows whose cells are granted.
LEMMA ReadScopeAnswers ==
    ASSUME TypeOK, AskedSource, NEW t \in Turns, AnswerInv(t), ReadScope(t)
    PROVE  AnswerInv(t)'
<1> DEFINE scoped == ScopeRows(ctxOf(t), Mode(t, job[t].at))
<1> TurnTypeOK /\ job[t] \in Job
  BY DEF TypeOK, TurnTypeOK
<1>1. stage[t] = "scope" /\ UNCHANGED <<governanceVars, request, witness>>
  BY DEF ReadScope
<1>2. job[t].at \in Sources /\ job[t].at \in job[t].pending
  BY <1>1 DEF AskedSource, AnswerInv, Queue, Dispatching
<1>3. CASE Absorb(t, job[t].at, RowsOf({}, job[t].at))
  <2>1. RowsOf({}, job[t].at) \in Result /\ Neutral(RowsOf({}, job[t].at))
    BY <1>2, ResultsTyped, NeutralResults
  <2> QED BY <1>1, <1>2, <1>3, <2>1, AbsorbAnswers DEF Neutral, Dispatching
<1>4. CASE /\ Work(t, [job[t] EXCEPT !.scoped = scoped])
           /\ Goto(t, "fetch")
           /\ UNCHANGED result
  <2>1. HeldGranted(t, job[t].at) /\ \A r \in scoped : CellsGranted(t, job[t].at, r)
    BY <1>1 DEF AnswerInv, GatePassed
  <2> HIDE DEF scoped
  <2>2. /\ job'[t].scoped = scoped /\ job'[t].at = job[t].at /\ job'[t].pending = job[t].pending
        /\ job'[t].hits = job[t].hits
        /\ job'[t].retried = job[t].retried /\ job'[t].primary = job[t].primary
    BY <1>4 DEF Work, TurnTypeOK, Job
  <2>3. stage'[t] = "fetch"
    BY <1>4 DEF Goto, TurnTypeOK
  <2>4. /\ PlanHeld(t)' /\ Widening(t)' /\ SourcesSeen(t)' /\ CellsSeen(t)' /\ AnswerSound(t)'
        /\ WindowGrows(t)
    BY <1>1, <1>4, <2>2, <2>3, MovesOnAnswers DEF Dispatching
  <2>5. Queue(t)' /\ HitsBacked(t)'
    <3>1. Pinned(t)' = Pinned(t)
      BY <1>1, SamePolicy
    <3> QED BY <1>1, <2>2, <2>3, <2>4, <3>1, BackedGrows
            DEF AnswerInv, Queue, HitsBacked, Dispatching
  <2>6. GatePassed(t)'
    <3>1. /\ \A s : HeldGranted(t, s) => HeldGranted(t, s)'
          /\ \A s, r : CellsGranted(t, s, r) => CellsGranted(t, s, r)'
      BY <2>4, BackedGrows
    <3> QED BY <2>1, <2>2, <2>3, <3>1 DEF GatePassed
  <2> QED BY <2>4, <2>5, <2>6 DEF AnswerInv
<1> QED BY <1>3, <1>4 DEF ReadScope

\* The rows kept of a page are held by the source, matched, and backed.
LEMMA FetchAnswers ==
    ASSUME TypeOK, AskedSource, NEW t \in Turns, AnswerInv(t), Fetch(t)
    PROVE  AnswerInv(t)'
<1> DEFINE s == job[t].at
<1> TurnTypeOK /\ job[t] \in Job
  BY DEF TypeOK, TurnTypeOK
<1>1. stage[t] = "fetch" /\ UNCHANGED <<governanceVars, request, witness>>
  BY DEF Fetch
<1>2. s \in Sources /\ s \in job[t].pending
  BY <1>1 DEF AskedSource, AnswerInv, Queue, Dispatching
<1>3. CASE Absorb(t, s, ErrorResult)
  <2>1. ErrorResult \in Result /\ Neutral(ErrorResult)
    BY ResultsTyped, NeutralResults
  <2> QED BY <1>1, <1>2, <1>3, <2>1, AbsorbAnswers DEF Neutral, Dispatching
<1>4. ASSUME NEW page \in SUBSET Wanted(t), Absorb(t, s, RowsOf(Fetched(t, page), s))
      PROVE  AnswerInv(t)'
  <2> DEFINE res == RowsOf(Fetched(t, page), s)
  <2>1. Fetched(t, page) \in SUBSET Rows
    BY DEF Fetched, Job
  <2>2. res \in Result
    BY <1>2, <2>1, ResultsTyped
  <2>3. Askable(t, s)
    BY <1>1, <1>2 DEF AnswerInv, Queue, Dispatching
  <2>4. ASSUME NEW r \in Fetched(t, page) PROVE Backed(t, s, r)
    <3>1. CellsGranted(t, s, r)
      BY <1>1, <2>4 DEF AnswerInv, GatePassed, Fetched
    <3>2. r \in SourceRows[s] /\ (~job[t].retried => r \in planOf(t).matches)
      BY <2>4 DEF Wanted, Fetched
    <3>3. job[t].retried => planOf(t).lone
      BY DEF AnswerInv, Widening
    <3> QED BY <2>3, <3>1, <3>2, <3>3 DEF Backed
  <2>5. /\ \A r \in res.rows : Backed(t, s, r) /\ res.from = s
        /\ res.choice = {} /\ res.kind # "choice"
    BY <2>4 DEF RowsOf
  <2> HIDE DEF res
  <2>6. Absorb(t, s, res)
    BY <1>4 DEF res
  <2> QED BY <1>1, <1>2, <2>2, <2>5, <2>6, AbsorbAnswers DEF Dispatching
<1> QED BY <1>3, <1>4 DEF Fetch

-----------------------------------------------------------------------------
(* Every step, and what the invariant says of the answers. *)

LEMMA InitAnswers == Init => AnswersInv
<1> SUFFICES ASSUME Init, NEW t \in Turns PROVE AnswerInv(t)
  BY DEF AnswersInv
<1>1. stage[t] = "idle" /\ job[t] = Blank /\ result[t] = NoResult
  BY DEF Init
<1>2. IsFiniteSet({})
  BY FS_EmptySet
<1>3. HitsBacked(t)
  BY <1>1, <1>2 DEF HitsBacked, Blank
<1>4. AnswerSound(t)
  BY <1>1, NeutralResults, NeutralIsSound DEF AnswerSound
<1> QED BY <1>1, <1>3, <1>4
    DEF AnswerInv, PlanHeld, Widening, SourcesSeen, CellsSeen, Queue, GatePassed, Blank,
        Planned, Watched, Dispatching

LEMMA AnswersStep == TypeOK /\ AskedSource /\ AnswersInv /\ [Next]_vars => AnswersInv'
<1> SUFFICES ASSUME TypeOK, AskedSource, AnswersInv, [Next]_vars, NEW u \in Turns
             PROVE  AnswerInv(u)'
  BY DEF AnswersInv
<1> AnswerInv(u)
  BY DEF AnswersInv
<1>1. CASE Administer
  BY <1>1, AdministerAnswers
<1>2. CASE UNCHANGED vars
  BY <1>2, StillAnswers DEF vars, turnVars, Still
<1>3. ASSUME NEW t \in Turns, TurnStep(t), t # u
      PROVE  AnswerInv(u)'
  BY <1>3, TurnFrame, StillAnswers
<1>4. CASE TurnStep(u)
  BY <1>4, BeforeDispatchAnswers, DispatchAnswers, GateAnswers, ReadScopeAnswers,
     FetchAnswers, AfterDispatchAnswers
  DEF TurnStep, Proceed
<1> QED BY <1>1, <1>2, <1>3, <1>4 DEF Next, TurnStep, Finished

LEMMA AnswersInvHolds == Spec => [](TypeOK /\ AskedSource /\ AnswersInv)
<1>1. Init => TypeOK /\ AskedSource /\ AnswersInv
  BY InitTyped, InitAnswers DEF Init, AskedSource
<1>2. TypeOK /\ AskedSource /\ AnswersInv /\ [Next]_vars => (TypeOK /\ AskedSource /\ AnswersInv)'
  BY StepTyped, AskedSourceStep, AnswersStep
<1> QED BY <1>1, <1>2, PTL DEF Spec

\* An answer's rows are all held by the one source it names; a choice is of at
\* least two sources; a pinned source is the only one that answers.
THEOREM AnswersHaveOneSource == Spec => []OneSourceAnswers
<1>1. AnswersInv => OneSourceAnswers
  BY DEF AnswersInv, AnswerInv, AnswerSound, SoundAnswer, Backed, Askable, Pinned, OneSourceAnswers
<1> QED BY <1>1, AnswersInvHolds, PTL

\* Whatever the rescue tries, the rows answered to a plan that is not a lone
\* identity equality are matched by its own filters.
THEOREM FiltersHold == Spec => []DeliberateFiltersHold
<1>1. AnswersInv => DeliberateFiltersHold
  BY DEF AnswersInv, AnswerInv, AnswerSound, SoundAnswer, Backed, DeliberateFiltersHold
<1> QED BY <1>1, AnswersInvHolds, PTL

\* Whatever administrators commit between the gate, the scope, the source's page
\* and the answer, the gated cells of an answered row were granted at some moment
\* since the dispatch opened: globally where there is no row scope; at the row's
\* project, or globally, where rows are scoped by project, unless the project
\* became visible meanwhile; at every project visible throughout where they are
\* scoped by owner or company, which is none for a requester who sees none.
THEOREM NoUngrantedDisclosure == Spec => []DisclosedCellsWereGranted
<1>1. AnswersInv => DisclosedCellsWereGranted
  BY DEF AnswersInv, AnswerInv, AnswerSound, SoundAnswer, Backed, CellsGranted, HeldGranted,
         DisclosedCellsWereGranted
<1> QED BY <1>1, AnswersInvHolds, PTL

\* Where reads of the source state do not fail, no source answers, or is offered,
\* that was disconnected all the time since the plan was authorized.
THEOREM ConnectedSourcesAnswer == ASSUME ~BusyReads PROVE Spec => []AnswersFromConnectedSources
<1>1. AnswersInv => AnswersFromConnectedSources
  BY DEF AnswersInv, AnswerInv, AnswerSound, SoundAnswer, Backed, Askable, Connected,
         AnswersFromConnectedSources
<1> QED BY <1>1, AnswersInvHolds, PTL

-----------------------------------------------------------------------------
(* What a conversation remembers.  A turn that has written to it is past every  *)
(* step that changes its request or its result.                                *)

Closed == {"remembered", "audit", "answered", "dropped"}

MemoryInv ==
    /\ \A c \in Conversations : memory[c] # NoMemory => stage[memory[c].turn] \in Closed
    /\ MemoryComesFromAnAnswer

\* A closed turn keeps its request and its result.
LEMMA ClosedStays ==
    ASSUME TypeOK, [Next]_vars, NEW t \in Turns, stage[t] \in Closed
    PROVE  stage'[t] \in Closed /\ request'[t] = request[t] /\ result'[t] = result[t]
<1> TurnTypeOK
  BY DEF TypeOK
<1>1. CASE Administer \/ UNCHANGED vars
  BY <1>1 DEF Administer, vars, turnVars
<1>2. ASSUME NEW u \in Turns, TurnStep(u), u # t
      PROVE  stage'[t] \in Closed /\ request'[t] = request[t] /\ result'[t] = result[t]
  BY <1>2, TurnFrame DEF Still
<1>3. CASE TurnStep(t)
  <2>1. RecordRun(t) \/ Audit(t) \/ DatabaseError(t) \/ Drop(t)
    BY <1>3
    DEF TurnStep, Proceed, Closed, Open, Route, LoadContext, SubmitPlan, ModelSelects,
        ModelRejected, ModelDeclines, Validate, ReadCatalog, Authorize, Rescue, Dispatch,
        Gate, ReadScope, Fetch, RecordContext
  <2> QED BY <2>1 DEF RecordRun, Audit, DatabaseError, Drop, Goto, TurnTypeOK, Closed
<1> QED BY <1>1, <1>2, <1>3 DEF Next, TurnStep, Finished

\* Only RecordContext writes to a memory.
LEMMA MemoryFrame ==
    ASSUME [Next]_vars
    PROVE  memory' = memory \/ \E t \in Turns : RecordContext(t)
BY DEF Next, Administer, Proceed, Open, Route, LoadContext, SubmitPlan, ModelSelects,
       ModelRejected, ModelDeclines, Validate, ReadCatalog, Authorize, Rescue, Dispatch,
       Gate, ReadScope, Fetch, RecordRun, Audit, DatabaseError, Drop, Finished, vars, turnVars

\* What RecordContext writes is of the answer its turn ends with.
LEMMA RememberedIsAnswered ==
    ASSUME TypeOK, AnswersInv, NEW t \in Turns, stage[t] = "settled",
           result[t].kind = "choice" \/ result[t].rows # {},
           NEW m \in Remembered(t)
    PROVE  /\ m.turn = t
           /\ m.kind = "choice" => result[t].kind = "choice"
           /\ m.kind = "entity" =>
                 /\ result[t].rows # {} /\ m.entity # {}
                 /\ m.entity \subseteq result[t].rows \cup {Guess}
                 /\ Guess \in m.entity => planOf(t).lone
<1>1. CASE result[t].kind = "choice"
  BY <1>1 DEF Remembered
<1>2. CASE result[t].kind # "choice" /\ job[t].retried
  <2>1. planOf(t).lone
    BY <1>2 DEF AnswersInv, AnswerInv, Widening
  <2> QED BY <1>2, <2>1 DEF Remembered, Entities
<1>3. CASE result[t].kind # "choice" /\ ~job[t].retried
  <2>1. Guess \notin result[t].rows
    BY TurnAssumption DEF TypeOK, TurnTypeOK, Result
  <2> QED BY <1>3, <2>1 DEF Remembered, Entities
<1> QED BY <1>1, <1>2, <1>3

LEMMA MemoryStep == TypeOK /\ AnswersInv /\ MemoryInv /\ [Next]_vars => MemoryInv'
<1> SUFFICES ASSUME TypeOK, AnswersInv, MemoryInv, [Next]_vars,
                    NEW c \in Conversations, memory'[c] # NoMemory
             PROVE  /\ stage'[memory'[c].turn] \in Closed
                    /\ request'[memory'[c].turn].conv = c
                    /\ memory'[c].kind = "choice" => result'[memory'[c].turn].kind = "choice"
                    /\ memory'[c].kind = "entity" =>
                          /\ result'[memory'[c].turn].rows # {} /\ memory'[c].entity # {}
                          /\ memory'[c].entity
                               \subseteq result'[memory'[c].turn].rows \cup {Guess}
                          /\ Guess \in memory'[c].entity =>
                               request'[memory'[c].turn].plan.lone
  BY DEF MemoryInv, MemoryComesFromAnAnswer, planOf
<1> TurnTypeOK
  BY DEF TypeOK
<1>1. CASE memory'[c] = memory[c]
  <2>1. memory[c].turn \in Turns
    BY <1>1 DEF TurnTypeOK, Memory
  <2>2. /\ stage'[memory[c].turn] \in Closed
        /\ request'[memory[c].turn] = request[memory[c].turn]
        /\ result'[memory[c].turn] = result[memory[c].turn]
    BY <1>1, <2>1, ClosedStays DEF MemoryInv
  <2> QED BY <1>1, <2>2 DEF MemoryInv, MemoryComesFromAnAnswer, planOf
<1>2. CASE memory'[c] # memory[c]
  <2>1. PICK t \in Turns : RecordContext(t)
    BY <1>2, MemoryFrame
  <2>2. /\ stage[t] = "settled" /\ stage'[t] = "remembered"
        /\ request' = request /\ result' = result
    BY <2>1 DEF RecordContext, Goto, TurnTypeOK
  <2>3. PICK m \in Remembered(t) : memory' = [memory EXCEPT ![request[t].conv] = m]
    BY <1>2, <2>1 DEF RecordContext
  <2>4. result[t].kind = "choice" \/ result[t].rows # {}
    BY <1>2, <2>1 DEF RecordContext
  <2>5. request[t].conv = c /\ memory'[c] = m
    BY <1>2, <2>3 DEF TurnTypeOK
  <2> QED BY <2>2, <2>4, <2>5, RememberedIsAnswered DEF Closed, planOf
<1> QED BY <1>1, <1>2

\* A conversation remembers only what a turn of it answered with, however turns
\* of one conversation overlap and wherever they fail.
THEOREM MemoriesAreAnswers == Spec => []MemoryComesFromAnAnswer
<1>1. Init => MemoryInv
  BY DEF Init, MemoryInv, MemoryComesFromAnAnswer
<1>2. MemoryInv => MemoryComesFromAnAnswer
  BY DEF MemoryInv
<1> QED BY <1>1, <1>2, AnswersInvHolds, MemoryStep, PTL DEF Spec
=============================================================================
