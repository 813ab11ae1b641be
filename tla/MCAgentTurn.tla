---------------------------- MODULE MCAgentTurn ----------------------------
(***************************************************************************)
(* A small deployment for TLC: two governed projects, the bundled SQLite   *)
(* source, one source of the YAML file and two registered at run time, all *)
(* three of which can serve the domain "project".                          *)
(***************************************************************************)
EXTENDS AgentTurn

mcProjects == {"moon", "nova"}
mcDomains  == {"project", "ledger", "notice", "seal", "cross_domain"}

\* project rows of both projects, one of them in two sources; a ledger row per
\* owner, a public notice, the seal of a company.
mcRows == {"moon1", "nova1", "mine", "peers", "notice1", "seal1"}

mcRowProject == [r \in mcRows |-> CASE r = "moon1" -> "moon"
                                    [] r = "nova1" -> "nova"
                                    [] OTHER -> "*"]
mcRowOwner   == [r \in mcRows |-> IF r = "mine" THEN "ann" ELSE "nobody"]
mcRowCompany == [r \in mcRows |-> IF r = "seal1" THEN "holdco" ELSE "none"]
noCompany    == [r \in mcRows |-> "none"]

mcSources == {"sqlite_demo", "lark", "feed", "wiki"}
mcSourceRows == [s \in mcSources |->
    CASE s = "sqlite_demo" -> {"moon1", "seal1"}
      [] s = "lark" -> {"mine", "peers", "notice1"}
      [] s = "feed" -> {"moon1", "nova1"}
      [] s = "wiki" -> {"nova1"}]
mcServes == [s \in mcSources |->
    CASE s = "sqlite_demo" -> {"project", "seal"}
      [] s = "lark" -> {"ledger", "notice"}
      [] OTHER -> {"project"}]
mcRank == [s \in mcSources |->
    CASE s = "sqlite_demo" -> 0 [] s = "lark" -> 1 [] s = "feed" -> 2 [] s = "wiki" -> 3]

mcScope == [s \in mcSources |-> [d \in mcDomains |->
    CASE d = "ledger" -> "by_owner"
      [] d = "notice" -> "none"
      [] OTHER -> "by_governed_code"]]
mcDirectScope == [d \in mcDomains |->
    IF d = "seal" THEN "by_company" ELSE "by_governed_code"]

cell(d) == {<<d, "stage">>}
plan(d, matches) == [domain |-> d, cells |-> cell(d), matches |-> matches,
                     wider |-> mcRows, lone |-> FALSE, pin |-> "-"]

searchProject == plan("project", {"moon1", "nova1"})
guessProject  == [searchProject EXCEPT !.matches = {"moon1"},
                                       !.wider = {"moon1", "nova1"}, !.lone = TRUE]
pinnedProject == [searchProject EXCEPT !.pin = "feed"]
readLedger    == plan("ledger", {"mine", "peers"})
readNotice    == plan("notice", {"notice1"})
sealStatus    == plan("seal", {"seal1"})
searchAll     == [plan("cross_domain", {"moon1"}) EXCEPT !.cells = cell("project")]

mcPlans == {searchProject, guessProject, pinnedProject, readLedger, readNotice,
            sealStatus, searchAll}

grant(holder, d, f, p, ok) ==
    [holder |-> holder, domain |-> d, field |-> f, project |-> p, allowed |-> ok]
mcGrants == {grant("ann", "project", "stage", "moon", TRUE),
             grant("counsel", "ledger", "*", "*", TRUE),
             grant("ann", "notice", "stage", "*", TRUE)}

\* The conversation runs: identity-only questions, which the field gate passes;
\* a guess the rescue may save, and a choice between two fallbacks.
oneProject == {"moon"}
talkRowProject == [r \in mcRows |-> "moon"]
asking(p) == [p EXCEPT !.cells = {}]
talkPlans == {asking(guessProject),
              asking([searchProject EXCEPT !.matches = {"nova1"}])}
fastPlans == {asking(guessProject)}
onePlan == {asking(guessProject)}

\* The bundled source and two fallbacks, for a choice between them: as few rows
\* as two turns at once allow.
talkSources == {"sqlite_demo", "feed", "wiki"}
talkSourceRows == [s \in talkSources |->
    IF s = "sqlite_demo" THEN {"nova1"} ELSE {"moon1"}]
talkServes == [s \in talkSources |-> {"project"}]
talkRank   == [s \in talkSources |->
    CASE s = "sqlite_demo" -> 0 [] s = "feed" -> 1 [] s = "wiki" -> 2]
talkScope  == [s \in talkSources |-> [d \in mcDomains |-> "by_governed_code"]]

\* Requests of the local operator only.
noOwner == [r \in mcRows |-> "nobody"]

legalOnly == [u \in Users |-> "legal"]
=============================================================================
