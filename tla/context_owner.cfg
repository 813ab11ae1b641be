SPECIFICATION Spec
CONSTANTS
    Users = {"ann", "bob"}
    NoUser = "nobody"
    Groups = {}
    Projects <- oneProject
    AnyProject = "*"
    Companies = {}
    Domains <- mcDomains
    Fields = {"stage"}
    AnyField = "*"
    Sources <- mcSources
    RuntimeSources = {"feed", "wiki"}
    GrantPool = {}
    InitialRole <- legalOnly
    MaxEdits = 0
    Turns = {"t1", "t2"}
    Conversations = {"c1"}
    NoConversation = "fresh"
    Rows <- mcRows
    RowProject <- talkRowProject
    RowOwner <- mcRowOwner
    RowCompany <- noCompany
    NoCompany = "none"
    SourceRows <- mcSourceRows
    Local = "sqlite_demo"
    NoSource = "-"
    Serves <- mcServes
    Rank <- mcRank
    Scope <- mcScope
    DirectScope <- mcDirectScope
    CrossDomain = "cross_domain"
    HasSubject = {"ann"}
    PlanPool <- talkPlans
    NoPlan = NoPlan
    FastPlans <- fastPlans
    Guess = "guess"
    NoMemory = NoMemory
    PageLimit = 1
    MaxPlanAttempts = 1
    BusyReads = FALSE
INVARIANTS
    ContextDisclosedToRequester
