SPECIFICATION Spec
CONSTANTS
    Users = {}
    NoUser = "nobody"
    Groups = {}
    Projects <- oneProject
    AnyProject = "*"
    Companies = {}
    Domains <- mcDomains
    Fields = {"stage"}
    AnyField = "*"
    Sources <- talkSources
    RuntimeSources = {"feed", "wiki"}
    GrantPool = {}
    InitialRole <- legalOnly
    MaxEdits = 0
    Turns = {"t1", "t2"}
    Conversations = {"c1"}
    NoConversation = "fresh"
    Rows <- mcRows
    RowProject <- talkRowProject
    RowOwner <- noOwner
    RowCompany <- noCompany
    NoCompany = "none"
    SourceRows <- talkSourceRows
    Local = "sqlite_demo"
    NoSource = "-"
    Serves <- talkServes
    Rank <- talkRank
    Scope <- talkScope
    DirectScope <- mcDirectScope
    CrossDomain = "cross_domain"
    HasSubject = {}
    PlanPool <- onePlan
    NoPlan = NoPlan
    FastPlans <- fastPlans
    Guess = "guess"
    NoMemory = NoMemory
    PageLimit = 1
    MaxPlanAttempts = 2
    BusyReads = TRUE
PROPERTIES
    EveryRequestEnds
INVARIANTS
    MemoryComesFromAnAnswer
