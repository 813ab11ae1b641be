SPECIFICATION Spec
CONSTANTS
    Users = {"ann"}
    NoUser = "nobody"
    Groups = {"counsel"}
    Projects <- mcProjects
    AnyProject = "*"
    Companies = {"holdco"}
    Domains <- mcDomains
    Fields = {"stage"}
    AnyField = "*"
    Sources <- mcSources
    RuntimeSources = {"feed", "wiki"}
    GrantPool <- mcGrants
    InitialRole <- legalOnly
    MaxEdits = 1
    Turns = {"t1"}
    Conversations = {}
    NoConversation = "fresh"
    Rows <- mcRows
    RowProject <- mcRowProject
    RowOwner <- mcRowOwner
    RowCompany <- mcRowCompany
    NoCompany = "none"
    SourceRows <- mcSourceRows
    Local = "sqlite_demo"
    NoSource = "-"
    Serves <- mcServes
    Rank <- mcRank
    Scope <- mcScope
    DirectScope <- mcDirectScope
    CrossDomain = "cross_domain"
    HasSubject = {"ann"}
    PlanPool <- mcPlans
    NoPlan = NoPlan
    FastPlans = {}
    Guess = "guess"
    NoMemory = NoMemory
    PageLimit = 2
    MaxPlanAttempts = 2
    BusyReads = FALSE
INVARIANTS
    TypeOK
    DisclosedRowsWereInScope
    DisclosedCellsWereGranted
    AnswersFromConnectedSources
    OneSourceAnswers
    DeliberateFiltersHold
