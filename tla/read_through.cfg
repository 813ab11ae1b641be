SPECIFICATION Spec
CONSTANTS
    KnownFields = {"name", "code", "due"}
    RelationshipFields = {"owner"}
    Values = {0, 1, 2, 3}
    EmptyText = 0
    Null = Null
    Folded <- mcFolded
    Within <- mcWithin
    Callers = {"t1", "t2"}
    Queries <- mcQueries
    NoQuery = NoQuery
    Table <- mcTable
    Columns <- mcColumns
    MaxPage <- mcMaxPage
    Lifetime = 4
    Margin = 3
    Delay = 1
    MaxClock = 5
    NoToken = NoToken
INVARIANTS
    TypeOK
    TokenOutlivesItsExpiry
    YoungTokensAreTaken
    RemoteAnswersAreWhole
    FileAnswersMeanTheSame
PROPERTIES
    CallsEnd
CHECK_DEADLOCK FALSE
