SPECIFICATION Spec
CONSTANTS
    Names = {"feed", "wiki"}
    Configs = {"v1", "v2"}
    Absent = Absent
    Requests = {"r1", "r2"}
    NoSetup = NoSetup
    MaxClock = 2
    MaxCommits = 2
    BusyReads = TRUE
CHECK_DEADLOCK FALSE
INVARIANTS
    TypeOK
    CalmSetupsAreFresh
PROPERTIES
    ImplementsRoutingTable
