SPECIFICATION Spec
CONSTANTS
    Names = {"feed", "wiki"}
    Configs = {"v1"}
    Absent = Absent
    Requests = {"r1", "r2"}
    NoSetup = NoSetup
    MaxClock = 2
    MaxCommits = 2
    BusyReads = FALSE
CHECK_DEADLOCK FALSE
INVARIANTS
    DeletedSourceGone
