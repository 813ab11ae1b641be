SPECIFICATION Spec
CONSTANTS
    Emails = {"ann", "bob", "sue", "owner"}
    LocalOwner = "owner"
    Secrets = {"old", "new"}
    Names = {"a", "b"}
    Projects = {caseA}
    Companies = {firmA}
    Fields = {"f"}
    Null = Null
    caseA = caseA
    firmA = firmA
    Threads = {t1, t2}
    Forms <- mcForms
    SessionHours = 1
    MaxClock = 1
    MaxRequests = 3
    MaxStarts = 2
    Headers <- mcHeaders
    Deployments <- mcDeployments
SYMMETRY ThreadsAlike
INVARIANTS
    TypeOK
    PasswordlessIsLoopback
    CalmSwitchesLand
PROPERTIES
    EditsLandInOrder
    NewGroupsStartEmpty
    DeletedPermissionsGo
    CredentialsKeepTheirOwner
CHECK_DEADLOCK FALSE
