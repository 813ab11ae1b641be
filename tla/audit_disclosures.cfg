SPECIFICATION Spec
CONSTANTS
    Imports = {i1, i2}
    Calls = {c1}
    Codes = {"P", "Q"}
    Contents = {"moon", "sun", "icp"}
    Exts = {"icp", "moon"}
    Itself = "-"
    Missing = "missing"
    Absent = "absent"
    AliasOf <- mcAliases
    Files <- mcFiles
    Reset = Reset
    Requests <- mcRequests
    Nothing = Nothing
    Role = "scoped"
    Fields <- mcFields
    Identity <- mcIdentity
    Resembles <- mcResembles
    AccessQuestions <- mcAccessQuestions
    AnyProject = "any"
    AnyField = "*"
    GrantPool <- mcGrants
    Exposed = {"agent_query"}
    MaxEdits = 1
SYMMETRY ImportsAlike
INVARIANT EveryDisclosureAudited
CHECK_DEADLOCK FALSE
