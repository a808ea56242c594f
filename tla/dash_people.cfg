SPECIFICATION Spec
CONSTANTS
    Account = {a, b}
    TwoFactor = {a}
    NoOne = NoOne
    Slots = 2
    OverlayName = {"palette", "enroll"}
    MaxRefused = 1
    Accounts = 3
    Existing = 2
    Linked = {}
    Calls = 2
    MaxDeskMoves = 2
    OwnedDevices = 1
    Owners = 1
    MaxOwnerCalls = 2
    MaxOwnerMoves = 2
VIEW SubjectState
INVARIANTS PeopleTypeOK SessionIsOwn CodesGoWhereNamed ListSettles
PROPERTY AssignmentStays
CHECK_DEADLOCK FALSE
