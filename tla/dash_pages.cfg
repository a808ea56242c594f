SPECIFICATION Spec
CONSTANTS
    Devices = 3
    Workers = 2
    Batch = 2
    MaxResults = 2
    MaxOps = 1
    MaxSignOuts = 1
    Tags = {"x"}
    ListDevices = 3
    Owned = {1, 3}
    Phones = {3}
    Hit = {1, 2}
    PageRows = 1
    RenderCap = 2
    MaxViews = 1
    MaxDevMoves = 3
    PatchDevices = 3
    Windows = {1, 2}
    Macs = {}
    Servers = {2}
    PatchWorkers = 2
    MaxPatchMoves = 3
    Alerts = 3
    Critical = {1}
    OfAnna = {1, 2}
    MaxRounds = 2
    MaxAlertMoves = 2
    LogEntries = 3
    SecureEntries = {1}
    JobEntries = {1, 2}
    AnnaEntries = {2, 3}
    SearchHits = {1, 3}
    AuditRows = 1
    MaxAuditMoves = 2
    ScriptsKnown = 2
    Danger = {2}
    MaxItems = 2
    MaxAutoCalls = 1
    MaxAutoMoves = 2
    Persons = 2
    Attention = {1}
    Deviceless = {2}
    PersonHits = {2}
    PersonAccounts = 3
    MaxPersonMoves = 2
    MaxScripts = 2
    FirstScripts = 1
    RunDevices = {1}
    ScriptCalls = 2
    MaxShelfMoves = 3
    TabDevices = 2
    MaxRuns = 2
    Scopes = {TRUE, FALSE}
    TabSlots = 2
    MaxTabMoves = 3
VIEW MountedState
INVARIANTS PagesTypeOK JobsAccounted KeystrokesStay InstallsAsNamed FiguresHonest
    RoundsHonest ExportsMatch SameRule ShelfHonest UpdatesHonest
PROPERTIES SelectionOfPerson FateAsTold
CHECK_DEADLOCK FALSE
