SPECIFICATION Spec
CONSTANTS
    Feeds = {"panel"}
    Lists = {"devices", "alerts"}
    MaxWorld = 1
    MaxOutages = 1
    Job = {j1, j2}
    NoJob = NoJob
    Pieces = 2
    MaxBreaks = 1
    Account = {a}
    TwoFactor = {a}
    NoOne = NoOne
    Slots = 2
    OverlayName = {}
    MaxRefused = 0
INVARIANTS PanelFaithful
