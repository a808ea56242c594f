SPECIFICATION Spec
CONSTANTS
    Feeds = {"fleet", "panel", "sign-in"}
    Lists = {"devices", "alerts"}
    MaxWorld = 1
    MaxOutages = 1
    Job = {j1}
    NoJob = NoJob
    Pieces = 1
    MaxBreaks = 1
    Account = {a}
    TwoFactor = {a}
    NoOne = NoOne
    Slots = 2
    OverlayName = {}
    MaxRefused = 0
INVARIANTS HintKept
PROPERTIES CatchesUp EndIsTold TabHandsOver
