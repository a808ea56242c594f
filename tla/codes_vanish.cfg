INIT DeskInit
NEXT DeskNext
CONSTANTS
    Accounts = 3
    Existing = 2
    Linked = {}
    Calls = 2
    MaxDeskMoves = 2
PROPERTY CodesKept
CHECK_DEADLOCK FALSE
