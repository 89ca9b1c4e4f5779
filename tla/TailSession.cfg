SPECIFICATION SessionSpec
CONSTANTS
    Settle = 1
    Keepalive = 2
    Window = 3
    Ceiling = 4
    Limit = 2
    MaxLog = 4
INVARIANTS FollowIsKeptAlive NothingMissed
