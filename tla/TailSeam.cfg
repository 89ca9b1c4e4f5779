SPECIFICATION CalmSpec
CONSTANTS
    Settle = 1
    Keepalive = 2
    Window = 3
    Ceiling = 4
    Limit = 2
    MaxLog = 3
INVARIANT SeamIsInvisible
