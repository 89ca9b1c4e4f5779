SPECIFICATION Spec
CONSTANTS
    Tools = {t1, t2}
    Cap = 1
    MaxRequests = 3
    MaxRows = 2
    MaxLogouts = 2
INVARIANTS
    OneWriter
    SettledRowsAreTheLatest
    ErrorIsTheLatest
    HitsMatchWindow
    TailPaneIsNewest
    GateIsQuiet
CHECK_DEADLOCK FALSE
