SPECIFICATION FairSpec
CONSTANTS
    Requests = {"query", "tail"}
    Streams = {"tail"}
    ExporterOn = TRUE
    ProbeOn = TRUE
INVARIANTS
    CheckPredictsStart
    ExitHasCause
PROPERTIES
    Stops
    GaugeCatchesUp
    LoginsComeBack
CHECK_DEADLOCK FALSE
