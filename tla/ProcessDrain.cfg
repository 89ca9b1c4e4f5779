SPECIFICATION Spec
CONSTANTS
    Requests = {"query", "tail"}
    Streams = {"tail"}
    ExporterOn = FALSE
    ProbeOn = FALSE
PROPERTIES
    InFlightFinishes
CHECK_DEADLOCK FALSE
