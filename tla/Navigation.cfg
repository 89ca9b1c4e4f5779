SPECIFICATION Spec
CONSTANTS
    Tools <- MCTools
    HasFilter = {"a"}
    Names = {"_time", "_msg", "x"}
    Fields <- MCFields
    Stranger = "zzz"
    Typed = {"q"}
    Toggled = {"x"}
    Links <- MCLinks
    OtherMaps <- MCOtherMaps
    MaxEntries = 2
    MaxLoads = 2
INVARIANTS
    OneTool
    ColumnsKept
PROPERTIES
    BoxKept
    StatusIsADetour
