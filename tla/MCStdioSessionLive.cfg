SPECIFICATION LiveSpec
CONSTANTS
    Tasks = {t1, t2}
    Names = {"math.checked_add", "weather.lookup", "stuck",
             "diagnostics.exit_mid_rpc", "diagnostics.big_payload"}
    Null = Null
    NoFields <- MCNoFields
    berlin = berlin
    list1 = list1
    MaxI64 = 7
    Strings = {berlin}
    Objects <- MCObjects
    Others <- MCOthers
    Phrases <- MCPhrases
    Args <- AllArgs
    registry <- MCregistry
    schemas <- MCschemas
    Stuck = {"stuck"}
    Fatal = {"diagnostics.exit_mid_rpc"}
    MaxCalls = 2
    Faults = TRUE
PROPERTIES
    CallsEnd
CHECK_DEADLOCK FALSE
