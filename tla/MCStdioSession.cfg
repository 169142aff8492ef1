SPECIFICATION Spec
CONSTANTS
    Tasks = {t1, t2}
    Names = {"math.checked_add", "nothing", "diagnostics.exit_mid_rpc"}
    Null = Null
    NoFields <- MCNoFields
    berlin = berlin
    list1 = list1
    MaxI64 = 7
    Strings = {berlin}
    Objects <- MCObjects
    Others <- MCOthers
    Phrases <- MCPhrases
    Args <- MCArgs
    registry <- MCregistry
    schemas <- MCschemas
    Stuck = {"stuck"}
    Fatal = {"diagnostics.exit_mid_rpc"}
    MaxCalls = 3
    Faults = TRUE
INVARIANTS
    SessionTypeOK
    PendingAccounted
PROPERTIES
    ImplementsRemoteCalls
CHECK_DEADLOCK FALSE
