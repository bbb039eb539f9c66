SPECIFICATION Spec
CONSTANTS
    old = old
    new1 = new1
    new2 = new2
    Procs = {old, new1}
    Scripts <- MCScripts
    LastScript = 3
    RedatingScript = 2
    Keys = {1, 2}
    Files <- MCFiles
    Unreadable <- MCUnreadable
    Now = 1
PROPERTIES
    CopiedFirst
CHECK_DEADLOCK FALSE
