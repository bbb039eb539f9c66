SPECIFICATION FairSpec
CONSTANTS
    old = old
    new1 = new1
    new2 = new2
    Procs = {old, new1, new2}
    Scripts <- MCScripts
    LastScript = 3
    RedatingScript = 2
    Keys = {1, 2}
    Files <- MCFiles
    Unreadable <- MCUnreadable
    Now = 1
INVARIANTS
    TypeOK
    RefusedForCause
PROPERTIES
    OpensItsSchema
    KeepsFacts
    FirstCopyKept
    OpenersEnd
CHECK_DEADLOCK FALSE
