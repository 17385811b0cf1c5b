SPECIFICATION Spec
CONSTANTS
    Proc = {1, 2, 3}
    First = 1
    Path = {"a", "b"}
    PROCESS_MAX_FDS = 5
    VFS_FD_MAX = 5
    CloseStd = FALSE
INVARIANTS NoAliasing NoLeak
PROPERTIES AbstractSpec
CHECK_DEADLOCK FALSE
