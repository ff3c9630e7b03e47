\* The artifacts of MCSqliteStore, in whose graphs inode 1 may lie on a cycle.
CONSTANTS
    Artifacts <- MCArtifacts
    Requests <- MCRequests
    Threads = {t1}
    NONE = NONE
SPECIFICATION Spec
PROPERTY ValidationEnds
CHECK_DEADLOCK FALSE
