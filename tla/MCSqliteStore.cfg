\* Opening of every artifact, and two threads that read and close the good ones.
CONSTANTS
    Artifacts <- MCArtifacts
    Requests <- MCRequests
    Threads = {t1, t2}
    NONE = NONE
SPECIFICATION Spec
INVARIANTS
    AcceptsSnapshots
    AcceptedCanBeServed
PROPERTIES
    RootedValidationEnds
    ImplementsStore
CHECK_DEADLOCK FALSE
