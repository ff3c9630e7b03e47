\* The builder over twelve entries, its invariants and the abstract contents.
CONSTANTS
    NONE = NONE
    BadName = "!"
    Names <- MCNames
    Times <- MCTimes
    Bytes <- MCBytes
    Entries <- MCEntries
SPECIFICATION Spec
INVARIANTS
    RootedTree
    AtomicAdd
    AcceptedEntriesPresent
    PublishedNodesValid
PROPERTIES
    FrozenOnceFinished
    ImplementsContents
