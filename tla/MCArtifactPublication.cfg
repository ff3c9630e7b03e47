\* Two writers, one of them overwriting, one loss of power.
CONSTANTS
    w1 = w1
    w2 = w2
    Writers = {w1, w2}
    Overwriters = {w1}
    Old = Old
    NoFile = NoFile
    DirectorySync = TRUE
    MaxPowerLosses = 1
SPECIFICATION Spec
INVARIANTS
    DestinationAlwaysWhole
    NoOverwriteExclusive
    ReturnedIsDurable
    ErrorsTellPublication
    NoTemporaryLeft
PROPERTIES
    EveryWriterReturns
    ImplementsRegister
CHECK_DEADLOCK FALSE
