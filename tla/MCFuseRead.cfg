\* Files of up to five bytes, two readers.
CONSTANTS
    r1 = r1
    r2 = r2
    NONE = NONE
    Readers = {r1, r2}
    MaxSize = 5
    PageSize = 2
    MaxRead = 3
SPECIFICATION Spec
SYMMETRY MCSymmetry
INVARIANTS
    TypeOK
    ReadsExact
    UnavailableIsTold
