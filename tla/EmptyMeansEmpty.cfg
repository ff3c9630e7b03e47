\* The guide to missing content on files of unknown size.
CONSTANTS
    r1 = r1
    r2 = r2
    NONE = NONE
    Readers = {r1}
    MaxSize = 3
    PageSize = 2
    MaxRead = 3
SPECIFICATION Spec
INVARIANT EmptyMeansEmpty
