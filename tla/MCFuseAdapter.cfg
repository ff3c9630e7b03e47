\* A tree of two levels, two references to an inode, two descriptors.
CONSTANTS
    fd1 = fd1
    fd2 = fd2
    Inode <- MCInode
    Directory <- MCDirectory
    Listing <- MCListing
    Fd = {fd1, fd2}
    MaxCount = 2
    MaxHandle = 3
    MaxPage = 2
SPECIFICATION Spec
SYMMETRY MCSymmetry
INVARIANTS
    CountsAgree
    HandlesAgree
    ScanExact
