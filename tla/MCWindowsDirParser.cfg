\* Listings of up to ten lines, which two sections need, up to their first error,
\* and of up to four lines with any errors and with lines that are ignored.
CONSTANTS
    FirstOffset = 1
    Changes <- Summer
    MinInstant = 0
    MaxInstant = 20
    Lines <- ListingLines
    MaxLines = 10
    MaxShort = 4
SPECIFICATION Spec
INVARIANTS
    TypeOK
    AcceptsCompleteListings
    YieldsWholeListing
    CountsMatchYielded
    YieldedTimesMeant
CHECK_DEADLOCK FALSE
