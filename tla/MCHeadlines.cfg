\* The list against a server that changes at any moment, and that G ends.
SPECIFICATION Spec
CONSTANTS
    N = 3
    Ids <- MCIds
    Listings <- MCListings
    RowCounts <- MCRowCounts
    PageDefault = 2
INVARIANTS
    TypeOK
    SelectionInRange
    SelectionVisible
    PagingExact
PROPERTIES
    EndReachesLast
PROPERTY EndTerminates
