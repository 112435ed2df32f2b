SPECIFICATION FairSpec
CONSTANTS
    Ids = {1, 2, 3, 4}
    MaxId = 9
    Times = {0, 1, 2}
    Hour = 1
    PageSizes <- SomePageSizes
    DefaultPageSize = 2
    MaxPageSize = 3
    NoCursor = NoCursor
INVARIANTS
    CatalogTypeOK
    WalkComplete
    PagesGoDown
PROPERTIES
    WalkEnds
