SPECIFICATION CatalogSpec
CONSTANTS
    p1 = p1  p2 = p2  null = null
    Sizes <- SmallSizes
    Overlaps <- SmallOverlaps
    DefaultSize = 3
    DefaultOverlap = 2
    Updaters <- TwoUpdaters
    Null = null
SYMMETRY Symmetry
\* A row may be deleted for good.
CHECK_DEADLOCK FALSE
INVARIANTS RowValid
