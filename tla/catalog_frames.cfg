CONSTANTS
    Exports <- MCExports
    SourceTrees <- MCSourceTrees
    Strata <- MCStrata
    SampleSizes = {1, 3, 4}
    Missing = Missing
SPECIFICATION CatalogSpec
CHECK_DEADLOCK FALSE
INVARIANTS EachContentOnce SelectionIsFair
