SPECIFICATION Spec
CONSTANTS
    Evidence <- ThreeDigests
    Prefix <- ByParity
    Filters <- TwoFilters
    Limits = {1, 2}
INVARIANTS TypeOK ChainsComplete PagesInOrder CursorsLeadSomewhere
