CONSTANTS
    Processes = {p1, p2}
    MaxLaunches = 3
    MaxTroubles = 2
    None = None
SPECIFICATION Spec
SYMMETRY ProcessSymmetry
CHECK_DEADLOCK FALSE
INVARIANTS PublishedIsSound
PROPERTIES AdoptedIsCurrent ImplementsPublications
