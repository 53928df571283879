SPECIFICATION Spec
CONSTANTS
    NPkgs = 3
    Declared = {1}
    Virtual = {2, 3}
    MaxRequires = 2
    Arches <- TwoArches
    Offers <- SomeOffers
INVARIANTS
    EveryArchClosed
CHECK_DEADLOCK FALSE
