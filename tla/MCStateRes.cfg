SPECIFICATION Spec
CONSTANTS
    Trunk <- Common
    Menu <- Offers
    Versions <- Rules
    Clocks <- Behind
    Grow <- Lengths
    Widths = {1, 2}
INVARIANTS
    TypeOK
    RevokedLoses
    SubgraphFound
    ResolvesAsDefined
