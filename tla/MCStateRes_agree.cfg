SPECIFICATION Spec
CONSTANTS
    Trunk <- Common
    Menu <- Few
    Versions <- Rules
    Clocks <- Even
    Grow <- Lengths
    Widths = {2}
INVARIANT
    ServersAgree
