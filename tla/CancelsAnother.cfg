SPECIFICATION Spec
CONSTANTS
    None = None
    Pages = {"guarantees"}
    Rows = {a, b}
    MaxSent = 1
    MaxMoves = 0
    Me = "admin"
SYMMETRY Symmetry
CHECK_DEADLOCK FALSE
INVARIANT CancelsWhatItNames
