SPECIFICATION Spec
CONSTANTS
    c1 = c1
    c2 = c2
    p1 = p1
    p2 = p2
    g1 = g1
    g2 = g2
    invoice = invoice
    card = card
    None = None
    Slots = {invoice, card}
    Codes = {c1, c2}
    Rows = {g1, g2}
    ProductOf <- MCProductOf
    RowCode <- MCRowCode
    MaxEntries = 2
    MaxTyped = 2
    MaxFiles = 2
SYMMETRY MCSymmetry
CHECK_DEADLOCK FALSE
PROPERTIES CoverFollowsCode DocumentsOfThisEntry ExpiryLeftAlone
