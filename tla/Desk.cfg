SPECIFICATION Spec
CONSTANTS
    None = None
    Pages = {"repairs", "requests", "parcels", "finance", "guarantees", "technicians",
             "customers", "products", "categories", "catalog", "patterns", "polls",
             "myRequests", "myParcels"}
    Rows = {a, b}
    MaxSent = 2
    MaxMoves = 1
    Me = "admin"
SYMMETRY Symmetry
CHECK_DEADLOCK FALSE
INVARIANTS TypeOK SendsWhatWasAsked NotesStayWithRow RefusedOnlyIfMoved ForcedAfterWarning
