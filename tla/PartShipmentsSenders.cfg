SPECIFICATION Spec
CONSTANTS
    p1 = p1
    p2 = p2
    x1 = x1
    x2 = x2
    t1 = t1
    r1 = r1
    r2 = r2
    r3 = r3
    None = None
    Shipments = {s1, s2}
    Parts = {p1, p2}
    Repairs = {x1}
    Techs = {t1}
    Prices = {0, 1}
    Requests = {r1, r2, r3}
    RepairOf <- MCRepairOf
    TechOf <- MCTechOf
    Serves <- TwoSenders
SYMMETRY Symmetry
CHECK_DEADLOCK FALSE
INVARIANTS TypeOK HeldOnce InvoiceTotalIsSum PaidOnce
PROPERTIES ForwardOnly LedgerSpec
