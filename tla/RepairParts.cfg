SPECIFICATION Spec
CONSTANTS
    q1 = q1
    q2 = q2
    g1 = g1
    g2 = g2
    h1 = h1
    h2 = h2
    None = None
    Requests = {q1}
    Reports = {x1, x2}
    Revisited = {x1}
    Guarantees = {g1}
    Tabs = {a}
    TechOf <- MCTechOf
    RequestFor <- MCRequestFor
    Reviewers = {"admin"}
    Handlers = {h1, h2}
    Serves <- OfficeAndFiling
    MaxParts = 1
CHECK_DEADLOCK FALSE
INVARIANTS TypeOK FittedOnce DeliveredBacksReport
PROPERTIES SpentLeavesCard DeliveredIsOffered
