SPECIFICATION Spec
CONSTANTS
    c1 = c1
    c2 = c2
    h1 = h1
    h2 = h2
    None = None
    Customers = {c1, c2}
    Reachable = {c1, c2}
    Links = {l1}
    LinkOf <- MCLinkOf
    Slots = {q1}
    Required = {q1}
    MaxEditions = 2
    MaxTexts = 2
    maxSendBatch = 1
    Outcomes = {"Sent"}
    Handlers = {h1, h2}
    Serves <- MCServes
SYMMETRY Symmetry
CHECK_DEADLOCK FALSE
INVARIANT InvitedOnce
