SPECIFICATION Spec
CONSTANTS
    k1 = k1
    k2 = k2
    gen = gen
    p1 = p1
    p2 = p2
    r1 = r1
    r2 = r2
    None = None
    Guarantees = {g1}
    Codes = {k1, k2, gen}
    Customers = {c1, c2}
    Products = {p1, p2}
    ProductOf <- MCProductOf
    DefaultMonths <- MCDefaultMonths
    GoldenMonths <- MCGoldenMonths
    Dates = {0, 1, 2}
    LastDay = 2
    GoldenChoices = {1}
    Requests = {r1, r2}
    Serves <- DeskAndEntry
SYMMETRY Symmetry
CHECK_DEADLOCK FALSE
INVARIANTS TypeOK TabsAgree ToldStands ReviewTrail
PROPERTIES CardSpec CoverGrows ReopensRefused
