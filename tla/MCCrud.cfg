SPECIFICATION Spec
CONSTANTS
    Clients = {c1, c2}
    Budgets = {k1, k2}
    Lines = {m1, m2}
    VerbRows = {k2, m2}
    Uuids = {k1, k2, m1, m2, u1}
    Requests <- CrudRequests
    VerbWrites <- VerbMenu
    Texts <- MCTexts
    AllRoutes = TRUE
    Null = Null
    k1 = k1
    k2 = k2
    m1 = m1
    m2 = m2
    u1 = u1
SYMMETRY Symmetry
INVARIANTS RuledRowsLegal RuledWritesNeverTrip LinesHaveBudget
