SPECIFICATION FairSpec
CONSTANTS
    Handlers = {h1, h2}
    BudgetIds = {b1, b2}
    LineIds = {l1, l2}
    Requests <- InsertRequests
    Volatile = {}
    Decorated = TRUE
    GLPresent = TRUE
    a1 = a1
    a2 = a2
    cc1 = cc1
    p1 = p1
    p2 = p2
    NoCC = NoCC
    Keep = Keep
    Null = Null
    Accounts = {a1, a2}
    CostCenters = {cc1}
    Periods = {p1, p2}
    Codes = {"c1", "c2"}
    Years <- MCYears
    Descriptions = {"d1", "d2"}
    Dates <- MCDates
    Calendar <- MCCalendar
INVARIANTS OneLinePerKey OneBudgetPerCode
PROPERTIES EveryRequestAnswered
