SPECIFICATION SystemSpec
CONSTANTS
    Handlers = {h1}
    Producers = {q1}
    Readers = {r1}
    BudgetIds = {b1, b2}
    LineIds = {l1, l2}
    Requests <- PlanRequests
    Postings <- Purchases
    Queries <- PlanQueries
    MaxPostings = 2
    Volatile = {}
    Decorated = FALSE
    GLPresent = TRUE
    Normal <- MCNormal
    a1 = a1
    a2 = a2
    cc1 = cc1
    p1 = p1
    p2 = p2
    b1 = b1
    b2 = b2
    NoCC = NoCC
    Keep = Keep
    Null = Null
    Accounts = {a1, a2}
    CostCenters = {cc1}
    Periods = {p1, p2}
    Codes = {"c1", "c2"}
    Years <- MCYears
    Descriptions = {"d1", "d2"}
    Dates <- MCDates
    Calendar <- MCCalendar
SYMMETRY Symmetry
INVARIANTS EvaluatedPlanIsCurrent ShownPlanIsCurrent
PROPERTIES ReportMatchesControl PostedWithinPlan CoverageNamesTheBudget
CHECK_DEADLOCK FALSE
