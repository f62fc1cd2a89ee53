SPECIFICATION Spec
CONSTANTS
    Producers = {h1, h2, h3}
    Postings <- SameDay
    PlannerEdits = {"close"}
    MaxPostings = 7
    GLPresent = TRUE
    InitialLines <- MCLines
    InitialBudgets <- MCBudgets
    Normal <- MCNormal
    a1 = a1
    a2 = a2
    a3 = a3
    cc1 = cc1
    month = month
    year = year
    b1 = b1
    b2 = b2
    l1 = l1
    l2 = l2
    l3 = l3
    l4 = l4
    NoCC = NoCC
    Null = Null
    BudgetIds = {b1, b2}
    LineIds = {l1, l2, l3, l4}
    Accounts = {a1, a2, a3}
    CostCenters = {cc1}
    Periods = {month, year}
    Codes = {"c1"}
    Years <- MCYears
    Descriptions = {"d1"}
    Dates <- MCDates
    Calendar <- MCCalendar
SYMMETRY Symmetry
INVARIANTS OvershootBounded
CHECK_DEADLOCK FALSE
