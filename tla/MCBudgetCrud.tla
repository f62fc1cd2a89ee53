---------------------------- MODULE MCBudgetCrud ----------------------------
(***************************************************************************)
(* A small instance of BudgetCrud: a budget and a line that only the       *)
(* guarded services write, and a budget with a line that the verbs write.  *)
(***************************************************************************)
EXTENDS BudgetCrudProps, TLC

CONSTANTS k1, k2, m1, m2, u1

Short == [length |-> 4, blank |-> "no"]
Long == [length |-> 31, blank |-> "no"]
Tabs == [length |-> 2, blank |-> "whitespace"]
Spaces == [length |-> 2, blank |-> "spaces"]
MCTexts == {Short, Long, Tabs, Spaces}

Symmetry == Permutations(Clients)

Budget(code, year) ==
    [code |-> code, name |-> Short, description |-> Null, fiscal_year |-> year]
Line(budget, month) ==
    [budget_id |-> budget, account_id |-> u1, fiscal_period_id |-> u1,
     fiscal_year |-> 2026, fiscal_month |-> month, planned_amount |-> 1, notes |-> Null]

Writes(op, id, contents) == [op : {op}, id : {id}, row : contents]

(* Codes that are right, too long and blank; the last year;  *)
(* lines of either budget, and one of a thirteenth month.                  *)
CrudRequests ==
    Writes("create", k1, {Budget(Short, 2020), Budget(Spaces, 2020)})
    \cup Writes("update", k1, {Budget(Long, 2020), Budget(Short, 2100)})
    \cup Writes("update", k2, {Budget(Long, 2026)})
    \cup Writes("create", m1, {Line(k1, Null), Line(k1, 13)})
    \cup Writes("update", m1, {Line(k1, 12), Line(k2, 12)})
    \cup [op : {"delete", "restore"}, id : {k1, m1}]
    \cup [op : {"purge"}, id : {m1}] \cup [op : {"empty"}, id : {k1}]

VerbMenu ==
    [id : {k2}, row : {Budget(Short, 2026), Budget(Long, 2026), Budget(Tabs, 2026)}]
    \cup [id : {m2}, row : {Line(k2, 12)}]

=============================================================================
