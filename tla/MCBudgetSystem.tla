--------------------------- MODULE MCBudgetSystem ---------------------------
(***************************************************************************)
(* A small instance of BudgetSystem: one planner, one producer, one        *)
(* reader, two periods of one day each.                                    *)
(***************************************************************************)
EXTENDS BudgetSystemProps, TLC

CONSTANTS a1, a2, cc1, p1, p2, b1, b2

MCDates == {1, 2}
MCYears == {2026}
MCCalendar == (p1 :> [year |-> 2026, start |-> 1, end |-> 1])
           @@ (p2 :> [year |-> 2026, start |-> 2, end |-> 2])
MCNormal == (a1 :> "debit") @@ (a2 :> "credit")

Symmetry == Permutations(LineIds)

Position1(p, amount) == [account |-> a1, cc |-> NoCC, period |-> p, amount |-> amount]
Create(b, code, plan) ==
    [verb |-> "create", budget |-> b, lines |-> plan,
     header |-> [code |-> code, year |-> 2026, from |-> 1, to |-> 2,
                 description |-> "d1", enforcement |-> "block"]]

(* The life of a plan of two positions on one account, and another budget  *)
(* that competes for the first of them.                                    *)
PlanRequests ==
    {Create(b1, "c1", <<Position1(p1, 10)>>), Create(b2, "c2", <<Position1(p1, 20)>>),
     [verb |-> "add_line", budget |-> b1, lines |-> <<Position1(p2, 10)>>]}
    \cup {[verb |-> "update_line", budget |-> b1, line |-> l, amount |-> 20] : l \in LineIds}
    \cup {[verb |-> "delete_line", budget |-> b1, line |-> l] : l \in LineIds}
    \cup [verb : {"confirm", "cancel"}, budget : {b1}]

Leg(account, debit, credit) ==
    [account |-> account, cc |-> NoCC, debit |-> debit, credit |-> credit]

(* Purchases of one day; the other day shows no movement. *)
Purchases == {[date |-> 1, lines |-> <<Leg(a1, 10, 0), Leg(a2, 0, 10)>>]}

PlanQueries ==
    [read : {"detail"}, budget : {b1}]
    \cup [read : {"achievement"}, budget : {b1}, through : {2}]
    \cup [read : {"coverage"}, account : {a1}, cc : {NoCC}, period : {p1}]

=============================================================================
