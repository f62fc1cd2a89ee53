-------------------------- MODULE BudgetLifecycle --------------------------
(***************************************************************************)
(* What a budget header promises, whatever runs concurrently: it is        *)
(* created as a draft, may be revised only while it is one, and moves      *)
(* along draft -> confirmed -> closed | cancelled (or draft -> cancelled)  *)
(* one edge at a time.  A plan is the part of the header that the          *)
(* lifecycle freezes: everything but the status and the enforcement        *)
(* posture.  The workflow service, statement by statement, implements it.  *)
(***************************************************************************)
CONSTANTS
    BudgetIds,
    Plans,          \* the plans a budget may have, records with code and year
    NoPlan          \* the plan of a budget that was not created

VARIABLES
    status,         \* of each budget; "absent" until it is created
    plan            \* of each budget

vars == <<status, plan>>

Init == /\ status = [b \in BudgetIds |-> "absent"]
        /\ plan = [b \in BudgetIds |-> NoPlan]

Create(b) ==
    /\ status[b] = "absent"
    /\ status' = [status EXCEPT ![b] = "draft"]
    /\ \E p \in Plans : plan' = [plan EXCEPT ![b] = p]

Revise(b) ==
    /\ status[b] = "draft"
    /\ \E p \in Plans : /\ p.code = plan[b].code
                        /\ p.year = plan[b].year
                        /\ plan' = [plan EXCEPT ![b] = p]
    /\ UNCHANGED status

Move(b, from, to) ==
    /\ status[b] \in from
    /\ status' = [status EXCEPT ![b] = to]
    /\ UNCHANGED plan

Next == \E b \in BudgetIds :
            \/ Create(b)
            \/ Revise(b)
            \/ Move(b, {"draft"}, "confirmed")
            \/ Move(b, {"confirmed"}, "closed")
            \/ Move(b, {"draft", "confirmed"}, "cancelled")

Spec == Init /\ [][Next]_vars

=============================================================================
