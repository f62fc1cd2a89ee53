-------------------------- MODULE BudgetSystemProps --------------------------
(***************************************************************************)
(* What planners, producers and readers may rely on together.              *)
(***************************************************************************)
EXTENDS BudgetSystem, FiniteSetsExt

(* A plan is frozen once its budget has left the draft: when verbs are     *)
(* served one at a time, the positions an evaluation read in its first     *)
(* statement are the plan when it compares and when the posting commits,   *)
(* although the budget may have been closed or cancelled meanwhile.        *)
EvaluatedPlanIsCurrent ==
    \A h \in Producers : \A pos \in positions[h] :
        /\ IsLive(pos.line)
        /\ lines[pos.line].amount = pos.amount
        /\ lines[pos.line].account = pos.account /\ lines[pos.line].cc = pos.cc

(* A detail or an achievement whose first statement found a budget past    *)
(* its draft shows exactly the lines that the budget has, with the amounts *)
(* that they plan, from its last statement on and for ever.                *)
Planned(r) ==
    IF query[r].read = "detail"
    THEN {<<x.line, x.row.amount>> : x \in answer[r].body}
    ELSE {<<x.line, x.planned>> : x \in answer[r].body}

ShownPlanIsCurrent ==
    \A r \in Readers :
        answer[r].code = "ok" /\ header[r].status # "draft" =>
            Planned(r) = {<<l, lines[l].amount>> : l \in LiveLines(query[r].budget)}

(* The achievement of a position is what the control would count on its    *)
(* key: a planner and a producer never see two amounts for one moment,     *)
(* although the two queries sum over different sets of keys.               *)
ReportMatchesControl ==
    [][\A r \in Readers : rpc[r] = "movement" /\ answer'[r].code = "ok" =>
          \A x \in answer'[r].body : \E l \in found[r] :
              /\ l.line = x.line
              /\ x.achieved = Control!Achieved(l.row.account, l.row.cc, l.row.period,
                                               query[r].through)]_systemVars

(* A posting that commits leaves the plan of a block budget as the planner *)
(* last committed it, not as the evaluation remembers it.                  *)
PostedWithinPlan ==
    [][\A h \in Producers : stage[h] = "post" /\ verdict'[h] = "posted" =>
          \A pos \in positions[h], p \in {period[h]}, d \in {job[h].date} :
              pos.enforcement = "block" /\ Control!Pending(job[h], pos.account, pos.cc) > 0 =>
                  Control!Achieved(pos.account, pos.cc, p, d)'
                      <= lines[pos.line].amount]_systemVars

(* A key that coverage reports as planned is planned by the budget that    *)
(* the answer names, and by no other.                                      *)
CoverageNamesTheBudget ==
    [][\A r \in Readers : rpc[r] = "key" /\ answer'[r].code = "covered" =>
          \A position \in answer'[r].body : \A l \in LineIds :
              IsLive(l) /\ Key(lines[l]) = Key(query[r]) =>
                  lines[l].budget = position.budget]_systemVars

=============================================================================
