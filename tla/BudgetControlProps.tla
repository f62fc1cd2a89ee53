------------------------- MODULE BudgetControlProps -------------------------
(***************************************************************************)
(* What the control of postings must guarantee: exactly when postings are  *)
(* evaluated one at a time, and within a bound when they race.             *)
(***************************************************************************)
EXTENDS BudgetControl

(* What a set of ledger rows has moved on the key of a position through a  *)
(* date, counted in the direction of the account.                          *)
Covers(l, r) == <<r.account, r.cc, r.period>> = Key(lines[l])

Spent(rows, l, through) ==
    LET counted == {r \in rows : Covers(l, r) /\ r.date <= through}
        debits == MapThenSumSet(LAMBDA r : r.debit, counted)
        credits == MapThenSumSet(LAMBDA r : r.credit, counted)
    IN  IF Normal[lines[l].account] = "debit" THEN debits - credits ELSE credits - debits

(* The rows a posting would add, on the period that the ledger stamps, and *)
(* what they add to a position.                                            *)
Proposed(h) == UNION {Stamped(job[h], posted + 1, p) : p \in LedgerPeriods(job[h].date)}

Adds(h, l) == Spent(Proposed(h), l, job[h].date)

(* When postings are evaluated one at a time: a posting that commits       *)
(* leaves every position that it adds to within its plan, through the      *)
(* posting date, if the evaluation read that position in a block budget.   *)
(* Planners may confirm, close or cancel the budget or change its posture  *)
(* at any moment.                                                          *)
CommitsWithinPlan ==
    [][\A h \in Producers : pc[h] = "post" /\ verdict'[h] = "posted" =>
          \A pos \in positions[h] :
              pos.enforcement = "block" /\ Adds(h, pos.line) > 0 =>
                  Spent(ledger', pos.line, job[h].date) <= lines[pos.line].amount]_vars

(* A posting that is refused would have exceeded a position of a budget    *)
(* that was confirmed, on the exact key: never another cost center's plan, *)
(* never a draft's, never because of a key that its legs reduce.           *)
RefusedForCause ==
    [][\A h \in Producers : pc[h] = "achieved" /\ verdict'[h] = "budget_exceeded" =>
          \E l \in LineIds :
              /\ budgets[lines[l].budget].status # "draft"
              /\ Adds(h, l) > 0
              /\ Spent(ledger, l, job[h].date) + Adds(h, l) > lines[l].amount]_vars

(* When postings of one day race, none locks what it read.  Each passes    *)
(* its own evaluation, and a producer has only one in flight: a position   *)
(* that a confirmed block budget controls from the start is exceeded by    *)
(* at most one posting for each OTHER producer, however often they post.   *)
Controlled(l) ==
    /\ lines[l].state = "live"
    /\ \A header \in {InitialBudgets[lines[l].budget], budgets[lines[l].budget]} :
           header = [status |-> "confirmed", enforcement |-> "block"]

Largest(l) ==
    Max({0} \cup {Pending(j, lines[l].account, lines[l].cc) : j \in Postings})

OvershootBounded ==
    \A l \in LineIds : \A d \in Dates : Controlled(l) =>
        Spent(ledger, l, d)
            <= lines[l].amount + (Cardinality(Producers) - 1) * Largest(l)

=============================================================================
