--------------------------- MODULE BudgetControl ---------------------------
(***************************************************************************)
(* BudgetControlService.evaluate_posting and the chokepoint it serves.  A  *)
(* producer posts to the general ledger; accounting asks the control which *)
(* confirmed positions the posting would exceed, refuses it when one of    *)
(* them is a block budget's, and commits its ledger rows otherwise.  The   *)
(* evaluation runs at READ COMMITTED: the positions and the achieved       *)
(* movement are two statements, and neither locks what it reads.  Periods  *)
(* and account orientations do not change here, so that the statements     *)
(* that read them are one step.                                            *)
(***************************************************************************)
EXTENDS BudgetPostings

CONSTANTS
    Producers,      \* the postings in flight at the same time, at most
    InitialLines,   \* the lines of the budgets at the start
    InitialBudgets, \* status and enforcement of each budget at the start
    PlannerEdits,   \* the header changes planners commit meanwhile
    GLPresent,      \* is the accounting schema installed in this database?
    MaxPostings     \* bounds the ledger of the model

ASSUME GLAssumption == GLPresent \in BOOLEAN
ASSUME LinesAssumption == InitialLines \in [LineIds -> LineRow \cup {NoLine}]

Header == [status : Statuses, enforcement : Enforcements]

ASSUME BudgetsAssumption == InitialBudgets \in [BudgetIds -> Header \cup {NoBudget}]
ASSUME EditsAssumption == PlannerEdits \subseteq {"confirm", "close", "cancel", "posture"}

NoPosting == [date |-> 0, lines |-> <<>>]

VARIABLES
    budgets,    \* the committed headers, as the control reads them
    lines,      \* the committed plan lines
    ledger,     \* the committed rows of accounting.ledgers
    posted,     \* how many postings were committed
    pc,         \* the statement each producer's posting is at
    job,        \* the posting under evaluation
    period,     \* the fiscal period it lands in
    positions,  \* the confirmed positions the evaluation read
    verdict     \* what became of the producer's last posting

plan == <<budgets, lines>>
vars == <<budgets, lines, ledger, posted, pc, job, period, positions, verdict>>

Init ==
    /\ budgets = InitialBudgets
    /\ lines = InitialLines
    /\ ledger = {}
    /\ posted = 0
    /\ pc = [h \in Producers |-> "idle"]
    /\ job = [h \in Producers |-> NoPosting]
    /\ period = [h \in Producers |-> "none"]
    /\ positions = [h \in Producers |-> {}]
    /\ verdict = [h \in Producers |-> "none"]

(***************************************************************************)
(* The rules of the evaluation.                                            *)
(***************************************************************************)
(* What the control knows of a plan line: its exact key, the plan and the  *)
(* posture of its budget.                                                  *)
ControlPosition(l) ==
    [line |-> l, account |-> lines[l].account, cc |-> lines[l].cc,
     amount |-> lines[l].amount,
     enforcement |-> budgets[lines[l].budget].enforcement]

OnKeys(l, accounts, p) ==
    lines[l].state = "live" /\ lines[l].account \in accounts /\ lines[l].period = p

(* Mutant: drafts take part. *)
AnyPositions(accounts, p) ==
    {ControlPosition(l) : l \in {k \in LineIds :
        OnKeys(k, accounts, p) /\ budgets[lines[k].budget].status \in {"draft", "confirmed"}}}

ConfirmedPositions(accounts, p) ==
    {ControlPosition(l) : l \in {k \in LineIds :
        OnKeys(k, accounts, p) /\ budgets[lines[k].budget].status = "confirmed"}}

(* Mutant: the movement of the posting date itself is left out. *)
AchievedBefore(account, cc, p, through) ==
    Moved({r \in ledger : /\ r.account = account /\ r.cc = cc
                          /\ r.period = p /\ r.date < through})

(* The committed movement of one key through a date, each row oriented by  *)
(* its own stamp.                                                          *)
Achieved(account, cc, p, through) ==
    Moved({r \in ledger : /\ r.account = account /\ r.cc = cc
                          /\ r.period = p /\ r.date <= through})

(* Mutant: a position breaches when it was exceeded before. *)
ExceededBefore(h, pos) ==
    LET pending == Pending(job[h], pos.account, pos.cc)
    IN  /\ pending > 0
        /\ Achieved(pos.account, pos.cc, period[h], job[h].date) > pos.amount

(* The exact-key comparison: only a key whose net contribution is positive *)
(* can breach.                                                             *)
Breached(h, pos) ==
    LET pending == Pending(job[h], pos.account, pos.cc)
    IN  /\ pending > 0
        /\ Achieved(pos.account, pos.cc, period[h], job[h].date) + pending > pos.amount

(***************************************************************************)
(* The evaluation, statement by statement, and the posting.                *)
(***************************************************************************)
Finish(h, outcome) ==
    /\ pc' = [pc EXCEPT ![h] = "idle"]
    /\ job' = [job EXCEPT ![h] = NoPosting]
    /\ period' = [period EXCEPT ![h] = "none"]
    /\ positions' = [positions EXCEPT ![h] = {}]
    /\ verdict' = [verdict EXCEPT ![h] = outcome]

(* A producer posts.  An empty posting is within budget at once. *)
Send(h) ==
    /\ pc[h] = "idle"
    /\ \E j \in Postings :
          /\ job' = [job EXCEPT ![h] = j]
          /\ pc' = [pc EXCEPT ![h] = IF j.lines = <<>> THEN "post" ELSE "period"]
    /\ verdict' = [verdict EXCEPT ![h] = "none"]
    /\ UNCHANGED <<plan, ledger, posted, period, positions>>

(* require_gl: the ledger's schema is there. *)
RequireGL == GLPresent

(* require_gl, period_covering and normal_balances.  Without a period, or  *)
(* without a line on an account that exists, nothing can be exceeded.      *)
Resolve(h) ==
    /\ pc[h] = "period"
    /\ \/ ~RequireGL /\ Finish(h, "accounting_unwired")
       \/ /\ RequireGL /\ PeriodsFor(job[h].date) = {}
          /\ pc' = [pc EXCEPT ![h] = "post"]
          /\ UNCHANGED <<job, period, positions, verdict>>
       \/ /\ RequireGL
          /\ \E p \in PeriodsFor(job[h].date) : period' = [period EXCEPT ![h] = p]
          /\ pc' = [pc EXCEPT ![h] = IF KnownLines(job[h]) = {} THEN "post" ELSE "positions"]
          /\ UNCHANGED <<job, positions, verdict>>
    /\ UNCHANGED <<plan, ledger, posted>>

ReadPositions(h) ==
    /\ pc[h] = "positions"
    /\ LET accounts == {job[h].lines[i].account : i \in DOMAIN job[h].lines}
       IN  positions' = [positions EXCEPT ![h] = ConfirmedPositions(accounts, period[h])]
    /\ pc' = [pc EXCEPT ![h] = "achieved"]
    /\ UNCHANGED <<plan, ledger, posted, job, period, verdict>>

(* The achieved movement and the verdict.  A block breach refuses the      *)
(* whole posting, whatever the warn breaches.                              *)
ReadAchieved(h) ==
    /\ pc[h] = "achieved"
    /\ IF \E pos \in positions[h] : pos.enforcement = "block" /\ Breached(h, pos)
       THEN Finish(h, "budget_exceeded")
       ELSE /\ pc' = [pc EXCEPT ![h] = "post"]
            /\ UNCHANGED <<job, period, positions, verdict>>
    /\ UNCHANGED <<plan, ledger, posted>>

(* The general ledger, external, commits the posting if its lines are all  *)
(* on accounts that exist.                                                 *)
Post(h) ==
    /\ pc[h] = "post" /\ posted < MaxPostings
    /\ IF job[h].lines = <<>> \/ KnownLines(job[h]) # DOMAIN job[h].lines
       THEN Finish(h, "rejected") /\ UNCHANGED <<ledger, posted>>
       ELSE /\ posted' = posted + 1
            /\ \E p \in IF LedgerPeriods(job[h].date) = {} THEN {"none"}
                        ELSE LedgerPeriods(job[h].date) :
                  ledger' = ledger \cup Stamped(job[h], posted + 1, p)
            /\ Finish(h, "posted")
    /\ UNCHANGED plan

(* The producer gives up. *)
Abandon(h) ==
    /\ pc[h] # "idle" /\ Finish(h, "abandoned")
    /\ UNCHANGED <<plan, ledger, posted>>

(* Planners commit a verb of the workflow service on a header. *)
Plans(b) ==
    /\ \/ \E verb \in PlannerEdits \ {"posture"} :
             /\ budgets[b].status \in AllowedFrom(verb)
             /\ budgets' = [budgets EXCEPT ![b].status = Target(verb)]
       \/ /\ "posture" \in PlannerEdits
          /\ budgets[b].status \in {"draft", "confirmed"}
          /\ \E e \in Enforcements : budgets' = [budgets EXCEPT ![b].enforcement = e]
    /\ UNCHANGED <<lines, ledger, posted, pc, job, period, positions, verdict>>

Evaluate(h) == Resolve(h) \/ ReadPositions(h) \/ ReadAchieved(h)

Next ==
    \/ \E h \in Producers : Send(h) \/ Evaluate(h) \/ Post(h) \/ Abandon(h)
    \/ \E b \in BudgetIds : Plans(b)

Spec == Init /\ [][Next]_vars

=============================================================================
