---------------------------- MODULE BudgetReads ----------------------------
(***************************************************************************)
(* The reads of the guarded surface beside the verbs: the detail of a      *)
(* budget, its achievement (what each position has absorbed of its plan)   *)
(* and the coverage of a control key.  Each read is a transaction at READ  *)
(* COMMITTED: one action per statement, none of which locks what it reads, *)
(* so that the header, the lines and the ledger of one answer may be those *)
(* of three moments.                                                       *)
(***************************************************************************)
EXTENDS BudgetTypes, FiniteSetsExt

CONSTANTS
    Readers,    \* the reads served at the same time, at most
    Queries,    \* the reads clients may ask for, of ReadQuery
    GLPresent   \* is the accounting schema installed in this database?

DetailQuery == [read : {"detail"}, budget : BudgetIds]
AchievementQuery == [read : {"achievement"}, budget : BudgetIds, through : Dates]
CoverageQuery == [read : {"coverage"}, account : Accounts,
                  cc : CostCenters \cup {NoCC}, period : Periods]

ReadQuery == DetailQuery \cup AchievementQuery \cup CoverageQuery

NoQuery == [read |-> "none"]

VARIABLES
    budgets, lines, ledger,   \* the committed rows, as the statements see them
    pc,         \* the statement each read runs next
    query,      \* the read it serves, or served last
    header,     \* the budget row it found
    found,      \* the live lines it found, each with its row
    answer      \* the code and the body of the response

stored == <<budgets, lines, ledger>>
vars == <<budgets, lines, ledger, pc, query, header, found, answer>>

NoAnswer == [code |-> "none", body |-> {}]

Init ==
    /\ pc = [r \in Readers |-> "idle"]
    /\ query = [r \in Readers |-> NoQuery]
    /\ header = [r \in Readers |-> NoBudget]
    /\ found = [r \in Readers |-> {}]
    /\ answer = [r \in Readers |-> NoAnswer]

(***************************************************************************)
(* What the statements return.                                             *)
(***************************************************************************)
(* Mutant: the query forgets the soft delete. *)
StoredLinesOf(b) == {l \in LineIds : lines[l].state # "absent" /\ lines[l].budget = b}

LinesOf(b) == {l \in LineIds : lines[l].state = "live" /\ lines[l].budget = b}

BudgetLines(b) == {[line |-> l, row |-> lines[l]] : l \in LinesOf(b)}

NormalMovement(row) ==
    IF row.normal = "debit" THEN row.debit - row.credit ELSE row.credit - row.debit

(* Mutant: the movement of a key is summed over the periods of the query. *)
AchievedOverPeriods(rows, through) ==
    LET counted == {e \in ledger : /\ e.date <= through
                                   /\ \E l \in rows : l.row.account = e.account
                                   /\ \E l \in rows : l.row.period = e.period}
    IN  [key \in {Key(l.row) : l \in rows} |->
            MapThenSumSet(NormalMovement,
                          {e \in counted : e.account = key[1] /\ e.cc = key[2]})]

(* The movement of every key that meets the accounts and the periods of    *)
(* the lines, each in any combination: the query takes two lists.          *)
AchievedPerPeriod(rows, through) ==
    LET counted == {e \in ledger : /\ e.date <= through
                                   /\ \E l \in rows : l.row.account = e.account
                                   /\ \E l \in rows : l.row.period = e.period}
    IN  [key \in {Key(e) : e \in counted} |->
            MapThenSumSet(NormalMovement, {e \in counted : Key(e) = key})]

(* A quotient is a pair; a position that plans nothing has none. *)
Utilization(achieved, planned) ==
    IF planned = 0 THEN <<0, 1>> ELSE <<achieved, planned>>

AchievementRow(l, achieved) ==
    [line |-> l.line, planned |-> l.row.amount, achieved |-> achieved,
     remaining |-> l.row.amount - achieved,
     utilization |-> Utilization(achieved, l.row.amount)]

AchievementBody(rows, through) ==
    LET moved == AchievedPerPeriod(rows, through)
    IN  {AchievementRow(l, IF Key(l.row) \in DOMAIN moved THEN moved[Key(l.row)] ELSE 0) :
            l \in rows}

(* The live positions of one exact key, whatever the status of their       *)
(* budgets; the query returns one of them.                                 *)
Coverage(q) ==
    {[line |-> l, budget |-> lines[l].budget, planned |-> lines[l].amount,
      enforcement |-> budgets[lines[l].budget].enforcement] :
        l \in {k \in LineIds : lines[k].state = "live" /\ Key(lines[k]) = Key(q)}}

(***************************************************************************)
(* The handlers.                                                           *)
(***************************************************************************)
Respond(r, code, body) ==
    /\ pc' = [pc EXCEPT ![r] = "idle"]
    /\ answer' = [answer EXCEPT ![r] = [code |-> code, body |-> body]]

Fail(r, code) == Respond(r, code, {}) /\ UNCHANGED <<header, found>>

Ask(r) ==
    /\ pc[r] = "idle"
    /\ \E q \in Queries :
          /\ query' = [query EXCEPT ![r] = q]
          /\ pc' = [pc EXCEPT ![r] = IF q.read = "coverage" THEN "key" ELSE "header"]
    /\ header' = [header EXCEPT ![r] = NoBudget]
    /\ found' = [found EXCEPT ![r] = {}]
    /\ answer' = [answer EXCEPT ![r] = NoAnswer]
    /\ UNCHANGED stored

(* The control reads refuse a database without the general ledger. *)
Unwired(r) == query[r].read # "detail" /\ ~GLPresent

(* get_budget_row of detail, require_gl and get_budget of achievement: a   *)
(* missing budget is a typed refusal of the one, an internal error of the  *)
(* other.                                                                  *)
ReadHeader(r) ==
    /\ pc[r] = "header"
    /\ LET row == budgets[query[r].budget]
       IN  \/ Unwired(r) /\ Fail(r, "accounting_unwired")
           \/ /\ ~Unwired(r) /\ row = NoBudget
              /\ Fail(r, IF query[r].read = "detail" THEN "budget_not_found" ELSE "internal_error")
           \/ /\ ~Unwired(r) /\ row # NoBudget
              /\ header' = [header EXCEPT ![r] = row]
              /\ pc' = [pc EXCEPT ![r] = "lines"]
              /\ UNCHANGED <<found, answer>>
    /\ UNCHANGED <<stored, query>>

(* The second statement of both; detail answers with what it returns. *)
ReadLines(r) ==
    /\ pc[r] = "lines"
    /\ LET rows == BudgetLines(query[r].budget)
       IN  /\ found' = [found EXCEPT ![r] = rows]
           /\ IF query[r].read = "detail" THEN Respond(r, "ok", rows)
              ELSE pc' = [pc EXCEPT ![r] = "movement"] /\ UNCHANGED answer
    /\ UNCHANGED <<stored, query, header>>

(* The third statement of achievement, on the lines that the second found. *)
ReadMovement(r) ==
    /\ pc[r] = "movement"
    /\ Respond(r, "ok", AchievementBody(found[r], query[r].through))
    /\ UNCHANGED <<stored, query, header, found>>

ReadCoverage(r) ==
    /\ pc[r] = "key"
    /\ LET covering == Coverage(query[r])
       IN  \/ Unwired(r) /\ Respond(r, "accounting_unwired", {})
           \/ ~Unwired(r) /\ covering = {} /\ Respond(r, "uncovered", {})
           \/ /\ ~Unwired(r)
              /\ \E position \in covering : Respond(r, "covered", {position})
    /\ UNCHANGED <<stored, query, header, found>>

Read(r) == ReadHeader(r) \/ ReadLines(r) \/ ReadMovement(r) \/ ReadCoverage(r)

Next == \E r \in Readers : Ask(r) \/ Read(r)

=============================================================================
