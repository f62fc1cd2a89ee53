---------------------------- MODULE BudgetTypes ----------------------------
(***************************************************************************)
(* The rows of schema "budget" (tables budgets and budget_lines) as the    *)
(* write path and the control read see them, and the pure rules on them.   *)
(*                                                                         *)
(* Dates are integers, years and codes opaque values.  An amount is an     *)
(* integer number of thousandths: finer than the two decimals that         *)
(* NUMERIC(18, 2) keeps, so that what a client sends and what the column   *)
(* stores can differ.                                                      *)
(***************************************************************************)
EXTENDS Integers, Sequences, FiniteSets

CONSTANTS
    BudgetIds,      \* the ids budgets may get (bounds the number of headers)
    LineIds,        \* the ids lines may get (bounds the number of lines)
    Accounts, CostCenters, Periods,   \* ids of the accounting masters
    NoCC,           \* the NULL cost center
    Codes, Years, Descriptions,
    Null,           \* the NULL description
    Dates,          \* a set of integers
    Calendar        \* the start, end and fiscal year of every period row

ASSUME FiniteAssumption == IsFiniteSet(LineIds)
ASSUME NoCCAssumption == NoCC \notin CostCenters
ASSUME NullAssumption == Null \notin Descriptions
ASSUME DatesAssumption == Dates \subseteq Int
ASSUME CalendarAssumption ==
    Calendar \in [Periods -> [year : Years, start : Int, end : Int]]

Statuses == {"draft", "confirmed", "closed", "cancelled"}
Enforcements == {"warn", "block"}

(* The header fields a client supplies at create. *)
NewHeader == [code : Codes, year : Years, from : Dates, to : Dates,
              description : Descriptions \cup {Null},
              enforcement : Enforcements]

(* A row of budget.budgets. *)
BudgetRow == [status : Statuses, code : Codes, year : Years,
              from : Dates, to : Dates, description : Descriptions \cup {Null},
              enforcement : Enforcements]

NoBudget == [status |-> "absent"]

(* One plan position as a client supplies it: the control key and the      *)
(* planned amount.                                                         *)
Position == [account : Accounts, cc : CostCenters \cup {NoCC},
             period : Periods, amount : Int]

(* A row of budget.budget_lines; deleted is metadata->>'deleted_at'. *)
LineRow == [state : {"live", "deleted"}, budget : BudgetIds,
            account : Accounts, cc : CostCenters \cup {NoCC},
            period : Periods, amount : Int]

NoLine == [state |-> "absent"]

(* The control key: a NULL cost center matches only NULL. *)
Key(x) == <<x.account, x.cc, x.period>>

(* What the NUMERIC(18, 2) column keeps of a non-negative amount: half a   *)
(* cent rounds up.                                                         *)
Stored(amount) == ((amount + 5) \div 10) * 10

DraftRow(header) ==
    [status |-> "draft", code |-> header.code, year |-> header.year,
     from |-> header.from, to |-> header.to,
     description |-> header.description,
     enforcement |-> header.enforcement]

NewRow(budget, position) ==
    [state |-> "live", budget |-> budget, account |-> position.account,
     cc |-> position.cc, period |-> position.period,
     amount |-> Stored(position.amount)]

(* BG6: the period belongs to the header's year and lies in its range. *)
PeriodFits(period, header) ==
    /\ Calendar[period].year = header.year
    /\ header.from <= Calendar[period].start
    /\ Calendar[period].end <= header.to

(* The lifecycle: which statuses a verb accepts and which it leads to. *)
AllowedFrom(verb) ==
    IF verb = "cancel" THEN {"draft", "confirmed"}
    ELSE IF verb = "close" THEN {"confirmed"} ELSE {"draft"}

Target(verb) ==
    IF verb = "cancel" THEN "cancelled"
    ELSE IF verb = "close" THEN "closed" ELSE "confirmed"

=============================================================================
