-------------------------- MODULE MCBudgetWorkflow --------------------------
(***************************************************************************)
(* Small instances of BudgetWorkflow: two fiscal periods of one day each   *)
(* in one year, and for every run a menu of the requests clients send.     *)
(***************************************************************************)
EXTENDS BudgetWorkflowProps, TLC

CONSTANTS a1, a2, cc1, p1, p2

MCDates == {1, 2}
MCYears == {2026}
MCCalendar == (p1 :> [year |-> 2026, start |-> 1, end |-> 1])
           @@ (p2 :> [year |-> 2026, start |-> 2, end |-> 2])

Symmetry == Permutations(Handlers) \cup Permutations(BudgetIds)
            \cup Permutations(LineIds)

(* A header over both periods, and positions on the keys of the runs. *)
Header(code, from, to) ==
    [code |-> code, year |-> 2026, from |-> from, to |-> to,
     description |-> "d1", enforcement |-> "warn"]
Plain == [account |-> a1, cc |-> NoCC, period |-> p1, amount |-> 1000]
Centered == [account |-> a1, cc |-> cc1, period |-> p2, amount |-> 1000]
Tiny == [account |-> a2, cc |-> NoCC, period |-> p1, amount |-> 4]
Empty == [account |-> a2, cc |-> NoCC, period |-> p1, amount |-> 0]

Create(header, positions) ==
    {[verb |-> "create", budget |-> b, header |-> header, lines |-> positions] :
        b \in BudgetIds}
Update(from, to, description, enforcement) ==
    {[verb |-> "update", budget |-> b, from |-> from, to |-> to,
      description |-> description, enforcement |-> enforcement] : b \in BudgetIds}
AddLine(position) ==
    {[verb |-> "add_line", budget |-> b, lines |-> <<position>>] : b \in BudgetIds}
UpdateLine(amount) ==
    {[verb |-> "update_line", budget |-> b, line |-> l, amount |-> amount] :
        b \in BudgetIds, l \in LineIds}
DeleteLine == [verb : {"delete_line"}, budget : BudgetIds, line : LineIds]
Move(verb) == [verb : {verb}, budget : BudgetIds]

(* Racing patches and transitions of one budget. *)
HeaderRequests ==
    Create(Header("c1", 1, 2), <<Plain>>)
    \cup Update(2, Keep, Keep, Keep) \cup Update(Keep, 1, Null, Keep)
    \cup Update(Keep, Keep, "d2", Keep) \cup Update(Keep, Keep, Keep, "block")
    \cup Move("confirm") \cup Move("close") \cup Move("cancel")

(* Racing line edits, against each other and against the lifecycle. *)
LineRequests ==
    Create(Header("c1", 1, 2), <<Plain>>) \cup AddLine(Centered)
    \cup UpdateLine(2000) \cup DeleteLine
    \cup Move("confirm") \cup Move("cancel")

(* Every kind of verb against the lifecycle. *)
RaceRequests ==
    Create(Header("c1", 1, 2), <<Plain>>) \cup AddLine(Centered) \cup UpdateLine(2000)
    \cup Update(Keep, Keep, Keep, "block")
    \cup Move("confirm") \cup Move("close") \cup Move("cancel")

(* Everything, one request at a time. *)
SerialRequests ==
    Create(Header("c1", 1, 2), <<Plain, Centered>>) \cup Create(Header("c1", 1, 2), <<Plain>>)
    \cup Create(Header("c2", 1, 2), <<>>) \cup Create(Header("c2", 2, 1), <<>>)
    \cup AddLine(Plain) \cup AddLine(Centered) \cup AddLine(Tiny) \cup AddLine(Empty)
    \cup UpdateLine(0) \cup UpdateLine(2004) \cup DeleteLine
    \cup Update(2, Keep, Keep, Keep) \cup Update(2, 1, Keep, Keep)
    \cup Update(Keep, Keep, Keep, "block") \cup Update(Keep, Keep, Keep, Keep)
    \cup Move("confirm") \cup Move("close") \cup Move("cancel")

(* A draft loses its line while it is confirmed. *)
ConfirmRequests ==
    Create(Header("c1", 1, 2), <<Plain>>) \cup DeleteLine \cup Move("confirm")

(* The same position planned again after a cancel. *)
RecreateRequests ==
    Create(Header("c1", 1, 2), <<Plain>>) \cup Create(Header("c2", 1, 2), <<Plain>>)
    \cup Move("confirm") \cup Move("cancel")

(* Racing inserts into two budgets. *)
InsertRequests ==
    Create(Header("c1", 1, 2), <<Centered>>)
    \cup Create(Header("c1", 1, 2), <<>>) \cup Create(Header("c2", 1, 2), <<>>)
    \cup AddLine(Centered) \cup DeleteLine

=============================================================================
