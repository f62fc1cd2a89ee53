---------------------------- MODULE BudgetSystem ----------------------------
(***************************************************************************)
(* The budget module as a service: the verbs of BudgetWorkflow write the   *)
(* plan, the evaluations of BudgetControl and the reads of BudgetReads     *)
(* read the same two tables and the ledger.  Nothing but the database      *)
(* connects them, and a statement of one falls between any two statements  *)
(* of another.                                                             *)
(***************************************************************************)
EXTENDS BudgetWorkflow, BudgetPostings

CONSTANTS Producers, MaxPostings, Readers, Queries

VARIABLES
    ledger, posted,     \* the general ledger
    stage, job, period, positions, verdict,     \* the evaluations
    rpc, query, header, found, answer           \* the reads

controlVars == <<ledger, posted, stage, job, period, positions, verdict>>
readVars == <<rpc, query, header, found, answer>>
systemVars == <<vars, controlVars, readVars>>

Control == INSTANCE BudgetControl WITH
    pc <- stage, PlannerEdits <- {},
    InitialLines <- [l \in LineIds |-> NoLine],
    InitialBudgets <- [b \in BudgetIds |-> NoBudget]

Query == INSTANCE BudgetReads WITH pc <- rpc

ASSUME QueriesAssumption == Queries \subseteq Query!ReadQuery

SystemInit == Init /\ Control!Init /\ Query!Init

Planner == Next /\ UNCHANGED <<controlVars, readVars>>

Producer(h) ==
    /\ Control!Send(h) \/ Control!Evaluate(h) \/ Control!Post(h) \/ Control!Abandon(h)
    /\ UNCHANGED <<usable, local, readVars>>

Reader(r) ==
    /\ Query!Ask(r) \/ Query!Read(r)
    /\ UNCHANGED <<usable, local, posted, stage, job, period, positions, verdict>>

SystemNext ==
    \/ Planner
    \/ \E h \in Producers : Producer(h)
    \/ \E r \in Readers : Reader(r)

SystemSpec == SystemInit /\ [][SystemNext]_systemVars

=============================================================================
