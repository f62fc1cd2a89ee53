--------------------------- MODULE BudgetWorkflow ---------------------------
(***************************************************************************)
(* BudgetWorkflowService: the validated write path.  A handler serves one  *)
(* verb at a time; a verb is one transaction, and every SQL statement of   *)
(* it is a step of its own, because the service runs at PostgreSQL's       *)
(* default isolation level, READ COMMITTED: each statement sees what had   *)
(* been committed when it started.  The UPDATE that ends a verb re-checks  *)
(* its WHERE clause on the latest version of the row, and is one step with *)
(* the COMMIT that follows it; the INSERTs of a verb are published by its  *)
(* COMMIT.  The masters (accounts, cost centers, fiscal periods) belong to *)
(* the accounting module and may change between any two statements.        *)
(***************************************************************************)
EXTENDS BudgetTypes

CONSTANTS
    Handlers,   \* the requests served at the same time, at most
    Requests,   \* the requests clients may send
    Keep,       \* a field of a patch that is absent from the body
    Volatile,   \* the masters that accounting may disable and enable again
    GLPresent,  \* is the accounting schema installed in this database?
    Decorated   \* are the decorator's partial unique indexes installed?

ASSUME FlagsAssumption == GLPresent \in BOOLEAN /\ Decorated \in BOOLEAN

Masters == Accounts \cup CostCenters \cup Periods

ASSUME VolatileAssumption == Volatile \subseteq Masters

ASSUME PatchAssumption ==
    /\ Keep \notin Dates /\ Keep \notin Descriptions /\ Keep \notin Enforcements
    /\ Keep # Null

CreateRequest == [verb : {"create"}, budget : BudgetIds,
                  header : NewHeader, lines : Seq(Position)]
UpdateRequest == [verb : {"update"}, budget : BudgetIds,
                  from : Dates \cup {Keep}, to : Dates \cup {Keep},
                  description : Descriptions \cup {Keep, Null},
                  enforcement : Enforcements \cup {Keep}]
AddLineRequest == [verb : {"add_line"}, budget : BudgetIds,
                   lines : [1 .. 1 -> Position]]
UpdateLineRequest == [verb : {"update_line"}, budget : BudgetIds,
                      line : LineIds, amount : Int]
DeleteLineRequest == [verb : {"delete_line"}, budget : BudgetIds,
                      line : LineIds]
TransitionRequest == [verb : {"confirm", "close", "cancel"},
                      budget : BudgetIds]

RequestType ==
    CreateRequest \cup UpdateRequest \cup AddLineRequest \cup
    UpdateLineRequest \cup DeleteLineRequest \cup TransitionRequest

ASSUME RequestsAssumption == Requests \subseteq RequestType

NoRequest == [verb |-> "none"]
NoReply == [verb |-> "none", code |-> "none"]

VARIABLES
    budgets,    \* the committed rows of budget.budgets
    lines,      \* the committed rows of budget.budget_lines
    usable,     \* the masters that pass their guard now
    pc,         \* the statement each handler runs next
    arg,        \* the request it serves
    hdr,        \* the header row the verb read, or minted at create
    todo,       \* the positions it still has to check, then to insert
    reply       \* the verb it served last and how it answered

db == <<budgets, lines>>
local == <<pc, arg, hdr, todo, reply>>
vars == <<budgets, lines, usable, pc, arg, hdr, todo, reply>>

Init ==
    /\ budgets = [b \in BudgetIds |-> NoBudget]
    /\ lines = [l \in LineIds |-> NoLine]
    /\ usable = Masters
    /\ pc = [h \in Handlers |-> "idle"]
    /\ arg = [h \in Handlers |-> NoRequest]
    /\ hdr = [h \in Handlers |-> NoBudget]
    /\ todo = [h \in Handlers |-> <<>>]
    /\ reply = [h \in Handlers |-> NoReply]

(***************************************************************************)
(* Queries.                                                                *)
(***************************************************************************)
IsLive(l) == lines[l].state = "live"
LiveLines(b) == {l \in LineIds : IsLive(l) /\ lines[l].budget = b}
FreeLines == {l \in LineIds : lines[l] = NoLine}
Exists(b) == budgets[b].status # "absent"

(* Mutant: the check forgets that drafts hold their keys too. *)
KeyTakenIfConfirmed(key, own) ==
    \E l \in LineIds : /\ IsLive(l) /\ Key(lines[l]) = key
                       /\ lines[l].budget # own
                       /\ budgets[lines[l].budget].status = "confirmed"

(* BG1: a live line of ANOTHER budget, whatever its status, has the key. *)
KeyTaken(key, own) ==
    \E l \in LineIds : IsLive(l) /\ Key(lines[l]) = key /\ lines[l].budget # own

(* Mutant: only a draft reserves its code. *)
CodeTakenByDraft(code, own) ==
    \E b \in BudgetIds \ {own} :
        budgets[b].status = "draft" /\ budgets[b].code = code

CodeTaken(code, own) ==
    \E b \in BudgetIds \ {own} : Exists(b) /\ budgets[b].code = code

(* Mutants: the decorator does not restore the code index; it leads the    *)
(* key index with the budget.                                              *)
NoCodeClash(r) == r.verb = "none"

KeyClashInBudget(r) ==
    \E i \in DOMAIN r.lines : \E l \in LiveLines(r.budget) :
        r.lines[i].cc # NoCC /\ Key(lines[l]) = Key(r.lines[i])

(* What the decorator's partial uniques refuse at an INSERT.  They compare *)
(* as SQL does: two NULL cost centers are distinct.                        *)
CodeClash(r) == r.verb = "create" /\ CodeTaken(r.header.code, r.budget)

KeyClash(r) ==
    \E i \in DOMAIN r.lines :
        /\ r.lines[i].cc # NoCC
        /\ \/ \E l \in LineIds : IsLive(l) /\ Key(lines[l]) = Key(r.lines[i])
           \/ \E j \in DOMAIN r.lines :
                  j # i /\ Key(r.lines[j]) = Key(r.lines[i])

(* internal() turns a unique violation into the typed refusal. *)
ClashCode(r) ==
    IF CodeClash(r) THEN "budget_code_taken" ELSE "budget_coverage_conflict"

(* The guards on the masters: an account that is active and takes          *)
(* postings, a cost center that is an active leaf, a period that exists.   *)
AccountPostable(account) == account \in usable
CostCenterUsable(cc) == cc \in usable
FindPeriod(period) == period \in usable

(* budget_lines returns the live lines of a budget in the order of their   *)
(* period and account ids, an order the model leaves open.                 *)
LineLists(b) ==
    {s \in [1 .. Cardinality(LiveLines(b)) -> LiveLines(b)] :
        \A i, j \in DOMAIN s : s[i] = s[j] => i = j}

Candidate(l) == [account |-> lines[l].account, cc |-> lines[l].cc,
                 period |-> lines[l].period, amount |-> lines[l].amount]

(***************************************************************************)
(* How a handler moves on.                                                 *)
(***************************************************************************)
Goto(h, statement) == pc' = [pc EXCEPT ![h] = statement]

Answer(h, code) ==
    /\ pc' = [pc EXCEPT ![h] = "idle"]
    /\ arg' = [arg EXCEPT ![h] = NoRequest]
    /\ hdr' = [hdr EXCEPT ![h] = NoBudget]
    /\ todo' = [todo EXCEPT ![h] = <<>>]
    /\ reply' = [reply EXCEPT ![h] = [verb |-> arg[h].verb, code |-> code]]

(* An error return drops the transaction, which rolls it back. *)
Refuse(h, code) == Answer(h, code) /\ UNCHANGED db

(* A statement that only reads. *)
Reads(h) == UNCHANGED <<budgets, lines, arg, reply>>

(* "ok" stands for the 2xx answers. *)
HttpStatus(code) ==
    CASE code \in {"budget_not_found", "budget_line_not_found"} -> 404
      [] code = "budget_invalid_transition" -> 409
      [] code = "accounting_unwired" -> 503
      [] code \in {"internal_error", "database_error"} -> 500
      [] code = "ok" -> 200
      [] OTHER -> 422

(***************************************************************************)
(* A request arrives.  The id of a new budget is minted on arrival; the    *)
(* guards Fresh and Fits bound the model: ids and line slots that no row   *)
(* and no request in flight uses.                                          *)
(***************************************************************************)
Inserting(r) == r.verb \in {"create", "add_line"}

Fresh(r) ==
    r.verb = "create" =>
        /\ ~Exists(r.budget)
        /\ \A h \in Handlers :
              arg[h].verb = "create" => arg[h].budget # r.budget

SlotsOf(r) == IF Inserting(r) THEN 1 .. Len(r.lines) ELSE {}

Fits(r) ==
    LET claimed == UNION {{h} \X SlotsOf(arg[h]) : h \in Handlers}
    IN  Cardinality(claimed) + Cardinality(SlotsOf(r)) <= Cardinality(FreeLines)

(* Mutant: create starts as the other verbs do. *)
BeginAtRow(h) ==
    /\ pc[h] = "idle"
    /\ \E r \in Requests : Fresh(r) /\ Fits(r) /\ arg' = [arg EXCEPT ![h] = r]
    /\ Goto(h, "read")
    /\ UNCHANGED <<budgets, lines, usable, hdr, todo, reply>>

Begin(h) ==
    /\ pc[h] = "idle"
    /\ \E r \in Requests :
          /\ Fresh(r) /\ Fits(r)
          /\ arg' = [arg EXCEPT ![h] = r]
          /\ Goto(h, IF r.verb = "create" THEN "code" ELSE "read")
    /\ reply' = [reply EXCEPT ![h] = NoReply]
    /\ UNCHANGED <<budgets, lines, usable, hdr, todo>>

(***************************************************************************)
(* The guard matrix, one position at a time: BG3 with BG4, BG5, BG6, BG1.  *)
(***************************************************************************)
(* Check what is left to check; then create and add_line insert, confirm   *)
(* runs its compare-and-set.                                               *)
CheckNext(h, positions) ==
    IF positions # <<>>
    THEN Goto(h, "account") /\ todo' = [todo EXCEPT ![h] = positions]
    ELSE IF arg[h].verb = "confirm"
    THEN Goto(h, "cas") /\ todo' = [todo EXCEPT ![h] = <<>>]
    ELSE Goto(h, "insert") /\ todo' = [todo EXCEPT ![h] = arg[h].lines]

Within(h, statement) == pc[h] = statement /\ todo[h] # <<>>

(* BG3, then BG4.  Without the accounting schema the query itself fails.   *)
CheckAccount(h) ==
    /\ Within(h, "account")
    /\ LET p == Head(todo[h])
       IN  \/ p.amount <= 0 /\ Refuse(h, "budget_invalid_amount")
           \/ p.amount > 0 /\ ~GLPresent /\ Refuse(h, "internal_error")
           \/ /\ p.amount > 0 /\ GLPresent /\ ~AccountPostable(p.account)
              /\ Refuse(h, "budget_account_missing")
           \/ /\ p.amount > 0 /\ GLPresent /\ AccountPostable(p.account)
              /\ Goto(h, IF p.cc = NoCC THEN "period" ELSE "cost_center")
              /\ Reads(h) /\ UNCHANGED <<hdr, todo>>
    /\ UNCHANGED usable

CheckCostCenter(h) ==
    /\ Within(h, "cost_center")
    /\ IF CostCenterUsable(Head(todo[h]).cc)
       THEN Goto(h, "period") /\ Reads(h) /\ UNCHANGED <<hdr, todo>>
       ELSE Refuse(h, "budget_cost_center_invalid")
    /\ UNCHANGED usable

(* BG6, against the header as this verb read it. *)
CheckPeriod(h) ==
    /\ Within(h, "period")
    /\ LET p == Head(todo[h]).period
       IN  IF FindPeriod(p) /\ PeriodFits(p, hdr[h])
           THEN Goto(h, "key") /\ Reads(h) /\ UNCHANGED <<hdr, todo>>
           ELSE Refuse(h, "budget_period_invalid")
    /\ UNCHANGED usable

(* Mutant: wait until the key is free instead of refusing. *)
CheckKeyWaiting(h) ==
    /\ Within(h, "key")
    /\ ~KeyTaken(Key(Head(todo[h])), arg[h].budget)
    /\ CheckNext(h, Tail(todo[h])) /\ Reads(h) /\ UNCHANGED <<hdr, usable>>

CheckKey(h) ==
    /\ Within(h, "key")
    /\ IF KeyTaken(Key(Head(todo[h])), arg[h].budget)
       THEN Refuse(h, "budget_coverage_conflict")
       ELSE CheckNext(h, Tail(todo[h])) /\ Reads(h) /\ UNCHANGED hdr
    /\ UNCHANGED usable

(***************************************************************************)
(* create_budget and add_line.                                             *)
(***************************************************************************)
CheckCode(h) ==
    /\ pc[h] = "code"
    /\ LET r == arg[h]
       IN  \/ r.header.from > r.header.to /\ Refuse(h, "budget_bad_date_range")
           \/ /\ r.header.from <= r.header.to
              /\ CodeTaken(r.header.code, r.budget)
              /\ Refuse(h, "budget_code_taken")
           \/ /\ r.header.from <= r.header.to
              /\ ~CodeTaken(r.header.code, r.budget)
              /\ hdr' = [hdr EXCEPT ![h] = DraftRow(r.header)]
              /\ CheckNext(h, r.lines) /\ Reads(h)
    /\ UNCHANGED usable

(* insert_line reads the period again to mint the line's year and month. *)
MintPeriod(h) ==
    /\ Within(h, "insert")
    /\ IF FindPeriod(Head(todo[h]).period)
       THEN /\ todo' = [todo EXCEPT ![h] = Tail(todo[h])]
            /\ Reads(h) /\ UNCHANGED <<pc, hdr>>
       ELSE Refuse(h, "budget_period_invalid")
    /\ UNCHANGED usable

(* The INSERTs and the COMMIT that publishes them.  Nobody sees the rows   *)
(* before, and an INSERT that meets the key of a transaction in flight     *)
(* waits for its end: the clash is decided by what is committed.           *)
CommitInsert(h) ==
    /\ pc[h] = "insert" /\ todo[h] = <<>>
    /\ LET r == arg[h]
           clash == Decorated /\ (CodeClash(r) \/ KeyClash(r))
       IN  \/ clash /\ Refuse(h, ClashCode(r))
           \/ /\ ~clash
              /\ budgets' = IF r.verb = "create"
                            THEN [budgets EXCEPT ![r.budget] = hdr[h]]
                            ELSE budgets
              /\ \E id \in [DOMAIN r.lines -> FreeLines] :
                    /\ \A i, j \in DOMAIN r.lines : id[i] = id[j] => i = j
                    /\ lines' = [l \in LineIds |->
                          IF \E i \in DOMAIN r.lines : id[i] = l
                          THEN NewRow(r.budget, r.lines[CHOOSE i \in DOMAIN r.lines : id[i] = l])
                          ELSE lines[l]]
              /\ Answer(h, "ok")
    /\ UNCHANGED usable

(***************************************************************************)
(* The verbs on an existing budget first read its row.                     *)
(***************************************************************************)
ReadingRow(h, verbs) == pc[h] = "read" /\ arg[h].verb \in verbs

Row(h) == budgets[arg[h].budget]

(* Mutant: the line verbs also accept a confirmed budget. *)
NotEditable(h) == Exists(arg[h].budget) /\ Row(h).status \notin {"draft", "confirmed"}

NotDraft(h) == Exists(arg[h].budget) /\ Row(h).status # "draft"

NotFound(h) == ~Exists(arg[h].budget) /\ Refuse(h, "budget_not_found")

StartAddLine(h) ==
    /\ ReadingRow(h, {"add_line"})
    /\ \/ NotFound(h)
       \/ NotDraft(h) /\ Refuse(h, "budget_not_draft")
       \/ /\ Exists(arg[h].budget) /\ ~NotDraft(h)
          /\ hdr' = [hdr EXCEPT ![h] = Row(h)]
          /\ CheckNext(h, arg[h].lines) /\ Reads(h)
    /\ UNCHANGED usable

(* update_line refuses a bad amount (BG3) before it opens a transaction. *)
StartEditLine(h) ==
    /\ ReadingRow(h, {"update_line", "delete_line"})
    /\ LET badAmount == arg[h].verb = "update_line" /\ arg[h].amount <= 0
       IN  \/ badAmount /\ Refuse(h, "budget_invalid_amount")
           \/ ~badAmount /\ NotFound(h)
           \/ ~badAmount /\ NotDraft(h) /\ Refuse(h, "budget_not_draft")
           \/ /\ ~badAmount /\ Exists(arg[h].budget) /\ ~NotDraft(h)
              /\ Goto(h, "edit") /\ Reads(h) /\ UNCHANGED <<hdr, todo>>
    /\ UNCHANGED usable

(* Mutant: the WHERE clause forgets the soft delete. *)
AnyLineOf(r) == lines[r.line] # NoLine /\ lines[r.line].budget = r.budget

(* The WHERE clause of the UPDATE that ends update_line and delete_line:   *)
(* a live line of the budget, whatever the budget's status has become.     *)
LineOf(r) == r.line \in LiveLines(r.budget)

EditLine(h) ==
    /\ pc[h] = "edit"
    /\ LET r == arg[h]
           edited == IF r.verb = "update_line"
                     THEN [lines[r.line] EXCEPT !.amount = Stored(r.amount)]
                     ELSE [lines[r.line] EXCEPT !.state = "deleted"]
       IN  IF LineOf(r)
           THEN /\ lines' = [lines EXCEPT ![r.line] = edited]
                /\ Answer(h, "ok") /\ UNCHANGED budgets
           ELSE Refuse(h, "budget_line_not_found")
    /\ UNCHANGED usable

(***************************************************************************)
(* update_budget.                                                          *)
(***************************************************************************)
WantsFrozenFields(r) == r.from # Keep \/ r.to # Keep \/ r.description # Keep

NewFrom(h) == IF arg[h].from = Keep THEN hdr[h].from ELSE arg[h].from
NewTo(h) == IF arg[h].to = Keep THEN hdr[h].to ELSE arg[h].to

(* Mutant: the posture of a closed budget can be edited. *)
PostureUnlocked(h) == Exists(arg[h].budget)

PostureEditable(h) == Row(h).status \in {"draft", "confirmed"}

StartUpdate(h) ==
    /\ ReadingRow(h, {"update"})
    /\ LET r == arg[h]
           frozen == WantsFrozenFields(r) /\ Row(h).status # "draft"
       IN  \/ NotFound(h)
           \/ Exists(r.budget) /\ frozen /\ Refuse(h, "budget_not_draft")
           \/ /\ Exists(r.budget) /\ ~frozen
              /\ r.enforcement # Keep /\ ~PostureEditable(h)
              /\ Refuse(h, "budget_enforcement_locked")
           \/ /\ Exists(r.budget) /\ ~frozen
              /\ r.enforcement # Keep => PostureEditable(h)
              /\ hdr' = [hdr EXCEPT ![h] = Row(h)]
              /\ Goto(h, IF r.enforcement # Keep THEN "enforce" ELSE "patch")
              /\ Reads(h) /\ UNCHANGED todo
    /\ UNCHANGED usable

(* A patch with an enforcement writes the enforcement and returns.  The    *)
(* UPDATE does not look at the status.                                     *)
UpdateEnforcement(h) ==
    /\ pc[h] = "enforce"
    /\ budgets' = [budgets EXCEPT ![arg[h].budget].enforcement = arg[h].enforcement]
    /\ Answer(h, "ok")
    /\ UNCHANGED <<lines, usable>>

PatchedDescription(h) ==
    IF arg[h].description \in {Keep, Null} THEN Row(h).description
                                          ELSE arg[h].description

(* Mutant: the UPDATE writes only the columns that the patch names. *)
PatchedColumns(h) ==
    [Row(h) EXCEPT !.from = IF arg[h].from = Keep THEN @ ELSE arg[h].from,
                   !.to = IF arg[h].to = Keep THEN @ ELSE arg[h].to,
                   !.description = PatchedDescription(h)]

(* What the UPDATE sets: both dates, and by COALESCE the description       *)
(* unless the patch leaves it out or gives null.                           *)
Patched(h) == [Row(h) EXCEPT !.from = NewFrom(h), !.to = NewTo(h),
                             !.description = PatchedDescription(h)]

(* The UPDATE ... WHERE status = 'draft'; fetch_one turns the absence of a *)
(* row into an internal error.                                             *)
UpdateHeader(h) ==
    /\ pc[h] = "patch"
    /\ LET r == arg[h]
       IN  \/ NewFrom(h) > NewTo(h) /\ Refuse(h, "budget_bad_date_range")
           \/ /\ NewFrom(h) <= NewTo(h) /\ Row(h).status # "draft"
              /\ Refuse(h, "internal_error")
           \/ /\ NewFrom(h) <= NewTo(h) /\ Row(h).status = "draft"
              /\ budgets' = [budgets EXCEPT ![r.budget] = Patched(h)]
              /\ Answer(h, "ok") /\ UNCHANGED lines
    /\ UNCHANGED usable

(***************************************************************************)
(* confirm, close, cancel.                                                 *)
(***************************************************************************)
StartTransition(h) ==
    /\ ReadingRow(h, {"confirm", "close", "cancel"})
    /\ LET r == arg[h]
       IN  \/ NotFound(h)
           \/ /\ Exists(r.budget) /\ Row(h).status \notin AllowedFrom(r.verb)
              /\ Refuse(h, "budget_invalid_transition")
           \/ /\ Row(h).status \in AllowedFrom(r.verb)
              /\ hdr' = [hdr EXCEPT ![h] = Row(h)]
              /\ Goto(h, IF r.verb = "confirm" THEN "lines" ELSE "cas")
              /\ Reads(h) /\ UNCHANGED todo
    /\ UNCHANGED usable

(* Mutant: a budget without lines can be confirmed. *)
ReadLinesUnguarded(h) ==
    /\ pc[h] = "lines"
    /\ \E order \in LineLists(arg[h].budget) :
          CheckNext(h, [i \in DOMAIN order |-> Candidate(order[i])])
    /\ Reads(h) /\ UNCHANGED <<hdr, usable>>

(* confirm reads the live lines (BG2) and runs the guard matrix on each. *)
ReadLines(h) ==
    /\ pc[h] = "lines"
    /\ IF LiveLines(arg[h].budget) = {}
       THEN Refuse(h, "budget_no_lines")
       ELSE /\ \E order \in LineLists(arg[h].budget) :
                  CheckNext(h, [i \in DOMAIN order |-> Candidate(order[i])])
            /\ Reads(h) /\ UNCHANGED hdr
    /\ UNCHANGED usable

(* Mutant: the UPDATE that ends a transition matches on the id alone. *)
MatchesById(h) == Exists(arg[h].budget)

(* The compare of the compare-and-set: the status is the one that was read. *)
Matches(h) == Row(h).status = hdr[h].status

(* The compare-and-set on the status the verb read.  confirm fetches       *)
(* exactly one row, so that a lost race is an internal error; close and    *)
(* cancel answer it with an invalid transition.                            *)
CompareAndSet(h) ==
    /\ pc[h] = "cas"
    /\ LET r == arg[h]
       IN  \/ /\ Matches(h)
              /\ budgets' = [budgets EXCEPT ![r.budget].status = Target(r.verb)]
              /\ Answer(h, "ok") /\ UNCHANGED lines
           \/ /\ ~Matches(h)
              /\ Refuse(h, IF r.verb = "confirm" THEN "internal_error"
                           ELSE "budget_invalid_transition")
    /\ UNCHANGED usable

(***************************************************************************)
(* The client goes away, the connection breaks or the process stops: the   *)
(* transaction in flight rolls back.                                       *)
(***************************************************************************)
Abort(h) == pc[h] # "idle" /\ Refuse(h, "aborted") /\ UNCHANGED usable

(* Accounting disables a master, or enables it again. *)
ChangeMaster ==
    /\ \E m \in Volatile :
          usable' = IF m \in usable THEN usable \ {m} ELSE usable \cup {m}
    /\ UNCHANGED <<db, local>>

Step(h) ==
    \/ CheckAccount(h) \/ CheckCostCenter(h) \/ CheckPeriod(h) \/ CheckKey(h)
    \/ CheckCode(h) \/ MintPeriod(h) \/ CommitInsert(h)
    \/ StartAddLine(h) \/ StartEditLine(h) \/ EditLine(h)
    \/ StartUpdate(h) \/ UpdateEnforcement(h) \/ UpdateHeader(h)
    \/ StartTransition(h) \/ ReadLines(h) \/ CompareAndSet(h)

Next ==
    \/ \E h \in Handlers : Begin(h) \/ Step(h) \/ Abort(h)
    \/ ChangeMaster

Spec == Init /\ [][Next]_vars

(* The server runs every request it accepted to its end; no client has to  *)
(* send one and nothing has to fail.                                       *)
FairSpec == Spec /\ \A h \in Handlers : WF_vars(Step(h))

=============================================================================
