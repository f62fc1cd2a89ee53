------------------------ MODULE BudgetWorkflowProps ------------------------
(***************************************************************************)
(* What the write path must keep true.  The first groups hold however the  *)
(* handlers interleave, the second when requests are served one at a time, *)
(* the third under the decorator's indexes; the last group states what the *)
(* repository says of the program.                                         *)
(***************************************************************************)
EXTENDS BudgetWorkflow

Statements == {"idle", "code", "read", "lines", "account", "cost_center",
               "period", "key", "insert", "edit", "enforce", "patch", "cas"}

Verbs == {"create", "update", "add_line", "update_line", "delete_line",
          "confirm", "close", "cancel"}

ReplyCodes == {"ok", "aborted", "internal_error", "budget_not_found",
           "budget_line_not_found", "budget_not_draft",
           "budget_invalid_transition", "budget_no_lines",
           "budget_coverage_conflict", "budget_invalid_amount",
           "budget_account_missing", "budget_cost_center_invalid",
           "budget_period_invalid", "budget_bad_date_range",
           "budget_enforcement_locked", "budget_code_taken"}

(* Which verbs can be at which statement. *)
Serves(statement, verb) ==
    \/ statement = "idle" /\ verb = "none"
    \/ statement = "code" /\ verb = "create"
    \/ statement = "read" /\ verb \in Verbs \ {"create"}
    \/ statement = "lines" /\ verb = "confirm"
    \/ /\ statement \in {"account", "cost_center", "period", "key"}
       /\ verb \in {"create", "add_line", "confirm"}
    \/ statement = "insert" /\ verb \in {"create", "add_line"}
    \/ statement = "edit" /\ verb \in {"update_line", "delete_line"}
    \/ statement \in {"enforce", "patch"} /\ verb = "update"
    \/ statement = "cas" /\ verb \in {"confirm", "close", "cancel"}

(* Type invariant: rows and requests keep their shape, and every handler   *)
(* is at a statement of the verb it serves.                                *)
TypeOK ==
    /\ budgets \in [BudgetIds -> BudgetRow \cup {NoBudget}]
    /\ lines \in [LineIds -> LineRow \cup {NoLine}]
    /\ usable \subseteq Masters
    /\ pc \in [Handlers -> Statements]
    /\ arg \in [Handlers -> RequestType \cup {NoRequest}]
    /\ hdr \in [Handlers -> BudgetRow \cup {NoBudget}]
    /\ todo \in [Handlers -> Seq(Position)]
    /\ reply \in [Handlers -> [verb : Verbs, code : ReplyCodes] \cup {NoReply}]
    /\ \A h \in Handlers : Serves(pc[h], arg[h].verb)

(* Two patches that race, one of date_from and one of date_to, never leave *)
(* a header whose range is reversed: each writes the pair it checked.      *)
RangeOrdered ==
    \A b \in BudgetIds : Exists(b) => budgets[b].from <= budgets[b].to

(* What a handler at a statement knows of the budget it serves, whatever   *)
(* the others do.  A create keeps the id it minted until its COMMIT; the   *)
(* other verbs found their budget, and no budget ever goes away; the       *)
(* header read by a transition is in a status the verb accepts.            *)
Anchored(statement, r, header) ==
    /\ r.verb = "create" =>
          /\ ~Exists(r.budget)
          /\ statement # "code" => /\ header = DraftRow(r.header)
                                  /\ r.header.from <= r.header.to
    /\ statement \notin {"idle", "read", "code"} /\ r.verb # "create" => Exists(r.budget)
    /\ statement \notin {"idle", "read", "code", "edit"} => header \in BudgetRow
    /\ statement = "enforce" => r.enforcement # Keep
    /\ r.verb \in {"confirm", "close", "cancel"} /\ statement # "read" =>
          header.status \in AllowedFrom(r.verb)

(* No two creates in flight minted the same id. *)
DistinctCreates ==
    \A g, h \in Handlers :
        arg[g].verb = "create" /\ arg[h].verb = "create" /\ g # h
            => arg[g].budget # arg[h].budget

(* The inductive invariant of the proofs. *)
IInv ==
    /\ TypeOK /\ DistinctCreates
    /\ \A h \in Handlers : Anchored(pc[h], arg[h], hdr[h])
    /\ RangeOrdered

(***************************************************************************)
(* However the handlers interleave.                                        *)
(***************************************************************************)
(* The part of the header that the lifecycle freezes. *)
PlanOf(row) == [code |-> row.code, year |-> row.year, from |-> row.from,
                to |-> row.to, description |-> row.description]

OrderedPlans ==
    {p \in [code : Codes, year : Years, from : Dates, to : Dates,
            description : Descriptions \cup {Null}] : p.from <= p.to}

NoPlan == [code |-> "none"]

StatusMap == [b \in BudgetIds |-> budgets[b].status]
PlanMap == [b \in BudgetIds |-> IF Exists(b) THEN PlanOf(budgets[b]) ELSE NoPlan]

Lifecycle == INSTANCE BudgetLifecycle WITH
    Plans <- OrderedPlans, status <- StatusMap, plan <- PlanMap

(* The compare-and-sets implement the lifecycle: of two verbs that race    *)
(* for a budget only one takes an edge, closed and cancelled are final,    *)
(* and dates and description change in a draft only.                       *)
ImplementsLifecycle == Lifecycle!Spec

(* A line never changes its budget or its control key, and one that was    *)
(* deleted stays as it was: an edit that lost the race against a delete    *)
(* finds no row.                                                           *)
KeepsHistory ==
    \A l \in LineIds : lines[l] # NoLine =>
        /\ lines'[l] # NoLine
        /\ lines'[l].budget = lines[l].budget
        /\ Key(lines'[l]) = Key(lines[l])
        /\ lines[l].state = "deleted" => lines'[l] = lines[l]

LineHistory == [][KeepsHistory]_vars

(***************************************************************************)
(* When requests are served one at a time (Handlers is a singleton).       *)
(***************************************************************************)
(* A confirmed budget has a position, and each of its positions has a      *)
(* positive planned amount and lies in the header's year and range: the    *)
(* guards of confirm (BG2, BG3, BG6) read what the draft verbs wrote.      *)
ConfirmedPositionsFit ==
    \A b \in BudgetIds : Exists(b) /\ budgets[b].status = "confirmed" =>
        /\ LiveLines(b) # {}
        /\ \A l \in LiveLines(b) : /\ lines[l].amount > 0
                                   /\ PeriodFits(lines[l].period, budgets[b])

(* BG1 across budgets: no two budgets hold the same control key, and the   *)
(* code rule: no two carry the same code.                                  *)
KeysDisjoint ==
    \A l, m \in LineIds :
        IsLive(l) /\ IsLive(m) /\ lines[l].budget # lines[m].budget
            => Key(lines[l]) # Key(lines[m])

OneBudgetPerCode ==
    \A b, c \in BudgetIds :
        Exists(b) /\ Exists(c) /\ b # c => budgets[b].code # budgets[c].code

(* The edit of a line, its insertion or deletion included, touches b. *)
Touches(l, b) ==
    /\ lines'[l] # lines[l]
    /\ \/ lines[l] # NoLine /\ lines[l].budget = b
       \/ lines'[l] # NoLine /\ lines'[l].budget = b

(* Line edits are draft-only: a line that is added to, changed in or       *)
(* deleted from a budget finds it a draft.                                 *)
LineEditsDraftOnly ==
    [][\A l \in LineIds, b \in BudgetIds :
          Exists(b) /\ Touches(l, b) => budgets[b].status = "draft"]_vars

(* The enforcement posture is frozen once a budget is closed or cancelled. *)
PostureFrozen ==
    [][\A b \in BudgetIds : budgets[b].status \in {"closed", "cancelled"} =>
          budgets'[b].enforcement = budgets[b].enforcement]_vars

(* Every request that the server accepted is answered. *)
EveryRequestAnswered ==
    \A h \in Handlers : pc[h] # "idle" ~> pc[h] = "idle"

(***************************************************************************)
(* Under the decorator's partial unique indexes, however handlers          *)
(* interleave.                                                             *)
(***************************************************************************)
(* A raced insert loses to the index: no two live lines, of the same       *)
(* budget or not, hold the same key with a cost center.                    *)
OneLinePerKey ==
    \A l, m \in LineIds :
        IsLive(l) /\ IsLive(m) /\ l # m /\ lines[l].cc # NoCC
            => Key(lines[l]) # Key(lines[m])

(***************************************************************************)
(* What the repository says of the program and the code does not do.       *)
(***************************************************************************)
(* Every verb is a compare-and-set on the status, so that a raced verb     *)
(* matches no row and is refused: when a budget has left the statuses that *)
(* a verb accepts before the verb's last statement, that statement neither *)
(* succeeds nor ends in an internal error.                                 *)
AcceptedAtEnd(h) ==
    IF pc[h] = "cas" THEN {hdr[h].status}
    ELSE IF pc[h] = "enforce" THEN {"draft", "confirmed"} ELSE {"draft"}

Raced(h) ==
    /\ pc[h] \in {"edit", "enforce", "cas"} \/ (pc[h] = "insert" /\ todo[h] = <<>>)
    /\ arg[h].verb # "create" /\ Row(h).status \notin AcceptedAtEnd(h)

RacedVerbRefused ==
    [][\A h \in Handlers : Raced(h) /\ pc'[h] = "idle" =>
          HttpStatus(reply'[h].code) \notin {200, 500}]_vars

(* A confirmed budget changes by cancel and recreate: the keys of a        *)
(* cancelled budget are free, so that a coverage conflict names a budget   *)
(* that is not cancelled.                                                  *)
CancelReleasesKeys ==
    [][\A h \in Handlers :
          pc[h] = "key" /\ reply'[h].code = "budget_coverage_conflict" =>
              \E l \in LineIds : /\ IsLive(l) /\ Key(lines[l]) = Key(Head(todo[h]))
                                 /\ budgets[lines[l].budget].status # "cancelled"]_vars

(* At most one live line per control key, drafts included, so that the     *)
(* coverage of a key is never ambiguous (BG1).                             *)
OnePositionPerKey ==
    \A l, m \in LineIds : IsLive(l) /\ IsLive(m) /\ l # m => Key(lines[l]) # Key(lines[m])

(* Confirm requires a live line (BG2): a budget has one at the moment it   *)
(* becomes confirmed, whatever line verbs commit while confirm runs.       *)
ConfirmRequiresLine ==
    [][\A b \in BudgetIds :
          budgets[b].status = "draft" /\ budgets'[b].status = "confirmed" =>
              \E l \in LineIds : IsLive(l) /\ lines[l].budget = b]_vars

=============================================================================
