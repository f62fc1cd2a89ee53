----------------------------- MODULE BudgetCrud -----------------------------
(***************************************************************************)
(* The generated CRUD surface over budgets and budget lines, for trusted   *)
(* contexts: create, full update, soft delete, restore, purge and empty    *)
(* trash, with the row rules that the schema declares.  The rules stand in *)
(* three places: the write guard of the services (BudgetRowRules and       *)
(* BudgetLineRowRules), the CHECKs that a migration adds where no stored   *)
(* row breaks them, and, for the verbs of the workflow service that write  *)
(* the same tables, nowhere.  The generic service and repository are the   *)
(* framework's: an update loads the row, judges the row it would store and *)
(* writes it in a later statement.                                         *)
(***************************************************************************)
EXTENDS Integers, FiniteSets

CONSTANTS
    Clients,    \* the requests served at the same time, at most
    Budgets, Lines,     \* the ids of the rows of the two tables
    VerbRows,   \* the rows that the workflow service's verbs write
    Requests,   \* the requests clients may send
    VerbWrites, \* what the verbs may store: pairs of an id and a row
    AllRoutes,  \* are all routes mounted, or the read-only ones?
    Texts,      \* the texts that the fields may hold
    Uuids,      \* ids of the rows of both tables and of accounting's
    Null

Ids == Budgets \cup Lines

(* A text is its length and what is left of it when it is trimmed: all     *)
(* blank are spaces, which both trims remove, or other white space, which  *)
(* btrim keeps.                                                            *)
Text == [length : Nat, blank : {"no", "spaces", "whitespace"}]

(* What a client may say of a row: the fields that a rule reads. *)
BudgetContent == [code : Texts, name : Texts, description : Texts \cup {Null},
                  fiscal_year : Int]

LineContent == [budget_id : Uuids, account_id : Uuids, fiscal_period_id : Uuids,
                fiscal_year : Int, fiscal_month : Int \cup {Null},
                planned_amount : Int, notes : Texts \cup {Null}]

Content(id) == IF id \in Budgets THEN BudgetContent ELSE LineContent

ASSUME IdsAssumption ==
    Ids \subseteq Uuids /\ Budgets \cap Lines = {} /\ VerbRows \subseteq Ids
ASSUME TextsAssumption ==
    Texts \subseteq Text /\ Null \notin Texts \cup Uuids /\ AllRoutes \in BOOLEAN

WriteRequest(id) == [op : {"create", "update"}, id : {id}, row : Content(id)]
TrashRequest(id) == [op : {"delete", "restore", "purge", "empty"}, id : {id}]

ASSUME RequestsAssumption ==
    \A r \in Requests :
        r.id \in Ids /\ r \in WriteRequest(r.id) \cup TrashRequest(r.id)
ASSUME VerbsAssumption ==
    \A w \in VerbWrites : w.id \in VerbRows /\ w.row \in Content(w.id)

VARIABLES
    state,      \* where each row is: absent, live, in the trash or purged
    content,    \* what it says
    checks,     \* the CHECKs there are: on budgets or not, and the rule
    pc,         \* what each request does next
    req,        \* the request, whose row is the image it would store
    outcome     \* the id and the answer of the last request of each client

rows == <<state, content>>
vars == <<state, content, checks, pc, req, outcome>>

NoRequest == [op |-> "none"]
NoContent == [none |-> Null]
NoOutcome == [op |-> "none", code |-> "none"]

Rule(field, kind, bound) == [field |-> field, kind |-> kind, bound |-> bound]

(* The one CHECK that the tables are created with. *)
TableChecks == {<<FALSE, Rule("planned_amount", "min", 0)>>}

Init ==
    /\ state = [id \in Ids |-> "absent"]
    /\ content = [id \in Ids |-> NoContent]
    /\ checks = TableChecks
    /\ pc = [c \in Clients |-> "idle"]
    /\ req = [c \in Clients |-> NoRequest]
    /\ outcome = [c \in Clients |-> NoOutcome]

(***************************************************************************)
(* The rules.                                                              *)
(***************************************************************************)
BudgetRules == {
    Rule("code", "required", 0), Rule("code", "max_length", 30),
    Rule("name", "required", 0), Rule("name", "max_length", 100),
    Rule("description", "max_length", 500),
    Rule("fiscal_year", "min", 2020), Rule("fiscal_year", "max", 2100)}

LineRules == {
    Rule("budget_id", "required", 0), Rule("account_id", "required", 0),
    Rule("fiscal_period_id", "required", 0),
    Rule("fiscal_year", "min", 2020), Rule("fiscal_year", "max", 2100),
    Rule("fiscal_month", "min", 1), Rule("fiscal_month", "max", 12),
    Rule("planned_amount", "min", 0), Rule("notes", "max_length", 500)}

Rules(id) == IF id \in Budgets THEN BudgetRules ELSE LineRules

(* Mutant: the bound on a length is off by one. *)
HoldsLoosely(rule, value) ==
    \/ rule.kind = "required" /\ value # Null /\ (value \in Texts => value.blank = "no")
    \/ rule.kind \in {"max_length", "min", "max"} /\ value = Null
    \/ rule.kind = "max_length" /\ value # Null /\ value.length <= rule.bound + 1
    \/ rule.kind = "min" /\ value # Null /\ value >= rule.bound
    \/ rule.kind = "max" /\ value # Null /\ value <= rule.bound

(* A rule of the guard holds of a value; one on a null holds unless it     *)
(* requires a value.                                                       *)
Holds(rule, value) ==
    \/ rule.kind = "required" /\ value # Null /\ (value \in Texts => value.blank = "no")
    \/ rule.kind \in {"max_length", "min", "max"} /\ value = Null
    \/ rule.kind = "max_length" /\ value # Null /\ value.length <= rule.bound
    \/ rule.kind = "min" /\ value # Null /\ value >= rule.bound
    \/ rule.kind = "max" /\ value # Null /\ value <= rule.bound

(* The same rule as a CHECK: btrim removes spaces only. *)
CheckPasses(rule, value) ==
    \/ rule.kind = "required" /\ value # Null /\ (value \in Texts => value.blank # "spaces")
    \/ rule.kind \in {"max_length", "min", "max"} /\ value = Null
    \/ rule.kind = "max_length" /\ value # Null /\ value.length <= rule.bound
    \/ rule.kind = "min" /\ value # Null /\ value >= rule.bound
    \/ rule.kind = "max" /\ value # Null /\ value <= rule.bound

Legal(id, row) == \A rule \in Rules(id) : CheckPasses(rule, row[rule.field])

(* Mutant: an update is not judged. *)
BrokenAtCreate(r, before) ==
    {rule \in Rules(r.id) : r.op = "create" /\ ~Holds(rule, r.row[rule.field])}

(* The rules a write is refused for: every rule at create, at update those *)
(* on the fields that differ from the row as it was loaded.                *)
Broken(r, before) ==
    {rule \in Rules(r.id) :
        /\ r.op = "create" \/ before[rule.field] # r.row[rule.field]
        /\ ~Holds(rule, r.row[rule.field])}

(***************************************************************************)
(* The database.                                                           *)
(***************************************************************************)
Stored(id) == state[id] \in {"live", "trash"}

(* The CHECKs that exist on a row's table and that a row breaks. *)
Violated(id, row) ==
    {rule \in Rules(id) : <<id \in Budgets, rule>> \in checks
                          /\ ~CheckPasses(rule, row[rule.field])}

(* The foreign key of a line: its budget is stored, in the trash perhaps. *)
Refers(id, row) ==
    id \in Lines => row.budget_id \in Budgets /\ Stored(row.budget_id)

(* Mutant: only live lines hold their budget. *)
ReferencedLive(ids) ==
    \E l \in Lines \ ids : state[l] = "live" /\ content[l].budget_id \in ids

(* A row that stored lines refer to cannot be removed. *)
Referenced(ids) ==
    \E l \in Lines \ ids : Stored(l) /\ content[l].budget_id \in ids

(***************************************************************************)
(* The requests.                                                           *)
(***************************************************************************)
(* The routes of a surface: the read-only one mounts the GETs only. *)
Mounted(op) == AllRoutes \/ op \in {"list", "get"}

Reply(c, code) ==
    /\ pc' = [pc EXCEPT ![c] = "idle"]
    /\ req' = [req EXCEPT ![c] = NoRequest]
    /\ outcome' = [outcome EXCEPT ![c] = [op |-> req[c].op, id |-> req[c].id, code |-> code]]

Unchanged(c, code) == Reply(c, code) /\ UNCHANGED rows

(* A request arrives.  The id of a created row is minted: no row has it,   *)
(* and no request in flight.                                               *)
Receive(c) ==
    /\ pc[c] = "idle"
    /\ \E r \in Requests :
          /\ Mounted(r.op)
          /\ r.op = "create" =>
                state[r.id] = "absent" /\ \A d \in Clients : req[d].op = "create" => req[d].id # r.id
          /\ req' = [req EXCEPT ![c] = r]
          /\ pc' = [pc EXCEPT ![c] = IF r.op \in {"create", "update"} THEN "judge" ELSE "trash"]
    /\ outcome' = [outcome EXCEPT ![c] = NoOutcome]
    /\ UNCHANGED <<rows, checks>>

(* The load, for an update, and the guard. *)
Judge(c) ==
    /\ pc[c] = "judge"
    /\ LET r == req[c]
           missing == r.op = "update" /\ state[r.id] # "live"
       IN  \/ missing /\ Unchanged(c, "not_found")
           \/ ~missing /\ Broken(r, content[r.id]) # {} /\ Unchanged(c, "violations")
           \/ /\ ~missing /\ Broken(r, content[r.id]) = {}
              /\ pc' = [pc EXCEPT ![c] = "write"]
              /\ UNCHANGED <<rows, req, outcome>>
    /\ UNCHANGED checks

(* The INSERT or the UPDATE of the whole row.  Whether an update reaches a *)
(* row that went to the trash after the load, and takes it out, is left    *)
(* open.                                                                   *)
Write(c) ==
    /\ pc[c] = "write"
    /\ LET r == req[c]
           insert == r.op = "create"
       IN  \/ ~insert /\ state[r.id] # "live" /\ Unchanged(c, "not_found")
           \/ /\ insert \/ Stored(r.id)
              /\ \/ Violated(r.id, r.row) # {} /\ Unchanged(c, "check_violation")
                 \/ /\ Violated(r.id, r.row) = {} /\ ~Refers(r.id, r.row)
                    /\ Unchanged(c, "foreign_key_violation")
                 \/ /\ Violated(r.id, r.row) = {} /\ Refers(r.id, r.row)
                    /\ \E s \in IF insert THEN {"live"} ELSE {state[r.id], "live"} :
                          state' = [state EXCEPT ![r.id] = s]
                    /\ content' = [content EXCEPT ![r.id] = r.row]
                    /\ Reply(c, "ok")
    /\ UNCHANGED checks

Trashed(id) ==
    {i \in IF id \in Budgets THEN Budgets ELSE Lines : state[i] = "trash"}

(* Soft delete, restore, purge and empty trash: one statement each, which  *)
(* the guard lets pass.                                                    *)
Trash(c) ==
    /\ pc[c] = "trash"
    /\ LET r == req[c]
           gone == IF r.op = "empty" THEN Trashed(r.id) ELSE {r.id} \cap Trashed(r.id)
       IN  \/ /\ r.op = "delete" /\ state[r.id] = "live"
              /\ state' = [state EXCEPT ![r.id] = "trash"]
              /\ Reply(c, "ok") /\ UNCHANGED content
           \/ /\ r.op = "restore" /\ state[r.id] = "trash"
              /\ state' = [state EXCEPT ![r.id] = "live"]
              /\ Reply(c, "ok") /\ UNCHANGED content
           \/ /\ r.op \in {"purge", "empty"} /\ gone # {} /\ ~Referenced(gone)
              /\ state' = [i \in Ids |-> IF i \in gone THEN "purged" ELSE state[i]]
              /\ content' = [i \in Ids |-> IF i \in gone THEN NoContent ELSE content[i]]
              /\ Reply(c, "ok")
           \/ /\ r.op \in {"purge", "empty"} /\ gone # {} /\ Referenced(gone)
              /\ Unchanged(c, "foreign_key_violation")
           \/ r.op = "empty" /\ gone = {} /\ Unchanged(c, "ok")
           \/ r.op = "delete" /\ state[r.id] # "live" /\ Unchanged(c, "not_found")
           \/ /\ r.op \in {"restore", "purge"} /\ state[r.id] # "trash"
              /\ Unchanged(c, "not_found")
    /\ UNCHANGED checks

(***************************************************************************)
(* The other writers of the tables.                                        *)
(***************************************************************************)
(* A verb of the workflow service stores a row, judged by the CHECKs only. *)
VerbStores ==
    /\ \E w \in VerbWrites :
          /\ state[w.id] \in {"absent", "live"}
          /\ \A c \in Clients : req[c].op = "create" => req[c].id # w.id
          /\ Violated(w.id, w.row) = {} /\ Refers(w.id, w.row)
          /\ state' = [state EXCEPT ![w.id] = "live"]
          /\ content' = [content EXCEPT ![w.id] = w.row]
    /\ UNCHANGED <<checks, pc, req, outcome>>

(* delete_line; the verbs have no other way to the trash. *)
VerbDeletes ==
    /\ \E l \in Lines \cap VerbRows :
          state[l] = "live" /\ state' = [state EXCEPT ![l] = "trash"]
    /\ UNCHANGED <<content, checks, pc, req, outcome>>

(* The migration adds each CHECK that no stored row breaks, the rows in    *)
(* the trash included; it may run again.                                   *)
DeclareChecks ==
    /\ checks' = checks \cup
          {<<TRUE, rule>> : rule \in {x \in BudgetRules : \A id \in Budgets :
              Stored(id) => CheckPasses(x, content[id][x.field])}}
          \cup
          {<<FALSE, rule>> : rule \in {x \in LineRules : \A id \in Lines :
              Stored(id) => CheckPasses(x, content[id][x.field])}}
    /\ UNCHANGED <<rows, pc, req, outcome>>

Serve(c) == Judge(c) \/ Write(c) \/ Trash(c)

Next ==
    \/ \E c \in Clients : Receive(c) \/ Serve(c)
    \/ VerbStores \/ VerbDeletes \/ DeclareChecks

Spec == Init /\ [][Next]_vars

=============================================================================
