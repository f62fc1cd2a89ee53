-------------------------- MODULE BudgetCrudProofs --------------------------
(***************************************************************************)
(* Proofs about the generic services, for any clients, rows, requests and  *)
(* texts: the declared rules hold of every row that only the guarded       *)
(* services write, and no line loses its budget.  The first rests on       *)
(* CrudInv, the second is inductive by itself.                             *)
(***************************************************************************)
EXTENDS BudgetCrudProps, TLAPS

Writing == {"create", "update"}
Trashing == {"delete", "restore", "purge", "empty"}

(* What a request is, by the assumption on the menu of requests. *)
LEMMA RequestLemma ==
    ASSUME NEW r \in Requests
    PROVE  /\ r.id \in Ids /\ r.op \in Writing \cup Trashing /\ r # NoRequest
           /\ r.op \in Writing => r.row \in Content(r.id)
<1>1. r.id \in Ids /\ r \in WriteRequest(r.id) \cup TrashRequest(r.id)
  BY RequestsAssumption
<1>2. CASE r \in WriteRequest(r.id)
  BY <1>1, <1>2 DEF WriteRequest, NoRequest, Writing
<1>3. CASE r \in TrashRequest(r.id)
  BY <1>1, <1>3 DEF TrashRequest, NoRequest, Writing, Trashing
<1> QED  BY <1>1, <1>2, <1>3

(* The guard is at least as strict as the CHECK of the same rule: its trim *)
(* removes more than spaces.                                               *)
LEMMA GuardIsStricter ==
    ASSUME NEW rule, NEW value, Holds(rule, value)
    PROVE  CheckPasses(rule, value)
BY DEF Holds, CheckPasses

(* A row that is judged by the fields it changes, against a legal row, is  *)
(* legal as a whole.                                                       *)
LEMMA JudgedIsLegal ==
    ASSUME NEW r, NEW before, Broken(r, before) = {},
           r.op # "create" => Legal(r.id, before)
    PROVE  Legal(r.id, r.row)
<1>1. SUFFICES ASSUME NEW rule \in Rules(r.id)
               PROVE  CheckPasses(rule, r.row[rule.field])
  BY DEF Legal
<1>2. CASE r.op = "create" \/ before[rule.field] # r.row[rule.field]
  BY <1>1, <1>2, GuardIsStricter DEF Broken
<1>3. CASE r.op # "create" /\ before[rule.field] = r.row[rule.field]
  BY <1>1, <1>3 DEF Legal
<1> QED  BY <1>2, <1>3

(* A request that is answered leaves its client idle; what it writes has   *)
(* to keep the shape and the legality of the rows.                         *)
LEMMA ReplyLemma ==
    ASSUME CrudInv, NEW c \in Clients, pc[c] # "idle",
           NEW code \in {"ok", "not_found", "violations", "check_violation",
                         "foreign_key_violation"},
           Reply(c, code),
           state' \in [Ids -> {"absent", "live", "trash", "purged"}],
           DOMAIN content' = Ids,
           \A id \in Ids : content'[id] \in Content(id) \cup {NoContent},
           \A id \in Ids : Stored(id)' => content'[id] \in Content(id),
           RuledRowsLegal'
    PROVE  CrudInv'
<1> USE DEF Reply
<1>1. req[c] \in Requests
  BY DEF CrudInv, TypeOK
<1>2. [op |-> req[c].op, id |-> req[c].id, code |-> code] \in Outcome
  BY <1>1, RequestLemma DEF Outcome, Writing, Trashing
<1>3. TypeOK'
  <2>1. /\ pc' \in [Clients -> {"idle", "judge", "write", "trash"}]
        /\ req' \in [Clients -> Requests \cup {NoRequest}]
        /\ outcome' \in [Clients -> Outcome \cup {NoOutcome}]
    BY <1>2 DEF CrudInv, TypeOK
  <2>2. ASSUME NEW d \in Clients
        PROVE  /\ pc'[d] = "idle" <=> req'[d] = NoRequest
               /\ pc'[d] \in {"judge", "write"} => req'[d].op \in {"create", "update"}
               /\ pc'[d] = "trash" => req'[d].op \in {"delete", "restore", "purge", "empty"}
    BY DEF CrudInv, TypeOK
  <2> QED  BY <2>1, <2>2 DEF TypeOK
<1>4. ASSUME NEW d \in Clients, pc'[d] = "write", req'[d].id \notin VerbRows
      PROVE  Legal(req'[d].id, req'[d].row)
  <2>1. d # c /\ pc[d] = pc'[d] /\ req[d] = req'[d]
    BY <1>4 DEF CrudInv, TypeOK
  <2> QED  BY <1>4, <2>1 DEF CrudInv
<1> QED  BY <1>3, <1>4 DEF CrudInv

(* An answer that changes no row. *)
LEMMA UnchangedLemma ==
    ASSUME CrudInv, NEW c \in Clients, pc[c] # "idle",
           NEW code \in {"ok", "not_found", "violations", "check_violation",
                         "foreign_key_violation"},
           Unchanged(c, code)
    PROVE  CrudInv'
<1> USE DEF Unchanged, rows
<1>1. RuledRowsLegal'
  BY DEF CrudInv, RuledRowsLegal, Stored
<1>2. \A id \in Ids : Stored(id)' => content'[id] \in Content(id)
  BY DEF CrudInv, TypeOK, Stored
<1> QED  BY <1>1, <1>2, ReplyLemma DEF CrudInv, TypeOK

(* A request arrives. *)
LEMMA ReceiveLemma ==
    ASSUME CrudInv, NEW c \in Clients, Receive(c)
    PROVE  CrudInv'
<1>1. PICK r \in Requests :
          /\ req' = [req EXCEPT ![c] = r]
          /\ pc' = [pc EXCEPT ![c] = IF r.op \in {"create", "update"} THEN "judge" ELSE "trash"]
  BY DEF Receive
<1>2. outcome' = [outcome EXCEPT ![c] = NoOutcome] /\ UNCHANGED <<state, content, checks>>
  BY DEF Receive, rows
<1>3. TypeOK'
  <2>1. /\ pc' \in [Clients -> {"idle", "judge", "write", "trash"}]
        /\ req' \in [Clients -> Requests \cup {NoRequest}]
        /\ outcome' \in [Clients -> Outcome \cup {NoOutcome}]
    BY <1>1, <1>2 DEF CrudInv, TypeOK
  <2>2. ASSUME NEW d \in Clients
        PROVE  /\ pc'[d] = "idle" <=> req'[d] = NoRequest
               /\ pc'[d] \in {"judge", "write"} => req'[d].op \in {"create", "update"}
               /\ pc'[d] = "trash" => req'[d].op \in {"delete", "restore", "purge", "empty"}
    <3>1. CASE d = c
      BY <1>1, <3>1, RequestLemma DEF CrudInv, TypeOK, Writing, Trashing
    <3>2. CASE d # c
      BY <1>1, <3>2 DEF CrudInv, TypeOK
    <3> QED  BY <3>1, <3>2
  <2> QED  BY <1>2, <2>1, <2>2 DEF CrudInv, TypeOK, Stored
<1>4. RuledRowsLegal'
  BY <1>2 DEF CrudInv, RuledRowsLegal, Stored
<1>5. ASSUME NEW d \in Clients, pc'[d] = "write", req'[d].id \notin VerbRows
      PROVE  Legal(req'[d].id, req'[d].row)
  <2>1. d # c /\ pc[d] = pc'[d] /\ req[d] = req'[d]
    BY <1>1, <1>5 DEF CrudInv, TypeOK
  <2> QED  BY <1>5, <2>1 DEF CrudInv
<1> QED  BY <1>3, <1>4, <1>5 DEF CrudInv

(* The load and the guard: what passes is legal as a whole, if the row     *)
(* that was loaded is.                                                     *)
LEMMA JudgeLemma ==
    ASSUME CrudInv, NEW c \in Clients, Judge(c)
    PROVE  CrudInv'
<1> USE DEF Judge
<1>1. req[c] \in Requests /\ req[c].op \in {"create", "update"} /\ pc[c] # "idle"
  BY DEF CrudInv, TypeOK
<1>2. CASE Unchanged(c, "not_found")
  BY <1>1, <1>2, UnchangedLemma
<1>3. CASE Unchanged(c, "violations")
  BY <1>1, <1>3, UnchangedLemma
<1>4. CASE /\ ~(req[c].op = "update" /\ state[req[c].id] # "live")
           /\ Broken(req[c], content[req[c].id]) = {}
           /\ pc' = [pc EXCEPT ![c] = "write"]
           /\ UNCHANGED <<rows, req, outcome>>
  <2>1. ASSUME req[c].id \notin VerbRows
        PROVE  Legal(req[c].id, req[c].row)
    <3>1. req[c].op # "create" => Legal(req[c].id, content[req[c].id])
      BY <1>1, <1>4, <2>1, RequestLemma DEF CrudInv, RuledRowsLegal, Stored
    <3> QED  BY <1>4, <3>1, JudgedIsLegal
  <2>2. TypeOK'
    BY <1>1, <1>4, RequestLemma DEF CrudInv, TypeOK, rows, Stored
  <2>3. RuledRowsLegal'
    BY <1>4 DEF CrudInv, RuledRowsLegal, Stored, rows
  <2>4. ASSUME NEW d \in Clients, pc'[d] = "write", req'[d].id \notin VerbRows
        PROVE  Legal(req'[d].id, req'[d].row)
    <3>1. req' = req
      BY <1>4
    <3>2. CASE d = c
      BY <2>1, <2>4, <3>1, <3>2
    <3>3. CASE d # c
      BY <1>4, <2>4, <3>1, <3>3 DEF CrudInv, TypeOK
    <3> QED  BY <3>2, <3>3
  <2> QED  BY <2>2, <2>3, <2>4 DEF CrudInv
<1> QED  BY <1>2, <1>3, <1>4

(* The statement that stores the row. *)
LEMMA WriteLemma ==
    ASSUME CrudInv, NEW c \in Clients, Write(c)
    PROVE  CrudInv'
<1> USE DEF Write
<1>1. /\ req[c] \in Requests /\ req[c].op \in {"create", "update"} /\ pc[c] # "idle"
      /\ req[c].id \in Ids /\ req[c].row \in Content(req[c].id)
  BY RequestLemma DEF CrudInv, TypeOK, Writing
<1>2. CASE \E code \in {"not_found", "check_violation", "foreign_key_violation"} :
               Unchanged(c, code)
  BY <1>1, <1>2, UnchangedLemma
<1>3. CASE /\ content' = [content EXCEPT ![req[c].id] = req[c].row]
           /\ \E s \in {"live", state[req[c].id]} : state' = [state EXCEPT ![req[c].id] = s]
           /\ Reply(c, "ok")
  <2>1. PICK s \in {"live", state[req[c].id]} : state' = [state EXCEPT ![req[c].id] = s]
    BY <1>3
  <2>2. /\ state' \in [Ids -> {"absent", "live", "trash", "purged"}]
        /\ DOMAIN content' = Ids
        /\ \A id \in Ids : content'[id] \in Content(id) \cup {NoContent}
    BY <1>1, <1>3, <2>1 DEF CrudInv, TypeOK
  <2>3. \A id \in Ids : Stored(id)' => content'[id] \in Content(id)
    BY <1>1, <1>3, <2>1 DEF CrudInv, TypeOK, Stored
  <2>4. RuledRowsLegal'
    BY <1>1, <1>3, <2>1 DEF CrudInv, TypeOK, RuledRowsLegal, Stored
  <2> QED  BY <1>1, <1>3, <2>2, <2>3, <2>4, ReplyLemma
<1> QED  BY <1>2, <1>3

(* Soft delete, restore, purge and empty trash. *)
LEMMA TrashLemma ==
    ASSUME CrudInv, NEW c \in Clients, Trash(c)
    PROVE  CrudInv'
<1> DEFINE r == req[c]
           gone == IF r.op = "empty" THEN Trashed(r.id) ELSE {r.id} \cap Trashed(r.id)
<1>1. r \in Requests /\ pc[c] # "idle" /\ r.id \in Ids
  BY RequestLemma DEF CrudInv, TypeOK, Trash
<1>2. CASE \E code \in {"ok", "not_found", "foreign_key_violation"} : Unchanged(c, code)
  BY <1>1, <1>2, UnchangedLemma
<1>3. CASE /\ \E s \in {"live", "trash"} : state' = [state EXCEPT ![r.id] = s]
           /\ state[r.id] \in {"live", "trash"}
           /\ Reply(c, "ok") /\ UNCHANGED content
  <2>1. PICK s \in {"live", "trash"} : state' = [state EXCEPT ![r.id] = s]
    BY <1>3
  <2>2. \A id \in Ids : Stored(id)' <=> Stored(id)
    BY <1>1, <1>3, <2>1 DEF CrudInv, TypeOK, Stored
  <2>3. RuledRowsLegal'
    BY <1>3, <2>2 DEF CrudInv, RuledRowsLegal
  <2> QED  BY <1>1, <1>3, <2>1, <2>2, <2>3, ReplyLemma DEF CrudInv, TypeOK
<1>4. CASE /\ state' = [i \in Ids |-> IF i \in gone THEN "purged" ELSE state[i]]
           /\ content' = [i \in Ids |-> IF i \in gone THEN NoContent ELSE content[i]]
           /\ Reply(c, "ok")
  <2> HIDE DEF gone
  <2>1. \A id \in Ids : Stored(id)' => Stored(id) /\ content'[id] = content[id]
    BY <1>4 DEF Stored
  <2>2. RuledRowsLegal'
    BY <2>1 DEF CrudInv, RuledRowsLegal
  <2>3. state' \in [Ids -> {"absent", "live", "trash", "purged"}]
    BY <1>4 DEF CrudInv, TypeOK
  <2>4. \A id \in Ids : content'[id] \in Content(id) \cup {NoContent}
    BY <1>4 DEF CrudInv, TypeOK
  <2>5. \A id \in Ids : Stored(id)' => content'[id] \in Content(id)
    BY <2>1 DEF CrudInv, TypeOK
  <2>6. DOMAIN content' = Ids
    BY <1>4
  <2> QED  BY <1>1, <1>4, <2>2, <2>3, <2>4, <2>5, <2>6, ReplyLemma
<1> QED  BY <1>2, <1>3, <1>4 DEF Trash

(* The verbs write rows of their own only; the migration writes none. *)
LEMMA OthersLemma ==
    ASSUME CrudInv, VerbStores \/ VerbDeletes \/ DeclareChecks
    PROVE  CrudInv'
<1> USE IdsAssumption
<1>1. CASE VerbStores
  <2>1. PICK w \in VerbWrites :
            /\ state' = [state EXCEPT ![w.id] = "live"]
            /\ content' = [content EXCEPT ![w.id] = w.row]
            /\ UNCHANGED <<checks, pc, req, outcome>>
    BY <1>1 DEF VerbStores
  <2>2. w.id \in VerbRows /\ w.id \in Ids /\ w.row \in Content(w.id)
    BY VerbsAssumption
  <2>3. TypeOK'
    BY <2>1, <2>2 DEF CrudInv, TypeOK, Stored
  <2>4. RuledRowsLegal'
    BY <2>1, <2>2 DEF CrudInv, TypeOK, RuledRowsLegal, Stored
  <2> QED  BY <2>1, <2>3, <2>4 DEF CrudInv
<1>2. CASE VerbDeletes
  <2>1. PICK l \in VerbRows : /\ l \in Ids /\ state[l] = "live"
                              /\ state' = [state EXCEPT ![l] = "trash"]
                              /\ UNCHANGED <<content, checks, pc, req, outcome>>
    BY <1>2 DEF VerbDeletes, Ids
  <2>2. TypeOK'
    BY <2>1 DEF CrudInv, TypeOK, Stored
  <2>3. RuledRowsLegal'
    BY <2>1 DEF CrudInv, TypeOK, RuledRowsLegal, Stored
  <2> QED  BY <2>1, <2>2, <2>3 DEF CrudInv
<1>3. CASE DeclareChecks
  <2>1. UNCHANGED <<state, content, pc, req, outcome>>
    BY <1>3 DEF DeclareChecks, rows
  <2> QED  BY <2>1 DEF CrudInv, TypeOK, RuledRowsLegal, Stored
<1> QED  BY <1>1, <1>2, <1>3

LEMMA CrudInvariant == Spec => []CrudInv
<1>1. Init => CrudInv
  BY DEF Init, CrudInv, TypeOK, RuledRowsLegal, Stored
<1>2. CrudInv /\ [Next]_vars => CrudInv'
  <2> SUFFICES ASSUME CrudInv, [Next]_vars PROVE CrudInv'
    OBVIOUS
  <2>1. ASSUME NEW c \in Clients, Receive(c) PROVE CrudInv'
    BY <2>1, ReceiveLemma
  <2>2. ASSUME NEW c \in Clients, Serve(c) PROVE CrudInv'
    BY <2>2, JudgeLemma, WriteLemma, TrashLemma DEF Serve
  <2>3. CASE VerbStores \/ VerbDeletes \/ DeclareChecks
    BY <2>3, OthersLemma
  <2>4. CASE UNCHANGED vars
    BY <2>4 DEF vars, rows, CrudInv, TypeOK, RuledRowsLegal, Stored
  <2> QED  BY <2>1, <2>2, <2>3, <2>4 DEF Next
<1> QED  BY <1>1, <1>2, PTL DEF Spec

(* A row that only the guarded services write obeys every rule of its      *)
(* table, as the CHECKs read them, although an update is judged by the     *)
(* fields that it changes, against a row that others may change meanwhile. *)
THEOREM RowRulesHold == Spec => []RuledRowsLegal
<1>1. CrudInv => RuledRowsLegal
  BY DEF CrudInv
<1> QED  BY <1>1, CrudInvariant, PTL

(* The CHECKs of the database never refuse a request for such a row that   *)
(* the guard let pass.                                                     *)
THEOREM ChecksNeverTrip == Spec => []RuledWritesNeverTrip
<1>1. Init => RuledWritesNeverTrip
  BY DEF Init, RuledWritesNeverTrip, NoOutcome
<1>2. CrudInv /\ RuledWritesNeverTrip /\ [Next]_vars => RuledWritesNeverTrip'
  <2> SUFFICES ASSUME CrudInv, RuledWritesNeverTrip, [Next]_vars,
                      NEW d \in Clients, outcome'[d].code = "check_violation"
               PROVE  outcome'[d].id \in VerbRows
    BY DEF RuledWritesNeverTrip
  <2> USE DEF CrudInv, TypeOK
  <2>1. ASSUME UNCHANGED outcome PROVE outcome'[d].id \in VerbRows
    BY <2>1 DEF RuledWritesNeverTrip
  <2>2. ASSUME NEW c \in Clients, NEW code \in {"ok", "not_found", "violations",
                                                "foreign_key_violation"},
               Reply(c, code)
        PROVE  outcome'[d].id \in VerbRows
    BY <2>2 DEF Reply, RuledWritesNeverTrip
  <2>3. ASSUME NEW c \in Clients, Receive(c) PROVE outcome'[d].id \in VerbRows
    BY <2>3 DEF Receive, RuledWritesNeverTrip, NoOutcome
  <2>4. ASSUME NEW c \in Clients, Judge(c) PROVE outcome'[d].id \in VerbRows
    BY <2>1, <2>2, <2>4 DEF Judge, Unchanged
  <2>5. ASSUME NEW c \in Clients, Write(c) PROVE outcome'[d].id \in VerbRows
    <3>1. CASE \E code \in {"ok", "not_found", "foreign_key_violation"} : Reply(c, code)
      BY <2>2, <3>1
    <3>2. CASE Violated(req[c].id, req[c].row) # {} /\ Reply(c, "check_violation")
      <4>1. ~Legal(req[c].id, req[c].row)
        BY <3>2 DEF Violated, Legal
      <4>2. req[c].id \in VerbRows
        BY <2>5, <4>1 DEF Write
      <4> QED  BY <3>2, <4>2 DEF Reply, RuledWritesNeverTrip
    <3> QED  BY <2>5, <3>1, <3>2 DEF Write, Unchanged
  <2>6. ASSUME NEW c \in Clients, Trash(c) PROVE outcome'[d].id \in VerbRows
    <3>1. \E code \in {"ok", "not_found", "foreign_key_violation"} : Reply(c, code)
      BY <2>6 DEF Trash, Unchanged
    <3> QED  BY <2>2, <3>1
  <2>7. CASE VerbStores \/ VerbDeletes \/ DeclareChecks
    BY <2>1, <2>7 DEF VerbStores, VerbDeletes, DeclareChecks
  <2>8. CASE UNCHANGED vars
    BY <2>1, <2>8 DEF vars
  <2> QED  BY <2>3, <2>4, <2>5, <2>6, <2>7, <2>8 DEF Next, Serve
<1> QED  BY <1>1, <1>2, CrudInvariant, PTL DEF Spec

(* A line always has its budget, live or in the trash: the foreign key     *)
(* holds back the purge, and every writer of a line respects it.           *)
THEOREM LinesKeepTheirBudget == Spec => []LinesHaveBudget
<1>1. Init => LinesHaveBudget
  BY DEF Init, LinesHaveBudget, Stored, Ids
<1>2. CrudInv /\ LinesHaveBudget /\ [Next]_vars => LinesHaveBudget'
  <2> SUFFICES ASSUME CrudInv, LinesHaveBudget, [Next]_vars,
                      NEW l \in Lines, Stored(l)'
               PROVE  content'[l].budget_id \in Budgets /\ Stored(content[l].budget_id)'
    BY DEF LinesHaveBudget
  <2> DEFINE Kept == content'[l].budget_id \in Budgets /\ Stored(content[l].budget_id)'
  <2> USE IdsAssumption DEF CrudInv, TypeOK, Ids
  <2>1. ASSUME UNCHANGED <<state, content>> PROVE Kept
    BY <2>1 DEF LinesHaveBudget, Stored
  <2>2. ASSUME NEW i \in Ids, NEW s \in {"live", "trash"}, state[i] \in {"live", "trash"},
               state' = [state EXCEPT ![i] = s], UNCHANGED content
        PROVE  Kept
    BY <2>2 DEF LinesHaveBudget, Stored
  <2>3. ASSUME NEW i \in Ids, NEW row, NEW s \in {"live", "trash"}, Refers(i, row),
               state' = [state EXCEPT ![i] = s], content' = [content EXCEPT ![i] = row]
        PROVE  Kept
    <3>1. CASE i = l
      BY <2>3, <3>1 DEF Refers, Stored
    <3>2. CASE i # l
      BY <2>3, <3>2 DEF LinesHaveBudget, Stored
    <3> QED  BY <3>1, <3>2
  <2>4. ASSUME NEW c \in Clients, Receive(c) PROVE Kept
    BY <2>1, <2>4 DEF Receive, rows
  <2>5. ASSUME NEW c \in Clients, Judge(c) PROVE Kept
    BY <2>1, <2>5 DEF Judge, Unchanged, rows
  <2>6. ASSUME NEW c \in Clients, Write(c) PROVE Kept
    <3>1. req[c].id \in Ids
      BY <2>6, RequestLemma DEF Write
    <3>2. CASE UNCHANGED rows
      BY <2>1, <3>2 DEF rows
    <3>3. CASE /\ req[c].op = "create" \/ Stored(req[c].id)
               /\ Refers(req[c].id, req[c].row)
               /\ \E s \in IF req[c].op = "create" THEN {"live"}
                           ELSE {state[req[c].id], "live"} :
                     state' = [state EXCEPT ![req[c].id] = s]
               /\ content' = [content EXCEPT ![req[c].id] = req[c].row]
      <4>1. PICK s \in {state[req[c].id], "live"} :
                /\ req[c].op = "create" => s = "live"
                /\ state' = [state EXCEPT ![req[c].id] = s]
        BY <3>3
      <4>2. s \in {"live", "trash"}
        BY <3>3, <4>1 DEF Stored
      <4> QED  BY <2>3, <3>1, <3>3, <4>1, <4>2
    <3> QED  BY <2>6, <3>2, <3>3 DEF Write, Unchanged
  <2>7. ASSUME NEW c \in Clients, Trash(c) PROVE Kept
    <3> DEFINE r == req[c]
               gone == IF r.op = "empty" THEN Trashed(r.id) ELSE {r.id} \cap Trashed(r.id)
    <3>1. r.id \in Ids
      BY <2>7, RequestLemma DEF Trash
    <3>2. CASE UNCHANGED rows
      BY <2>1, <3>2 DEF rows
    <3>3. CASE /\ \E s \in {"live", "trash"} : state' = [state EXCEPT ![r.id] = s]
               /\ state[r.id] \in {"live", "trash"} /\ UNCHANGED content
      BY <2>2, <3>1, <3>3
    <3>4. CASE /\ ~Referenced(gone)
               /\ state' = [i \in Ids |-> IF i \in gone THEN "purged" ELSE state[i]]
               /\ content' = [i \in Ids |-> IF i \in gone THEN NoContent ELSE content[i]]
      <4> HIDE DEF gone
      <4>1. l \notin gone /\ Stored(l) /\ content'[l] = content[l]
        BY <3>4 DEF Stored
      <4>2. content[l].budget_id \in Budgets /\ Stored(content[l].budget_id)
        BY <4>1 DEF LinesHaveBudget
      <4>3. content[l].budget_id \notin gone
        BY <3>4, <4>1 DEF Referenced
      <4> QED  BY <3>4, <4>1, <4>2, <4>3 DEF Stored
    <3> QED  BY <2>7, <3>2, <3>3, <3>4 DEF Trash, Unchanged
  <2>8. CASE VerbStores
    <3>1. PICK w \in VerbWrites :
              /\ Refers(w.id, w.row)
              /\ state' = [state EXCEPT ![w.id] = "live"]
              /\ content' = [content EXCEPT ![w.id] = w.row]
      BY <2>8 DEF VerbStores
    <3>2. w.id \in Ids
      BY VerbsAssumption
    <3> QED  BY <2>3, <3>1, <3>2
  <2>9. CASE VerbDeletes
    BY <2>2, <2>9 DEF VerbDeletes
  <2>10. CASE DeclareChecks \/ UNCHANGED vars
    BY <2>1, <2>10 DEF DeclareChecks, vars, rows
  <2> QED  BY <2>4, <2>5, <2>6, <2>7, <2>8, <2>9, <2>10 DEF Next, Serve
<1> QED  BY <1>1, <1>2, CrudInvariant, PTL DEF Spec

=============================================================================
