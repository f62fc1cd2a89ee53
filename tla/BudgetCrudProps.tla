-------------------------- MODULE BudgetCrudProps --------------------------
(***************************************************************************)
(* What the declared row rules promise of rows that only the guarded       *)
(* services write, however their requests interleave with each other, with *)
(* the verbs and with the migration that declares the CHECKs.              *)
(***************************************************************************)
EXTENDS BudgetCrud

Outcome == [op : {"create", "update", "delete", "restore", "purge", "empty"}, id : Ids,
            code : {"ok", "not_found", "violations", "check_violation",
                    "foreign_key_violation"}]

(* Type invariant: a stored row has the fields of its table, and a client  *)
(* is at the step of the request it serves.                                *)
TypeOK ==
    /\ state \in [Ids -> {"absent", "live", "trash", "purged"}]
    /\ DOMAIN content = Ids
    /\ \A id \in Ids : content[id] \in Content(id) \cup {NoContent}
    /\ \A id \in Ids : Stored(id) => content[id] \in Content(id)
    /\ pc \in [Clients -> {"idle", "judge", "write", "trash"}]
    /\ req \in [Clients -> Requests \cup {NoRequest}]
    /\ outcome \in [Clients -> Outcome \cup {NoOutcome}]
    /\ \A c \in Clients :
          /\ pc[c] = "idle" <=> req[c] = NoRequest
          /\ pc[c] \in {"judge", "write"} => req[c].op \in {"create", "update"}
          /\ pc[c] = "trash" => req[c].op \in {"delete", "restore", "purge", "empty"}

(* An update judges only the fields it changes, against a row that may     *)
(* have changed since it was loaded.  All the same a row that only the     *)
(* guarded services write obeys every rule of its table, as the CHECKs     *)
(* read them, after any history of racing updates, deletions and restores. *)
RuledRowsLegal ==
    \A id \in Ids \ VerbRows : Stored(id) => Legal(id, content[id])

(* Therefore the database never has the last word on such a row: a request *)
(* for it that passes the guard is not refused by a CHECK, so that a rule  *)
(* that is broken is always named by the guard and never surfaces as a     *)
(* database error.                                                         *)
RuledWritesNeverTrip ==
    \A c \in Clients : outcome[c].code = "check_violation" => outcome[c].id \in VerbRows

(* A line always has its budget, live or in the trash, although creations, *)
(* moves of lines, purges and the emptying of the trash race.              *)
LinesHaveBudget ==
    \A l \in Lines : Stored(l) =>
        content[l].budget_id \in Budgets /\ Stored(content[l].budget_id)

(* The inductive invariant of the proofs: a request at its write carries a *)
(* row that obeys the rules, if only the guarded services write that row.  *)
CrudInv ==
    /\ TypeOK /\ RuledRowsLegal
    /\ \A c \in Clients : pc[c] = "write" /\ req[c].id \notin VerbRows =>
          Legal(req[c].id, req[c].row)

=============================================================================
