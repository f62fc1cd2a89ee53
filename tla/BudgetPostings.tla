--------------------------- MODULE BudgetPostings ---------------------------
(***************************************************************************)
(* Postings and what they move: the pure part of the control, on the       *)
(* calendar and the chart of accounts.  The ledger itself and its periods  *)
(* belong to accounting.                                                   *)
(***************************************************************************)
EXTENDS BudgetTypes, FiniteSetsExt

CONSTANTS
    Postings,       \* the postings producers may send
    Normal          \* the normal balance of the accounts that exist

ASSUME NormalAssumption ==
    /\ DOMAIN Normal \subseteq Accounts
    /\ \A a \in DOMAIN Normal : Normal[a] \in {"debit", "credit"}

PostingLine == [account : Accounts, cc : CostCenters \cup {NoCC},
                debit : Nat, credit : Nat]
Posting == [date : Dates, lines : Seq(PostingLine)]

ASSUME PostingsAssumption == Postings \subseteq Posting
ASSUME NoPeriodAssumption == "none" \notin Periods

(* Mutant: the last day of a window is left out. *)
CoveringBefore(date) ==
    {p \in Periods : Calendar[p].start <= date /\ date < Calendar[p].end}

(* The smallest windows that cover a date; the query takes one of them.    *)
(* A soft-deleted period is none of Periods.                               *)
Covering(date) ==
    {p \in Periods : Calendar[p].start <= date /\ date <= Calendar[p].end}

Width(p) == Calendar[p].end - Calendar[p].start

PeriodsFor(date) ==
    {p \in Covering(date) : \A q \in Covering(date) : Width(p) <= Width(q)}

(* The movement of an account in the direction of its normal balance, and  *)
(* that of a set of ledger rows, each oriented by its own stamp.           *)
NormalDirection(normal, debit, credit) ==
    IF normal = "debit" THEN debit - credit ELSE credit - debit

Moved(rows) == MapThenSumSet(LAMBDA r : NormalDirection(r.normal, r.debit, r.credit), rows)

(* The lines of a posting on accounts that exist, and what the lines on    *)
(* one key add to it.                                                      *)
KnownLines(j) == {i \in DOMAIN j.lines : j.lines[i].account \in DOMAIN Normal}

Pending(j, account, cc) ==
    MapThenSumSet(LAMBDA i : NormalDirection(Normal[account], j.lines[i].debit,
                                             j.lines[i].credit),
                  {i \in KnownLines(j) :
                      j.lines[i].account = account /\ j.lines[i].cc = cc})

(* The general ledger, external, stamps its rows with the orientation of   *)
(* the account and a period of its own choice: a smallest one of those     *)
(* whose days hold the posting date.                                       *)
LedgerPeriods(date) ==
    LET Days(p) == Calendar[p].start .. Calendar[p].end
        Longer(p, q) == Calendar[p].end - Calendar[p].start
                            > Calendar[q].end - Calendar[q].start
    IN  {p \in Periods : /\ date \in Days(p)
                         /\ ~\E q \in Periods : date \in Days(q) /\ Longer(p, q)}

Stamped(j, n, p) ==
    {[posting |-> n, account |-> j.lines[i].account, cc |-> j.lines[i].cc,
      period |-> p, date |-> j.date, normal |-> Normal[j.lines[i].account],
      line |-> i, debit |-> j.lines[i].debit, credit |-> j.lines[i].credit] :
        i \in DOMAIN j.lines}

=============================================================================
