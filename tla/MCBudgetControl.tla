-------------------------- MODULE MCBudgetControl --------------------------
(***************************************************************************)
(* Small instances of BudgetControl.  A month of two days lies in a year   *)
(* of three, so that the third day is covered by the year only; a fourth   *)
(* date is covered by no period.                                           *)
(***************************************************************************)
EXTENDS BudgetControlProps, TLC

CONSTANTS a1, a2, a3, cc1, month, year, b1, b2, l1, l2, l3, l4

MCDates == 1 .. 4
MCYears == {2026}
MCCalendar == (month :> [year |-> 2026, start |-> 1, end |-> 2])
           @@ (year :> [year |-> 2026, start |-> 1, end |-> 3])

MCNormal == (a1 :> "debit") @@ (a2 :> "credit")

PlanLine(budget, account, cc, p, amount) ==
    [state |-> "live", budget |-> budget, account |-> account, cc |-> cc,
     period |-> p, amount |-> amount]

MCLines == (l1 :> PlanLine(b1, a1, NoCC, month, 2))
       @@ (l2 :> PlanLine(b1, a1, cc1, month, 1))
       @@ (l3 :> PlanLine(b2, a2, NoCC, month, 1))
       @@ (l4 :> PlanLine(b1, a1, NoCC, year, 1))

MCBudgets == (b1 :> [status |-> "confirmed", enforcement |-> "block"])
          @@ (b2 :> [status |-> "draft", enforcement |-> "block"])

Debit(account, cc, amount) == [account |-> account, cc |-> cc, debit |-> amount, credit |-> 0]
Credit(account, cc, amount) == [account |-> account, cc |-> cc, debit |-> 0, credit |-> amount]

(* A sale, its reversal, a move between cost centers, a posting whose legs *)
(* meet on one key, one on an account that does not exist, an empty one.   *)
MCPostings ==
    {[date |-> d, lines |-> <<Debit(a1, NoCC, 1), Credit(a2, NoCC, 1)>>] : d \in MCDates}
    \cup {[date |-> d, lines |-> <<Credit(a1, NoCC, 1), Debit(a2, NoCC, 1)>>] : d \in {1, 2}}
    \cup {[date |-> d, lines |-> <<Debit(a1, cc1, 1), Credit(a1, NoCC, 1)>>] : d \in {1, 3}}
    \cup {[date |-> 2, lines |-> <<Debit(a1, NoCC, 2), Credit(a1, NoCC, 1), Credit(a2, cc1, 1)>>],
          [date |-> 2, lines |-> <<Debit(a3, NoCC, 1), Credit(a3, cc1, 1)>>],
          [date |-> 2, lines |-> <<>>]}

(* Postings of one day, all of which add to the same key. *)
SameDay == {[date |-> 2, lines |-> <<Debit(a1, NoCC, n), Credit(a2, NoCC, n)>>] : n \in 1 .. 2}

Symmetry == Permutations(Producers)

=============================================================================
