------------------------ MODULE BudgetControlProofs ------------------------
(***************************************************************************)
(* The control of postings, for any number of producers, postings and plan *)
(* lines: what an evaluation remembers stays true while others write, one  *)
(* posting at a time never exceeds a block, and postings that race exceed  *)
(* it by a bound.                                                          *)
(***************************************************************************)
EXTENDS BudgetControlProps, BudgetPostingsProofs

(* The two sides of the rows, which Spent adds up apart. *)
Debits(rows) == [r \in rows |-> r.debit]
Credits(rows) == [r \in rows |-> r.credit]

(* What the control counts on a key is a sum. *)
LEMMA AchievedIsSum ==
    ASSUME NEW a, NEW c, NEW p, NEW d, IsFiniteSet(Counted(ledger, a, c, p, d))
    PROVE  Achieved(a, c, p, d) = Sum(Movement(ledger), Counted(ledger, a, c, p, d))
<1>1. Achieved(a, c, p, d) = Moved(Counted(ledger, a, c, p, d))
  BY DEF Achieved, Counted
<1>2. Counted(ledger, a, c, p, d) \subseteq ledger
  BY DEF Counted
<1> QED
  BY <1>1, <1>2, MovedIsSum

(* So are the debits of a finite set of rows, *)
LEMMA DebitsAreSum ==
    ASSUME NEW S0, IsFiniteSet(S0)
    PROVE  MapThenSumSet(LAMBDA r : r.debit, S0) = Sum(Debits(S0), S0)
<1> DEFINE S == S0
           f == Debits(S0)
           P(g) == g = [s \in SUBSET S |->
                           IF s = {} THEN 0 ELSE Pick(s).debit + g[s \ {Pick(s)}]]
           G == CHOOSE g : P(g)
<1>1. MapThenSumSet(LAMBDA r : r.debit, S0) = G[S]
  BY DEF MapThenSumSet, MapThenFoldSet, Pick
<1>2. PICK g : Recurs(g, f, SUBSET S)
  BY SumRecursion
<1>3. ASSUME NEW s \in SUBSET S, s # {}
      PROVE  f[Pick(s)] = Pick(s).debit
  BY <1>3, PickType DEF Debits
<1> HIDE DEF S, f
<1>4. P(G)
  <2>1. P(g)
    BY <1>2, <1>3 DEF Recurs
  <2> QED
    BY <2>1, Zenon
<1>5. Recurs(G, f, SUBSET S)
  <2> HIDE DEF G
  <2> QED
    BY <1>3, <1>4 DEF Recurs
<1>6. IsFiniteSet(S)
  BY DEF S
<1>7. MapThenSumSet(LAMBDA r : r.debit, S0) = Sum(f, S)
  <2> HIDE DEF G
  <2> QED
    BY <1>1, <1>5, <1>6, SumOfRecursion
<1> QED
  BY <1>7 DEF S, f

(* and its credits. *)
LEMMA CreditsAreSum ==
    ASSUME NEW S0, IsFiniteSet(S0)
    PROVE  MapThenSumSet(LAMBDA r : r.credit, S0) = Sum(Credits(S0), S0)
<1> DEFINE S == S0
           f == Credits(S0)
           P(g) == g = [s \in SUBSET S |->
                           IF s = {} THEN 0 ELSE Pick(s).credit + g[s \ {Pick(s)}]]
           G == CHOOSE g : P(g)
<1>1. MapThenSumSet(LAMBDA r : r.credit, S0) = G[S]
  BY DEF MapThenSumSet, MapThenFoldSet, Pick
<1>2. PICK g : Recurs(g, f, SUBSET S)
  BY SumRecursion
<1>3. ASSUME NEW s \in SUBSET S, s # {}
      PROVE  f[Pick(s)] = Pick(s).credit
  BY <1>3, PickType DEF Credits
<1> HIDE DEF S, f
<1>4. P(G)
  <2>1. P(g)
    BY <1>2, <1>3 DEF Recurs
  <2> QED
    BY <2>1, Zenon
<1>5. Recurs(G, f, SUBSET S)
  <2> HIDE DEF G
  <2> QED
    BY <1>3, <1>4 DEF Recurs
<1>6. IsFiniteSet(S)
  BY DEF S
<1>7. MapThenSumSet(LAMBDA r : r.credit, S0) = Sum(f, S)
  <2> HIDE DEF G
  <2> QED
    BY <1>1, <1>5, <1>6, SumOfRecursion
<1> QED
  BY <1>7 DEF S, f

(* The rows that count on the key of a plan line. *)
KeyRows(rows, l, d) ==
    Counted(rows, lines[l].account, lines[l].cc, lines[l].period, d)

(* The properties count by account, the control by row: on rows that carry *)
(* the orientation of their account the two agree.                         *)
LEMMA SpentIsSum ==
    ASSUME NEW rows, NEW l, NEW d, IsFiniteSet(KeyRows(rows, l, d)),
           \A r \in KeyRows(rows, l, d) : Oriented(r)
    PROVE  Spent(rows, l, d) = Sum(Movement(rows), KeyRows(rows, l, d))
<1> DEFINE S == KeyRows(rows, l, d)
           debits == MapThenSumSet(LAMBDA r : r.debit, S)
           credits == MapThenSumSet(LAMBDA r : r.credit, S)
<1>1. {r \in rows : Covers(l, r) /\ r.date <= d} = S
  BY DEF Covers, Key, KeyRows, Counted
<1>2. Spent(rows, l, d) =
          IF Normal[lines[l].account] = "debit" THEN debits - credits ELSE credits - debits
  BY <1>1 DEF Spent
<1>3. \A r \in S : r \in rows /\ r.account = lines[l].account
  BY DEF KeyRows, Counted
<1> HIDE DEF S
<1>4. IsFiniteSet(S) /\ \A r \in S : Oriented(r)
  BY DEF S
<1>5. debits = Sum(Debits(S), S) /\ credits = Sum(Credits(S), S)
  BY <1>4, DebitsAreSum, CreditsAreSum
<1>6. \A r \in S : Debits(S)[r] = r.debit /\ Credits(S)[r] = r.credit
                   /\ r.debit \in Int /\ r.credit \in Int
  BY <1>4 DEF Debits, Credits, Oriented
<1>7. CASE Normal[lines[l].account] = "debit"
  <2>1. \A r \in S : Movement(rows)[r] = Debits(S)[r] - Credits(S)[r]
    BY <1>3, <1>4, <1>6, <1>7 DEF Movement, NormalDirection, Oriented
  <2>2. Sum(Movement(rows), S) = Sum(Debits(S), S) - Sum(Credits(S), S)
    BY <1>4, <1>6, <2>1, SumDifference
  <2> QED
    BY <1>2, <1>5, <1>7, <2>2 DEF S
<1>8. CASE Normal[lines[l].account] # "debit"
  <2>1. \A r \in S : Movement(rows)[r] = Credits(S)[r] - Debits(S)[r]
    BY <1>3, <1>4, <1>6, <1>8 DEF Movement, NormalDirection, Oriented
  <2>2. Sum(Movement(rows), S) = Sum(Credits(S), S) - Sum(Debits(S), S)
    BY <1>4, <1>6, <2>1, SumDifference
  <2> QED
    BY <1>2, <1>5, <1>8, <2>2 DEF S
<1> QED
  BY <1>7, <1>8

(* The rows that a posting would become add to a position what its lines   *)
(* add to the key.                                                         *)
LEMMA AddsIsPending ==
    ASSUME NEW h, NEW l, job[h] \in Posting, job[h].date \in Int,
           lines[l].account \in DOMAIN Normal, lines[l].period \in PeriodsFor(job[h].date)
    PROVE  Adds(h, l) = Pending(job[h], lines[l].account, lines[l].cc)
<1> DEFINE j == job[h]
           rows == Proposed(h)
           S == Counted(Stamped(j, posted + 1, lines[l].period),
                        lines[l].account, lines[l].cc, lines[l].period, j.date)
<1>1. KeyRows(rows, l, j.date) = S
  BY PeriodsAgree DEF KeyRows, Counted, Proposed, Stamped
<1>2. S \subseteq rows
  BY PeriodsAgree DEF Counted, Proposed
<1>3. j.date <= j.date
  OBVIOUS
<1> HIDE DEF j, rows
<1>4. /\ IsFiniteSet(S) /\ \A r \in S : Oriented(r)
      /\ Sum(Movement(rows), S) = Pending(j, lines[l].account, lines[l].cc)
  BY <1>2, <1>3, StampedMovement DEF j
<1>5. Spent(rows, l, j.date) = Sum(Movement(rows), S)
  BY <1>1, <1>4, SpentIsSum
<1> QED
  BY <1>4, <1>5 DEF Adds, j, rows

(* A function on a set, of whatever values. *)
IsOver(f, S) == f = [x \in S |-> f[x]]

(* One part per fact: what the variables hold, what the ledger holds, what *)
(* each evaluation remembers.                                              *)
ControlTypeOK ==
    /\ lines = InitialLines
    /\ budgets \in [BudgetIds -> Header \cup {NoBudget}]
    /\ posted \in Nat
    /\ pc \in [Producers -> {"idle", "period", "positions", "achieved", "post"}]
    /\ IsOver(job, Producers) /\ IsOver(period, Producers)
    /\ IsOver(positions, Producers) /\ IsOver(verdict, Producers)

(* The ledger is finite, of oriented rows of postings that were counted. *)
LedgerOK ==
    /\ IsFiniteSet(ledger)
    /\ \A r \in ledger : Oriented(r) /\ r.posting \in 1 .. posted /\ r.date \in Dates

(* A posting in flight is one producers may send, and has no verdict yet. *)
JobOK(h) ==
    pc[h] # "idle" => job[h] \in Postings /\ verdict[h] = "none"

(* A position is remembered as the plan has it, on the period of the       *)
(* posting, and its budget never was a draft since.                        *)
Faithful(h, pos) ==
    /\ pos.line \in LineIds
    /\ lines[pos.line].state = "live"
    /\ lines[pos.line].account = pos.account /\ lines[pos.line].cc = pos.cc
    /\ lines[pos.line].amount = pos.amount /\ lines[pos.line].period = period[h]
    /\ budgets[lines[pos.line].budget].status \notin {"draft", "absent"}

(* Only an evaluation that has read its positions has any, on a smallest   *)
(* period of its date.                                                     *)
PositionsOK(h) ==
    /\ pc[h] \in {"idle", "period", "positions"} => positions[h] = {}
    /\ pc[h] \in {"positions", "achieved"} \/ positions[h] # {} =>
           period[h] \in PeriodsFor(job[h].date)
    /\ \A pos \in positions[h] : Faithful(h, pos)

(* The inductive invariant. *)
ControlInv ==
    /\ ControlTypeOK /\ LedgerOK
    /\ \A h \in Producers : JobOK(h) /\ PositionsOK(h)

(* What a step of one producer leaves of another. *)
Untouched(g) ==
    /\ pc'[g] = pc[g] /\ job'[g] = job[g] /\ period'[g] = period[g]
    /\ positions'[g] = positions[g] /\ verdict'[g] = verdict[g]

(* The steps of a producer. *)
Produces(h) == Send(h) \/ Evaluate(h) \/ Post(h) \/ Abandon(h)

(* No planner makes a draft of a budget again. *)
StaysPastDraft ==
    \A b \in BudgetIds : budgets[b].status \notin {"draft", "absent"} =>
                             budgets'[b].status \notin {"draft", "absent"}

(* A posting that ends, whatever became of it, clears its producer and no  *)
(* other.                                                                  *)
LEMMA FinishFacts ==
    ASSUME ControlTypeOK, NEW h \in Producers, NEW outcome, Finish(h, outcome)
    PROVE  /\ pc' \in [Producers -> {"idle", "period", "positions", "achieved", "post"}]
           /\ IsOver(job, Producers)' /\ IsOver(period, Producers)'
           /\ IsOver(positions, Producers)' /\ IsOver(verdict, Producers)'
           /\ pc'[h] = "idle" /\ positions'[h] = {} /\ verdict'[h] = outcome
           /\ \A g \in Producers \ {h} : Untouched(g)
<1>1. pc' = [pc EXCEPT ![h] = "idle"]
  BY DEF Finish
<1>2. job' = [job EXCEPT ![h] = NoPosting]
  BY DEF Finish
<1>3. period' = [period EXCEPT ![h] = "none"]
  BY DEF Finish
<1>4. positions' = [positions EXCEPT ![h] = {}]
  BY DEF Finish
<1>5. verdict' = [verdict EXCEPT ![h] = outcome]
  BY DEF Finish
<1>6. /\ pc' \in [Producers -> {"idle", "period", "positions", "achieved", "post"}]
      /\ pc'[h] = "idle" /\ \A g \in Producers \ {h} : pc'[g] = pc[g]
  BY <1>1 DEF ControlTypeOK
<1>7. IsOver(job, Producers)' /\ \A g \in Producers \ {h} : job'[g] = job[g]
  BY <1>2 DEF ControlTypeOK, IsOver
<1>8. IsOver(period, Producers)' /\ \A g \in Producers \ {h} : period'[g] = period[g]
  BY <1>3 DEF ControlTypeOK, IsOver
<1>9. /\ IsOver(positions, Producers)' /\ positions'[h] = {}
      /\ \A g \in Producers \ {h} : positions'[g] = positions[g]
  BY <1>4 DEF ControlTypeOK, IsOver
<1>10. /\ IsOver(verdict, Producers)' /\ verdict'[h] = outcome
       /\ \A g \in Producers \ {h} : verdict'[g] = verdict[g]
  BY <1>5 DEF ControlTypeOK, IsOver
<1> QED
  BY <1>6, <1>7, <1>8, <1>9, <1>10 DEF Untouched

(* The steps of a producer, each with what it does to the producer. *)
Moves(h) ==
    /\ pc' \in [Producers -> {"idle", "period", "positions", "achieved", "post"}]
    /\ IsOver(job, Producers)' /\ IsOver(period, Producers)'
    /\ IsOver(positions, Producers)' /\ IsOver(verdict, Producers)'
    /\ \A g \in Producers \ {h} : Untouched(g)

(* Send starts one posting of the producer. *)
LEMMA SendFacts ==
    ASSUME ControlTypeOK, NEW h \in Producers, Send(h)
    PROVE  /\ Moves(h) /\ UNCHANGED <<plan, ledger, posted>>
           /\ pc[h] = "idle" /\ pc'[h] \in {"post", "period"}
           /\ pc'[h] = "post" => job'[h].lines = <<>>
           /\ job'[h] \in Postings /\ verdict'[h] = "none"
           /\ positions'[h] = positions[h]
<1>1. PICK j \in Postings :
         /\ job' = [job EXCEPT ![h] = j]
         /\ pc' = [pc EXCEPT ![h] = IF j.lines = <<>> THEN "post" ELSE "period"]
  BY DEF Send
<1>2. verdict' = [verdict EXCEPT ![h] = "none"]
  BY DEF Send
<1>3. UNCHANGED <<plan, ledger, posted, period, positions>> /\ pc[h] = "idle"
  BY DEF Send
<1>4. /\ pc' \in [Producers -> {"idle", "period", "positions", "achieved", "post"}]
      /\ pc'[h] = IF j.lines = <<>> THEN "post" ELSE "period"
      /\ \A g \in Producers \ {h} : pc'[g] = pc[g]
  BY <1>1 DEF ControlTypeOK
<1>5. IsOver(job, Producers)' /\ job'[h] = j /\ \A g \in Producers \ {h} : job'[g] = job[g]
  BY <1>1 DEF ControlTypeOK, IsOver
<1>6. /\ IsOver(verdict, Producers)' /\ verdict'[h] = "none"
      /\ \A g \in Producers \ {h} : verdict'[g] = verdict[g]
  BY <1>2 DEF ControlTypeOK, IsOver
<1>7. /\ IsOver(period, Producers)' /\ IsOver(positions, Producers)'
      /\ period' = period /\ positions' = positions
  BY <1>3 DEF ControlTypeOK, IsOver
<1>8. Moves(h)
  BY <1>4, <1>5, <1>6, <1>7 DEF Moves, Untouched
<1> QED
  BY <1>3, <1>4, <1>5, <1>6, <1>7, <1>8

(* Resolve refuses, or leads on with a smallest period. *)
LEMMA ResolveFacts ==
    ASSUME ControlTypeOK, NEW h \in Producers, Resolve(h)
    PROVE  /\ Moves(h) /\ UNCHANGED <<plan, ledger, posted>>
           /\ pc[h] = "period"
           /\ \/ Finish(h, "accounting_unwired")
              \/ /\ job'[h] = job[h] /\ positions'[h] = positions[h] /\ verdict'[h] = verdict[h]
                 /\ \/ pc'[h] = "post" /\ PeriodsFor(job[h].date) = {}
                    \/ /\ period'[h] \in PeriodsFor(job[h].date)
                       /\ pc'[h] = IF KnownLines(job[h]) = {} THEN "post" ELSE "positions"
<1>0. pc[h] = "period" /\ UNCHANGED <<plan, ledger, posted>>
  BY DEF Resolve
<1>1. CASE Finish(h, "accounting_unwired")
  BY <1>0, <1>1, FinishFacts DEF Moves
<1>2. CASE /\ PeriodsFor(job[h].date) = {}
           /\ pc' = [pc EXCEPT ![h] = "post"]
           /\ UNCHANGED <<job, period, positions, verdict>>
  <2>1. /\ pc' \in [Producers -> {"idle", "period", "positions", "achieved", "post"}]
        /\ pc'[h] = "post" /\ \A g \in Producers \ {h} : pc'[g] = pc[g]
    BY <1>2 DEF ControlTypeOK
  <2>2. Moves(h)
    BY <1>2, <2>1 DEF Moves, Untouched, ControlTypeOK, IsOver
  <2> QED
    BY <1>0, <1>2, <2>1, <2>2
<1>3. ASSUME NEW p \in PeriodsFor(job[h].date), period' = [period EXCEPT ![h] = p],
             pc' = [pc EXCEPT ![h] = IF KnownLines(job[h]) = {} THEN "post" ELSE "positions"],
             UNCHANGED <<job, positions, verdict>>
      PROVE  /\ Moves(h) /\ period'[h] = p
             /\ pc'[h] = IF KnownLines(job[h]) = {} THEN "post" ELSE "positions"
             /\ job'[h] = job[h] /\ positions'[h] = positions[h] /\ verdict'[h] = verdict[h]
  <2>1. /\ pc' \in [Producers -> {"idle", "period", "positions", "achieved", "post"}]
        /\ pc'[h] = IF KnownLines(job[h]) = {} THEN "post" ELSE "positions"
        /\ \A g \in Producers \ {h} : pc'[g] = pc[g]
    BY <1>3 DEF ControlTypeOK
  <2>2. /\ IsOver(period, Producers)' /\ period'[h] = p
        /\ \A g \in Producers \ {h} : period'[g] = period[g]
    BY <1>3 DEF ControlTypeOK, IsOver
  <2>3. /\ IsOver(job, Producers)' /\ IsOver(positions, Producers)' /\ IsOver(verdict, Producers)'
    BY <1>3 DEF ControlTypeOK, IsOver
  <2>4. Moves(h)
    BY <1>3, <2>1, <2>2, <2>3 DEF Moves, Untouched
  <2> QED
    BY <1>3, <2>1, <2>2, <2>4
<1> QED
  BY <1>0, <1>1, <1>2, <1>3 DEF Resolve

(* ReadPositions remembers the confirmed positions of the accounts. *)
LEMMA ReadPositionsFacts ==
    ASSUME ControlTypeOK, NEW h \in Producers, ReadPositions(h)
    PROVE  /\ Moves(h) /\ UNCHANGED <<plan, ledger, posted, job, period, verdict>>
           /\ pc[h] = "positions" /\ pc'[h] = "achieved"
           /\ positions'[h] =
                  ConfirmedPositions({job[h].lines[i].account : i \in DOMAIN job[h].lines},
                                     period[h])
<1> DEFINE read == ConfirmedPositions({job[h].lines[i].account : i \in DOMAIN job[h].lines},
                                      period[h])
<1>1. /\ positions' = [positions EXCEPT ![h] = read]
      /\ pc' = [pc EXCEPT ![h] = "achieved"] /\ pc[h] = "positions"
      /\ UNCHANGED <<plan, ledger, posted, job, period, verdict>>
  BY DEF ReadPositions
<1> HIDE DEF read
<1>2. /\ pc' \in [Producers -> {"idle", "period", "positions", "achieved", "post"}]
      /\ pc'[h] = "achieved" /\ \A g \in Producers \ {h} : pc'[g] = pc[g]
  BY <1>1 DEF ControlTypeOK
<1>3. /\ IsOver(positions, Producers)' /\ positions'[h] = read
      /\ \A g \in Producers \ {h} : positions'[g] = positions[g]
  BY <1>1 DEF ControlTypeOK, IsOver
<1>4. IsOver(job, Producers)' /\ IsOver(period, Producers)' /\ IsOver(verdict, Producers)'
  BY <1>1 DEF ControlTypeOK, IsOver
<1>5. Moves(h)
  BY <1>1, <1>2, <1>3, <1>4 DEF Moves, Untouched
<1> QED
  BY <1>1, <1>2, <1>3, <1>5 DEF read

(* ReadAchieved refuses, or every block position passed. *)
LEMMA ReadAchievedFacts ==
    ASSUME ControlTypeOK, NEW h \in Producers, ReadAchieved(h)
    PROVE  /\ Moves(h) /\ UNCHANGED <<plan, ledger, posted>>
           /\ pc[h] = "achieved"
           /\ \/ /\ Finish(h, "budget_exceeded")
                 /\ \E pos \in positions[h] : pos.enforcement = "block" /\ Breached(h, pos)
              \/ /\ pc'[h] = "post" /\ UNCHANGED <<job, period, positions, verdict>>
                 /\ \A pos \in positions[h] : ~(pos.enforcement = "block" /\ Breached(h, pos))
<1>0. pc[h] = "achieved" /\ UNCHANGED <<plan, ledger, posted>>
  BY DEF ReadAchieved
<1>1. CASE \E pos \in positions[h] : pos.enforcement = "block" /\ Breached(h, pos)
  <2>1. Finish(h, "budget_exceeded")
    BY <1>1 DEF ReadAchieved
  <2> QED
    BY <1>0, <1>1, <2>1, FinishFacts DEF Moves
<1>2. CASE ~ \E pos \in positions[h] : pos.enforcement = "block" /\ Breached(h, pos)
  <2>1. pc' = [pc EXCEPT ![h] = "post"] /\ UNCHANGED <<job, period, positions, verdict>>
    BY <1>2 DEF ReadAchieved
  <2>2. /\ pc' \in [Producers -> {"idle", "period", "positions", "achieved", "post"}]
        /\ pc'[h] = "post" /\ \A g \in Producers \ {h} : pc'[g] = pc[g]
    BY <2>1 DEF ControlTypeOK
  <2>3. Moves(h)
    BY <2>1, <2>2 DEF Moves, Untouched, ControlTypeOK, IsOver
  <2> QED
    BY <1>0, <1>2, <2>1, <2>2, <2>3
<1> QED
  BY <1>1, <1>2

(* Post rejects, or stamps the rows of a posting on accounts that exist. *)
LEMMA PostFacts ==
    ASSUME ControlTypeOK, NEW h \in Producers, Post(h)
    PROVE  /\ Moves(h) /\ UNCHANGED plan /\ pc[h] = "post"
           /\ \/ Finish(h, "rejected") /\ UNCHANGED <<ledger, posted>>
              \/ /\ Finish(h, "posted") /\ posted' = posted + 1
                 /\ job[h].lines # <<>> /\ KnownLines(job[h]) = DOMAIN job[h].lines
                 /\ \E p \in IF LedgerPeriods(job[h].date) = {} THEN {"none"}
                             ELSE LedgerPeriods(job[h].date) :
                       ledger' = ledger \cup Stamped(job[h], posted + 1, p)
<1>1. pc[h] = "post" /\ UNCHANGED plan
  BY DEF Post
<1>2. CASE job[h].lines = <<>> \/ KnownLines(job[h]) # DOMAIN job[h].lines
  <2>1. Finish(h, "rejected") /\ UNCHANGED <<ledger, posted>>
    BY <1>2 DEF Post
  <2> QED
    BY <1>1, <2>1, FinishFacts DEF Moves
<1>3. CASE ~(job[h].lines = <<>> \/ KnownLines(job[h]) # DOMAIN job[h].lines)
  <2>1. /\ posted' = posted + 1
        /\ \E p \in IF LedgerPeriods(job[h].date) = {} THEN {"none"}
                    ELSE LedgerPeriods(job[h].date) :
              ledger' = ledger \cup Stamped(job[h], posted + 1, p)
        /\ Finish(h, "posted")
    BY <1>3 DEF Post
  <2>2. Moves(h)
    BY <2>1, FinishFacts DEF Moves
  <2> QED
    BY <1>1, <1>3, <2>1, <2>2
<1> QED
  BY <1>2, <1>3

(* Abandon ends the posting. *)
LEMMA AbandonFacts ==
    ASSUME ControlTypeOK, NEW h \in Producers, Abandon(h)
    PROVE  Moves(h) /\ UNCHANGED <<plan, ledger, posted>> /\ Finish(h, "abandoned")
BY FinishFacts DEF Abandon, Moves

(* A planner changes a header, not a line and no evaluation. *)
LEMMA PlansFacts ==
    ASSUME ControlTypeOK, NEW b \in BudgetIds, Plans(b)
    PROVE  /\ budgets' \in [BudgetIds -> Header \cup {NoBudget}] /\ StaysPastDraft
           /\ UNCHANGED <<lines, ledger, posted, pc, job, period, positions, verdict>>
<1>1. UNCHANGED <<lines, ledger, posted, pc, job, period, positions, verdict>>
  BY DEF Plans
<1>2. ASSUME NEW verb \in PlannerEdits \ {"posture"}, budgets[b].status \in AllowedFrom(verb),
             budgets' = [budgets EXCEPT ![b].status = Target(verb)]
      PROVE  budgets' \in [BudgetIds -> Header \cup {NoBudget}] /\ StaysPastDraft
  <2>1. Target(verb) \in {"confirmed", "closed", "cancelled"}
    BY DEF Target
  <2>2. budgets[b] \in Header
    BY <1>2 DEF ControlTypeOK, AllowedFrom, NoBudget
  <2> QED
    BY <1>2, <2>1, <2>2 DEF ControlTypeOK, StaysPastDraft, Header, Statuses
<1>3. ASSUME NEW e \in Enforcements, budgets[b].status \in {"draft", "confirmed"},
             budgets' = [budgets EXCEPT ![b].enforcement = e]
      PROVE  budgets' \in [BudgetIds -> Header \cup {NoBudget}] /\ StaysPastDraft
  <2>1. budgets[b] \in Header
    BY <1>3 DEF ControlTypeOK, NoBudget
  <2> QED
    BY <1>3, <2>1 DEF ControlTypeOK, StaysPastDraft, Header
<1> QED
  BY <1>1, <1>2, <1>3 DEF Plans

(* What an evaluation remembers survives the steps of the others. *)
LEMMA EvaluationStays ==
    ASSUME ControlInv, NEW g \in Producers, Untouched(g), lines' = lines, StaysPastDraft
    PROVE  JobOK(g)' /\ PositionsOK(g)'
<1>1. JobOK(g) /\ PositionsOK(g)
  BY DEF ControlInv
<1>2. JobOK(g)'
  BY <1>1 DEF JobOK, Untouched
<1>3. ASSUME NEW pos \in positions[g] PROVE Faithful(g, pos)'
  <2>1. Faithful(g, pos)
    BY <1>1 DEF PositionsOK
  <2>2. lines[pos.line].budget \in BudgetIds
    BY <2>1, LinesAssumption DEF Faithful, ControlInv, ControlTypeOK, NoLine, LineRow
  <2> QED
    BY <2>1, <2>2 DEF Faithful, Untouched, StaysPastDraft
<1>4. PositionsOK(g)'
  BY <1>1, <1>3 DEF PositionsOK, Untouched
<1> QED
  BY <1>2, <1>4

(* A committed posting keeps the ledger as the sums need it. *)
LEMMA LedgerGrows ==
    ASSUME ControlInv, NEW h \in Producers, Post(h)
    PROVE  LedgerOK'
<1>1. ControlTypeOK /\ LedgerOK /\ JobOK(h)
  BY DEF ControlInv
<1>2. CASE UNCHANGED <<ledger, posted>>
  BY <1>1, <1>2 DEF LedgerOK, Oriented
<1>3. CASE ~UNCHANGED <<ledger, posted>>
  <2>1. posted' = posted + 1 /\ KnownLines(job[h]) = DOMAIN job[h].lines
    BY <1>1, <1>3, PostFacts
  <2>2. PICK p : ledger' = ledger \cup Stamped(job[h], posted + 1, p)
    BY <1>1, <1>3, PostFacts
  <2>3. job[h] \in Posting /\ job[h].date \in Dates
    BY <1>1, PostFacts, PostingsAssumption DEF JobOK, Posting
  <2> DEFINE new == Stamped(job[h], posted + 1, p)
  <2>4. /\ IsFiniteSet(new)
        /\ \A r \in new : Oriented(r) /\ r.posting = posted + 1 /\ r.date \in Dates
    BY <2>1, <2>3, StampedRows
  <2>5. posted \in Nat
    BY <1>1 DEF ControlTypeOK
  <2> HIDE DEF new
  <2>6. IsFiniteSet(ledger')
    BY <1>1, <2>2, <2>4, FS_Union DEF LedgerOK, new
  <2>7. \A r \in ledger' : Oriented(r) /\ r.posting \in 1 .. posted' /\ r.date \in Dates
    BY <1>1, <2>1, <2>2, <2>4, <2>5 DEF LedgerOK, new
  <2> QED
    BY <2>6, <2>7 DEF LedgerOK, Oriented
<1> QED
  BY <1>2, <1>3

(* A step of a producer keeps what the invariant says of it. *)
LEMMA ProducerKeepsItsJob ==
    ASSUME ControlInv, NEW h \in Producers, Produces(h)
    PROVE  /\ Moves(h) /\ UNCHANGED plan
           /\ JobOK(h)' /\ PositionsOK(h)'
<1>1. ControlTypeOK /\ JobOK(h) /\ PositionsOK(h)
  BY DEF ControlInv
<1>2. ASSUME NEW outcome, Finish(h, outcome) PROVE JobOK(h)' /\ PositionsOK(h)'
  BY <1>1, <1>2, FinishFacts DEF JobOK, PositionsOK
<1>3. ASSUME lines' = lines, budgets' = budgets, job'[h] = job[h], period'[h] = period[h],
             positions'[h] = positions[h], NEW pos \in positions[h]
      PROVE  Faithful(h, pos)'
  <2>1. Faithful(h, pos)
    BY <1>1 DEF PositionsOK
  <2> QED
    BY <1>3, <2>1 DEF Faithful
<1>4. CASE Send(h)
  <2>1. /\ Moves(h) /\ UNCHANGED <<plan, ledger, posted>>
        /\ pc'[h] # "idle" /\ job'[h] \in Postings /\ verdict'[h] = "none"
        /\ positions'[h] = {} /\ pc'[h] \notin {"positions", "achieved"}
    BY <1>1, <1>4, SendFacts DEF PositionsOK
  <2> QED
    BY <2>1 DEF JobOK, PositionsOK, plan
<1>5. CASE Resolve(h)
  <2>1. Moves(h) /\ UNCHANGED <<plan, ledger, posted>> /\ pc[h] = "period"
    BY <1>1, <1>5, ResolveFacts
  <2>2. \/ Finish(h, "accounting_unwired")
        \/ /\ job'[h] = job[h] /\ positions'[h] = positions[h] /\ verdict'[h] = verdict[h]
           /\ \/ pc'[h] = "post"
              \/ period'[h] \in PeriodsFor(job[h].date)
    BY <1>1, <1>5, ResolveFacts
  <2>3. CASE ~Finish(h, "accounting_unwired")
    <3>1. positions'[h] = {} /\ job'[h] = job[h] /\ verdict'[h] = verdict[h]
      BY <1>1, <2>1, <2>2, <2>3 DEF PositionsOK
    <3>2. JobOK(h)'
      BY <1>1, <2>1, <3>1 DEF JobOK
    <3>3. PositionsOK(h)'
      BY <1>1, <2>2, <2>3, <3>1 DEF PositionsOK
    <3> QED
      BY <2>1, <3>2, <3>3
  <2> QED
    BY <1>2, <2>1, <2>3
<1>6. CASE ReadPositions(h)
  <2> DEFINE accounts == {job[h].lines[i].account : i \in DOMAIN job[h].lines}
  <2>1. /\ Moves(h) /\ UNCHANGED <<plan, ledger, posted, job, period, verdict>>
        /\ pc[h] = "positions" /\ pc'[h] = "achieved"
        /\ positions'[h] = ConfirmedPositions(accounts, period[h])
    BY <1>1, <1>6, ReadPositionsFacts
  <2> HIDE DEF accounts
  <2>2. JobOK(h)'
    BY <1>1, <2>1 DEF JobOK
  <2>3. ASSUME NEW pos \in positions'[h] PROVE Faithful(h, pos)'
    <3>1. PICK l \in LineIds : /\ OnKeys(l, accounts, period[h])
                               /\ budgets[lines[l].budget].status = "confirmed"
                               /\ pos = ControlPosition(l)
      BY <2>1 DEF ConfirmedPositions
    <3>2. /\ pos.line = l /\ pos.account = lines[l].account /\ pos.cc = lines[l].cc
          /\ pos.amount = lines[l].amount
      BY <3>1 DEF ControlPosition
    <3>3. lines' = lines /\ budgets' = budgets /\ period'[h] = period[h]
      BY <2>1 DEF plan
    <3> QED
      BY <3>1, <3>2, <3>3 DEF Faithful, OnKeys
  <2>4. PositionsOK(h)'
    BY <1>1, <2>1, <2>3 DEF PositionsOK
  <2> QED
    BY <2>1, <2>2, <2>4
<1>7. CASE ReadAchieved(h)
  <2>1. Moves(h) /\ UNCHANGED <<plan, ledger, posted>> /\ pc[h] = "achieved"
    BY <1>1, <1>7, ReadAchievedFacts
  <2>2. \/ Finish(h, "budget_exceeded")
        \/ pc'[h] = "post" /\ UNCHANGED <<job, period, positions, verdict>>
    BY <1>1, <1>7, ReadAchievedFacts
  <2>3. CASE pc'[h] = "post" /\ UNCHANGED <<job, period, positions, verdict>>
    <3>1. JobOK(h)'
      BY <1>1, <2>1, <2>3 DEF JobOK
    <3>2. \A pos \in positions[h] : Faithful(h, pos)'
      BY <1>3, <2>1, <2>3 DEF plan
    <3>3. PositionsOK(h)'
      BY <1>1, <2>1, <2>3, <3>2 DEF PositionsOK
    <3> QED
      BY <2>1, <3>1, <3>3
  <2> QED
    BY <1>2, <2>1, <2>2, <2>3
<1>8. CASE Post(h)
  BY <1>1, <1>2, <1>8, PostFacts
<1>9. CASE Abandon(h)
  BY <1>1, <1>2, <1>9, AbandonFacts
<1> QED
  BY <1>4, <1>5, <1>6, <1>7, <1>8, <1>9 DEF Produces, Evaluate

(* The invariant holds at the start, *)
LEMMA ControlInit == Init => ControlInv
<1> SUFFICES ASSUME Init PROVE ControlInv
  OBVIOUS
<1>1. ControlTypeOK
  BY BudgetsAssumption DEF Init, ControlTypeOK, IsOver
<1>2. LedgerOK
  BY FS_EmptySet DEF Init, LedgerOK
<1>3. \A h \in Producers : JobOK(h) /\ PositionsOK(h)
  BY DEF Init, JobOK, PositionsOK
<1> QED
  BY <1>1, <1>2, <1>3 DEF ControlInv

(* only Post writes the ledger, *)
LEMMA OnlyPostsWrite ==
    ASSUME ControlTypeOK, NEW h \in Producers, Produces(h)
    PROVE  Post(h) \/ UNCHANGED <<ledger, posted>>
BY DEF Produces, Send, Evaluate, Resolve, ReadPositions, ReadAchieved, Abandon

(* and every step keeps the invariant. *)
LEMMA ControlNext == ControlInv /\ [Next]_vars => ControlInv'
<1> SUFFICES ASSUME ControlInv, [Next]_vars PROVE ControlInv'
  OBVIOUS
<1>0. ControlTypeOK /\ LedgerOK /\ \A h \in Producers : JobOK(h) /\ PositionsOK(h)
  BY DEF ControlInv
<1>1. ASSUME NEW h \in Producers, Produces(h) PROVE ControlInv'
  <2>1. Moves(h) /\ UNCHANGED plan /\ JobOK(h)' /\ PositionsOK(h)'
    BY <1>1, ProducerKeepsItsJob
  <2>2. lines' = lines /\ budgets' = budgets
    BY <2>1 DEF plan
  <2>3. LedgerOK'
    <3>1. CASE Post(h)
      BY <3>1, LedgerGrows
    <3>2. CASE UNCHANGED <<ledger, posted>>
      BY <1>0, <3>2 DEF LedgerOK, Oriented
    <3> QED
      BY <1>0, <1>1, <3>1, <3>2, OnlyPostsWrite
  <2>4. posted' \in Nat
    <3>1. CASE Post(h)
      BY <1>0, <3>1, PostFacts DEF ControlTypeOK
    <3> QED
      BY <1>0, <1>1, <3>1, OnlyPostsWrite DEF ControlTypeOK
  <2>5. ControlTypeOK'
    BY <1>0, <2>1, <2>2, <2>4 DEF ControlTypeOK, Moves
  <2>6. StaysPastDraft
    BY <2>2 DEF StaysPastDraft
  <2>7. \A g \in Producers : JobOK(g)' /\ PositionsOK(g)'
    BY <2>1, <2>2, <2>6, EvaluationStays DEF Moves
  <2> QED
    BY <2>3, <2>5, <2>7 DEF ControlInv
<1>2. ASSUME NEW b \in BudgetIds, Plans(b) PROVE ControlInv'
  <2>1. /\ budgets' \in [BudgetIds -> Header \cup {NoBudget}] /\ StaysPastDraft
        /\ UNCHANGED <<lines, ledger, posted, pc, job, period, positions, verdict>>
    BY <1>0, <1>2, PlansFacts
  <2>2. ControlTypeOK'
    BY <1>0, <2>1 DEF ControlTypeOK, IsOver
  <2>3. LedgerOK'
    BY <1>0, <2>1 DEF LedgerOK, Oriented
  <2>4. \A g \in Producers : Untouched(g)
    BY <2>1 DEF Untouched
  <2>5. \A g \in Producers : JobOK(g)' /\ PositionsOK(g)'
    BY <2>1, <2>4, EvaluationStays
  <2> QED
    BY <2>2, <2>3, <2>5 DEF ControlInv
<1>3. CASE UNCHANGED vars
  <2>1. UNCHANGED <<budgets, lines, ledger, posted, pc, job, period, positions, verdict>>
    BY <1>3 DEF vars
  <2>2. ControlTypeOK' /\ StaysPastDraft
    BY <1>0, <2>1 DEF ControlTypeOK, IsOver, StaysPastDraft
  <2>3. LedgerOK'
    BY <1>0, <2>1 DEF LedgerOK, Oriented
  <2>4. \A g \in Producers : Untouched(g)
    BY <2>1 DEF Untouched
  <2>5. \A g \in Producers : JobOK(g)' /\ PositionsOK(g)'
    BY <2>1, <2>2, <2>4, EvaluationStays
  <2> QED
    BY <2>2, <2>3, <2>5 DEF ControlInv
<1> QED
  BY <1>1, <1>2, <1>3 DEF Next, Produces

(* Whatever producers and planners do meanwhile, an evaluation remembers   *)
(* its positions as the plan has them and the ledger holds oriented rows   *)
(* of postings that were committed.                                        *)
THEOREM ControlInvariant == Spec => []ControlInv
BY ControlInit, ControlNext, PTL DEF Spec

(* The rows on a key are finitely many and oriented. *)
LEMMA KeyRowsFinite ==
    ASSUME LedgerOK, NEW a, NEW c, NEW p, NEW d
    PROVE  /\ IsFiniteSet(Counted(ledger, a, c, p, d))
           /\ \A r \in Counted(ledger, a, c, p, d) : Oriented(r) /\ r \in ledger
<1>1. Counted(ledger, a, c, p, d) \in SUBSET ledger
  BY DEF Counted
<1> QED
  BY <1>1, FS_Subset DEF LedgerOK

(* The ledger and the control count the same movement on a key. *)
LEMMA SpentIsAchieved ==
    ASSUME LedgerOK, NEW l, NEW d
    PROVE  Spent(ledger, l, d) = Achieved(lines[l].account, lines[l].cc, lines[l].period, d)
<1>1. /\ IsFiniteSet(KeyRows(ledger, l, d))
      /\ \A r \in KeyRows(ledger, l, d) : Oriented(r)
  BY KeyRowsFinite DEF KeyRows
<1>2. Spent(ledger, l, d) = Sum(Movement(ledger), KeyRows(ledger, l, d))
  BY <1>1, SpentIsSum
<1> QED
  BY <1>1, <1>2, AchievedIsSum DEF KeyRows

(* The movement of a position is an integer. *)
LEMMA SpentType ==
    ASSUME LedgerOK, NEW l, NEW d
    PROVE  Spent(ledger, l, d) \in Int
<1>1. /\ IsFiniteSet(KeyRows(ledger, l, d))
      /\ \A r \in KeyRows(ledger, l, d) : Oriented(r) /\ r \in ledger
  BY KeyRowsFinite DEF KeyRows
<1>2. Spent(ledger, l, d) = Sum(Movement(ledger), KeyRows(ledger, l, d))
  BY <1>1, SpentIsSum
<1>3. \A r \in KeyRows(ledger, l, d) : Movement(ledger)[r] \in Int
  BY <1>1, MovementType
<1> QED
  BY <1>1, <1>2, <1>3, SumType

(* A posting in flight is a posting. *)
LEMMA JobPosting ==
    ASSUME ControlInv, NEW h \in Producers, pc[h] # "idle"
    PROVE  job[h] \in Posting /\ job[h].date \in Int /\ job[h].date \in Dates
BY PostingsAssumption, DatesAssumption DEF ControlInv, JobOK, Posting

(* A refusal needs a breach that the evaluation found. *)
LEMMA RefusalBreaches ==
    ASSUME ControlInv, [Next]_vars, NEW h \in Producers,
           pc[h] = "achieved", verdict'[h] = "budget_exceeded"
    PROVE  \E pos \in positions[h] : Breached(h, pos)
<1>0. ControlTypeOK /\ verdict[h] = "none"
  BY DEF ControlInv, JobOK
<1>1. ASSUME NEW g \in Producers, Produces(g), g # h PROVE FALSE
  BY <1>0, <1>1, ProducerKeepsItsJob DEF Moves, Untouched
<1>2. CASE Produces(h)
  <2>1. ReadAchieved(h) \/ Abandon(h)
    BY <1>2 DEF Produces, Send, Evaluate, Resolve, ReadPositions, Post
  <2>2. ~Abandon(h)
    BY <1>0, AbandonFacts, FinishFacts
  <2>3. ~(verdict' = verdict)
    BY <1>0
  <2> QED
    BY <1>0, <2>1, <2>2, <2>3, ReadAchievedFacts
<1>3. CASE \E b \in BudgetIds : Plans(b)
  BY <1>0, <1>3, PlansFacts
<1>4. CASE UNCHANGED vars
  BY <1>0, <1>4 DEF vars
<1> QED
  BY <1>1, <1>2, <1>3, <1>4 DEF Next, Produces

(* The breach is one of the plan that is committed and of the ledger as it *)
(* is.                                                                     *)
LEMMA RefusedStep ==
    ASSUME ControlInv, [Next]_vars, NEW h \in Producers,
           pc[h] = "achieved", verdict'[h] = "budget_exceeded"
    PROVE  \E l \in LineIds :
              /\ budgets[lines[l].budget].status # "draft"
              /\ Adds(h, l) > 0
              /\ Spent(ledger, l, job[h].date) + Adds(h, l) > lines[l].amount
<1>1. PICK pos \in positions[h] : Breached(h, pos)
  BY RefusalBreaches
<1>2. LedgerOK /\ Faithful(h, pos) /\ period[h] \in PeriodsFor(job[h].date)
  BY DEF ControlInv, PositionsOK
<1>3. job[h] \in Posting /\ job[h].date \in Int
  BY JobPosting
<1> DEFINE l == pos.line
           pending == Pending(job[h], lines[l].account, lines[l].cc)
<1>4. /\ pending > 0
      /\ Achieved(lines[l].account, lines[l].cc, lines[l].period, job[h].date) + pending
            > lines[l].amount
  BY <1>1, <1>2 DEF Breached, Faithful
<1>5. lines[l].account \in DOMAIN Normal
  BY <1>3, <1>4, PendingKnown
<1>6. lines[l].period \in PeriodsFor(job[h].date)
  BY <1>2 DEF Faithful
<1>7. Adds(h, l) = pending
  BY <1>3, <1>5, <1>6, AddsIsPending
<1>8. Spent(ledger, l, job[h].date)
         = Achieved(lines[l].account, lines[l].cc, lines[l].period, job[h].date)
  BY <1>2, SpentIsAchieved
<1> HIDE DEF pending
<1>9. /\ l \in LineIds /\ budgets[lines[l].budget].status # "draft"
      /\ Adds(h, l) > 0 /\ Spent(ledger, l, job[h].date) + Adds(h, l) > lines[l].amount
  BY <1>2, <1>4, <1>7, <1>8 DEF Faithful
<1> QED
  BY <1>9

(* A posting that evaluate_posting refuses would have exceeded a position  *)
(* of a budget past its draft, on the exact key, for any number of         *)
(* producers and whatever planners commit meanwhile.                       *)
THEOREM RefusedForCauseHolds == Spec => RefusedForCause
<1>1. ControlInv /\ [Next]_vars =>
         [\A h \in Producers : pc[h] = "achieved" /\ verdict'[h] = "budget_exceeded" =>
             \E l \in LineIds :
                 /\ budgets[lines[l].budget].status # "draft"
                 /\ Adds(h, l) > 0
                 /\ Spent(ledger, l, job[h].date) + Adds(h, l) > lines[l].amount]_vars
  BY RefusedStep
<1> QED
  BY <1>1, ControlInvariant, PTL DEF Spec, RefusedForCause

(* Disjoint sets of rows add up on a position. *)
LEMMA SpentOfUnion ==
    ASSUME NEW R, NEW N, IsFiniteSet(R), IsFiniteSet(N), R \cap N = {},
           \A r \in R \cup N : Oriented(r), NEW l, NEW d
    PROVE  /\ Spent(R \cup N, l, d) = Spent(R, l, d) + Spent(N, l, d)
           /\ Spent(R, l, d) \in Int /\ Spent(N, l, d) \in Int
<1> DEFINE A == KeyRows(R, l, d)
           B == KeyRows(N, l, d)
           U == R \cup N
<1>1. A \in SUBSET R /\ B \in SUBSET N /\ KeyRows(U, l, d) = A \cup B
  BY DEF KeyRows, Counted
<1>2. IsFiniteSet(A) /\ IsFiniteSet(B) /\ IsFiniteSet(A \cup B)
  BY <1>1, FS_Subset, FS_Union
<1> HIDE DEF A, B, U
<1>3. \A r \in A \cup B : Oriented(r) /\ r \in U
  BY <1>1 DEF U
<1>4. \A r \in A \cup B : Movement(U)[r] \in Int
  BY <1>3, MovementType
<1>5. A \cap B = {}
  BY <1>1
<1>6. Sum(Movement(U), A \cup B) = Sum(Movement(U), A) + Sum(Movement(U), B)
  BY <1>2, <1>4, <1>5, SumUnion
<1>7. \A r \in A : Movement(R)[r] = Movement(U)[r]
  BY <1>1 DEF Movement, U
<1>8. \A r \in B : Movement(N)[r] = Movement(U)[r]
  BY <1>1 DEF Movement, U
<1>9. Sum(Movement(U), A) = Sum(Movement(R), A) /\ Sum(Movement(U), B) = Sum(Movement(N), B)
  BY <1>2, <1>4, <1>7, <1>8, SumEqual
<1>10. Spent(U, l, d) = Sum(Movement(U), A \cup B)
  BY <1>1, <1>2, <1>3, SpentIsSum
<1>11. Spent(R, l, d) = Sum(Movement(R), A)
  BY <1>2, <1>3, SpentIsSum DEF A
<1>12. Spent(N, l, d) = Sum(Movement(N), B)
  BY <1>2, <1>3, SpentIsSum DEF B
<1>13. Sum(Movement(U), A) \in Int /\ Sum(Movement(U), B) \in Int
  BY <1>2, <1>4, SumType
<1> QED
  BY <1>6, <1>9, <1>10, <1>11, <1>12, <1>13 DEF U

(* No row on the key, no movement. *)
LEMMA SpentOfNothing ==
    ASSUME NEW rows, NEW l, NEW d, KeyRows(rows, l, d) = {}
    PROVE  Spent(rows, l, d) = 0
<1>1. Spent(rows, l, d) = Sum(Movement(rows), KeyRows(rows, l, d))
  BY FS_EmptySet, SpentIsSum
<1> QED
  BY <1>1, SumEmpty

(* The rows of a posting move the positions of their period by what it     *)
(* adds.                                                                   *)
LEMMA SpentOfStamped ==
    ASSUME NEW j \in Posting, KnownLines(j) = DOMAIN j.lines, NEW n, NEW p, NEW l, NEW d,
           j.date <= d
    PROVE  Spent(Stamped(j, n, p), l, d) =
               IF p = lines[l].period THEN Pending(j, lines[l].account, lines[l].cc) ELSE 0
<1> DEFINE rows == Stamped(j, n, p)
           a == lines[l].account
<1>1. CASE p # lines[l].period
  <2>1. \A r \in rows : r.period = p
    BY StampedRows
  <2>2. KeyRows(rows, l, d) = {}
    BY <1>1, <2>1 DEF KeyRows, Counted
  <2> QED
    BY <1>1, <2>2, SpentOfNothing
<1>2. CASE p = lines[l].period /\ a \notin DOMAIN Normal
  <2>1. \A r \in rows : r.account \in DOMAIN Normal
    BY StampedRows DEF Oriented
  <2>2. KeyRows(rows, l, d) = {}
    BY <1>2, <2>1 DEF KeyRows, Counted
  <2>3. OnKey(j, a, lines[l].cc) = {}
    BY <1>2 DEF OnKey, KnownLines
  <2> QED
    BY <1>2, <2>2, <2>3, SpentOfNothing, PendingType
<1>3. CASE p = lines[l].period /\ a \in DOMAIN Normal
  <2> DEFINE C == Counted(rows, a, lines[l].cc, p, d)
  <2>1. KeyRows(rows, l, d) = C /\ C \subseteq rows
    BY <1>3 DEF KeyRows, Counted
  <2>2. /\ IsFiniteSet(C) /\ \A r \in C : Oriented(r)
        /\ Sum(Movement(rows), C) = Pending(j, a, lines[l].cc)
    BY <1>3, <2>1, StampedMovement
  <2> HIDE DEF C
  <2>3. Spent(rows, l, d) = Sum(Movement(rows), C)
    BY <2>1, <2>2, SpentIsSum
  <2> QED
    BY <1>3, <2>2, <2>3
<1> QED
  BY <1>1, <1>2, <1>3

(* The rows that the posting of a producer becomes. *)
Rows(h, p) == Stamped(job[h], posted + 1, p)

(* What a committed posting adds to the movement of a key. *)
LEMMA SpentAfterPost ==
    ASSUME ControlInv, NEW h \in Producers, pc[h] = "post", AllKnown(job[h]),
           NEW p, NEW l, NEW d, job[h].date <= d
    PROVE  /\ p = lines[l].period =>
                  Spent(ledger \cup Rows(h, p), l, d)
                      = Spent(ledger, l, d) + Pending(job[h], lines[l].account, lines[l].cc)
           /\ p # lines[l].period =>
                  Spent(ledger \cup Rows(h, p), l, d) = Spent(ledger, l, d)
<1> DEFINE N == Rows(h, p)
<1>1. LedgerOK /\ posted \in Nat
  BY DEF ControlInv, ControlTypeOK
<1>2. job[h] \in Posting
  BY JobPosting
<1>3. IsFiniteSet(N) /\ \A r \in N : Oriented(r) /\ r.posting = posted + 1
  BY <1>2, StampedRows DEF AllKnown, Rows
<1>4. ledger \cap N = {}
  BY <1>1, <1>3 DEF LedgerOK
<1>5. Spent(N, l, d) = IF p = lines[l].period
                       THEN Pending(job[h], lines[l].account, lines[l].cc) ELSE 0
  BY <1>2, SpentOfStamped DEF AllKnown, Rows
<1> HIDE DEF N
<1>6. /\ Spent(ledger \cup N, l, d) = Spent(ledger, l, d) + Spent(N, l, d)
      /\ Spent(ledger, l, d) \in Int
  BY <1>1, <1>3, <1>4, SpentOfUnion DEF LedgerOK
<1> QED
  BY <1>5, <1>6 DEF N

(* A posting on accounts that exist adds nothing to a key of one that does *)
(* not.                                                                    *)
LEMMA AddsNothing ==
    ASSUME NEW h, NEW l, KnownLines(job[h]) = DOMAIN job[h].lines,
           lines[l].account \notin DOMAIN Normal
    PROVE  Adds(h, l) = 0
<1>1. KeyRows(Proposed(h), l, job[h].date) = {}
  BY DEF KeyRows, Counted, Proposed, Stamped, KnownLines
<1> QED
  BY <1>1, SpentOfNothing DEF Adds

(* One producer: nothing is posted between an evaluation that passed and   *)
(* its posting.                                                            *)
OneProducer == \A g, h \in Producers : g = h

(* A posting about to commit has no breach of a block position. *)
Passed ==
    \A h \in Producers : pc[h] = "post" =>
        \A pos \in positions[h] : ~(pos.enforcement = "block" /\ Breached(h, pos))

(* A breach depends on the ledger and the posting, not on the plan. *)
LEMMA BreachedStays ==
    ASSUME NEW h, NEW pos, ledger' = ledger, job'[h] = job[h], period'[h] = period[h]
    PROVE  Breached(h, pos)' <=> Breached(h, pos)
<1>1. ASSUME NEW a, NEW c, NEW p, NEW d
      PROVE  Achieved(a, c, p, d)' = Achieved(a, c, p, d)
  BY DEF Achieved, MapThenSumSet, MapThenFoldSet
<1> QED
  BY <1>1 DEF Breached

(* With one producer the ledger waits for the posting that passed. *)
LEMMA PassedNext ==
    ASSUME OneProducer, ControlInv, Passed, [Next]_vars
    PROVE  Passed'
<1>0. ControlTypeOK /\ \A h \in Producers : PositionsOK(h)
  BY DEF ControlInv
<1>1. ASSUME NEW h \in Producers, Produces(h), pc'[h] = "post", NEW pos \in positions'[h]
      PROVE  ~(pos.enforcement = "block" /\ Breached(h, pos))'
  <2>1. positions'[h] # {}
    OBVIOUS
  <2>2. ~Send(h)
    BY <1>0, <2>1, SendFacts DEF PositionsOK
  <2>3. ~Resolve(h)
    <3>1. SUFFICES ASSUME Resolve(h) PROVE FALSE
      OBVIOUS
    <3>2. pc[h] = "period" /\ positions'[h] = positions[h]
      BY <1>0, <1>1, <3>1, ResolveFacts, FinishFacts
    <3> QED
      BY <1>0, <2>1, <3>2 DEF PositionsOK
  <2>4. ~ReadPositions(h)
    BY <1>0, <1>1, ReadPositionsFacts
  <2>5. ~Post(h) /\ ~Abandon(h)
    BY <1>0, <1>1, PostFacts, AbandonFacts, FinishFacts
  <2>6. ReadAchieved(h)
    BY <1>1, <2>2, <2>3, <2>4, <2>5 DEF Produces, Evaluate
  <2>7. /\ UNCHANGED <<plan, ledger, posted>> /\ UNCHANGED <<job, period, positions, verdict>>
        /\ \A q \in positions[h] : ~(q.enforcement = "block" /\ Breached(h, q))
    BY <1>0, <1>1, <2>6, ReadAchievedFacts, FinishFacts
  <2>8. ledger' = ledger /\ job'[h] = job[h] /\ period'[h] = period[h]
    BY <2>7
  <2>9. Breached(h, pos)' <=> Breached(h, pos)
    BY <2>8, BreachedStays
  <2> QED
    BY <2>7, <2>9
<1>2. ASSUME NEW h \in Producers, Produces(h) PROVE Passed'
  BY <1>1, <1>2 DEF OneProducer, Passed
<1>3. ASSUME UNCHANGED <<ledger, pc, job, period, positions>> PROVE Passed'
  <2> SUFFICES ASSUME NEW h \in Producers, pc'[h] = "post", NEW pos \in positions'[h]
               PROVE  ~(pos.enforcement = "block" /\ Breached(h, pos))'
    BY DEF Passed
  <2>1. ~(pos.enforcement = "block" /\ Breached(h, pos))
    BY <1>3 DEF Passed
  <2>2. Breached(h, pos)' <=> Breached(h, pos)
    BY <1>3, BreachedStays
  <2> QED
    BY <2>1, <2>2
<1>4. CASE \E b \in BudgetIds : Plans(b)
  BY <1>0, <1>3, <1>4, PlansFacts
<1>5. CASE UNCHANGED vars
  BY <1>3, <1>5 DEF vars
<1> QED
  BY <1>2, <1>4, <1>5 DEF Next, Produces

(* The step that commits a posting adds its rows to the ledger. *)
LEMMA CommitIsPost ==
    ASSUME ControlInv, [Next]_vars, NEW h \in Producers,
           pc[h] = "post", verdict'[h] = "posted"
    PROVE  /\ AllKnown(job[h])
           /\ \E p \in IF LedgerPeriods(job[h].date) = {} THEN {"none"}
                       ELSE LedgerPeriods(job[h].date) :
                 ledger' = ledger \cup Rows(h, p)
<1>0. ControlTypeOK /\ verdict[h] = "none"
  BY DEF ControlInv, JobOK
<1>1. ASSUME NEW g \in Producers, Produces(g), g # h PROVE FALSE
  BY <1>0, <1>1, ProducerKeepsItsJob DEF Moves, Untouched
<1>2. CASE Produces(h)
  <2>1. Post(h) \/ Abandon(h)
    BY <1>2 DEF Produces, Send, Evaluate, Resolve, ReadPositions, ReadAchieved
  <2>2. ~Abandon(h)
    BY <1>0, AbandonFacts, FinishFacts
  <2>3. ~Finish(h, "rejected")
    BY <1>0, FinishFacts
  <2> QED
    BY <1>0, <2>1, <2>2, <2>3, PostFacts DEF AllKnown, Rows
<1>3. CASE \E b \in BudgetIds : Plans(b)
  BY <1>0, <1>3, PlansFacts
<1>4. CASE UNCHANGED vars
  BY <1>0, <1>4 DEF vars
<1> QED
  BY <1>1, <1>2, <1>3, <1>4 DEF Next, Produces

(* A posting that passed and commits leaves the position within its plan. *)
LEMMA CommitStep ==
    ASSUME ControlInv, Passed, [Next]_vars, NEW h \in Producers,
           pc[h] = "post", verdict'[h] = "posted",
           NEW pos \in positions[h], pos.enforcement = "block", Adds(h, pos.line) > 0
    PROVE  Spent(ledger', pos.line, job[h].date) <= lines[pos.line].amount
<1> DEFINE l == pos.line
           d == job[h].date
           pending == Pending(job[h], lines[l].account, lines[l].cc)
<1>1. PICK p : ledger' = ledger \cup Rows(h, p)
  BY CommitIsPost
<1>2. AllKnown(job[h])
  BY CommitIsPost
<1>3. LedgerOK /\ Faithful(h, pos) /\ period[h] \in PeriodsFor(d) /\ lines = InitialLines
  BY DEF ControlInv, PositionsOK, ControlTypeOK
<1>4. job[h] \in Posting /\ d \in Int
  BY JobPosting
<1>5. lines[l].account \in DOMAIN Normal
  BY <1>2, AddsNothing DEF AllKnown
<1>6. Adds(h, l) = pending
  BY <1>3, <1>4, <1>5, AddsIsPending DEF Faithful
<1>7. Spent(ledger, l, d) = Achieved(lines[l].account, lines[l].cc, lines[l].period, d)
  BY <1>3, SpentIsAchieved
<1>8. lines[l].amount \in Int
  BY <1>3, LinesAssumption DEF Faithful, LineRow, NoLine
<1>9. pending \in Int /\ Spent(ledger, l, d) \in Int
  BY <1>3, <1>4, PendingType, SpentType
<1>10. Spent(ledger, l, d) + pending <= lines[l].amount
  <2>1. ~Breached(h, pos)
    BY DEF Passed
  <2>2. pending > 0 => ~(Spent(ledger, l, d) + pending > lines[l].amount)
    BY <1>3, <1>7, <2>1 DEF Breached, Faithful
  <2> HIDE DEF pending
  <2> QED
    BY <1>6, <1>8, <1>9, <2>2
<1>11. \/ Spent(ledger', l, d) = Spent(ledger, l, d) + pending
       \/ Spent(ledger', l, d) = Spent(ledger, l, d)
  <2>1. d <= d
    BY <1>4
  <2> QED
    BY <1>1, <1>2, <2>1, SpentAfterPost
<1>12. Spent(ledger', l, d) <= lines[l].amount
  <2> HIDE DEF pending, l, d
  <2> QED
    BY <1>6, <1>8, <1>9, <1>10, <1>11 DEF l
<1> QED
  BY <1>12

(* When postings are evaluated one at a time, a posting that commits       *)
(* leaves every block position that it adds to within its plan, whatever   *)
(* planners commit between the statements of its evaluation.               *)
THEOREM CommitsWithinPlanHolds ==
    ASSUME OneProducer
    PROVE  Spec => CommitsWithinPlan
<1>1. Init => Passed
  BY DEF Init, Passed
<1>2. ControlInv /\ Passed /\ [Next]_vars => Passed'
  BY PassedNext
<1>3. ControlInv /\ Passed /\ [Next]_vars =>
         [\A h \in Producers : pc[h] = "post" /\ verdict'[h] = "posted" =>
             \A pos \in positions[h] :
                 pos.enforcement = "block" /\ Adds(h, pos.line) > 0 =>
                     Spent(ledger', pos.line, job[h].date) <= lines[pos.line].amount]_vars
  BY CommitStep
<1> QED
  BY <1>1, <1>2, <1>3, ControlInvariant, PTL DEF Spec, CommitsWithinPlan

(* Racing producers, all of whose postings are of one day that one         *)
(* smallest period covers; planners confirm, close and cancel only.        *)
Racing(day) ==
    /\ IsFiniteSet(Producers) /\ Producers # {} /\ IsFiniteSet(Postings)
    /\ \A j \in Postings : j.date = day
    /\ \A p, q \in PeriodsFor(day) : p = q
    /\ "posture" \notin PlannerEdits
    /\ \A l \in LineIds : InitialLines[l].state = "live" => InitialLines[l].amount >= 0

(* The header of a budget that refuses. *)
BlockHeader == [status |-> "confirmed", enforcement |-> "block"]

(* A budget that starts under a block stays under it, and past its draft. *)
Posture ==
    \A b \in BudgetIds : InitialBudgets[b] = BlockHeader =>
        /\ budgets[b] \in Header
        /\ budgets[b].enforcement = "block" /\ budgets[b].status # "draft"

(* A position under a block from the start is among those read. *)
ControlledRead(h) ==
    pc[h] = "achieved" => \A l \in LineIds :
        /\ Controlled(l) /\ lines[l].period = period[h]
        /\ \E i \in DOMAIN job[h].lines : job[h].lines[i].account = lines[l].account
        => ControlPosition(l) \in positions[h]

(* What a posting that passed its evaluation may still add to a position. *)
PendingOn(h, l) == Pending(job[h], lines[l].account, lines[l].cc)

(* It is what it adds, once the evaluation has passed and if it is         *)
(* positive.                                                               *)
Charge(h, l) == IF pc[h] = "post" /\ PendingOn(h, l) > 0 THEN PendingOn(h, l) ELSE 0

Charges(l) == [h \in Producers |-> Charge(h, l)]

(* What the other producers together may overshoot by. *)
Slack(l) == (Cardinality(Producers) - 1) * Largest(l)

(* The charges of the postings that passed count as if they were           *)
(* committed.                                                              *)
Bounded(day) ==
    \A l \in LineIds : Controlled(l) /\ lines[l].period \in PeriodsFor(day) =>
        Spent(ledger, l, day) + Sum(Charges(l), Producers) <= lines[l].amount + Slack(l)

(* The inductive invariant of the bound. *)
OvershootInv(day) ==
    Posture /\ (\A h \in Producers : ControlledRead(h)) /\ Bounded(day)

(* No posting adds more to a position than the largest does. *)
LEMMA LargestBounds ==
    ASSUME IsFiniteSet(Postings), NEW l
    PROVE  /\ Largest(l) \in Int /\ 0 <= Largest(l)
           /\ \A j \in Postings : Pending(j, lines[l].account, lines[l].cc) <= Largest(l)
<1> DEFINE g == [j \in Postings |-> Pending(j, lines[l].account, lines[l].cc)]
           Image == {g[j] : j \in Postings}
           S == {0} \cup Image
<1>1. \A j \in Postings : g[j] = Pending(j, lines[l].account, lines[l].cc)
  OBVIOUS
<1>2. Largest(l) = Max(S)
  <2>1. Image = {Pending(j, lines[l].account, lines[l].cc) : j \in Postings}
    BY <1>1
  <2> QED
    BY <2>1 DEF Largest
<1>3. \A j \in Postings : g[j] \in Int
  BY <1>1, PostingsAssumption, PendingType
<1> HIDE DEF g
<1>4. IsFiniteSet(S) /\ S \subseteq Int /\ S # {}
  <2>1. IsFiniteSet(Image)
    BY ImageIsFinite
  <2>2. Image \subseteq Int
    BY <1>3
  <2> HIDE DEF Image
  <2>3. IsFiniteSet({0}) /\ IsFiniteSet({0} \cup Image)
    BY <2>1, FS_Singleton, FS_Union
  <2> QED
    BY <2>2, <2>3
<1>5. Max(S) \in S /\ \A x \in S : x <= Max(S)
  <2> HIDE DEF S
  <2> QED
    BY <1>4, MaximumExists
<1>6. \A j \in Postings : g[j] \in S
  OBVIOUS
<1>7. 0 \in S
  OBVIOUS
<1> HIDE DEF S
<1>8. Max(S) \in Int /\ 0 <= Max(S) /\ \A j \in Postings : g[j] <= Max(S)
  BY <1>4, <1>5, <1>6, <1>7
<1> QED
  BY <1>1, <1>2, <1>8

(* Nor is a charge larger. *)
LEMMA ChargeBounds ==
    ASSUME ControlInv, IsFiniteSet(Postings), NEW h \in Producers, NEW l
    PROVE  /\ Charge(h, l) \in Int /\ 0 <= Charge(h, l) /\ Charge(h, l) <= Largest(l)
           /\ pc[h] # "idle" => PendingOn(h, l) \in Int
<1>1. Largest(l) \in Int /\ 0 <= Largest(l)
  BY LargestBounds
<1>2. ASSUME pc[h] # "idle" PROVE PendingOn(h, l) \in Int /\ PendingOn(h, l) <= Largest(l)
  <2>1. job[h] \in Posting /\ job[h] \in Postings
    BY <1>2, JobPosting DEF ControlInv, JobOK
  <2> QED
    BY <2>1, PendingType, LargestBounds DEF PendingOn
<1> QED
  BY <1>1, <1>2 DEF Charge

(* The charges of the others, and what they may reach. *)
LEMMA OtherCharges ==
    ASSUME ControlInv, IsFiniteSet(Postings), IsFiniteSet(Producers), NEW h \in Producers, NEW l
    PROVE  /\ Sum(Charges(l), Producers) = Charge(h, l) + Sum(Charges(l), Producers \ {h})
           /\ Sum(Charges(l), Producers \ {h}) \in Int
           /\ Sum(Charges(l), Producers \ {h}) <= Slack(l)
           /\ Slack(l) \in Int
<1> DEFINE f == Charges(l)
           Others == Producers \ {h}
<1>1. \A g \in Producers : f[g] = Charge(g, l)
  BY DEF Charges
<1>2. Largest(l) \in Int
  BY LargestBounds
<1>3. \A g \in Producers : f[g] \in Int /\ f[g] <= Largest(l)
  BY <1>1, ChargeBounds
<1> HIDE DEF f
<1>4. Sum(f, Producers) = f[h] + Sum(f, Others)
  BY <1>3, SumRemove
<1>5. Sum(f, Others) \in Int
  BY <1>3, SumType
<1>6. IsFiniteSet(Others) /\ Cardinality(Others) = Cardinality(Producers) - 1
  BY FS_RemoveElement
<1>7. Sum(f, Others) <= Cardinality(Others) * Largest(l)
  <2>1. \A g \in Others : f[g] \in Int /\ f[g] <= Largest(l)
    BY <1>3
  <2> HIDE DEF Others
  <2> QED
    BY <1>2, <1>6, <2>1, SumBound
<1>8. Slack(l) \in Int
  BY <1>2, FS_CardinalityType DEF Slack
<1> QED
  BY <1>1, <1>4, <1>5, <1>6, <1>7, <1>8 DEF f, Slack

(* A live line has a budget and an amount. *)
LEMMA LinesOfBudgets ==
    ASSUME ControlTypeOK, NEW l \in LineIds, lines[l].state = "live"
    PROVE  lines[l].budget \in BudgetIds /\ lines[l].amount \in Int
BY LinesAssumption DEF ControlTypeOK, LineRow, NoLine

(* Without changes of posture a budget comes under a block only at the     *)
(* start.                                                                  *)
LEMMA PostureStays ==
    ASSUME ControlInv, Posture, "posture" \notin PlannerEdits, [Next]_vars
    PROVE  /\ Posture'
           /\ \A b \in BudgetIds :
                 InitialBudgets[b] = BlockHeader /\ budgets'[b] = BlockHeader =>
                     budgets[b] = BlockHeader
<1>0. ControlTypeOK
  BY DEF ControlInv
<1>1. CASE budgets' = budgets
  BY <1>1 DEF Posture
<1>2. ASSUME NEW b \in BudgetIds, Plans(b)
      PROVE  /\ Posture'
             /\ \A c \in BudgetIds :
                   InitialBudgets[c] = BlockHeader /\ budgets'[c] = BlockHeader =>
                       budgets[c] = BlockHeader
  <2>1. PICK verb \in {"confirm", "close", "cancel"} :
           /\ budgets[b].status \in AllowedFrom(verb)
           /\ budgets' = [budgets EXCEPT ![b].status = Target(verb)]
    BY <1>2, EditsAssumption DEF Plans
  <2>2. budgets[b] \in Header
    BY <1>0, <2>1 DEF ControlTypeOK, AllowedFrom, NoBudget
  <2>3. /\ \A c \in BudgetIds \ {b} : budgets'[c] = budgets[c]
        /\ budgets'[b] = [budgets[b] EXCEPT !.status = Target(verb)]
    BY <1>0, <2>1 DEF ControlTypeOK
  <2>4. /\ Target(verb) \in {"confirmed", "closed", "cancelled"}
        /\ Target(verb) = "confirmed" => budgets[b].status = "draft"
    BY <2>1 DEF Target, AllowedFrom
  <2>5. budgets'[b] \in Header /\ budgets'[b].enforcement = budgets[b].enforcement
        /\ budgets'[b].status = Target(verb)
    BY <2>2, <2>3, <2>4 DEF Header, Statuses
  <2>6. ASSUME InitialBudgets[b] = BlockHeader PROVE budgets'[b] # BlockHeader
    BY <2>4, <2>5, <2>6 DEF Posture, BlockHeader
  <2>7. Posture'
    <3> SUFFICES ASSUME NEW c \in BudgetIds, InitialBudgets[c] = BlockHeader
                 PROVE  /\ budgets'[c] \in Header
                        /\ budgets'[c].enforcement = "block" /\ budgets'[c].status # "draft"
      BY DEF Posture
    <3>1. /\ budgets[c] \in Header
          /\ budgets[c].enforcement = "block" /\ budgets[c].status # "draft"
      BY DEF Posture
    <3>2. CASE c = b
      BY <2>4, <2>5, <3>1, <3>2
    <3>3. CASE c # b
      BY <2>3, <3>1, <3>3
    <3> QED
      BY <3>2, <3>3
  <2> QED
    BY <2>3, <2>6, <2>7
<1>3. ASSUME NEW h \in Producers, Produces(h) PROVE budgets' = budgets
  BY <1>3, ProducerKeepsItsJob DEF plan
<1>4. CASE UNCHANGED vars
  BY <1>1, <1>4 DEF vars
<1> QED
  BY <1>1, <1>2, <1>3, <1>4 DEF Next, Produces

(* A position that is controlled after a step was controlled before it. *)
LEMMA ControlledBefore ==
    ASSUME ControlInv, ControlInv', Posture, "posture" \notin PlannerEdits, [Next]_vars,
           NEW l \in LineIds, Controlled(l)'
    PROVE  /\ Controlled(l) /\ lines' = lines
           /\ ControlPosition(l)' = ControlPosition(l)
<1>1. ControlTypeOK /\ lines = InitialLines /\ lines' = InitialLines
  BY DEF ControlInv, ControlTypeOK
<1>2. /\ lines[l].state = "live" /\ InitialBudgets[lines[l].budget] = BlockHeader
      /\ budgets'[lines[l].budget] = BlockHeader
  BY <1>1 DEF Controlled, BlockHeader
<1>3. lines[l].budget \in BudgetIds
  BY <1>1, <1>2, LinesOfBudgets
<1>4. budgets[lines[l].budget] = BlockHeader
  BY <1>2, <1>3, PostureStays
<1> QED
  BY <1>1, <1>2, <1>4 DEF Controlled, ControlPosition, BlockHeader

(* ReadPositions reads the controlled positions of its accounts. *)
LEMMA ControlledReadNext ==
    ASSUME ControlInv, ControlInv', Posture, "posture" \notin PlannerEdits, [Next]_vars,
           NEW h \in Producers, ControlledRead(h)
    PROVE  ControlledRead(h)'
<1>0. ControlTypeOK
  BY DEF ControlInv
<1>1. SUFFICES ASSUME pc'[h] = "achieved", NEW l \in LineIds, Controlled(l)',
                      lines'[l].period = period'[h],
                      \E i \in DOMAIN job'[h].lines : job'[h].lines[i].account = lines'[l].account
               PROVE  ControlPosition(l)' \in positions'[h]
  BY DEF ControlledRead
<1>2. /\ Controlled(l) /\ lines' = lines
      /\ ControlPosition(l)' = ControlPosition(l)
  BY <1>1, ControlledBefore
<1>3. CASE Untouched(h)
  BY <1>1, <1>2, <1>3 DEF Untouched, ControlledRead
<1>4. CASE Produces(h)
  <2>1. ReadPositions(h)
    <3>1. ~Send(h)
      BY <1>0, <1>1, SendFacts
    <3>2. ~Resolve(h)
      BY <1>0, <1>1, ResolveFacts, FinishFacts
    <3>3. ~ReadAchieved(h)
      BY <1>0, <1>1, ReadAchievedFacts, FinishFacts
    <3>4. ~Post(h) /\ ~Abandon(h)
      BY <1>0, <1>1, PostFacts, AbandonFacts, FinishFacts
    <3> QED
      BY <1>4, <3>1, <3>2, <3>3, <3>4 DEF Produces, Evaluate
  <2> DEFINE accounts == {job[h].lines[i].account : i \in DOMAIN job[h].lines}
  <2>2. /\ UNCHANGED <<plan, ledger, posted, job, period, verdict>>
        /\ positions'[h] = ConfirmedPositions(accounts, period[h])
    BY <1>0, <2>1, ReadPositionsFacts
  <2>3. lines[l].account \in accounts /\ lines[l].period = period[h]
    BY <1>1, <1>2, <2>2
  <2>4. lines[l].state = "live" /\ budgets[lines[l].budget].status = "confirmed"
    BY <1>2 DEF Controlled
  <2> HIDE DEF accounts
  <2>5. ControlPosition(l) \in ConfirmedPositions(accounts, period[h])
    BY <2>3, <2>4 DEF ConfirmedPositions, OnKeys
  <2> QED
    BY <1>2, <2>2, <2>5
<1>5. ASSUME NEW g \in Producers, Produces(g), g # h PROVE Untouched(h)
  BY <1>5, ProducerKeepsItsJob DEF Moves
<1>6. ASSUME NEW b \in BudgetIds, Plans(b) PROVE Untouched(h)
  BY <1>0, <1>6, PlansFacts DEF Untouched
<1>7. CASE UNCHANGED vars
  BY <1>3, <1>7 DEF vars, Untouched
<1> QED
  BY <1>3, <1>4, <1>5, <1>6, <1>7 DEF Next, Produces

(* The lines of the plan do not change. *)
LEMMA SpentStays ==
    ASSUME lines' = lines, NEW l, NEW d
    PROVE  Spent(ledger, l, d)' = Spent(ledger', l, d)
BY DEF Spent, Covers, Key, MapThenSumSet, MapThenFoldSet

(* A step of a producer leaves the charges of the others. *)
LEMMA ChargesStay ==
    ASSUME ControlInv, ControlInv', IsFiniteSet(Postings), IsFiniteSet(Producers),
           lines' = lines, NEW h \in Producers, NEW l,
           \A g \in Producers \ {h} : Untouched(g)
    PROVE  /\ Charge(h, l)' \in Int
           /\ Sum(Charges(l), Producers)'
                 = Charge(h, l)' + Sum(Charges(l), Producers \ {h})
<1> DEFINE f == [g \in Producers |-> Charge(g, l)']
           Others == Producers \ {h}
<1>1. Sum(Charges(l), Producers)' = Sum(f, Producers)
  BY DEF Charges, Sum, MapThenSumSet, MapThenFoldSet
<1>2. \A g \in Producers : f[g] = Charge(g, l)'
  OBVIOUS
<1>3. ASSUME NEW g \in Producers \ {h} PROVE Charge(g, l)' = Charge(g, l)
  BY <1>3 DEF Untouched, Charge, PendingOn
<1>4. Charge(h, l)' \in Int
  <2>1. CASE pc'[h] = "post"
    <3>1. job'[h] \in Posting
      BY <2>1, PostingsAssumption DEF ControlInv, JobOK
    <3>2. Pending(job'[h], lines'[l].account, lines'[l].cc) \in Int
      BY <3>1, PendingType
    <3> QED
      BY <3>2 DEF Charge, PendingOn
  <2>2. CASE pc'[h] # "post"
    BY <2>2 DEF Charge
  <2> QED
    BY <2>1, <2>2
<1>5. \A g \in Others : f[g] = Charges(l)[g] /\ f[g] \in Int
  BY <1>2, <1>3, ChargeBounds DEF Charges
<1>6. \A g \in Producers : f[g] \in Int
  BY <1>2, <1>4, <1>5
<1>7. Sum(f, Producers) = f[h] + Sum(f, Others)
  <2> HIDE DEF f
  <2> QED
    BY <1>6, SumRemove
<1>8. Sum(f, Others) = Sum(Charges(l), Others)
  <2>1. IsFiniteSet(Others)
    BY FS_RemoveElement
  <2> HIDE DEF f, Others
  <2> QED
    BY <1>5, <2>1, SumEqual
<1> QED
  BY <1>1, <1>2, <1>4, <1>7, <1>8

(* A step of a producer adds to the movement of a position at most what    *)
(* it takes from the producer's charge, or starts from within the plan.    *)
LEMMA ProducerStep ==
    ASSUME ControlInv, NEW day \in Dates, Racing(day), NEW h \in Producers, Produces(h),
           ControlledRead(h), NEW l \in LineIds, Controlled(l), lines' = lines,
           lines[l].period \in PeriodsFor(day), Charge(h, l)' \in Int
    PROVE  \/ Spent(ledger', l, day) + Charge(h, l)' <= Spent(ledger, l, day) + Charge(h, l)
           \/ Spent(ledger', l, day) + Charge(h, l)' <= lines[l].amount
<1>0. ControlTypeOK /\ LedgerOK /\ JobOK(h) /\ PositionsOK(h) /\ IsFiniteSet(Postings)
  BY DEF ControlInv, Racing
<1>1. Charge(h, l) \in Int /\ 0 <= Charge(h, l) /\ Spent(ledger, l, day) \in Int
  BY <1>0, ChargeBounds, SpentType
<1>2. ASSUME ledger' = ledger, Charge(h, l)' = 0
      PROVE  Spent(ledger', l, day) + Charge(h, l)' <= Spent(ledger, l, day) + Charge(h, l)
  BY <1>1, <1>2
<1>3. ASSUME pc'[h] # "post" PROVE Charge(h, l)' = 0
  BY <1>3 DEF Charge
<1>4. ASSUME NEW j \in Posting, KnownLines(j) = {} \/ j.lines = <<>>
      PROVE  Pending(j, lines[l].account, lines[l].cc) = 0
  <2>1. OnKey(j, lines[l].account, lines[l].cc) = {}
    BY <1>4 DEF OnKey, KnownLines
  <2> QED
    BY <2>1, PendingType
<1>5. CASE Send(h)
  <2>1. /\ UNCHANGED <<plan, ledger, posted>> /\ job'[h] \in Posting
        /\ pc'[h] = "post" => job'[h].lines = <<>>
    BY <1>0, <1>5, SendFacts, PostingsAssumption
  <2>2. CASE pc'[h] = "post"
    <3>1. Pending(job'[h], lines[l].account, lines[l].cc) = 0
      BY <1>4, <2>1, <2>2
    <3>2. Charge(h, l)' = 0
      BY <3>1 DEF Charge, PendingOn
    <3> QED
      BY <1>2, <2>1, <3>2
  <2> QED
    BY <1>2, <1>3, <2>1, <2>2
<1>6. CASE Resolve(h)
  <2>1. UNCHANGED <<plan, ledger, posted>> /\ pc[h] = "period"
    BY <1>0, <1>6, ResolveFacts
  <2>2. job[h] \in Posting /\ job[h].date = day
    BY <1>0, <2>1, JobPosting DEF JobOK, Racing
  <2>3. pc'[h] = "post" => job'[h] = job[h] /\ KnownLines(job[h]) = {}
    BY <1>0, <1>6, <2>2, ResolveFacts, FinishFacts
  <2>4. CASE pc'[h] = "post"
    <3>1. Pending(job'[h], lines[l].account, lines[l].cc) = 0
      BY <1>4, <2>2, <2>3, <2>4
    <3>2. Charge(h, l)' = 0
      BY <3>1 DEF Charge, PendingOn
    <3> QED
      BY <1>2, <2>1, <3>2
  <2> QED
    BY <1>2, <1>3, <2>1, <2>4
<1>7. CASE ReadPositions(h)
  BY <1>0, <1>2, <1>3, <1>7, ReadPositionsFacts
<1>8. CASE ReadAchieved(h)
  <2>1. UNCHANGED <<plan, ledger, posted>> /\ pc[h] = "achieved"
    BY <1>0, <1>8, ReadAchievedFacts
  <2>2. \/ pc'[h] = "idle"
        \/ /\ pc'[h] = "post" /\ UNCHANGED <<job, period, positions, verdict>>
           /\ \A pos \in positions[h] : ~(pos.enforcement = "block" /\ Breached(h, pos))
    BY <1>0, <1>8, ReadAchievedFacts, FinishFacts
  <2> DEFINE pending == Pending(job[h], lines[l].account, lines[l].cc)
  <2>3. CASE pc'[h] = "post" /\ pending > 0
    <3>1. job[h] \in Posting /\ job[h].date = day /\ pending \in Int
      BY <1>0, <2>1, JobPosting, PendingType DEF JobOK, Racing
    <3>2. period[h] = lines[l].period
      <4>1. period[h] \in PeriodsFor(day)
        BY <1>0, <2>1, <3>1 DEF PositionsOK
      <4> QED
        BY <4>1 DEF Racing
    <3>3. \E i \in DOMAIN job[h].lines : job[h].lines[i].account = lines[l].account
      BY <2>3, <3>1, PendingKnown
    <3>4. ControlPosition(l) \in positions[h]
      BY <2>1, <3>2, <3>3 DEF ControlledRead
    <3>5. ControlPosition(l).enforcement = "block"
      BY DEF ControlPosition, Controlled
    <3>6. ~Breached(h, ControlPosition(l))
      BY <2>2, <2>3, <3>4, <3>5
    <3>7. /\ ControlPosition(l).account = lines[l].account
          /\ ControlPosition(l).cc = lines[l].cc
          /\ ControlPosition(l).amount = lines[l].amount
      BY DEF ControlPosition
    <3>8. Spent(ledger, l, day) = Achieved(lines[l].account, lines[l].cc, lines[l].period, day)
      BY <1>0, SpentIsAchieved
    <3>9. ~(Spent(ledger, l, day) + pending > lines[l].amount)
      BY <2>3, <3>1, <3>2, <3>6, <3>7, <3>8 DEF Breached
    <3>10. Charge(h, l)' = pending
      BY <2>2, <2>3 DEF Charge, PendingOn
    <3>11. lines[l].amount \in Int /\ ledger' = ledger
      BY <1>0, <2>1, LinesOfBudgets DEF Controlled
    <3> HIDE DEF pending
    <3> QED
      BY <1>1, <3>1, <3>9, <3>10, <3>11
  <2>4. CASE pc'[h] = "post" /\ ~(pending > 0)
    <3>1. Charge(h, l)' = 0
      BY <2>2, <2>4 DEF Charge, PendingOn
    <3> QED
      BY <1>2, <2>1, <3>1
  <2> QED
    BY <1>2, <1>3, <2>1, <2>2, <2>3, <2>4
<1>9. CASE Post(h)
  <2>1. pc[h] = "post" /\ pc'[h] = "idle" /\ Charge(h, l)' = 0
    BY <1>0, <1>3, <1>9, PostFacts, FinishFacts
  <2>2. job[h] \in Posting /\ job[h].date = day /\ day \in Int
    BY <1>0, <2>1, JobPosting DEF JobOK, Racing
  <2>3. CASE ledger' = ledger
    BY <1>2, <2>1, <2>3
  <2>4. CASE ledger' # ledger
    <3>1. PICK p \in PeriodsFor(day) : ledger' = ledger \cup Rows(h, p)
      BY <1>0, <1>9, <2>2, <2>4, PostFacts, PeriodsAgree DEF Rows
    <3>2. AllKnown(job[h])
      BY <1>0, <1>9, <2>4, PostFacts DEF AllKnown
    <3>3. p = lines[l].period
      BY DEF Racing
    <3>4. job[h].date <= day
      BY <2>2
    <3>5. Spent(ledger \cup Rows(h, p), l, day) = Spent(ledger, l, day) + PendingOn(h, l)
      BY <2>1, <3>2, <3>3, <3>4, SpentAfterPost DEF PendingOn
    <3>6. PendingOn(h, l) \in Int /\ PendingOn(h, l) <= Charge(h, l)
      <4>1. PendingOn(h, l) \in Int
        BY <1>0, <2>1, ChargeBounds
      <4> QED
        BY <2>1, <4>1 DEF Charge
    <3>7. Spent(ledger', l, day) = Spent(ledger, l, day) + PendingOn(h, l)
      BY <3>1, <3>5
    <3> QED
      BY <1>1, <2>1, <3>6, <3>7
  <2> QED
    BY <2>3, <2>4
<1>10. CASE Abandon(h)
  BY <1>0, <1>2, <1>3, <1>10, AbandonFacts, FinishFacts
<1> QED
  BY <1>5, <1>6, <1>7, <1>8, <1>9, <1>10 DEF Produces, Evaluate

(* Every step keeps the bound: one that raises the movement spends its     *)
(* charge, one that charges has just compared the movement with the plan.  *)
LEMMA BoundedNext ==
    ASSUME ControlInv, ControlInv', NEW day \in Dates, Racing(day), OvershootInv(day),
           [Next]_vars
    PROVE  Bounded(day)'
<1>0. /\ ControlTypeOK /\ LedgerOK /\ IsFiniteSet(Postings) /\ IsFiniteSet(Producers)
      /\ Posture /\ "posture" \notin PlannerEdits
  BY DEF ControlInv, Racing, OvershootInv
<1> SUFFICES ASSUME NEW l \in LineIds, Controlled(l)', lines'[l].period \in PeriodsFor(day)
             PROVE  (Spent(ledger, l, day) + Sum(Charges(l), Producers)
                        <= lines[l].amount + Slack(l))'
  BY DEF Bounded
<1>1. Controlled(l) /\ lines' = lines
  BY <1>0, ControlledBefore
<1>2. Spent(ledger, l, day) + Sum(Charges(l), Producers) <= lines[l].amount + Slack(l)
  BY <1>1 DEF OvershootInv, Bounded
<1>3. Spent(ledger, l, day)' = Spent(ledger', l, day)
  BY <1>1, SpentStays
<1>4. Slack(l)' = Slack(l)
  BY <1>1 DEF Slack, Largest
<1>5. lines[l].amount \in Int
  BY <1>0, <1>1, LinesOfBudgets DEF Controlled
<1>6. ASSUME NEW h \in Producers, Produces(h)
      PROVE  (Spent(ledger, l, day) + Sum(Charges(l), Producers) <= lines[l].amount + Slack(l))'
  <2> DEFINE Others == Sum(Charges(l), Producers \ {h})
  <2>1. Moves(h)
    BY <1>6, ProducerKeepsItsJob
  <2>2. /\ Charge(h, l)' \in Int
        /\ Sum(Charges(l), Producers)' = Charge(h, l)' + Others
    BY <1>0, <1>1, <2>1, ChargesStay DEF Moves
  <2>3. /\ Sum(Charges(l), Producers) = Charge(h, l) + Others
        /\ Others \in Int /\ Others <= Slack(l) /\ Slack(l) \in Int
    BY <1>0, OtherCharges
  <2>4. Charge(h, l) \in Int /\ Spent(ledger, l, day) \in Int
    BY <1>0, ChargeBounds, SpentType
  <2>5. \/ Spent(ledger', l, day) + Charge(h, l)' <= Spent(ledger, l, day) + Charge(h, l)
        \/ Spent(ledger', l, day) + Charge(h, l)' <= lines[l].amount
    BY <1>1, <1>6, <2>2, ProducerStep DEF OvershootInv
  <2>6. Spent(ledger', l, day) \in Int
    <3>1. IsFiniteSet(ledger') /\ \A r \in ledger' : Oriented(r)
      BY DEF ControlInv, LedgerOK, Oriented
    <3>2. IsFiniteSet({}) /\ ledger' \cap {} = {} /\ \A r \in ledger' \cup {} : Oriented(r)
      BY <3>1, FS_EmptySet
    <3> QED
      BY <3>1, <3>2, SpentOfUnion
  <2>7. Spent(ledger', l, day) + (Charge(h, l)' + Others) <= lines[l].amount + Slack(l)
    <3> HIDE DEF Others
    <3> QED
      BY <1>2, <1>5, <2>2, <2>3, <2>4, <2>5, <2>6
  <2> QED
    BY <1>1, <1>3, <1>4, <2>2, <2>7
<1>7. ASSUME UNCHANGED <<ledger, pc, job>>
      PROVE  (Spent(ledger, l, day) + Sum(Charges(l), Producers) <= lines[l].amount + Slack(l))'
  <2>1. \A g \in Producers : Charge(g, l)' = Charge(g, l)
    BY <1>1, <1>7 DEF Charge, PendingOn
  <2>2. Charges(l)' = Charges(l)
    BY <2>1 DEF Charges
  <2>3. Sum(Charges(l), Producers)' = Sum(Charges(l)', Producers)
    BY DEF Sum, MapThenSumSet, MapThenFoldSet
  <2> QED
    BY <1>1, <1>2, <1>3, <1>4, <1>7, <2>2, <2>3
<1>8. CASE \E b \in BudgetIds : Plans(b)
  BY <1>0, <1>7, <1>8, PlansFacts
<1>9. CASE UNCHANGED vars
  BY <1>7, <1>9 DEF vars
<1> QED
  BY <1>6, <1>8, <1>9 DEF Next, Produces

(* A controlled position plans at least nothing. *)
LEMMA AmountBounds ==
    ASSUME ControlTypeOK, NEW day, Racing(day), NEW l \in LineIds, Controlled(l)
    PROVE  lines[l].amount \in Int /\ lines[l].amount >= 0 /\ lines[l].period \in Periods
<1>1. lines[l].state = "live" /\ lines = InitialLines
  BY DEF Controlled, ControlTypeOK
<1>2. lines[l].amount >= 0
  BY <1>1 DEF Racing
<1>3. lines[l] \in LineRow
  BY <1>1, LinesAssumption DEF NoLine
<1> QED
  BY <1>2, <1>3 DEF LineRow

(* The overshoot is at least nothing. *)
LEMMA SlackBounds ==
    ASSUME NEW day, Racing(day), NEW l
    PROVE  Slack(l) \in Int /\ 0 <= Slack(l)
<1>1. Cardinality(Producers) \in Nat /\ Cardinality(Producers) # 0
  BY FS_CardinalityType, FS_EmptySet DEF Racing
<1>2. Largest(l) \in Int /\ 0 <= Largest(l)
  BY LargestBounds DEF Racing
<1> DEFINE n == Cardinality(Producers) - 1
           m == Largest(l)
<1>3. n \in Nat /\ m \in Nat
  BY <1>1, <1>2
<1> HIDE DEF n, m
<1>4. n * m \in Nat
  BY <1>3
<1> QED
  BY <1>4 DEF n, m, Slack

(* Nothing is spent and nobody is charged at the start. *)
LEMMA OvershootStart ==
    ASSUME Init, NEW day \in Dates, Racing(day)
    PROVE  OvershootInv(day)
<1>1. Posture
  BY DEF Init, Posture, BlockHeader, Header, Statuses, Enforcements
<1>2. \A h \in Producers : ControlledRead(h)
  BY DEF Init, ControlledRead
<1>3. ControlInv /\ ControlTypeOK /\ LedgerOK
  BY ControlInit DEF ControlInv
<1>4. ASSUME NEW l \in LineIds, Controlled(l)
      PROVE  Spent(ledger, l, day) + Sum(Charges(l), Producers) <= lines[l].amount + Slack(l)
  <2>1. Spent(ledger, l, day) = 0
    <3>1. KeyRows(ledger, l, day) = {}
      BY DEF Init, KeyRows, Counted
    <3> QED
      BY <3>1, SpentOfNothing
  <2>2. PICK h \in Producers : TRUE
    BY DEF Racing
  <2>3. /\ Sum(Charges(l), Producers) = Charge(h, l) + Sum(Charges(l), Producers \ {h})
        /\ Sum(Charges(l), Producers \ {h}) \in Int
        /\ Sum(Charges(l), Producers \ {h}) <= Slack(l) /\ Slack(l) \in Int
    BY <1>3, OtherCharges DEF Racing
  <2>4. Charge(h, l) = 0
    BY DEF Init, Charge
  <2>5. lines[l].amount \in Int /\ lines[l].amount >= 0
    BY <1>3, <1>4, AmountBounds
  <2> QED
    BY <2>1, <2>3, <2>4, <2>5
<1> QED
  BY <1>1, <1>2, <1>4 DEF OvershootInv, Bounded

(* The rows of the ledger are those of the day. *)
LedgerOf(day) ==
    \A r \in ledger : r.date = day /\ r.period \in PeriodsFor(day) \cup {"none"}

(* Every posting is one of the day. *)
LEMMA LedgerOfNext ==
    ASSUME ControlInv, NEW day \in Dates, Racing(day), LedgerOf(day), [Next]_vars
    PROVE  LedgerOf(day)'
<1>0. ControlTypeOK /\ \A h \in Producers : JobOK(h)
  BY DEF ControlInv
<1>1. CASE ledger' = ledger
  BY <1>1 DEF LedgerOf
<1>2. ASSUME NEW h \in Producers, Post(h), ledger' # ledger PROVE LedgerOf(day)'
  <2>1. job[h] \in Posting /\ job[h].date = day /\ KnownLines(job[h]) = DOMAIN job[h].lines
    BY <1>0, <1>2, PostFacts, JobPosting DEF JobOK, Racing
  <2>2. PICK p \in PeriodsFor(day) \cup {"none"} :
           ledger' = ledger \cup Stamped(job[h], posted + 1, p)
    <3>1. LedgerPeriods(day) = PeriodsFor(day)
      BY DatesAssumption, PeriodsAgree
    <3> QED
      BY <1>0, <1>2, <2>1, <3>1, PostFacts
  <2>3. \A r \in Stamped(job[h], posted + 1, p) : r.date = day /\ r.period = p
    BY <2>1, StampedRows
  <2> QED
    BY <2>2, <2>3 DEF LedgerOf
<1>3. ASSUME NEW h \in Producers, Produces(h) PROVE LedgerOf(day)'
  BY <1>0, <1>1, <1>2, <1>3, OnlyPostsWrite
<1>4. CASE \E b \in BudgetIds : Plans(b)
  BY <1>0, <1>1, <1>4, PlansFacts
<1>5. CASE UNCHANGED vars
  BY <1>1, <1>5 DEF vars
<1> QED
  BY <1>3, <1>4, <1>5 DEF Next, Produces

(* The bound through the day of the postings is the bound through any. *)
LEMMA BoundedEveryDay ==
    ASSUME ControlInv, NEW day \in Dates, Racing(day), OvershootInv(day), LedgerOf(day)
    PROVE  OvershootBounded
<1> SUFFICES ASSUME NEW l \in LineIds, NEW d \in Dates, Controlled(l)
             PROVE  Spent(ledger, l, d) <= lines[l].amount + Slack(l)
  BY DEF OvershootBounded, Slack
<1>0. ControlTypeOK /\ LedgerOK
  BY DEF ControlInv
<1>1. /\ lines[l].amount \in Int /\ lines[l].amount >= 0 /\ lines[l].period \in Periods
      /\ Slack(l) \in Int /\ 0 <= Slack(l)
  BY <1>0, AmountBounds, SlackBounds
<1>2. d \in Int /\ day \in Int
  BY DatesAssumption
<1>3. CASE KeyRows(ledger, l, d) = {}
  BY <1>1, <1>3, SpentOfNothing
<1>4. CASE KeyRows(ledger, l, d) # {}
  <2>1. PICK r \in KeyRows(ledger, l, d) : TRUE
    BY <1>4
  <2>2. r \in ledger /\ r.period = lines[l].period /\ r.date <= d
    BY DEF KeyRows, Counted
  <2>3. lines[l].period \in PeriodsFor(day) /\ day <= d
    BY <1>1, <2>2, NoPeriodAssumption DEF LedgerOf
  <2>4. KeyRows(ledger, l, d) = KeyRows(ledger, l, day)
    BY <1>2, <2>3 DEF KeyRows, Counted, LedgerOf
  <2>5. /\ IsFiniteSet(KeyRows(ledger, l, d))
        /\ \A x \in KeyRows(ledger, l, d) : Oriented(x)
    BY <1>0, KeyRowsFinite DEF KeyRows
  <2>6. Spent(ledger, l, d) = Spent(ledger, l, day)
    <3>1. Spent(ledger, l, d) = Sum(Movement(ledger), KeyRows(ledger, l, d))
      BY <2>5, SpentIsSum
    <3>2. Spent(ledger, l, day) = Sum(Movement(ledger), KeyRows(ledger, l, day))
      BY <2>4, <2>5, SpentIsSum
    <3> QED
      BY <2>4, <3>1, <3>2
  <2>7. Spent(ledger, l, day) + Sum(Charges(l), Producers) <= lines[l].amount + Slack(l)
    BY <2>3 DEF OvershootInv, Bounded
  <2>8. Sum(Charges(l), Producers) \in Int /\ 0 <= Sum(Charges(l), Producers)
    <3>1. \A h \in Producers : Charges(l)[h] \in Int /\ 0 <= Charges(l)[h]
      BY ChargeBounds DEF Charges, Racing
    <3> QED
      BY <3>1, SumType, SumNonNegative DEF Racing
  <2>9. Spent(ledger, l, day) \in Int
    BY <1>0, SpentType
  <2> QED
    BY <1>1, <2>6, <2>7, <2>8, <2>9
<1> QED
  BY <1>3, <1>4

(* Every step keeps the parts of the invariant. *)
LEMMA OvershootNext ==
    ASSUME ControlInv, ControlInv', NEW day \in Dates, Racing(day), OvershootInv(day),
           [Next]_vars
    PROVE  OvershootInv(day)'
<1>1. Posture /\ "posture" \notin PlannerEdits /\ \A h \in Producers : ControlledRead(h)
  BY DEF OvershootInv, Racing
<1>2. Posture'
  BY <1>1, PostureStays
<1>3. \A h \in Producers : ControlledRead(h)'
  BY <1>1, ControlledReadNext
<1>4. Bounded(day)'
  BY BoundedNext
<1> QED
  BY <1>2, <1>3, <1>4 DEF OvershootInv

(* Any number of producers that race on one day exceed a position under a  *)
(* block from the start by at most one posting for each OTHER producer,    *)
(* however often they post.                                                *)
THEOREM OvershootBoundedHolds ==
    ASSUME NEW day \in Dates, Racing(day)
    PROVE  Spec => []OvershootBounded
<1>1. Init => OvershootInv(day) /\ LedgerOf(day)
  BY OvershootStart DEF Init, LedgerOf
<1>2. ControlInv /\ ControlInv' /\ OvershootInv(day) /\ [Next]_vars => OvershootInv(day)'
  BY OvershootNext
<1>3. ControlInv /\ LedgerOf(day) /\ [Next]_vars => LedgerOf(day)'
  BY LedgerOfNext
<1>4. ControlInv /\ OvershootInv(day) /\ LedgerOf(day) => OvershootBounded
  BY BoundedEveryDay
<1> QED
  BY <1>1, <1>2, <1>3, <1>4, ControlInvariant, PTL DEF Spec
=============================================================================
