------------------------- MODULE BudgetSystemProofs -------------------------
(***************************************************************************)
(* What producers and readers may rely on when one planner serves its      *)
(* requests one at a time, for any number of producers and readers.  An    *)
(* evaluation or a read is several statements, and a verb may commit       *)
(* between any two of them; the proofs rest on the fact that a budget past *)
(* its draft stays past it and keeps its lines.                            *)
(***************************************************************************)
EXTENDS BudgetSystemProps, BudgetSerialProofs, BudgetPostingsProofs

PastDraft(b) == budgets[b].status \in {"confirmed", "closed", "cancelled"}

(* No verb leads back to a draft. *)
LEMMA PastDraftStays ==
    ASSUME IInv, [Next]_vars, NEW b \in BudgetIds, PastDraft(b)
    PROVE  PastDraft(b)'
<1>1. CASE UNCHANGED budgets
  BY <1>1 DEF PastDraft
<1>2. ASSUME NEW h \in Handlers, EditLine(h) PROVE UNCHANGED budgets
  BY <1>2 DEF EditLine, Refuse, db
<1>3. ASSUME NEW h \in Handlers, CommitInsert(h) PROVE PastDraft(b)'
  <2>1. arg[h].budget \in BudgetIds /\ (arg[h].verb = "create" => ~Exists(arg[h].budget))
    BY <1>3, RequestLemma DEF CommitInsert, IInv, TypeOK, Serves, Verbs, Anchored
  <2>2. \/ UNCHANGED budgets
        \/ arg[h].verb = "create" /\ budgets' = [budgets EXCEPT ![arg[h].budget] = hdr[h]]
    BY <1>3 DEF CommitInsert, Refuse, db
  <2>3. arg[h].verb = "create" => b # arg[h].budget
    BY <2>1 DEF PastDraft, Exists
  <2> QED  BY <1>1, <2>1, <2>2, <2>3 DEF IInv, TypeOK, PastDraft
<1>4. ASSUME NEW h \in Handlers, UpdateEnforcement(h) PROVE PastDraft(b)'
  <2>1. arg[h].budget \in BudgetIds /\ Exists(arg[h].budget)
    BY <1>4, RequestLemma DEF UpdateEnforcement, IInv, TypeOK, Anchored, Serves, Verbs
  <2>2. budgets[arg[h].budget] \in BudgetRow
    BY <2>1 DEF IInv, TypeOK, Exists, NoBudget
  <2> QED  BY <1>4, <2>1, <2>2 DEF UpdateEnforcement, IInv, TypeOK, BudgetRow, PastDraft
<1>5. ASSUME NEW h \in Handlers, UpdateHeader(h) PROVE PastDraft(b)'
  <2>1. arg[h].budget \in BudgetIds
    BY <1>5, RequestLemma DEF UpdateHeader, IInv, TypeOK, Serves, Verbs
  <2>2. \/ UNCHANGED budgets
        \/ Row(h).status = "draft" /\ budgets' = [budgets EXCEPT ![arg[h].budget] = Patched(h)]
    BY <1>5 DEF UpdateHeader, Refuse, db
  <2> QED  BY <1>1, <2>1, <2>2 DEF Row, IInv, TypeOK, PastDraft
<1>6. ASSUME NEW h \in Handlers, CompareAndSet(h) PROVE PastDraft(b)'
  <2>1. arg[h].budget \in BudgetIds /\ Exists(arg[h].budget)
    BY <1>6, RequestLemma DEF CompareAndSet, IInv, TypeOK, Anchored, Serves, Verbs
  <2>2. budgets[arg[h].budget] \in BudgetRow
    BY <2>1 DEF IInv, TypeOK, Exists, NoBudget
  <2>3. \/ UNCHANGED budgets
        \/ budgets' = [budgets EXCEPT ![arg[h].budget].status = Target(arg[h].verb)]
    BY <1>6 DEF CompareAndSet, Refuse, db
  <2>4. Target(arg[h].verb) \in {"confirmed", "closed", "cancelled"}
    BY DEF Target
  <2> QED  BY <1>1, <2>1, <2>2, <2>3, <2>4 DEF IInv, TypeOK, BudgetRow, PastDraft
<1> QED  BY <1>1, <1>2, <1>3, <1>4, <1>5, <1>6, OnlyCommitsWrite

(* A budget past its draft keeps its lines. *)
LEMMA PlanStays ==
    ASSUME OneHandler, IInv, SerialInv, [Next]_vars, NEW b \in BudgetIds, PastDraft(b)
    PROVE  /\ \A l \in LineIds : IsLive(l) /\ lines[l].budget = b => lines'[l] = lines[l]
           /\ LiveLines(b)' = LiveLines(b)
           /\ Query!BudgetLines(b)' = Query!BudgetLines(b)
<1>1. \A l \in LineIds : ~Touches(l, b)
  BY WritesFindDraft DEF PastDraft, Exists
<1>2. ASSUME NEW l \in LineIds, IsLive(l), lines[l].budget = b PROVE lines'[l] = lines[l]
  BY <1>1, <1>2 DEF Touches, IsLive, NoLine
<1>3. ASSUME NEW l \in LineIds, IsLive(l)', lines'[l].budget = b PROVE lines'[l] = lines[l]
  BY <1>1, <1>3 DEF Touches, IsLive, NoLine
<1>4. \A l \in LineIds : l \in LiveLines(b)' <=> l \in LiveLines(b)
  BY <1>2, <1>3 DEF LiveLines, IsLive
<1>5. LiveLines(b)' = LiveLines(b)
  BY <1>4 DEF LiveLines
<1>6. \A l \in LiveLines(b) : lines'[l] = lines[l]
  BY <1>2 DEF LiveLines
<1>7. Query!BudgetLines(b) = {[line |-> l, row |-> lines[l]] : l \in LiveLines(b)}
  BY DEF Query!BudgetLines, Query!LinesOf, LiveLines, IsLive
<1>8. Query!BudgetLines(b)' = {[line |-> l, row |-> lines'[l]] : l \in LiveLines(b)'}
  BY DEF Query!BudgetLines, Query!LinesOf, LiveLines, IsLive
<1>9. Query!BudgetLines(b)' = Query!BudgetLines(b)
  BY <1>5, <1>6, <1>7, <1>8
<1> QED  BY <1>2, <1>5, <1>9

(***************************************************************************)
(* The inductive invariant.                                                *)
(***************************************************************************)
IsOver(f, S) == f = [x \in S |-> f[x]]

(* What an evaluation remembers is a line of a budget past its draft, as   *)
(* it is.                                                                  *)
Remembered(pos) ==
    /\ pos.line \in LineIds /\ IsLive(pos.line)
    /\ lines[pos.line].budget \in BudgetIds /\ PastDraft(lines[pos.line].budget)
    /\ lines[pos.line].amount = pos.amount
    /\ lines[pos.line].account = pos.account /\ lines[pos.line].cc = pos.cc

Evaluations ==
    /\ IsOver(positions, Producers)
    /\ \A h \in Producers : \A pos \in positions[h] : Remembered(pos)

(* A read that found a budget past its draft has the lines that it has.    *)
Shows(read, state, row, rows, response) ==
    /\ state \in {"header", "lines", "movement"} => read \in Query!ReadQuery /\ read.read # "coverage"
    /\ state # "idle" => response.code = "none"
    /\ state \in {"lines", "movement"} \/ response.code = "ok" =>
          /\ read.budget \in BudgetIds
          /\ row.status # "draft" => PastDraft(read.budget)
    /\ state = "movement" => /\ read.read # "detail"
                             /\ row.status # "draft" => rows = Query!BudgetLines(read.budget)

Answers ==
    /\ IsOver(rpc, Readers) /\ IsOver(query, Readers) /\ IsOver(header, Readers)
    /\ IsOver(found, Readers) /\ IsOver(answer, Readers)
    /\ \A r \in Readers : Shows(query[r], rpc[r], header[r], found[r], answer[r])
    /\ ShownPlanIsCurrent

SystemInv == IInv /\ SerialInv /\ Evaluations /\ Answers

LEMMA PlannerKeeps ==
    ASSUME OneHandler, SystemInv, [Next]_vars, UNCHANGED <<controlVars, readVars>>
    PROVE  SystemInv'
<1>1. IInv' /\ SerialInv'
  BY NextIInv, NextSerial DEF SystemInv
<1>2. UNCHANGED <<positions, rpc, query, header, found, answer>>
  BY DEF controlVars, readVars
<1>3. Evaluations'
  <2>1. ASSUME NEW h \in Producers, NEW pos \in positions[h] PROVE Remembered(pos)'
    <3>1. Remembered(pos)
      BY DEF SystemInv, Evaluations
    <3>2. lines'[pos.line] = lines[pos.line] /\ PastDraft(lines[pos.line].budget)'
      BY <3>1, PlanStays, PastDraftStays DEF SystemInv, Remembered
    <3> QED  BY <3>1, <3>2 DEF Remembered, IsLive, PastDraft
  <2> QED  BY <1>2, <2>1 DEF SystemInv, Evaluations
<1>4. ASSUME NEW r \in Readers PROVE Shows(query[r], rpc[r], header[r], found[r], answer[r])'
  <2>1. Shows(query[r], rpc[r], header[r], found[r], answer[r])
    BY DEF SystemInv, Answers
  <2>2. ASSUME NEW b \in BudgetIds, PastDraft(b)
        PROVE  PastDraft(b)' /\ Query!BudgetLines(b)' = Query!BudgetLines(b)
    BY <2>2, PastDraftStays, PlanStays DEF SystemInv
  <2>3. query'[r] = query[r] /\ rpc'[r] = rpc[r] /\ header'[r] = header[r]
        /\ found'[r] = found[r] /\ answer'[r] = answer[r]
    BY <1>2
  <2> QED  BY <2>1, <2>2, <2>3 DEF Shows, PastDraft
<1>5. ShownPlanIsCurrent'
  <2>1. SUFFICES ASSUME NEW r \in Readers, answer[r].code = "ok", header[r].status # "draft"
                 PROVE  Planned(r)' =
                          {<<l, lines'[l].amount>> : l \in LiveLines(query[r].budget)'}
    BY <1>2 DEF ShownPlanIsCurrent
  <2>2. query[r].budget \in BudgetIds /\ PastDraft(query[r].budget)
    BY <2>1 DEF SystemInv, Answers, Shows
  <2>3. /\ LiveLines(query[r].budget)' = LiveLines(query[r].budget)
        /\ \A l \in LiveLines(query[r].budget) : lines'[l] = lines[l]
    <3>1. PICK b \in BudgetIds : b = query[r].budget
      BY <2>2
    <3>2. PastDraft(b)
      BY <2>2, <3>1
    <3>3. LiveLines(b)' = LiveLines(b) /\ \A l \in LiveLines(b) : lines'[l] = lines[l]
      BY <3>2, PlanStays DEF SystemInv, LiveLines, IsLive
    <3> QED  BY <1>2, <3>1, <3>3 DEF LiveLines, IsLive
  <2>4. Planned(r) = {<<l, lines[l].amount>> : l \in LiveLines(query[r].budget)}
    BY <2>1 DEF SystemInv, Answers, ShownPlanIsCurrent
  <2>5. Planned(r)' = Planned(r)
    BY <1>2 DEF Planned
  <2> QED  BY <2>3, <2>4, <2>5
<1> QED  BY <1>1, <1>2, <1>3, <1>4, <1>5 DEF SystemInv, Answers

(* Producers and readers leave the plan and the planner alone. *)
LEMMA PlanUntouched ==
    ASSUME OneHandler, SystemInv, UNCHANGED vars
    PROVE  IInv' /\ SerialInv'
BY NextIInv, NextSerial DEF SystemInv

(* Only the statement that reads the positions adds to what an evaluation  *)
(* remembers, and it reads positions of confirmed budgets.                 *)
LEMMA ProducerEvaluations ==
    ASSUME SystemInv, NEW h \in Producers, Producer(h)
    PROVE  UNCHANGED <<budgets, lines>> /\ Evaluations'
<1>1. UNCHANGED <<budgets, lines>>
  BY DEF Producer, Control!Send, Control!Evaluate, Control!Resolve, Control!ReadPositions,
         Control!ReadAchieved, Control!Post, Control!Abandon, Control!plan
<1>2. CASE UNCHANGED positions \/ positions' = [positions EXCEPT ![h] = {}]
  BY <1>1, <1>2 DEF SystemInv, Evaluations, Remembered, IsLive, PastDraft, IsOver
<1>3. CASE Control!ReadPositions(h)
  <2> DEFINE accounts == {job[h].lines[i].account : i \in DOMAIN job[h].lines}
             new == Control!ConfirmedPositions(accounts, period[h])
  <2>1. positions' = [positions EXCEPT ![h] = new]
    BY <1>3 DEF Control!ReadPositions
  <2>2. ASSUME NEW pos \in new PROVE Remembered(pos)
    <3>1. PICK l \in LineIds :
             /\ Control!OnKeys(l, accounts, period[h])
             /\ budgets[lines[l].budget].status = "confirmed"
             /\ pos = Control!ControlPosition(l)
      BY DEF Control!ConfirmedPositions
    <3>2. IsLive(l) /\ lines[l] \in LineRow
      BY <3>1 DEF Control!OnKeys, IsLive, SystemInv, IInv, TypeOK, NoLine
    <3> QED  BY <3>1, <3>2 DEF Control!ControlPosition, Remembered, PastDraft, LineRow
  <2> HIDE DEF new
  <2> QED  BY <1>1, <2>1, <2>2 DEF SystemInv, Evaluations, Remembered, IsLive, PastDraft, IsOver
<1>4. Control!ReadPositions(h) \/ UNCHANGED positions \/ positions' = [positions EXCEPT ![h] = {}]
  BY DEF Producer, Control!Send, Control!Evaluate, Control!Resolve, Control!ReadAchieved,
         Control!Post, Control!Abandon, Control!Finish
<1> QED  BY <1>1, <1>2, <1>3, <1>4

LEMMA ProducerKeeps ==
    ASSUME OneHandler, SystemInv, NEW h \in Producers, Producer(h)
    PROVE  SystemInv'
<1>1. UNCHANGED <<budgets, lines>> /\ Evaluations'
  BY ProducerEvaluations
<1>2. UNCHANGED vars /\ UNCHANGED readVars
  BY <1>1 DEF Producer, vars, local
<1>3. Answers'
  BY <1>1, <1>2 DEF SystemInv, Answers, Shows, ShownPlanIsCurrent, Planned, PastDraft,
                    LiveLines, IsLive, Query!BudgetLines, Query!LinesOf, readVars
<1> QED  BY <1>1, <1>2, <1>3, PlanUntouched DEF SystemInv

(***************************************************************************)
(* The reads.                                                              *)
(***************************************************************************)
(* A read that answers with success or goes on to its next statement keeps *)
(* what the others show.                                                   *)
LEMMA ReaderMove ==
    ASSUME SystemInv, UNCHANGED <<budgets, lines>>, NEW r \in Readers,
           NEW s, rpc' = [rpc EXCEPT ![r] = s],
           NEW q, query' = [query EXCEPT ![r] = q],
           NEW row, header' = [header EXCEPT ![r] = row],
           NEW rows, found' = [found EXCEPT ![r] = rows],
           NEW response, answer' = [answer EXCEPT ![r] = response],
           Shows(q, s, row, rows, response),
           response.code = "ok" /\ row.status # "draft" =>
               Planned(r)' = {<<l, lines[l].amount>> : l \in LiveLines(q.budget)}
    PROVE  Answers'
<1>1. IsOver(query', Readers) /\ query'[r] = q /\ \A g \in Readers \ {r} : query'[g] = query[g]
  BY DEF SystemInv, Answers, IsOver
<1>5. IsOver(header', Readers) /\ header'[r] = row
      /\ \A g \in Readers \ {r} : header'[g] = header[g]
  BY DEF SystemInv, Answers, IsOver
<1>6. IsOver(answer', Readers) /\ answer'[r] = response
      /\ \A g \in Readers \ {r} : answer'[g] = answer[g]
  BY DEF SystemInv, Answers, IsOver
<1>7. /\ IsOver(rpc', Readers) /\ rpc'[r] = s /\ IsOver(found', Readers) /\ found'[r] = rows
      /\ \A g \in Readers \ {r} : rpc'[g] = rpc[g] /\ found'[g] = found[g]
  BY DEF SystemInv, Answers, IsOver
<1>2. ASSUME NEW g \in Readers PROVE Shows(query[g], rpc[g], header[g], found[g], answer[g])'
  <2>2. CASE g = r
    <3>1. query'[g] = q /\ rpc'[g] = s /\ header'[g] = row /\ found'[g] = rows /\ answer'[g] = response
      BY <1>1, <1>5, <1>6, <1>7, <2>2
    <3> QED  BY <3>1 DEF Shows, PastDraft, Query!BudgetLines, Query!LinesOf
  <2>3. CASE g # r
    <3>1. UNCHANGED <<query[g], rpc[g], header[g], found[g], answer[g]>>
      BY <1>1, <1>5, <1>6, <1>7, <2>3
    <3>2. Shows(query[g], rpc[g], header[g], found[g], answer[g])
      BY DEF SystemInv, Answers
    <3> QED  BY <3>1, <3>2 DEF Shows, PastDraft, Query!BudgetLines, Query!LinesOf
  <2> QED  BY <2>2, <2>3
<1>3. ShownPlanIsCurrent'
  <2>1. SUFFICES ASSUME NEW g \in Readers, answer'[g].code = "ok", header'[g].status # "draft"
                 PROVE  Planned(g)' = {<<l, lines[l].amount>> : l \in LiveLines(query'[g].budget)}
    BY DEF ShownPlanIsCurrent, LiveLines, IsLive
  <2>2. CASE g = r
    <3>1. query'[r] = q /\ header'[r] = row /\ answer'[r] = response
      BY <1>1, <1>5, <1>6
    <3>2. Planned(r)' = {<<l, lines[l].amount>> : l \in LiveLines(q.budget)}
      BY <2>1, <2>2, <3>1
    <3> QED  BY <2>2, <3>1, <3>2
  <2>3. CASE g # r
    <3>1. UNCHANGED <<query[g], header[g], answer[g]>>
      BY <1>1, <1>5, <1>6, <1>7, <2>3
    <3>2. Planned(g)' = Planned(g)
      BY <3>1 DEF Planned
    <3>3. Planned(g) = {<<l, lines[l].amount>> : l \in LiveLines(query[g].budget)}
      BY <2>1, <3>1 DEF SystemInv, Answers, ShownPlanIsCurrent
    <3> QED  BY <3>1, <3>2, <3>3
  <2> QED  BY <2>2, <2>3
<1> QED  BY <1>1, <1>2, <1>3, <1>5, <1>6, <1>7 DEF Answers, IsOver

LEMMA AskAnswers ==
    ASSUME SystemInv, NEW r \in Readers, Query!Ask(r)
    PROVE  Answers'
<1>1. PICK q \in Queries :
         /\ query' = [query EXCEPT ![r] = q]
         /\ rpc' = [rpc EXCEPT ![r] = IF q.read = "coverage" THEN "key" ELSE "header"]
  BY DEF Query!Ask
<1> DEFINE s == IF q.read = "coverage" THEN "key" ELSE "header"
<1>2. /\ UNCHANGED <<budgets, lines>>
      /\ header' = [header EXCEPT ![r] = NoBudget] /\ found' = [found EXCEPT ![r] = {}]
      /\ answer' = [answer EXCEPT ![r] = Query!NoAnswer] /\ Query!NoAnswer.code = "none"
  BY DEF Query!Ask, Query!stored, Query!NoAnswer, Query!NoBudget, NoBudget
<1>3. q \in Query!ReadQuery
  BY QueriesAssumption
<1>4. Shows(q, s, NoBudget, {}, Query!NoAnswer)
  BY <1>2, <1>3 DEF Shows
<1> HIDE DEF s
<1> QED  BY <1>1, <1>2, <1>4, ReaderMove DEF s

(* An answer that is not a success shows nothing. *)
LEMMA FailAnswers ==
    ASSUME SystemInv, UNCHANGED <<budgets, lines, query, header, found>>,
           NEW r \in Readers, NEW code, code # "ok", NEW body, Query!Respond(r, code, body)
    PROVE  Answers'
<1> DEFINE response == [code |-> code, body |-> body]
<1>1. /\ rpc' = [rpc EXCEPT ![r] = "idle"] /\ answer' = [answer EXCEPT ![r] = response]
      /\ query' = [query EXCEPT ![r] = query[r]] /\ header' = [header EXCEPT ![r] = header[r]]
      /\ found' = [found EXCEPT ![r] = found[r]]
  BY DEF Query!Respond, SystemInv, Answers, IsOver
<1>2. Shows(query[r], "idle", header[r], found[r], response) /\ response.code # "ok"
  BY DEF Shows
<1> HIDE DEF response
<1> QED  BY <1>1, <1>2, ReaderMove

LEMMA ReadHeaderAnswers ==
    ASSUME SystemInv, NEW r \in Readers, Query!ReadHeader(r)
    PROVE  Answers'
<1> DEFINE row == budgets[query[r].budget]
<1>1. UNCHANGED <<budgets, lines, query>> /\ rpc[r] = "header"
  BY DEF Query!ReadHeader, Query!stored
<1>2. CASE \E code \in {"accounting_unwired", "budget_not_found", "internal_error"} :
              Query!Fail(r, code)
  BY <1>1, <1>2, FailAnswers DEF Query!Fail
<1>3. CASE /\ row # NoBudget /\ header' = [header EXCEPT ![r] = row]
           /\ rpc' = [rpc EXCEPT ![r] = "lines"] /\ UNCHANGED <<found, answer>>
  <2>1. Shows(query[r], "header", header[r], found[r], answer[r])
    BY <1>1 DEF SystemInv, Answers
  <2>2. query[r] \in Query!ReadQuery /\ query[r].read # "coverage" /\ query[r].budget \in BudgetIds
    BY <2>1 DEF Shows, Query!ReadQuery, Query!DetailQuery, Query!AchievementQuery,
                Query!CoverageQuery
  <2>3. row \in BudgetRow
    BY <1>3, <2>2 DEF SystemInv, IInv, TypeOK
  <2>4. row.status # "draft" => PastDraft(query[r].budget)
    BY <2>3 DEF PastDraft, BudgetRow, Statuses
  <2>5. Shows(query[r], "lines", row, found[r], answer[r]) /\ answer[r].code # "ok"
    BY <2>1, <2>2, <2>4 DEF Shows
  <2>6. /\ query' = [query EXCEPT ![r] = query[r]] /\ found' = [found EXCEPT ![r] = found[r]]
        /\ answer' = [answer EXCEPT ![r] = answer[r]]
    BY <1>1, <1>3 DEF SystemInv, Answers, IsOver
  <2>7. /\ UNCHANGED <<budgets, lines>>
        /\ header' = [header EXCEPT ![r] = row] /\ rpc' = [rpc EXCEPT ![r] = "lines"]
    BY <1>1, <1>3
  <2> HIDE DEF row
  <2> QED  BY <2>5, <2>6, <2>7, ReaderMove
<1> QED  BY <1>2, <1>3 DEF Query!ReadHeader, Query!NoBudget, NoBudget

(* The planned amount of a row of the report is the line's. *)
LEMMA ReportPlans ==
    ASSUME NEW rows, NEW through
    PROVE  {<<x.line, x.planned>> : x \in Query!AchievementBody(rows, through)}
             = {<<x.line, x.row.amount>> : x \in rows}
<1> DEFINE moved == Query!AchievedPerPeriod(rows, through)
           absorbed(x) == IF Query!Key(x.row) \in DOMAIN moved THEN moved[Query!Key(x.row)] ELSE 0
           body == Query!AchievementBody(rows, through)
<1>1. body = {Query!AchievementRow(x, absorbed(x)) : x \in rows}
  BY DEF Query!AchievementBody
<1> HIDE DEF moved, absorbed, body
<1>2. ASSUME NEW x, NEW n
      PROVE  /\ Query!AchievementRow(x, n).line = x.line
             /\ Query!AchievementRow(x, n).planned = x.row.amount
  BY DEF Query!AchievementRow
<1>3. ASSUME NEW y \in body
      PROVE  \E x \in rows : y.line = x.line /\ y.planned = x.row.amount
  BY <1>1, <1>2
<1>4. ASSUME NEW x \in rows
      PROVE  \E y \in body : y.line = x.line /\ y.planned = x.row.amount
  BY <1>1, <1>2
<1> QED  BY <1>3, <1>4 DEF body

LEMMA FoundPlans ==
    ASSUME NEW S, NEW rows, rows = {[line |-> l, row |-> lines[l]] : l \in S}
    PROVE  {<<x.line, x.row.amount>> : x \in rows} = {<<l, lines[l].amount>> : l \in S}
<1>1. ASSUME NEW x \in rows PROVE \E l \in S : x.line = l /\ x.row.amount = lines[l].amount
  OBVIOUS
<1>2. ASSUME NEW l \in S PROVE \E x \in rows : x.line = l /\ x.row.amount = lines[l].amount
  <2>1. [line |-> l, row |-> lines[l]] \in rows
    OBVIOUS
  <2> QED  BY <2>1
<1> QED  BY <1>1, <1>2

LEMMA ReadLinesAnswers ==
    ASSUME SystemInv, NEW r \in Readers, Query!ReadLines(r)
    PROVE  Answers'
<1> DEFINE b == query[r].budget
           rows == Query!BudgetLines(b)
           response == [code |-> "ok", body |-> rows]
<1>1. /\ UNCHANGED <<budgets, lines, query, header>> /\ rpc[r] = "lines"
      /\ found' = [found EXCEPT ![r] = rows]
  BY DEF Query!ReadLines, Query!stored
<1>2. Shows(query[r], "lines", header[r], found[r], answer[r])
  BY <1>1 DEF SystemInv, Answers
<1>3. /\ query' = [query EXCEPT ![r] = query[r]] /\ header' = [header EXCEPT ![r] = header[r]]
      /\ IsOver(answer, Readers)
  BY <1>1 DEF SystemInv, Answers, IsOver
<1>4. CASE query[r].read = "detail" /\ Query!Respond(r, "ok", rows)
  <2>1. rpc' = [rpc EXCEPT ![r] = "idle"] /\ answer' = [answer EXCEPT ![r] = response]
    BY <1>4 DEF Query!Respond
  <2>2. Shows(query[r], "idle", header[r], rows, response)
    BY <1>2 DEF Shows
  <2>3. Planned(r)' = {<<l, lines[l].amount>> : l \in LiveLines(b)}
    <3>1. rows = {[line |-> l, row |-> lines[l]] : l \in LiveLines(b)}
      BY DEF Query!BudgetLines, Query!LinesOf, LiveLines, IsLive
    <3>2. Planned(r)' = {<<x.line, x.row.amount>> : x \in rows}
      <4>1. query'[r].read = "detail" /\ answer'[r].body = rows
        BY <1>1, <1>3, <1>4, <2>1 DEF IsOver
      <4> HIDE DEF rows
      <4> QED  BY <4>1 DEF Planned
    <3> HIDE DEF rows
    <3> QED  BY <3>1, <3>2, FoundPlans
  <2>4. UNCHANGED <<budgets, lines>> /\ found' = [found EXCEPT ![r] = rows]
    BY <1>1
  <2> HIDE DEF rows, response
  <2> QED  BY <1>3, <2>1, <2>2, <2>3, <2>4, ReaderMove
<1>5. CASE /\ query[r].read # "detail" /\ rpc' = [rpc EXCEPT ![r] = "movement"]
           /\ UNCHANGED answer
  <2>1. answer' = [answer EXCEPT ![r] = answer[r]]
    BY <1>3, <1>5 DEF SystemInv, Answers, IsOver
  <2>2. Shows(query[r], "movement", header[r], rows, answer[r]) /\ answer[r].code # "ok"
    BY <1>2, <1>5 DEF Shows
  <2>3. UNCHANGED <<budgets, lines>> /\ found' = [found EXCEPT ![r] = rows]
    BY <1>1
  <2>4. rpc' = [rpc EXCEPT ![r] = "movement"]
    BY <1>5
  <2> HIDE DEF rows
  <2> QED  BY <1>3, <2>1, <2>2, <2>3, <2>4, ReaderMove
<1> QED  BY <1>4, <1>5 DEF Query!ReadLines

LEMMA ReadMovementAnswers ==
    ASSUME SystemInv, NEW r \in Readers, Query!ReadMovement(r)
    PROVE  Answers'
<1> DEFINE b == query[r].budget
           body == Query!AchievementBody(found[r], query[r].through)
           response == [code |-> "ok", body |-> body]
<1>1. /\ UNCHANGED <<budgets, lines, query, header, found>> /\ rpc[r] = "movement"
      /\ rpc' = [rpc EXCEPT ![r] = "idle"] /\ answer' = [answer EXCEPT ![r] = response]
  BY DEF Query!ReadMovement, Query!Respond, Query!stored
<1>2. Shows(query[r], "movement", header[r], found[r], answer[r])
  BY <1>1 DEF SystemInv, Answers
<1>3. /\ query' = [query EXCEPT ![r] = query[r]] /\ header' = [header EXCEPT ![r] = header[r]]
      /\ found' = [found EXCEPT ![r] = found[r]] /\ IsOver(answer, Readers)
  BY <1>1 DEF SystemInv, Answers, IsOver
<1>4. Shows(query[r], "idle", header[r], found[r], response)
  BY <1>2 DEF Shows
<1>5. header[r].status # "draft" =>
         Planned(r)' = {<<l, lines[l].amount>> : l \in LiveLines(b)}
  <2>1. SUFFICES ASSUME header[r].status # "draft"
                 PROVE  Planned(r)' = {<<l, lines[l].amount>> : l \in LiveLines(b)}
    OBVIOUS
  <2>2. query[r].read # "detail"
    BY <1>2 DEF Shows
  <2>3. found[r] = {[line |-> l, row |-> lines[l]] : l \in LiveLines(b)}
    BY <1>2, <2>1 DEF Shows, Query!BudgetLines, Query!LinesOf, LiveLines, IsLive
  <2>4. Planned(r)' = {<<x.line, x.planned>> : x \in body}
    BY <1>1, <1>3, <2>2 DEF Planned, IsOver
  <2> HIDE DEF body
  <2>5. Planned(r)' = {<<x.line, x.row.amount>> : x \in found[r]}
    BY <2>4, ReportPlans DEF body
  <2> QED  BY <2>3, <2>5, FoundPlans
<1> HIDE DEF response
<1>6. /\ UNCHANGED <<budgets, lines>>
      /\ rpc' = [rpc EXCEPT ![r] = "idle"] /\ answer' = [answer EXCEPT ![r] = response]
  BY <1>1 DEF response
<1>7. response.code = "ok" /\ header[r].status # "draft" =>
         Planned(r)' = {<<l, lines[l].amount>> : l \in LiveLines(query[r].budget)}
  BY <1>5
<1> QED  BY <1>3, <1>4, <1>6, <1>7, ReaderMove

LEMMA ReadCoverageAnswers ==
    ASSUME SystemInv, NEW r \in Readers, Query!ReadCoverage(r)
    PROVE  Answers'
<1>1. UNCHANGED <<budgets, lines, query, header, found>>
  BY DEF Query!ReadCoverage, Query!stored
<1>2. CASE Query!Respond(r, "accounting_unwired", {})
  BY <1>1, <1>2, FailAnswers
<1>3. CASE Query!Respond(r, "uncovered", {})
  BY <1>1, <1>3, FailAnswers
<1>4. ASSUME NEW position, Query!Respond(r, "covered", {position}) PROVE Answers'
  BY <1>1, <1>4, FailAnswers
<1> QED  BY <1>2, <1>3, <1>4 DEF Query!ReadCoverage

LEMMA ReaderKeeps ==
    ASSUME OneHandler, SystemInv, NEW r \in Readers, Reader(r)
    PROVE  SystemInv'
<1>1. UNCHANGED <<budgets, lines, usable, local, positions>>
  BY DEF Reader, Query!Ask, Query!Read, Query!ReadHeader, Query!ReadLines, Query!ReadMovement,
         Query!ReadCoverage, Query!stored
<1>2. UNCHANGED vars
  BY <1>1 DEF vars, local
<1>3. Evaluations'
  BY <1>1 DEF SystemInv, Evaluations, Remembered, IsLive, PastDraft, IsOver
<1>4. Answers'
  BY AskAnswers, ReadHeaderAnswers, ReadLinesAnswers, ReadMovementAnswers, ReadCoverageAnswers
     DEF Reader, Query!Read
<1> QED  BY <1>2, <1>3, <1>4, PlanUntouched DEF SystemInv

LEMMA InitSystem == SystemInit => SystemInv
<1> SUFFICES ASSUME SystemInit PROVE SystemInv
  OBVIOUS
<1>1. IInv /\ SerialInv
  BY InitIInv, InitSerial DEF SystemInit
<1>2. Evaluations
  BY DEF SystemInit, Control!Init, Evaluations, IsOver
<1>3. /\ rpc = [r \in Readers |-> "idle"] /\ query = [r \in Readers |-> Query!NoQuery]
      /\ header = [r \in Readers |-> NoBudget] /\ found = [r \in Readers |-> {}]
      /\ answer = [r \in Readers |-> Query!NoAnswer] /\ Query!NoAnswer.code = "none"
  BY DEF SystemInit, Query!Init, Query!NoAnswer, Query!NoBudget, NoBudget
<1>4. \A r \in Readers : Shows(query[r], rpc[r], header[r], found[r], answer[r])
  BY <1>3 DEF Shows
<1>5. ShownPlanIsCurrent
  BY <1>3 DEF ShownPlanIsCurrent
<1>6. /\ IsOver(rpc, Readers) /\ IsOver(query, Readers) /\ IsOver(header, Readers)
      /\ IsOver(found, Readers) /\ IsOver(answer, Readers)
  BY <1>3 DEF IsOver
<1> QED  BY <1>1, <1>2, <1>4, <1>5, <1>6 DEF SystemInv, Answers

LEMMA NextSystem == OneHandler /\ SystemInv /\ [SystemNext]_systemVars => SystemInv'
<1> SUFFICES ASSUME OneHandler, SystemInv, [SystemNext]_systemVars PROVE SystemInv'
  OBVIOUS
<1>1. CASE Planner \/ UNCHANGED systemVars
  BY <1>1, PlannerKeeps DEF Planner, systemVars
<1>2. ASSUME NEW h \in Producers, Producer(h) PROVE SystemInv'
  BY <1>2, ProducerKeeps
<1>3. ASSUME NEW r \in Readers, Reader(r) PROVE SystemInv'
  BY <1>3, ReaderKeeps
<1> QED  BY <1>1, <1>2, <1>3 DEF SystemNext

LEMMA SystemHolds ==
    ASSUME OneHandler
    PROVE  SystemSpec => []SystemInv
BY InitSystem, NextSystem, PTL DEF SystemSpec

(***************************************************************************)
(* The theorems.                                                           *)
(***************************************************************************)
(* The positions an evaluation read in its first statement are the plan    *)
(* when it compares and when the posting commits, whatever the planner     *)
(* does in between.                                                        *)
THEOREM EvaluationSeesThePlan ==
    ASSUME OneHandler
    PROVE  SystemSpec => []EvaluatedPlanIsCurrent
<1>1. SystemInv => EvaluatedPlanIsCurrent
  BY DEF SystemInv, Evaluations, Remembered, EvaluatedPlanIsCurrent
<1> QED  BY <1>1, SystemHolds, PTL

(* A detail or an achievement of a budget past its draft shows the lines   *)
(* that the budget has, from its last statement on.                        *)
THEOREM ReadsShowThePlan ==
    ASSUME OneHandler
    PROVE  SystemSpec => []ShownPlanIsCurrent
<1>1. SystemInv => ShownPlanIsCurrent
  BY DEF SystemInv, Answers
<1> QED  BY <1>1, SystemHolds, PTL

(* Coverage answers with the one budget that plans the key. *)
THEOREM CoverageIsUnambiguous ==
    ASSUME OneHandler
    PROVE  SystemSpec => CoverageNamesTheBudget
<1> DEFINE Names == \A r \in Readers : rpc[r] = "key" /\ answer'[r].code = "covered" =>
                       \A position \in answer'[r].body : \A l \in LineIds :
                          IsLive(l) /\ Key(lines[l]) = Key(query[r]) =>
                             lines[l].budget = position.budget
<1>1. ASSUME SystemInv, [SystemNext]_systemVars PROVE [Names]_systemVars
  <2>1. SUFFICES ASSUME NEW r \in Readers, rpc[r] = "key", answer'[r].code = "covered",
                        NEW position \in answer'[r].body, NEW l \in LineIds,
                        IsLive(l), Key(lines[l]) = Key(query[r]), SystemNext
                 PROVE  lines[l].budget = position.budget
    BY <1>1
  <2>2. IsOver(answer, Readers) /\ KeysDisjoint /\ answer[r].code = "none"
    BY <1>1, <2>1 DEF SystemInv, Answers, Shows, SerialInv
  <2>3. ASSUME NEW g \in Readers, Reader(g) PROVE Query!ReadCoverage(r)
    <3>1. answer'[r] # answer[r]
      BY <2>1, <2>2
    <3>2. \/ UNCHANGED answer
          \/ \E response : answer' = [answer EXCEPT ![g] = response]
      BY <2>3 DEF Reader, Query!Ask, Query!Read, Query!ReadHeader, Query!ReadLines,
                  Query!ReadMovement, Query!ReadCoverage, Query!Fail, Query!Respond
    <3>3. g = r
      BY <2>2, <3>1, <3>2 DEF IsOver
    <3> QED  BY <2>1, <2>3, <3>3 DEF Reader, Query!Ask, Query!Read, Query!ReadHeader,
                                     Query!ReadLines, Query!ReadMovement
  <2>4. Query!ReadCoverage(r)
    <3>1. UNCHANGED answer \/ \E g \in Readers : Reader(g)
      BY <2>1 DEF SystemNext, Planner, Producer, readVars
    <3> QED  BY <2>1, <2>2, <2>3, <3>1
  <2>5. position \in Query!Coverage(query[r])
    <3>1. \E code \in {"accounting_unwired", "uncovered"} : answer'[r].code = code
            \/ \E p \in Query!Coverage(query[r]) : answer'[r].body = {p}
      BY <2>2, <2>4 DEF Query!ReadCoverage, Query!Respond, IsOver
    <3> QED  BY <2>1, <3>1
  <2>6. PICK k \in LineIds : IsLive(k) /\ Key(lines[k]) = Key(query[r])
                             /\ position.budget = lines[k].budget
    BY <2>5 DEF Query!Coverage, IsLive, Query!Key, Key
  <2> QED  BY <2>1, <2>2, <2>6 DEF KeysDisjoint
<1> QED  BY <1>1, SystemHolds, PTL DEF SystemSpec, CoverageNamesTheBudget

(***************************************************************************)
(* The report of an achievement and the control, for any number of         *)
(* planners, producers and readers.                                        *)
(***************************************************************************)
(* The two queries sum the same movement, and the control's is that of the *)
(* ledger rows on one key.                                                 *)
LEMMA QueryMoved ==
    ASSUME NEW S
    PROVE  Query!MapThenSumSet(Query!NormalMovement, S) = Moved(S)
BY DEF Moved, MapThenSumSet, MapThenFoldSet, Query!MapThenSumSet, Query!MapThenFoldSet,
       Query!NormalMovement, NormalDirection

(* What the control counts on a key is the movement of the rows on it. *)
LEMMA AchievedMoved ==
    ASSUME NEW a, NEW c, NEW p, NEW d
    PROVE  /\ Control!Achieved(a, c, p, d) = Moved(Counted(ledger, a, c, p, d))
           /\ Control!Achieved(a, c, p, d)' = Moved(Counted(ledger', a, c, p, d))
BY DEF Control!Achieved, Control!Moved, Moved, Counted, MapThenSumSet, MapThenFoldSet,
       Control!MapThenSumSet, Control!MapThenFoldSet, Control!NormalDirection, NormalDirection

(* The control of the composition counts postings as BudgetPostings does. *)
LEMMA ControlPostings ==
    /\ \A j, a, c : Control!Pending(j, a, c) = Pending(j, a, c)
    /\ \A j, n, p : Control!Stamped(j, n, p) = Stamped(j, n, p)
    /\ \A j : Control!KnownLines(j) = KnownLines(j)
BY DEF Control!Pending, Pending, MapThenSumSet, MapThenFoldSet, Control!MapThenSumSet,
       Control!MapThenFoldSet, Control!NormalDirection, NormalDirection, Control!KnownLines,
       KnownLines, Control!Stamped, Stamped

(* A row of the report has achieved what the control counts on its key,    *)
(* also where the query returned no group for the key.                     *)
LEMMA ReportMoved ==
    ASSUME NEW rows, NEW through, NEW x \in Query!AchievementBody(rows, through)
    PROVE  \E l \in rows :
              /\ l.line = x.line
              /\ x.achieved = Control!Achieved(l.row.account, l.row.cc, l.row.period, through)
<1> DEFINE counted == {e \in ledger : /\ e.date <= through
                                      /\ \E l \in rows : l.row.account = e.account
                                      /\ \E l \in rows : l.row.period = e.period}
           keys == {Query!Key(e) : e \in counted}
           on(key) == {e \in counted : Query!Key(e) = key}
           moved == [key \in keys |-> Query!MapThenSumSet(Query!NormalMovement, on(key))]
           absorbed(l) == IF Query!Key(l.row) \in DOMAIN moved THEN moved[Query!Key(l.row)] ELSE 0
<1>1. Query!AchievedPerPeriod(rows, through) = moved
  BY DEF Query!AchievedPerPeriod
<1>2. PICK l \in rows : x = Query!AchievementRow(l, absorbed(l))
  BY <1>1 DEF Query!AchievementBody
<1>3. x.line = l.line /\ x.achieved = absorbed(l)
  <2> HIDE DEF absorbed
  <2> QED
    BY <1>2 DEF Query!AchievementRow
<1>4. on(Query!Key(l.row)) = Counted(ledger, l.row.account, l.row.cc, l.row.period, through)
  BY DEF Counted, Query!Key
<1>5. absorbed(l) = Moved(on(Query!Key(l.row)))
  <2>1. CASE Query!Key(l.row) \in keys
    <3> HIDE DEF keys, on
    <3>1. absorbed(l) = Query!MapThenSumSet(Query!NormalMovement, on(Query!Key(l.row)))
      BY <2>1
    <3> QED
      BY <3>1, QueryMoved
  <2>2. CASE Query!Key(l.row) \notin keys
    <3>1. on(Query!Key(l.row)) = {}
      BY <2>2
    <3>2. absorbed(l) = 0
      <4> HIDE DEF keys
      <4> QED
        BY <2>2
    <3> QED
      BY <3>1, <3>2, MovedNothing
  <2> QED
    BY <2>1, <2>2
<1>6. x.achieved = Control!Achieved(l.row.account, l.row.cc, l.row.period, through)
  <2>1. Control!Achieved(l.row.account, l.row.cc, l.row.period, through)
          = Moved(Counted(ledger, l.row.account, l.row.cc, l.row.period, through))
    BY AchievedMoved
  <2> HIDE DEF absorbed, on
  <2> QED
    BY <1>3, <1>4, <1>5, <2>1
<1> QED
  BY <1>3, <1>6

(* While a read is served it has no answer. *)
Awaits ==
    /\ IsOver(rpc, Readers) /\ IsOver(answer, Readers)
    /\ \A r \in Readers : rpc[r] # "idle" => answer[r].code = "none"

(* No read has been answered at the start, *)
LEMMA AwaitsInit == SystemInit => Awaits
BY DEF SystemInit, Query!Init, Query!NoAnswer, Awaits, IsOver

(* What a step of a read does to its place and its answer. *)
LEMMA ReaderPlace ==
    ASSUME Awaits, NEW r \in Readers, Query!Ask(r) \/ Query!Read(r)
    PROVE  /\ \E s : rpc' = [rpc EXCEPT ![r] = s]
           /\ \E a : answer' = [answer EXCEPT ![r] = a]
           /\ rpc'[r] # "idle" => answer'[r].code = "none"
<1>1. rpc[r] # "idle" => answer[r].code = "none"
  BY DEF Awaits
<1>2. answer = [answer EXCEPT ![r] = answer[r]]
  BY DEF Awaits, IsOver
<1>3. DOMAIN rpc = Readers /\ DOMAIN answer = Readers
  BY DEF Awaits, IsOver
<1>4. ASSUME NEW code, NEW body, Query!Respond(r, code, body)
      PROVE  /\ \E s : rpc' = [rpc EXCEPT ![r] = s]
             /\ \E a : answer' = [answer EXCEPT ![r] = a]
             /\ rpc'[r] # "idle" => answer'[r].code = "none"
  BY <1>3, <1>4 DEF Query!Respond
<1>5. CASE Query!Ask(r)
  BY <1>3, <1>5 DEF Query!Ask, Query!NoAnswer
<1>6. ASSUME NEW s, rpc' = [rpc EXCEPT ![r] = s], UNCHANGED answer, rpc[r] # "idle"
      PROVE  /\ \E t : rpc' = [rpc EXCEPT ![r] = t]
             /\ \E a : answer' = [answer EXCEPT ![r] = a]
             /\ rpc'[r] # "idle" => answer'[r].code = "none"
  BY <1>1, <1>2, <1>6
<1>7. CASE Query!ReadHeader(r)
  BY <1>4, <1>6, <1>7 DEF Query!ReadHeader, Query!Fail
<1>8. CASE Query!ReadLines(r)
  BY <1>4, <1>6, <1>8 DEF Query!ReadLines
<1>9. CASE Query!ReadMovement(r)
  BY <1>4, <1>9 DEF Query!ReadMovement
<1>10. CASE Query!ReadCoverage(r)
  BY <1>4, <1>10 DEF Query!ReadCoverage
<1> QED
  BY <1>5, <1>7, <1>8, <1>9, <1>10 DEF Query!Read

(* and none is answered before its last statement. *)
LEMMA AwaitsNext == Awaits /\ [SystemNext]_systemVars => Awaits'
<1> SUFFICES ASSUME Awaits, [SystemNext]_systemVars PROVE Awaits'
  OBVIOUS
<1>1. CASE UNCHANGED <<rpc, answer>>
  BY <1>1 DEF Awaits, IsOver
<1>2. ASSUME NEW r \in Readers, Reader(r) PROVE Awaits'
  <2>1. Query!Ask(r) \/ Query!Read(r)
    BY <1>2 DEF Reader
  <2>2. PICK s : rpc' = [rpc EXCEPT ![r] = s]
    BY <2>1, ReaderPlace
  <2>3. PICK a : answer' = [answer EXCEPT ![r] = a]
    BY <2>1, ReaderPlace
  <2>4. rpc'[r] # "idle" => answer'[r].code = "none"
    BY <2>1, ReaderPlace
  <2> QED
    BY <2>2, <2>3, <2>4 DEF Awaits, IsOver
<1>3. CASE UNCHANGED systemVars
  BY <1>1, <1>3 DEF systemVars, readVars
<1> QED
  BY <1>1, <1>2, <1>3 DEF SystemNext, Planner, Producer, readVars

(* The step that answers an achievement is its last statement. *)
LEMMA AnswersFromMovement ==
    ASSUME Awaits, SystemNext, NEW r \in Readers, rpc[r] = "movement", answer'[r].code = "ok"
    PROVE  answer'[r].body = Query!AchievementBody(found[r], query[r].through)
<1>1. answer'[r] # answer[r]
  BY DEF Awaits
<1>2. PICK g \in Readers : Reader(g)
  BY <1>1 DEF SystemNext, Planner, Producer, readVars
<1>3. Query!Ask(g) \/ Query!Read(g)
  BY <1>2 DEF Reader
<1>4. g = r
  <2>1. PICK a : answer' = [answer EXCEPT ![g] = a]
    BY <1>3, ReaderPlace
  <2> QED
    BY <1>1, <2>1 DEF Awaits, IsOver
<1>5. Query!ReadMovement(r)
  BY <1>3, <1>4 DEF Query!Ask, Query!Read, Query!ReadHeader, Query!ReadLines, Query!ReadCoverage
<1> QED
  BY <1>5 DEF Query!ReadMovement, Query!Respond, Awaits, IsOver

(* The achievement of a position is what the control would count on its    *)
(* key at that moment, for any number of planners, producers and readers.  *)
THEOREM ReportMatchesControlHolds == SystemSpec => ReportMatchesControl
<1> DEFINE Agrees == \A r \in Readers : rpc[r] = "movement" /\ answer'[r].code = "ok" =>
          \A x \in answer'[r].body : \E l \in found[r] :
              /\ l.line = x.line
              /\ x.achieved = Control!Achieved(l.row.account, l.row.cc, l.row.period,
                                               query[r].through)
<1>1. Awaits /\ [SystemNext]_systemVars => [Agrees]_systemVars
  BY AnswersFromMovement, ReportMoved
<1> QED
  BY <1>1, AwaitsInit, AwaitsNext, PTL DEF SystemSpec, ReportMatchesControl

(***************************************************************************)
(* One planner and one producer.                                           *)
(***************************************************************************)
OneProducer == \A g, h \in Producers : g = h

(* The general ledger of the composition, and what an evaluation of it has *)
(* found when its posting is about to commit.                              *)
LedgerInv ==
    /\ posted \in Nat /\ IsFiniteSet(ledger)
    /\ \A r \in ledger : Oriented(r) /\ r.posting \in 1 .. posted

(* A breach, counted on the ledger. *)
Exceeds(j, p, pos) ==
    /\ Pending(j, pos.account, pos.cc) > 0
    /\ Moved(Counted(ledger, pos.account, pos.cc, p, j.date))
          + Pending(j, pos.account, pos.cc) > pos.amount

(* What an evaluation knows at each of its statements. *)
Evaluated(state, j, p, read, outcome) ==
    /\ state # "idle" => j \in Postings /\ outcome = "none"
    /\ state \in {"idle", "period", "positions"} => read = {}
    /\ state = "post" =>
          \A pos \in read : pos.enforcement = "block" => ~Exceeds(j, p, pos)

Evaluating(h) == Evaluated(stage[h], job[h], period[h], positions[h], verdict[h])

(* The inductive invariant of the producers. *)
ProducerInv ==
    /\ LedgerInv
    /\ IsOver(stage, Producers) /\ IsOver(job, Producers) /\ IsOver(period, Producers)
    /\ IsOver(positions, Producers) /\ IsOver(verdict, Producers)
    /\ \A h \in Producers : Evaluating(h)

(* It is the breach that the control looks for. *)
LEMMA BreachedExceeds ==
    ASSUME NEW h, NEW pos
    PROVE  Control!Breached(h, pos) <=> Exceeds(job[h], period[h], pos)
<1>1. Control!Pending(job[h], pos.account, pos.cc) = Pending(job[h], pos.account, pos.cc)
  BY ControlPostings
<1>2. Control!Achieved(pos.account, pos.cc, period[h], job[h].date)
        = Moved(Counted(ledger, pos.account, pos.cc, period[h], job[h].date))
  BY AchievedMoved
<1> QED
  BY <1>1, <1>2 DEF Control!Breached, Exceeds

(* The invariant of the producers holds at the start. *)
LEMMA InitProducer == SystemInit => ProducerInv
<1> SUFFICES ASSUME SystemInit PROVE ProducerInv
  OBVIOUS
<1>1. LedgerInv
  BY FS_EmptySet DEF SystemInit, Control!Init, LedgerInv
<1>2. /\ stage = [h \in Producers |-> "idle"] /\ job = [h \in Producers |-> Control!NoPosting]
      /\ period = [h \in Producers |-> "none"] /\ positions = [h \in Producers |-> {}]
      /\ verdict = [h \in Producers |-> "none"]
  BY DEF SystemInit, Control!Init
<1> QED
  BY <1>1, <1>2 DEF ProducerInv, Evaluating, Evaluated, IsOver

(* A step of the one producer: where its posting is, and what the ledger   *)
(* has become.                                                             *)
LEMMA ProducerMove ==
    ASSUME OneProducer, ProducerInv, LedgerInv', NEW h \in Producers,
           NEW s, stage' = [stage EXCEPT ![h] = s], NEW j, job' = [job EXCEPT ![h] = j],
           NEW p, period' = [period EXCEPT ![h] = p],
           NEW read, positions' = [positions EXCEPT ![h] = read],
           NEW outcome, verdict' = [verdict EXCEPT ![h] = outcome],
           Evaluated(s, j, p, read, outcome), UNCHANGED ledger \/ s = "idle"
    PROVE  ProducerInv'
<1>1. /\ IsOver(stage', Producers) /\ IsOver(job', Producers) /\ IsOver(period', Producers)
      /\ IsOver(positions', Producers) /\ IsOver(verdict', Producers)
  BY DEF ProducerInv, IsOver
<1>2. /\ stage'[h] = s /\ job'[h] = j /\ period'[h] = p /\ positions'[h] = read
      /\ verdict'[h] = outcome
  BY DEF ProducerInv, IsOver
<1>3. Evaluating(h)'
  BY <1>2 DEF Evaluating, Evaluated, Exceeds
<1> QED
  BY <1>1, <1>3 DEF OneProducer, ProducerInv

(* A posting that ends is evaluated no more. *)
LEMMA FinishMove ==
    ASSUME OneProducer, ProducerInv, LedgerInv', NEW h \in Producers,
           NEW outcome, Control!Finish(h, outcome)
    PROVE  ProducerInv'
<1>1. Evaluated("idle", Control!NoPosting, "none", {}, outcome)
  BY DEF Evaluated
<1>2. /\ stage' = [stage EXCEPT ![h] = "idle"] /\ job' = [job EXCEPT ![h] = Control!NoPosting]
      /\ period' = [period EXCEPT ![h] = "none"] /\ positions' = [positions EXCEPT ![h] = {}]
      /\ verdict' = [verdict EXCEPT ![h] = outcome]
  BY DEF Control!Finish
<1> QED
  BY <1>1, <1>2, ProducerMove

(* What Post does to the ledger. *)
Commits(h) ==
    /\ KnownLines(job[h]) = DOMAIN job[h].lines
    /\ posted' = posted + 1
    /\ \E q : ledger' = ledger \cup Stamped(job[h], posted + 1, q)

(* Post rejects or commits. *)
LEMMA PostCommits ==
    ASSUME NEW h \in Producers, Control!Post(h)
    PROVE  /\ stage[h] = "post" /\ \E outcome : Control!Finish(h, outcome)
           /\ \/ UNCHANGED <<ledger, posted>> /\ Control!Finish(h, "rejected")
              \/ Commits(h)
BY ControlPostings DEF Control!Post, Commits

(* A commit keeps the ledger as the sums need it. *)
LEMMA PostLedger ==
    ASSUME ProducerInv, NEW h \in Producers, Control!Post(h)
    PROVE  LedgerInv'
<1>1. LedgerInv /\ job[h] \in Posting
  BY PostCommits, PostingsAssumption DEF ProducerInv, Evaluating, Evaluated
<1>2. CASE UNCHANGED <<ledger, posted>>
  BY <1>1, <1>2 DEF LedgerInv, Oriented
<1>3. CASE Commits(h)
  <2> DEFINE j == job[h]
             n == posted + 1
  <2>1. PICK q : ledger' = ledger \cup Stamped(j, n, q)
    BY <1>3 DEF Commits
  <2>2. posted' = n /\ posted \in Nat
    BY <1>1, <1>3 DEF Commits, LedgerInv
  <2>3. KnownLines(j) = DOMAIN j.lines
    BY <1>3 DEF Commits
  <2> DEFINE new == Stamped(j, n, q)
  <2> HIDE DEF j, n
  <2>4. IsFiniteSet(new) /\ \A r \in new : Oriented(r) /\ r.posting = n
    BY <1>1, <2>3, StampedRows DEF j
  <2> HIDE DEF new
  <2>5. IsFiniteSet(ledger')
    BY <1>1, <2>1, <2>4, FS_Union DEF LedgerInv, new
  <2>6. n \in 1 .. posted' /\ posted' \in Nat /\ 1 .. posted \subseteq 1 .. posted'
    BY <2>2 DEF n
  <2>7. \A r \in ledger' : Oriented(r) /\ r.posting \in 1 .. posted'
    BY <1>1, <2>1, <2>4, <2>6 DEF LedgerInv, new
  <2> QED
    BY <2>5, <2>6, <2>7 DEF LedgerInv, Oriented
<1> QED
  BY <1>2, <1>3, PostCommits

(* A producer that was idle has read nothing. *)
LEMMA SendMove ==
    ASSUME OneProducer, ProducerInv, NEW h \in Producers, Control!Send(h)
    PROVE  ProducerInv'
<1>1. PICK j \in Postings :
         /\ job' = [job EXCEPT ![h] = j]
         /\ stage' = [stage EXCEPT ![h] = IF j.lines = <<>> THEN "post" ELSE "period"]
  BY DEF Control!Send
<1>2. /\ stage[h] = "idle" /\ verdict' = [verdict EXCEPT ![h] = "none"]
      /\ UNCHANGED <<ledger, posted, period, positions>>
  BY DEF Control!Send
<1>3. positions[h] = {} /\ LedgerInv /\ LedgerInv'
  BY <1>2 DEF ProducerInv, Evaluating, Evaluated, LedgerInv, Oriented
<1>4. /\ period' = [period EXCEPT ![h] = period[h]]
      /\ positions' = [positions EXCEPT ![h] = positions[h]]
  BY <1>2 DEF ProducerInv, IsOver
<1> DEFINE s == IF j.lines = <<>> THEN "post" ELSE "period"
<1>5. Evaluated(s, j, period[h], positions[h], "none")
  BY <1>3 DEF Evaluated
<1>6. stage' = [stage EXCEPT ![h] = s]
  BY <1>1
<1> HIDE DEF s
<1> QED
  BY <1>1, <1>2, <1>3, <1>4, <1>5, <1>6, ProducerMove

(* The evaluation keeps its posting and leaves the ledger alone. *)
LEMMA EvaluateMove ==
    ASSUME OneProducer, ProducerInv, NEW h \in Producers, stage[h] # "idle",
           UNCHANGED <<ledger, posted, job, verdict>>,
           NEW s, stage' = [stage EXCEPT ![h] = s],
           NEW p, period' = [period EXCEPT ![h] = p],
           NEW read, positions' = [positions EXCEPT ![h] = read],
           s \in {"positions"} => read = {}, s \in {"positions", "achieved", "post"},
           s = "post" => \A pos \in read : pos.enforcement = "block" => ~Exceeds(job[h], p, pos)
    PROVE  ProducerInv'
<1>1. /\ LedgerInv' /\ job' = [job EXCEPT ![h] = job[h]]
      /\ verdict' = [verdict EXCEPT ![h] = verdict[h]]
  BY DEF ProducerInv, LedgerInv, Oriented, IsOver
<1>2. Evaluated(s, job[h], p, read, verdict[h])
  BY DEF ProducerInv, Evaluating, Evaluated
<1> QED
  BY <1>1, <1>2, ProducerMove

(* Nor has one that resolves its period. *)
LEMMA ResolveMove ==
    ASSUME OneProducer, ProducerInv, NEW h \in Producers, Control!Resolve(h)
    PROVE  ProducerInv'
<1>1. stage[h] = "period" /\ UNCHANGED <<ledger, posted>>
  BY DEF Control!Resolve
<1>2. positions[h] = {} /\ LedgerInv'
  BY <1>1 DEF ProducerInv, Evaluating, Evaluated, LedgerInv, Oriented
<1>3. CASE Control!Finish(h, "accounting_unwired")
  BY <1>2, <1>3, FinishMove
<1>4. ASSUME NEW s \in {"post", "positions"}, stage' = [stage EXCEPT ![h] = s],
             UNCHANGED <<job, positions, verdict>>,
             NEW p, period' = [period EXCEPT ![h] = p]
      PROVE  ProducerInv'
  <2>1. positions' = [positions EXCEPT ![h] = {}]
    BY <1>2, <1>4 DEF ProducerInv, IsOver
  <2>2. stage[h] # "idle"
    BY <1>1
  <2> QED
    BY <1>1, <1>4, <2>1, <2>2, EvaluateMove
<1>5. UNCHANGED period => period' = [period EXCEPT ![h] = period[h]]
  BY DEF ProducerInv, IsOver
<1> QED
  BY <1>3, <1>4, <1>5 DEF Control!Resolve

(* It reads positions before it compares. *)
LEMMA ReadPositionsMove ==
    ASSUME OneProducer, ProducerInv, NEW h \in Producers, Control!ReadPositions(h)
    PROVE  ProducerInv'
<1>1. stage[h] = "positions" /\ UNCHANGED <<ledger, posted, job, verdict, period>>
  BY DEF Control!ReadPositions
<1>2. PICK read : positions' = [positions EXCEPT ![h] = read]
  BY DEF Control!ReadPositions
<1>3. stage' = [stage EXCEPT ![h] = "achieved"]
  BY DEF Control!ReadPositions
<1>4. period' = [period EXCEPT ![h] = period[h]]
  BY <1>1 DEF ProducerInv, IsOver
<1>5. stage[h] # "idle"
  BY <1>1
<1>6. PICK s : s = "achieved"
  OBVIOUS
<1>7. /\ s \in {"positions", "achieved", "post"} /\ s # "positions" /\ s # "post"
      /\ stage' = [stage EXCEPT ![h] = s]
  BY <1>3, <1>6
<1> QED
  BY <1>1, <1>2, <1>4, <1>5, <1>7, EvaluateMove

(* An evaluation that passes found no breach of a block position. *)
LEMMA ReadAchievedMove ==
    ASSUME OneProducer, ProducerInv, NEW h \in Producers, Control!ReadAchieved(h)
    PROVE  ProducerInv'
<1>1. stage[h] = "achieved" /\ UNCHANGED <<ledger, posted>>
  BY DEF Control!ReadAchieved
<1>2. CASE Control!Finish(h, "budget_exceeded")
  <2>1. LedgerInv'
    BY <1>1 DEF ProducerInv, LedgerInv, Oriented
  <2> QED
    BY <1>2, <2>1, FinishMove
<1>3. CASE ~Control!Finish(h, "budget_exceeded")
  <2>1. /\ stage' = [stage EXCEPT ![h] = "post"]
        /\ UNCHANGED <<job, period, positions, verdict>>
        /\ \A pos \in positions[h] : pos.enforcement = "block" => ~Control!Breached(h, pos)
    BY <1>3 DEF Control!ReadAchieved
  <2>2. \A pos \in positions[h] :
           pos.enforcement = "block" => ~Exceeds(job[h], period[h], pos)
    BY <2>1, BreachedExceeds
  <2>3. /\ period' = [period EXCEPT ![h] = period[h]]
        /\ positions' = [positions EXCEPT ![h] = positions[h]]
    BY <2>1 DEF ProducerInv, IsOver
  <2>4. stage[h] # "idle"
    BY <1>1
  <2> QED
    BY <1>1, <2>1, <2>2, <2>3, <2>4, EvaluateMove
<1> QED
  BY <1>2, <1>3

(* Every step of the composition keeps the invariant. *)
LEMMA NextProducer == OneProducer /\ ProducerInv /\ [SystemNext]_systemVars => ProducerInv'
<1> SUFFICES ASSUME OneProducer, ProducerInv, [SystemNext]_systemVars PROVE ProducerInv'
  OBVIOUS
<1>1. CASE UNCHANGED <<ledger, posted, stage, job, period, positions, verdict>>
  BY <1>1 DEF ProducerInv, LedgerInv, Oriented, Evaluating, Evaluated, Exceeds, IsOver
<1>2. ASSUME NEW h \in Producers, Producer(h) PROVE ProducerInv'
  <2>1. CASE Control!Post(h)
    BY <2>1, PostCommits, PostLedger, FinishMove
  <2>2. CASE Control!Abandon(h)
    <3>1. LedgerInv'
      BY <2>2 DEF Control!Abandon, ProducerInv, LedgerInv, Oriented
    <3> QED
      BY <2>2, <3>1, FinishMove DEF Control!Abandon
  <2>3. CASE Control!Evaluate(h)
    BY <2>3, ResolveMove, ReadPositionsMove, ReadAchievedMove DEF Control!Evaluate
  <2> QED
    BY <1>2, <2>1, <2>2, <2>3, SendMove DEF Producer
<1>3. ASSUME NEW r \in Readers, Reader(r)
      PROVE  UNCHANGED <<ledger, posted, stage, job, period, positions, verdict>>
  BY <1>3 DEF Reader, Query!Ask, Query!Read, Query!ReadHeader, Query!ReadLines,
              Query!ReadMovement, Query!ReadCoverage, Query!stored
<1> QED
  BY <1>1, <1>2, <1>3 DEF SystemNext, Planner, systemVars, controlVars

(* The step that commits a posting is Post, and it adds to the key of a    *)
(* position what the evaluation counted, or nothing.                       *)
LEMMA PostAdds ==
    ASSUME ProducerInv, NEW h \in Producers, stage[h] = "post", Commits(h),
           NEW pos, ~Exceeds(job[h], period[h], pos), pos.amount \in Int,
           Pending(job[h], pos.account, pos.cc) > 0
    PROVE  Moved(Counted(ledger', pos.account, pos.cc, period[h], job[h].date)) <= pos.amount
<1> DEFINE j == job[h]
           a == pos.account
           c == pos.cc
           n == posted + 1
           d == job[h].date
           p == period[h]
<1>1. LedgerInv /\ j \in Posting
  BY PostingsAssumption DEF ProducerInv, Evaluating, Evaluated
<1>2. PICK q : ledger' = ledger \cup Stamped(j, n, q)
  BY DEF Commits
<1>3. AllKnown(j)
  BY DEF Commits, AllKnown
<1>4. a \in DOMAIN Normal /\ Pending(j, a, c) \in Int
  BY <1>1, PendingKnown, PendingType
<1>5. \A r \in ledger : Oriented(r) /\ r.posting # n
  BY <1>1 DEF LedgerInv
<1>6. d <= d
  <2>1. d \in Dates
    BY <1>1 DEF Posting
  <2> HIDE DEF d
  <2> QED
    BY <2>1, DatesAssumption
<1>7. IsFiniteSet(ledger)
  BY <1>1 DEF LedgerInv
<1> DEFINE before == Moved(Counted(ledger, a, c, p, d))
           after == Moved(Counted(ledger \cup Stamped(j, n, q), a, c, p, d))
<1> HIDE DEF n
<1>8. before \in Int /\ after = before + IF q = p THEN Pending(j, a, c) ELSE 0
  <2>1. (\A r \in ledger : Oriented(r)) /\ (\A r \in ledger : r.posting # n)
    BY <1>5
  <2>2. j \in Posting /\ j.date <= d
    BY <1>1, <1>6
  <2>3. a \in DOMAIN Normal
    BY <1>4
  <2> HIDE DEF j, a, c, d, p
  <2>4. Moved(Counted(ledger, a, c, p, d)) \in Int
    BY ONLY <1>3, <1>7, <2>1, <2>2, <2>3, MovedByPosting
  <2>5. Moved(Counted(ledger \cup Stamped(j, n, q), a, c, p, d))
          = Moved(Counted(ledger, a, c, p, d)) + IF q = p THEN Pending(j, a, c) ELSE 0
    BY ONLY <1>3, <1>7, <2>1, <2>2, <2>3, MovedByPosting
  <2> QED
    BY <2>4, <2>5
<1>9. ~(before + Pending(j, a, c) > pos.amount)
  BY DEF Exceeds
<1>10. after = Moved(Counted(ledger', a, c, p, d))
  BY <1>2
<1> HIDE DEF before, after, j
<1>11. after <= pos.amount
  BY <1>4, <1>8, <1>9 DEF j
<1> QED
  BY <1>10, <1>11

(* The step that answers "posted" is Post. *)
LEMMA PostIsTheCommit ==
    ASSUME ProducerInv, OneProducer, SystemNext, NEW h \in Producers,
           stage[h] = "post", verdict'[h] = "posted"
    PROVE  Commits(h)
<1>1. verdict'[h] # verdict[h]
  BY DEF ProducerInv, Evaluating, Evaluated
<1>2. PICK g \in Producers : Producer(g)
  BY <1>1 DEF SystemNext, Planner, Reader, controlVars
<1>3. g = h
  BY DEF OneProducer
<1>4. ~Control!Abandon(h)
  BY DEF Control!Abandon, Control!Finish, ProducerInv, IsOver
<1>5. Control!Post(h)
  BY <1>2, <1>3, <1>4 DEF Producer, Control!Send, Control!Evaluate, Control!Resolve,
                          Control!ReadPositions, Control!ReadAchieved
<1>6. ~Control!Finish(h, "rejected")
  BY DEF Control!Finish, ProducerInv, IsOver
<1> QED
  BY <1>5, <1>6, PostCommits

(* A posting that commits leaves the plan of a block budget as the planner *)
(* last committed it, whatever verbs fall between the statements of its    *)
(* evaluation.                                                             *)
THEOREM PostedWithinPlanHolds ==
    ASSUME OneHandler, OneProducer
    PROVE  SystemSpec => PostedWithinPlan
<1> DEFINE Kept ==
       \A h \in Producers : stage[h] = "post" /\ verdict'[h] = "posted" =>
          \A pos \in positions[h], p \in {period[h]}, d \in {job[h].date} :
              pos.enforcement = "block" /\ Control!Pending(job[h], pos.account, pos.cc) > 0 =>
                  Control!Achieved(pos.account, pos.cc, p, d)' <= lines[pos.line].amount
<1>1. ASSUME SystemInv, ProducerInv, [SystemNext]_systemVars PROVE [Kept]_systemVars
  <2>1. SUFFICES ASSUME SystemNext, NEW h \in Producers, stage[h] = "post",
                        verdict'[h] = "posted", NEW pos \in positions[h],
                        NEW p \in {period[h]}, NEW d \in {job[h].date},
                        pos.enforcement = "block",
                        Control!Pending(job[h], pos.account, pos.cc) > 0
                 PROVE  Control!Achieved(pos.account, pos.cc, p, d)' <= lines[pos.line].amount
    BY <1>1
  <2>2. Commits(h)
    BY <1>1, <2>1, PostIsTheCommit
  <2>3. Remembered(pos)
    BY <1>1 DEF SystemInv, Evaluations
  <2>4. pos.amount \in Int /\ lines[pos.line].amount = pos.amount
    BY <1>1, <2>3 DEF Remembered, SystemInv, IInv, TypeOK, IsLive, LineRow, NoLine
  <2>5. ~Exceeds(job[h], period[h], pos)
    BY <1>1, <2>1 DEF ProducerInv, Evaluating, Evaluated
  <2>6. Pending(job[h], pos.account, pos.cc) > 0
    BY <2>1, ControlPostings
  <2>7. Moved(Counted(ledger', pos.account, pos.cc, period[h], job[h].date)) <= pos.amount
    BY <1>1, <2>1, <2>2, <2>4, <2>5, <2>6, PostAdds
  <2>8. Control!Achieved(pos.account, pos.cc, p, d)'
          = Moved(Counted(ledger', pos.account, pos.cc, p, d))
    BY AchievedMoved
  <2> QED
    BY <2>1, <2>4, <2>7, <2>8
<1> QED
  BY <1>1, SystemHolds, InitProducer, NextProducer, PTL DEF SystemSpec, PostedWithinPlan

=============================================================================
