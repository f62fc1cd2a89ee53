----------------------- MODULE BudgetDecoratedProofs -----------------------
(***************************************************************************)
(* What the decorator's partial unique indexes keep, for every number of   *)
(* handlers and every interleaving: a create or an add_line that lost a    *)
(* race meets the index at its INSERT, and no other commit writes a code,  *)
(* a control key or an undeleted line.                                     *)
(***************************************************************************)
EXTENDS BudgetWorkflowProofs

(* An edit revives no line and leaves every key as it was. *)
LEMMA EditRevivesNothing ==
    ASSUME IInv, NEW h \in Handlers, EditLine(h),
           NEW l \in LineIds, IsLive(l)'
    PROVE  IsLive(l) /\ Key(lines[l])' = Key(lines[l])
<1> DEFINE r == arg[h]
           edited == IF r.verb = "update_line"
                     THEN [lines[r.line] EXCEPT !.amount = Stored(r.amount)]
                     ELSE [lines[r.line] EXCEPT !.state = "deleted"]
<1>1. CASE UNCHANGED lines
  BY <1>1 DEF IsLive, Key
<1>2. CASE LineOf(r) /\ lines' = [lines EXCEPT ![r.line] = edited]
  <2>1. r.line \in LineIds /\ lines[r.line] \in LineRow /\ IsLive(r.line)
    BY <1>2 DEF IInv, TypeOK, LineOf, LiveLines, IsLive, NoLine
  <2>2. Key(edited) = Key(lines[r.line])
    BY <2>1 DEF LineRow, Key
  <2>3. lines'[l] = IF l = r.line THEN edited ELSE lines[l]
    BY <1>2, <2>1 DEF IInv, TypeOK
  <2>4. Key(lines[l])' = Key(lines'[l])
    BY DEF Key
  <2> QED  BY <2>1, <2>2, <2>3, <2>4 DEF IsLive
<1> QED  BY <1>1, <1>2 DEF EditLine, Refuse, db

(* An INSERT puts each position of the request into one slot of its own. *)
LEMMA InsertedRows ==
    ASSUME IInv, NEW h \in Handlers, CommitInsert(h)
    PROVE  \/ UNCHANGED <<budgets, lines>>
           \/ /\ Decorated => ~CodeClash(arg[h]) /\ ~KeyClash(arg[h])
              /\ budgets' = IF arg[h].verb = "create"
                            THEN [budgets EXCEPT ![arg[h].budget] = hdr[h]]
                            ELSE budgets
              /\ \E id \in [DOMAIN arg[h].lines -> FreeLines] :
                    \A l \in LineIds :
                       \/ lines'[l] = lines[l]
                       \/ \E i \in DOMAIN arg[h].lines :
                             /\ id[i] = l
                             /\ lines'[l] = NewRow(arg[h].budget, arg[h].lines[i])
<1> DEFINE r == arg[h]
<1>1. CASE UNCHANGED <<budgets, lines>>
  BY <1>1
<1>2. CASE /\ Decorated => ~CodeClash(r) /\ ~KeyClash(r)
           /\ budgets' = IF r.verb = "create"
                         THEN [budgets EXCEPT ![r.budget] = hdr[h]]
                         ELSE budgets
           /\ \E id \in [DOMAIN r.lines -> FreeLines] :
                 lines' = [l \in LineIds |->
                    IF \E i \in DOMAIN r.lines : id[i] = l
                    THEN NewRow(r.budget, r.lines[CHOOSE i \in DOMAIN r.lines : id[i] = l])
                    ELSE lines[l]]
  <2>1. PICK id \in [DOMAIN r.lines -> FreeLines] :
           lines' = [l \in LineIds |->
              IF \E i \in DOMAIN r.lines : id[i] = l
              THEN NewRow(r.budget, r.lines[CHOOSE i \in DOMAIN r.lines : id[i] = l])
              ELSE lines[l]]
    BY <1>2
  <2>2. ASSUME NEW l \in LineIds
        PROVE  \/ lines'[l] = lines[l]
               \/ \E i \in DOMAIN r.lines : id[i] = l /\ lines'[l] = NewRow(r.budget, r.lines[i])
    <3>1. CASE \E i \in DOMAIN r.lines : id[i] = l
      <4>1. PICK i \in DOMAIN r.lines : i = CHOOSE j \in DOMAIN r.lines : id[j] = l
        BY <3>1
      <4>2. id[i] = l
        BY <3>1, <4>1
      <4>3. lines'[l] = NewRow(r.budget, r.lines[i])
        BY <2>1, <3>1, <4>1
      <4> QED  BY <4>2, <4>3
    <3>2. CASE ~\E i \in DOMAIN r.lines : id[i] = l
      BY <2>1, <3>2
    <3> QED  BY <3>1, <3>2
  <2> QED  BY <1>2, <2>2
<1> QED  BY <1>1, <1>2 DEF CommitInsert, Refuse, db

LEMMA InsertKeepsOneLine ==
    ASSUME IInv, OneLinePerKey, Decorated, NEW h \in Handlers, CommitInsert(h)
    PROVE  OneLinePerKey'
<1> DEFINE r == arg[h]
<1>1. CASE UNCHANGED lines
  BY <1>1 DEF OneLinePerKey, IsLive, Key
<1>2. CASE /\ ~KeyClash(r)
           /\ \E id \in [DOMAIN r.lines -> FreeLines] :
                 \A l \in LineIds :
                    \/ lines'[l] = lines[l]
                    \/ \E i \in DOMAIN r.lines :
                          id[i] = l /\ lines'[l] = NewRow(r.budget, r.lines[i])
  <2>1. PICK id \in [DOMAIN r.lines -> FreeLines] :
           \A l \in LineIds :
              \/ lines'[l] = lines[l]
              \/ \E i \in DOMAIN r.lines :
                    id[i] = l /\ lines'[l] = NewRow(r.budget, r.lines[i])
    BY <1>2
  <2>2. SUFFICES ASSUME NEW l \in LineIds, NEW m \in LineIds, l # m,
                        IsLive(l)', IsLive(m)', lines'[l].cc # NoCC,
                        Key(lines'[l]) = Key(lines'[m])
                 PROVE  FALSE
    BY DEF OneLinePerKey, Key
  <2>3. lines'[m].cc = lines'[l].cc
    BY <2>2 DEF Key
  <2>4. ASSUME NEW i \in DOMAIN r.lines
        PROVE  /\ NewRow(r.budget, r.lines[i]).cc = r.lines[i].cc
               /\ Key(NewRow(r.budget, r.lines[i])) = Key(r.lines[i])
    BY DEF NewRow, Key
  <2>5. CASE lines'[l] = lines[l] /\ lines'[m] = lines[m]
    BY <2>2, <2>5 DEF OneLinePerKey, IsLive
  <2>6. ASSUME lines'[l] = lines[l],
               NEW j \in DOMAIN r.lines, lines'[m] = NewRow(r.budget, r.lines[j])
        PROVE  FALSE
    BY <1>2, <2>2, <2>3, <2>4, <2>6 DEF KeyClash, IsLive
  <2>7. ASSUME lines'[m] = lines[m],
               NEW i \in DOMAIN r.lines, lines'[l] = NewRow(r.budget, r.lines[i])
        PROVE  FALSE
    BY <1>2, <2>2, <2>4, <2>7 DEF KeyClash, IsLive
  <2>8. ASSUME NEW i \in DOMAIN r.lines, lines'[l] = NewRow(r.budget, r.lines[i]), id[i] = l,
               NEW j \in DOMAIN r.lines, lines'[m] = NewRow(r.budget, r.lines[j]), id[j] = m
        PROVE  FALSE
    BY <1>2, <2>2, <2>4, <2>8 DEF KeyClash
  <2> QED  BY <2>1, <2>5, <2>6, <2>7, <2>8
<1> QED  BY <1>1, <1>2, InsertedRows

(* Whatever races, a control key with a cost center has at most one live   *)
(* line under the decorator's index, within one budget and across budgets. *)
THEOREM DecoratedKeysUnique ==
    ASSUME Decorated
    PROVE  Spec => []OneLinePerKey
<1>1. Init => OneLinePerKey
  BY DEF Init, OneLinePerKey, IsLive, NoLine
<1>2. ASSUME IInv, OneLinePerKey, [Next]_vars PROVE OneLinePerKey'
  <2>1. CASE UNCHANGED lines
    BY <1>2, <2>1 DEF OneLinePerKey, IsLive, Key
  <2>2. ASSUME NEW h \in Handlers, EditLine(h) PROVE OneLinePerKey'
    <3>1. ASSUME NEW l \in LineIds, IsLive(l)'
          PROVE  IsLive(l) /\ Key(lines'[l]) = Key(lines[l]) /\ lines'[l].cc = lines[l].cc
      BY <1>2, <2>2, <3>1, EditRevivesNothing DEF Key
    <3> QED  BY <1>2, <3>1 DEF OneLinePerKey, Key
  <2>3. ASSUME NEW h \in Handlers,
               UpdateEnforcement(h) \/ UpdateHeader(h) \/ CompareAndSet(h)
        PROVE  UNCHANGED lines
    BY <2>3 DEF UpdateEnforcement, UpdateHeader, CompareAndSet, Refuse, db
  <2> QED  BY <1>2, <2>1, <2>2, <2>3, OnlyCommitsWrite, InsertKeepsOneLine
<1> QED  BY <1>1, <1>2, InvariantHolds, PTL DEF Spec

(* The commits on an existing header keep its code. *)
LEMMA CommitsKeepCodes ==
    ASSUME IInv, NEW h \in Handlers,
           UpdateEnforcement(h) \/ UpdateHeader(h) \/ CompareAndSet(h),
           NEW b \in BudgetIds, Exists(b)'
    PROVE  Exists(b) /\ budgets'[b].code = budgets[b].code
<1> DEFINE r == arg[h]
<1>1. CASE UNCHANGED budgets
  BY <1>1 DEF Exists
<1>2. CASE \E row \in BudgetRow : /\ budgets' = [budgets EXCEPT ![r.budget] = row]
                                  /\ row.code = budgets[r.budget].code
                                  /\ Exists(r.budget)
  BY <1>2 DEF IInv, TypeOK, Exists
<1>3. ASSUME UpdateEnforcement(h)
      PROVE  \E row \in BudgetRow : /\ budgets' = [budgets EXCEPT ![r.budget] = row]
                                    /\ row.code = budgets[r.budget].code
                                    /\ Exists(r.budget)
  <2> DEFINE row == [budgets[r.budget] EXCEPT !.enforcement = r.enforcement]
  <2>1. r \in UpdateRequest /\ r.budget \in BudgetIds /\ Exists(r.budget) /\ r.enforcement # Keep
    BY <1>3, RequestLemma DEF UpdateEnforcement, IInv, TypeOK, Anchored, Serves, Verbs
  <2>2. budgets[r.budget] \in BudgetRow
    BY <2>1 DEF IInv, TypeOK, Exists, NoBudget
  <2>3. row \in BudgetRow /\ row.code = budgets[r.budget].code
    BY <2>1, <2>2 DEF BudgetRow, UpdateRequest
  <2>4. budgets' = [budgets EXCEPT ![r.budget] = row]
    BY <1>3 DEF UpdateEnforcement
  <2> QED  BY <2>1, <2>3, <2>4
<1>4. ASSUME UpdateHeader(h), ~UNCHANGED budgets
      PROVE  \E row \in BudgetRow : /\ budgets' = [budgets EXCEPT ![r.budget] = row]
                                    /\ row.code = budgets[r.budget].code
                                    /\ Exists(r.budget)
  <2>1. /\ r \in UpdateRequest /\ r.budget \in BudgetIds /\ hdr[h] \in BudgetRow
        /\ Exists(r.budget)
    BY <1>4, RequestLemma DEF UpdateHeader, IInv, TypeOK, Anchored, Serves, Verbs
  <2>2. Row(h) \in BudgetRow
    BY <2>1 DEF IInv, TypeOK, Row, Exists, NoBudget
  <2>3. NewFrom(h) \in Dates /\ NewTo(h) \in Dates
    BY <2>1 DEF NewFrom, NewTo, BudgetRow, UpdateRequest
  <2>4. PatchedDescription(h) \in Descriptions \cup {Null}
    BY <2>1, <2>2 DEF PatchedDescription, BudgetRow, UpdateRequest
  <2>5. Patched(h) \in BudgetRow /\ Patched(h).code = budgets[r.budget].code
    BY <2>2, <2>3, <2>4 DEF Patched, BudgetRow, Row
  <2>6. budgets' = [budgets EXCEPT ![r.budget] = Patched(h)]
    BY <1>4 DEF UpdateHeader, Refuse, db
  <2> QED  BY <2>1, <2>5, <2>6
<1>5. ASSUME CompareAndSet(h), ~UNCHANGED budgets
      PROVE  \E row \in BudgetRow : /\ budgets' = [budgets EXCEPT ![r.budget] = row]
                                    /\ row.code = budgets[r.budget].code
                                    /\ Exists(r.budget)
  <2> DEFINE row == [budgets[r.budget] EXCEPT !.status = Target(r.verb)]
  <2>1. r.budget \in BudgetIds /\ Exists(r.budget)
    BY <1>5, RequestLemma DEF CompareAndSet, IInv, TypeOK, Anchored, Serves, Verbs
  <2>2. budgets[r.budget] \in BudgetRow
    BY <2>1 DEF IInv, TypeOK, Exists, NoBudget
  <2>3. row \in BudgetRow /\ row.code = budgets[r.budget].code
    BY <2>2 DEF BudgetRow, Target, Statuses
  <2>4. budgets' = [budgets EXCEPT ![r.budget] = row]
    BY <1>5 DEF CompareAndSet, Refuse, db
  <2> QED  BY <2>1, <2>3, <2>4
<1> QED  BY <1>1, <1>2, <1>3, <1>4, <1>5

LEMMA InsertKeepsCodes ==
    ASSUME IInv, OneBudgetPerCode, Decorated, NEW h \in Handlers, CommitInsert(h)
    PROVE  OneBudgetPerCode'
<1> DEFINE r == arg[h]
<1>1. CASE UNCHANGED budgets
  BY <1>1 DEF OneBudgetPerCode, Exists
<1>2. CASE /\ r.verb = "create" /\ ~CodeClash(r)
           /\ budgets' = [budgets EXCEPT ![r.budget] = hdr[h]]
  <2>1. r.budget \in BudgetIds /\ hdr[h] = DraftRow(r.header)
    BY <1>2, RequestLemma DEF CommitInsert, IInv, TypeOK, Anchored, Verbs
  <2>2. ASSUME NEW b \in BudgetIds \ {r.budget}, Exists(b)
        PROVE  budgets[b].code # r.header.code
    BY <1>2, <2>2 DEF CodeClash, CodeTaken
  <2>3. hdr[h].code = r.header.code
    BY <2>1 DEF DraftRow
  <2>4. ASSUME NEW b \in BudgetIds
        PROVE  budgets'[b] = IF b = r.budget THEN hdr[h] ELSE budgets[b]
    BY <1>2 DEF IInv, TypeOK
  <2> QED  BY <2>1, <2>2, <2>3, <2>4 DEF OneBudgetPerCode, Exists
<1> QED  BY <1>1, <1>2, InsertedRows

(* Whatever races, a code names at most one budget, cancelled ones         *)
(* included: two creates that both found it free meet the index.           *)
THEOREM DecoratedCodesUnique ==
    ASSUME Decorated
    PROVE  Spec => []OneBudgetPerCode
<1>1. Init => OneBudgetPerCode
  BY DEF Init, OneBudgetPerCode, Exists, NoBudget
<1>2. ASSUME IInv, OneBudgetPerCode, [Next]_vars PROVE OneBudgetPerCode'
  <2>1. CASE UNCHANGED budgets
    BY <1>2, <2>1 DEF OneBudgetPerCode, Exists
  <2>2. ASSUME NEW h \in Handlers, EditLine(h) PROVE UNCHANGED budgets
    BY <2>2 DEF EditLine, Refuse, db
  <2>3. ASSUME NEW h \in Handlers,
               UpdateEnforcement(h) \/ UpdateHeader(h) \/ CompareAndSet(h)
        PROVE  OneBudgetPerCode'
    BY <1>2, <2>3, CommitsKeepCodes DEF OneBudgetPerCode
  <2> QED  BY <1>2, <2>1, <2>2, <2>3, OnlyCommitsWrite, InsertKeepsCodes
<1> QED  BY <1>1, <1>2, InvariantHolds, PTL DEF Spec

=============================================================================
