----------------------- MODULE BudgetWorkflowProofs -----------------------
(***************************************************************************)
(* Proofs about the write path, for every number of handlers, budgets and  *)
(* lines and every menu of requests.  IInv is inductive: a handler moves   *)
(* on by a read (MoveLemma) or by a refusal (RefuseLemma), which leave the *)
(* rows alone, or by one of the four commits.                              *)
(***************************************************************************)
EXTENDS BudgetWorkflowProps, FiniteSetTheorems, SequenceTheorems, TLAPS

(* What a verb says about the shape of the request it comes with. *)
LEMMA RequestLemma ==
    ASSUME NEW r \in RequestType \cup {NoRequest}
    PROVE  /\ r.verb = "create" => r \in CreateRequest
           /\ r.verb = "update" => r \in UpdateRequest
           /\ r.verb = "add_line" => r \in AddLineRequest
           /\ r.verb = "update_line" => r \in UpdateLineRequest
           /\ r.verb = "delete_line" => r \in DeleteLineRequest
           /\ r.verb \in {"confirm", "close", "cancel"} => r \in TransitionRequest
           /\ r.verb \in {"create", "add_line"} => r.lines \in Seq(Position)
           /\ r.verb # "none" => r.verb \in Verbs /\ r.budget \in BudgetIds
<1> USE DEF CreateRequest, UpdateRequest, AddLineRequest, UpdateLineRequest,
            DeleteLineRequest, TransitionRequest, NoRequest, RequestType
<1>1. ASSUME NEW q \in [1 .. 1 -> Position] PROVE q \in Seq(Position)
  BY SeqDef
<1>2. r.verb = "add_line" => r.lines \in Seq(Position)
  BY <1>1
<1> QED  BY <1>2 DEF Verbs

(* An answer ends the request.  Whatever it changes, no budget may vanish, *)
(* and none may appear under the id that another create has minted.        *)
LEMMA AnswerLemma ==
    ASSUME IInv, UNCHANGED usable,
           NEW h \in Handlers, pc[h] # "idle",
           NEW code \in ReplyCodes, Answer(h, code),
           budgets' \in [BudgetIds -> BudgetRow \cup {NoBudget}],
           lines' \in [LineIds -> LineRow \cup {NoLine}],
           \A b \in BudgetIds : Exists(b) => Exists(b)',
           \A g \in Handlers \ {h} : arg[g].verb = "create" => ~Exists(arg[g].budget)',
           RangeOrdered'
    PROVE  IInv'
<1> USE DEF Answer
<1>1. arg[h].verb \in Verbs
  BY DEF IInv, TypeOK, Serves, Statements, Verbs
<1>2. TypeOK'
  BY <1>1 DEF IInv, TypeOK, Serves, Statements, NoRequest, NoReply, NoBudget
<1>3. DistinctCreates'
  BY DEF IInv, TypeOK, DistinctCreates, NoRequest
<1>4. Anchored(pc[h], arg[h], hdr[h])'
  BY DEF IInv, TypeOK, Anchored, NoRequest
<1>5. ASSUME NEW g \in Handlers \ {h} PROVE Anchored(pc[g], arg[g], hdr[g])'
  <2>1. UNCHANGED <<pc[g], arg[g], hdr[g]>>
    BY DEF IInv, TypeOK
  <2>2. Anchored(pc[g], arg[g], hdr[g]) /\ Serves(pc[g], arg[g].verb)
    BY DEF IInv, TypeOK
  <2>3. pc[g] # "idle" => arg[g].budget \in BudgetIds
    BY <2>2, RequestLemma DEF IInv, TypeOK, Serves, Verbs, Statements
  <2> QED  BY <2>1, <2>2, <2>3 DEF Anchored, Serves
<1> QED  BY <1>2, <1>3, <1>4, <1>5 DEF IInv

(* A refusal, whatever the code, changes no row. *)
LEMMA RefuseLemma ==
    ASSUME IInv, UNCHANGED usable,
           NEW h \in Handlers, pc[h] # "idle",
           NEW code \in ReplyCodes, Refuse(h, code)
    PROVE  IInv'
<1> USE DEF Refuse, db
<1>1. /\ budgets' \in [BudgetIds -> BudgetRow \cup {NoBudget}]
      /\ lines' \in [LineIds -> LineRow \cup {NoLine}]
  BY DEF IInv, TypeOK
<1>2. \A b \in BudgetIds : Exists(b) => Exists(b)'
  BY DEF Exists
<1>3. \A g \in Handlers \ {h} : arg[g].verb = "create" => ~Exists(arg[g].budget)'
  BY DEF IInv, TypeOK, Anchored, Exists, Answer
<1>4. RangeOrdered'
  BY DEF IInv, RangeOrdered, Exists
<1> QED  BY <1>1, <1>2, <1>3, <1>4, AnswerLemma

(* A statement that only reads moves its handler to a statement of the     *)
(* same verb; what it remembers has to be anchored.                        *)
LEMMA MoveLemma ==
    ASSUME IInv, UNCHANGED <<budgets, lines, usable, arg, reply>>,
           NEW h \in Handlers, pc[h] # "idle",
           NEW s \in Statements, pc' = [pc EXCEPT ![h] = s],
           NEW row \in BudgetRow \cup {NoBudget}, hdr' = [hdr EXCEPT ![h] = row],
           NEW q \in Seq(Position), todo' = [todo EXCEPT ![h] = q],
           Serves(s, arg[h].verb), Anchored(s, arg[h], row)
    PROVE  IInv'
<1>1. TypeOK'
  BY DEF IInv, TypeOK
<1>2. DistinctCreates'
  BY DEF IInv, TypeOK, DistinctCreates
<1>3. ASSUME NEW g \in Handlers PROVE Anchored(pc[g], arg[g], hdr[g])'
  BY DEF IInv, TypeOK, Anchored, Exists
<1>4. RangeOrdered'
  BY DEF IInv, RangeOrdered, Exists
<1> QED  BY <1>1, <1>2, <1>3, <1>4 DEF IInv

(* After a check a handler goes on checking, inserts, or runs its          *)
(* compare-and-set.                                                        *)
LEMMA CheckNextLemma ==
    ASSUME IInv, NEW h \in Handlers,
           arg[h].verb \in {"create", "add_line", "confirm"},
           NEW positions \in Seq(Position), CheckNext(h, positions)
    PROVE  \E s \in {"account", "insert", "cas"}, q \in Seq(Position) :
              /\ pc' = [pc EXCEPT ![h] = s]
              /\ todo' = [todo EXCEPT ![h] = q]
              /\ Serves(s, arg[h].verb)
<1>1. arg[h] \in RequestType \cup {NoRequest}
  BY DEF IInv, TypeOK
<1>2. arg[h].verb # "confirm" => arg[h].lines \in Seq(Position)
  BY <1>1, RequestLemma
<1>3. <<>> \in Seq(Position)
  OBVIOUS
<1>4. CASE positions # <<>>
  BY <1>4 DEF CheckNext, Goto, Serves
<1>5. CASE positions = <<>> /\ arg[h].verb = "confirm"
  BY <1>3, <1>5 DEF CheckNext, Goto, Serves
<1>6. CASE positions = <<>> /\ arg[h].verb # "confirm"
  BY <1>2, <1>6 DEF CheckNext, Goto, Serves
<1> QED  BY <1>4, <1>5, <1>6

LEMMA CheckAccountInv ==
    ASSUME IInv, NEW h \in Handlers, CheckAccount(h)
    PROVE  IInv'
<1> DEFINE p == Head(todo[h])
           s == IF p.cc = NoCC THEN "period" ELSE "cost_center"
<1>1. pc[h] = "account" /\ UNCHANGED usable
  BY DEF CheckAccount, Within
<1>2. CASE \E code \in ReplyCodes : Refuse(h, code)
  BY <1>1, <1>2, RefuseLemma
<1>3. CASE Goto(h, s) /\ Reads(h) /\ UNCHANGED <<hdr, todo>>
  <2>1. /\ pc' = [pc EXCEPT ![h] = s] /\ s \in Statements
        /\ hdr' = [hdr EXCEPT ![h] = hdr[h]] /\ hdr[h] \in BudgetRow \cup {NoBudget}
        /\ todo' = [todo EXCEPT ![h] = todo[h]] /\ todo[h] \in Seq(Position)
    BY <1>1, <1>3 DEF IInv, TypeOK, Goto, Statements
  <2>2. Serves(s, arg[h].verb) /\ Anchored(s, arg[h], hdr[h])
    BY <1>1 DEF IInv, TypeOK, Serves, Anchored
  <2> QED  BY <1>1, <1>3, <2>1, <2>2, MoveLemma DEF Reads
<1> QED  BY <1>2, <1>3 DEF CheckAccount, ReplyCodes

LEMMA CheckCostCenterInv ==
    ASSUME IInv, NEW h \in Handlers, CheckCostCenter(h)
    PROVE  IInv'
<1>1. pc[h] = "cost_center" /\ UNCHANGED usable
  BY DEF CheckCostCenter, Within
<1>2. CASE Refuse(h, "budget_cost_center_invalid")
  BY <1>1, <1>2, RefuseLemma DEF ReplyCodes
<1>3. CASE Goto(h, "period") /\ Reads(h) /\ UNCHANGED <<hdr, todo>>
  <2>1. /\ pc' = [pc EXCEPT ![h] = "period"] /\ "period" \in Statements
        /\ hdr' = [hdr EXCEPT ![h] = hdr[h]] /\ hdr[h] \in BudgetRow \cup {NoBudget}
        /\ todo' = [todo EXCEPT ![h] = todo[h]] /\ todo[h] \in Seq(Position)
    BY <1>1, <1>3 DEF IInv, TypeOK, Goto, Statements
  <2>2. Serves("period", arg[h].verb) /\ Anchored("period", arg[h], hdr[h])
    BY <1>1 DEF IInv, TypeOK, Serves, Anchored
  <2> QED  BY <1>1, <1>3, <2>1, <2>2, MoveLemma DEF Reads
<1> QED  BY <1>2, <1>3 DEF CheckCostCenter

LEMMA CheckPeriodInv ==
    ASSUME IInv, NEW h \in Handlers, CheckPeriod(h)
    PROVE  IInv'
<1>1. pc[h] = "period" /\ UNCHANGED usable
  BY DEF CheckPeriod, Within
<1>2. CASE Refuse(h, "budget_period_invalid")
  BY <1>1, <1>2, RefuseLemma DEF ReplyCodes
<1>3. CASE Goto(h, "key") /\ Reads(h) /\ UNCHANGED <<hdr, todo>>
  <2>1. /\ pc' = [pc EXCEPT ![h] = "key"] /\ "key" \in Statements
        /\ hdr' = [hdr EXCEPT ![h] = hdr[h]] /\ hdr[h] \in BudgetRow \cup {NoBudget}
        /\ todo' = [todo EXCEPT ![h] = todo[h]] /\ todo[h] \in Seq(Position)
    BY <1>1, <1>3 DEF IInv, TypeOK, Goto, Statements
  <2>2. Serves("key", arg[h].verb) /\ Anchored("key", arg[h], hdr[h])
    BY <1>1 DEF IInv, TypeOK, Serves, Anchored
  <2> QED  BY <1>1, <1>3, <2>1, <2>2, MoveLemma DEF Reads
<1> QED  BY <1>2, <1>3 DEF CheckPeriod

(* What a handler remembers stays anchored when the check of a position    *)
(* is over.                                                                *)
LEMMA CheckKeyInv ==
    ASSUME IInv, NEW h \in Handlers, CheckKey(h)
    PROVE  IInv'
<1>1. pc[h] = "key" /\ todo[h] # <<>> /\ UNCHANGED usable
  BY DEF CheckKey, Within
<1>2. CASE Refuse(h, "budget_coverage_conflict")
  BY <1>1, <1>2, RefuseLemma DEF ReplyCodes
<1>3. CASE CheckNext(h, Tail(todo[h])) /\ Reads(h) /\ UNCHANGED hdr
  <2>1. Tail(todo[h]) \in Seq(Position)
    BY <1>1, HeadTailProperties DEF IInv, TypeOK
  <2>2. arg[h].verb \in {"create", "add_line", "confirm"}
    BY <1>1 DEF IInv, TypeOK, Serves
  <2>3. PICK s \in {"account", "insert", "cas"}, q \in Seq(Position) :
              /\ pc' = [pc EXCEPT ![h] = s]
              /\ todo' = [todo EXCEPT ![h] = q]
              /\ Serves(s, arg[h].verb)
    BY <1>3, <2>1, <2>2, CheckNextLemma
  <2>4. /\ hdr' = [hdr EXCEPT ![h] = hdr[h]] /\ hdr[h] \in BudgetRow \cup {NoBudget}
        /\ s \in Statements /\ Anchored(s, arg[h], hdr[h])
    BY <1>1, <1>3 DEF IInv, TypeOK, Statements, Anchored
  <2> QED  BY <1>1, <1>3, <2>3, <2>4, MoveLemma DEF Reads
<1> QED  BY <1>2, <1>3 DEF CheckKey

(* The header a create mints is a draft row. *)
LEMMA CheckCodeInv ==
    ASSUME IInv, NEW h \in Handlers, CheckCode(h)
    PROVE  IInv'
<1> DEFINE r == arg[h]
<1>1. pc[h] = "code" /\ UNCHANGED usable /\ r.verb = "create"
  BY DEF CheckCode, IInv, TypeOK, Serves
<1>2. r \in CreateRequest
  BY <1>1, RequestLemma DEF IInv, TypeOK
<1>3. CASE \E code \in ReplyCodes : Refuse(h, code)
  BY <1>1, <1>3, RefuseLemma
<1>4. CASE /\ r.header.from <= r.header.to
           /\ hdr' = [hdr EXCEPT ![h] = DraftRow(r.header)]
           /\ CheckNext(h, r.lines) /\ Reads(h)
  <2>1. r.lines \in Seq(Position) /\ DraftRow(r.header) \in BudgetRow
    BY <1>2 DEF CreateRequest, NewHeader, DraftRow, BudgetRow, Statuses
  <2>2. PICK s \in {"account", "insert", "cas"}, q \in Seq(Position) :
              /\ pc' = [pc EXCEPT ![h] = s]
              /\ todo' = [todo EXCEPT ![h] = q]
              /\ Serves(s, arg[h].verb)
    BY <1>1, <1>4, <2>1, CheckNextLemma
  <2>3. s \in Statements /\ Anchored(s, arg[h], DraftRow(r.header))
    BY <1>1, <1>4, <2>1 DEF IInv, Statements, Anchored
  <2> QED  BY <1>1, <1>4, <2>1, <2>2, <2>3, MoveLemma DEF Reads
<1> QED  BY <1>3, <1>4 DEF CheckCode, ReplyCodes

LEMMA MintPeriodInv ==
    ASSUME IInv, NEW h \in Handlers, MintPeriod(h)
    PROVE  IInv'
<1>1. pc[h] = "insert" /\ todo[h] # <<>> /\ UNCHANGED usable
  BY DEF MintPeriod, Within
<1>2. CASE Refuse(h, "budget_period_invalid")
  BY <1>1, <1>2, RefuseLemma DEF ReplyCodes
<1>3. CASE /\ todo' = [todo EXCEPT ![h] = Tail(todo[h])]
           /\ Reads(h) /\ UNCHANGED <<pc, hdr>>
  <2>1. Tail(todo[h]) \in Seq(Position)
    BY <1>1, HeadTailProperties DEF IInv, TypeOK
  <2>2. /\ pc' = [pc EXCEPT ![h] = "insert"] /\ "insert" \in Statements
        /\ hdr' = [hdr EXCEPT ![h] = hdr[h]] /\ hdr[h] \in BudgetRow \cup {NoBudget}
    BY <1>1, <1>3 DEF IInv, TypeOK, Statements
  <2>3. Serves("insert", arg[h].verb) /\ Anchored("insert", arg[h], hdr[h])
    BY <1>1 DEF IInv, TypeOK
  <2> QED  BY <1>1, <1>3, <2>1, <2>2, <2>3, MoveLemma DEF Reads
<1> QED  BY <1>2, <1>3 DEF MintPeriod

(* The verbs that read the budget's row first. *)
LEMMA StartAddLineInv ==
    ASSUME IInv, NEW h \in Handlers, StartAddLine(h)
    PROVE  IInv'
<1> DEFINE r == arg[h]
<1>1. /\ pc[h] = "read" /\ r.verb = "add_line" /\ UNCHANGED usable
      /\ r \in AddLineRequest /\ r.lines \in Seq(Position) /\ r.budget \in BudgetIds
  BY RequestLemma DEF StartAddLine, ReadingRow, IInv, TypeOK
<1>2. CASE \E code \in ReplyCodes : Refuse(h, code)
  BY <1>1, <1>2, RefuseLemma
<1>3. CASE /\ Exists(r.budget) /\ hdr' = [hdr EXCEPT ![h] = Row(h)]
           /\ CheckNext(h, r.lines) /\ Reads(h)
  <2>1. PICK s \in {"account", "insert", "cas"}, q \in Seq(Position) :
              /\ pc' = [pc EXCEPT ![h] = s]
              /\ todo' = [todo EXCEPT ![h] = q]
              /\ Serves(s, arg[h].verb)
    BY <1>1, <1>3, CheckNextLemma
  <2>2. Row(h) \in BudgetRow
    BY <1>1, <1>3 DEF IInv, TypeOK, Row, Exists, NoBudget
  <2>3. s \in Statements /\ Anchored(s, arg[h], Row(h))
    BY <1>1, <1>3, <2>2 DEF Statements, Anchored
  <2> QED  BY <1>1, <1>3, <2>1, <2>2, <2>3, MoveLemma DEF Reads
<1> QED  BY <1>2, <1>3 DEF StartAddLine, NotFound, ReplyCodes

LEMMA StartEditLineInv ==
    ASSUME IInv, NEW h \in Handlers, StartEditLine(h)
    PROVE  IInv'
<1> DEFINE r == arg[h]
<1>1. pc[h] = "read" /\ r.verb \in {"update_line", "delete_line"} /\ UNCHANGED usable
  BY DEF StartEditLine, ReadingRow
<1>2. CASE \E code \in ReplyCodes : Refuse(h, code)
  BY <1>1, <1>2, RefuseLemma
<1>3. CASE /\ Exists(r.budget) /\ Goto(h, "edit") /\ Reads(h) /\ UNCHANGED <<hdr, todo>>
  <2>1. /\ pc' = [pc EXCEPT ![h] = "edit"] /\ "edit" \in Statements
        /\ hdr' = [hdr EXCEPT ![h] = hdr[h]] /\ hdr[h] \in BudgetRow \cup {NoBudget}
        /\ todo' = [todo EXCEPT ![h] = todo[h]] /\ todo[h] \in Seq(Position)
    BY <1>1, <1>3 DEF IInv, TypeOK, Goto, Statements
  <2>2. Serves("edit", arg[h].verb) /\ Anchored("edit", arg[h], hdr[h])
    BY <1>1, <1>3 DEF Serves, Anchored
  <2> QED  BY <1>1, <1>3, <2>1, <2>2, MoveLemma DEF Reads
<1>4. \/ \E code \in ReplyCodes : Refuse(h, code)
      \/ Exists(r.budget) /\ Goto(h, "edit") /\ Reads(h) /\ UNCHANGED <<hdr, todo>>
  BY DEF StartEditLine, NotFound, ReplyCodes
<1> QED  BY <1>2, <1>3, <1>4

LEMMA StartUpdateInv ==
    ASSUME IInv, NEW h \in Handlers, StartUpdate(h)
    PROVE  IInv'
<1> DEFINE r == arg[h]
           s == IF r.enforcement # Keep THEN "enforce" ELSE "patch"
<1>1. pc[h] = "read" /\ r.verb = "update" /\ UNCHANGED usable /\ r.budget \in BudgetIds
  BY RequestLemma DEF StartUpdate, ReadingRow, IInv, TypeOK
<1>2. CASE \E code \in ReplyCodes : Refuse(h, code)
  BY <1>1, <1>2, RefuseLemma
<1>3. CASE /\ Exists(r.budget) /\ hdr' = [hdr EXCEPT ![h] = Row(h)]
           /\ Goto(h, s) /\ Reads(h) /\ UNCHANGED todo
  <2>1. Row(h) \in BudgetRow
    BY <1>1, <1>3 DEF IInv, TypeOK, Row, Exists, NoBudget
  <2>2. /\ pc' = [pc EXCEPT ![h] = s] /\ s \in Statements
        /\ todo' = [todo EXCEPT ![h] = todo[h]] /\ todo[h] \in Seq(Position)
    BY <1>1, <1>3 DEF IInv, TypeOK, Goto, Statements
  <2>3. Serves(s, arg[h].verb) /\ Anchored(s, arg[h], Row(h))
    BY <1>1, <1>3, <2>1 DEF Serves, Anchored
  <2> QED  BY <1>1, <1>3, <2>1, <2>2, <2>3, MoveLemma DEF Reads
<1>4. \/ \E code \in ReplyCodes : Refuse(h, code)
      \/ /\ Exists(r.budget) /\ hdr' = [hdr EXCEPT ![h] = Row(h)]
         /\ Goto(h, s) /\ Reads(h) /\ UNCHANGED todo
  BY DEF StartUpdate, NotFound, ReplyCodes
<1> QED  BY <1>2, <1>3, <1>4

LEMMA StartTransitionInv ==
    ASSUME IInv, NEW h \in Handlers, StartTransition(h)
    PROVE  IInv'
<1> DEFINE r == arg[h]
           s == IF r.verb = "confirm" THEN "lines" ELSE "cas"
<1>1. /\ pc[h] = "read" /\ r.verb \in {"confirm", "close", "cancel"}
      /\ UNCHANGED usable /\ r.budget \in BudgetIds
  BY RequestLemma DEF StartTransition, ReadingRow, IInv, TypeOK, Verbs
<1>2. CASE \E code \in ReplyCodes : Refuse(h, code)
  BY <1>1, <1>2, RefuseLemma
<1>3. CASE /\ Row(h).status \in AllowedFrom(r.verb)
           /\ hdr' = [hdr EXCEPT ![h] = Row(h)]
           /\ Goto(h, s) /\ Reads(h) /\ UNCHANGED todo
  <2>1. Row(h) \in BudgetRow /\ Exists(r.budget)
    <3>1. Row(h).status # "absent"
      BY <1>1, <1>3 DEF AllowedFrom
    <3> QED  BY <1>1, <3>1 DEF IInv, TypeOK, Row, Exists, NoBudget
  <2>2. /\ pc' = [pc EXCEPT ![h] = s] /\ s \in Statements
        /\ todo' = [todo EXCEPT ![h] = todo[h]] /\ todo[h] \in Seq(Position)
    BY <1>1, <1>3 DEF IInv, TypeOK, Goto, Statements
  <2>3. Serves(s, arg[h].verb) /\ Anchored(s, arg[h], Row(h))
    BY <1>1, <1>3, <2>1 DEF Serves, Anchored
  <2> QED  BY <1>1, <1>3, <2>1, <2>2, <2>3, MoveLemma DEF Reads
<1> QED  BY <1>2, <1>3 DEF StartTransition, NotFound, ReplyCodes

(* The positions confirm validates are those of live lines. *)
LEMMA LineListsLemma ==
    ASSUME IInv, NEW b \in BudgetIds, NEW order \in LineLists(b)
    PROVE  [i \in DOMAIN order |-> Candidate(order[i])] \in Seq(Position)
<1>1. IsFiniteSet(LiveLines(b))
  BY FiniteAssumption, FS_Subset DEF LiveLines
<1>2. Cardinality(LiveLines(b)) \in Nat
  BY <1>1, FS_CardinalityType
<1>3. ASSUME NEW l \in LiveLines(b) PROVE Candidate(l) \in Position
  BY DEF IInv, TypeOK, LiveLines, IsLive, Candidate, LineRow, NoLine, Position
<1>4. order \in [1 .. Cardinality(LiveLines(b)) -> LiveLines(b)]
  BY DEF LineLists
<1>5. [i \in DOMAIN order |-> Candidate(order[i])]
         \in [1 .. Cardinality(LiveLines(b)) -> Position]
  BY <1>3, <1>4
<1> QED  BY <1>2, <1>5, SeqDef

LEMMA ReadLinesInv ==
    ASSUME IInv, NEW h \in Handlers, ReadLines(h)
    PROVE  IInv'
<1> DEFINE r == arg[h]
<1>1. pc[h] = "lines" /\ UNCHANGED usable /\ r.verb = "confirm" /\ r.budget \in BudgetIds
  BY RequestLemma DEF ReadLines, IInv, TypeOK, Serves, Verbs
<1>2. CASE Refuse(h, "budget_no_lines")
  BY <1>1, <1>2, RefuseLemma DEF ReplyCodes
<1>3. CASE /\ \E order \in LineLists(r.budget) :
                 CheckNext(h, [i \in DOMAIN order |-> Candidate(order[i])])
           /\ Reads(h) /\ UNCHANGED hdr
  <2>1. PICK order \in LineLists(r.budget) :
           CheckNext(h, [i \in DOMAIN order |-> Candidate(order[i])])
    BY <1>3
  <2>2. PICK s \in {"account", "insert", "cas"}, q \in Seq(Position) :
              /\ pc' = [pc EXCEPT ![h] = s]
              /\ todo' = [todo EXCEPT ![h] = q]
              /\ Serves(s, arg[h].verb)
    BY <1>1, <2>1, LineListsLemma, CheckNextLemma
  <2>3. /\ hdr' = [hdr EXCEPT ![h] = hdr[h]] /\ hdr[h] \in BudgetRow \cup {NoBudget}
        /\ s \in Statements /\ Anchored(s, arg[h], hdr[h])
    BY <1>1, <1>3 DEF IInv, TypeOK, Statements, Anchored
  <2> QED  BY <1>1, <1>3, <2>2, <2>3, MoveLemma DEF Reads
<1> QED  BY <1>2, <1>3 DEF ReadLines

(* The commits. *)
LEMMA CommitInsertInv ==
    ASSUME IInv, NEW h \in Handlers, CommitInsert(h)
    PROVE  IInv'
<1> DEFINE r == arg[h]
<1>1. /\ pc[h] = "insert" /\ UNCHANGED usable
      /\ r \in CreateRequest \cup AddLineRequest
      /\ r.budget \in BudgetIds /\ r.lines \in Seq(Position)
  BY RequestLemma DEF CommitInsert, IInv, TypeOK, Serves, Verbs
<1>2. CASE \E code \in ReplyCodes : Refuse(h, code)
  BY <1>1, <1>2, RefuseLemma
<1>3. CASE /\ budgets' = IF r.verb = "create"
                         THEN [budgets EXCEPT ![r.budget] = hdr[h]]
                         ELSE budgets
           /\ \E id \in [DOMAIN r.lines -> FreeLines] :
                 lines' = [l \in LineIds |->
                    IF \E i \in DOMAIN r.lines : id[i] = l
                    THEN NewRow(r.budget, r.lines[CHOOSE i \in DOMAIN r.lines : id[i] = l])
                    ELSE lines[l]]
           /\ Answer(h, "ok")
  <2>1. /\ hdr[h] \in BudgetRow
        /\ r.verb = "create" => /\ ~Exists(r.budget) /\ hdr[h] = DraftRow(r.header)
                                /\ r.header.from <= r.header.to
    BY <1>1 DEF IInv, TypeOK, Anchored, Serves
  <2>2. budgets' \in [BudgetIds -> BudgetRow \cup {NoBudget}]
    BY <1>3, <2>1 DEF IInv, TypeOK
  <2>3. lines' \in [LineIds -> LineRow \cup {NoLine}]
    <3>1. PICK id \in [DOMAIN r.lines -> FreeLines] :
             lines' = [l \in LineIds |->
                IF \E i \in DOMAIN r.lines : id[i] = l
                THEN NewRow(r.budget, r.lines[CHOOSE i \in DOMAIN r.lines : id[i] = l])
                ELSE lines[l]]
      BY <1>3
    <3>2. ASSUME NEW i \in DOMAIN r.lines PROVE NewRow(r.budget, r.lines[i]) \in LineRow
      <4>1. r.lines[i] \in Position
        BY <1>1, LenProperties, ElementOfSeq
      <4> QED  BY <1>1, <4>1 DEF NewRow, LineRow, Position, Stored
    <3>3. ASSUME NEW l \in LineIds, \E i \in DOMAIN r.lines : id[i] = l
          PROVE  (CHOOSE i \in DOMAIN r.lines : id[i] = l) \in DOMAIN r.lines
      BY <3>3
    <3> QED  BY <3>1, <3>2, <3>3 DEF IInv, TypeOK
  <2>4. \A b \in BudgetIds : Exists(b) => Exists(b)'
    BY <1>1, <1>3, <2>1 DEF IInv, TypeOK, Exists, DraftRow
  <2>5. ASSUME NEW g \in Handlers \ {h}, arg[g].verb = "create"
        PROVE  ~Exists(arg[g].budget)'
    <3>1. ~Exists(arg[g].budget) /\ UNCHANGED arg[g]
      BY <1>3, <2>5 DEF IInv, TypeOK, Anchored, Answer
    <3>2. r.verb = "create" => arg[g].budget # r.budget
      BY <2>5 DEF IInv, DistinctCreates
    <3> QED  BY <1>1, <1>3, <3>1, <3>2 DEF IInv, TypeOK, Exists
  <2>6. RangeOrdered'
    BY <1>1, <1>3, <2>1 DEF IInv, TypeOK, RangeOrdered, Exists, DraftRow
  <2> QED  BY <1>1, <1>3, <2>2, <2>3, <2>4, <2>5, <2>6, AnswerLemma DEF ReplyCodes
<1>4. \/ \E code \in ReplyCodes : Refuse(h, code)
      \/ /\ budgets' = IF r.verb = "create"
                       THEN [budgets EXCEPT ![r.budget] = hdr[h]]
                       ELSE budgets
         /\ \E id \in [DOMAIN r.lines -> FreeLines] :
               lines' = [l \in LineIds |->
                  IF \E i \in DOMAIN r.lines : id[i] = l
                  THEN NewRow(r.budget, r.lines[CHOOSE i \in DOMAIN r.lines : id[i] = l])
                  ELSE lines[l]]
         /\ Answer(h, "ok")
  <2>1. ClashCode(r) \in ReplyCodes
    BY DEF ClashCode, ReplyCodes
  <2> QED  BY <2>1 DEF CommitInsert, ReplyCodes
<1> QED  BY <1>2, <1>3, <1>4

(* What a commit on existing rows has to respect. *)
LEMMA HeaderCommitLemma ==
    ASSUME IInv, UNCHANGED <<lines, usable>>,
           NEW h \in Handlers, pc[h] # "idle", Answer(h, "ok"),
           NEW b \in BudgetIds, Exists(b),
           NEW row \in BudgetRow, row.from <= row.to,
           budgets' = [budgets EXCEPT ![b] = row]
    PROVE  IInv'
<1>1. row.status # "absent"
  BY DEF BudgetRow, Statuses
<1>2. /\ budgets' \in [BudgetIds -> BudgetRow \cup {NoBudget}]
      /\ lines' \in [LineIds -> LineRow \cup {NoLine}]
  BY DEF IInv, TypeOK
<1>3. \A c \in BudgetIds : Exists(c) => Exists(c)'
  BY <1>1 DEF IInv, TypeOK, Exists
<1>4. ASSUME NEW g \in Handlers \ {h}, arg[g].verb = "create"
      PROVE  ~Exists(arg[g].budget)'
  <2>1. ~Exists(arg[g].budget) /\ UNCHANGED arg[g]
    BY <1>4 DEF IInv, TypeOK, Anchored, Answer
  <2> QED  BY <2>1 DEF IInv, TypeOK, Exists
<1>5. RangeOrdered'
  BY DEF IInv, TypeOK, RangeOrdered, Exists
<1> QED  BY <1>2, <1>3, <1>4, <1>5, AnswerLemma DEF ReplyCodes

LEMMA EditLineInv ==
    ASSUME IInv, NEW h \in Handlers, EditLine(h)
    PROVE  IInv'
<1> DEFINE r == arg[h]
           edited == IF r.verb = "update_line"
                     THEN [lines[r.line] EXCEPT !.amount = Stored(r.amount)]
                     ELSE [lines[r.line] EXCEPT !.state = "deleted"]
<1>1. /\ pc[h] = "edit" /\ UNCHANGED usable
      /\ r.verb \in {"update_line", "delete_line"} /\ r.line \in LineIds
      /\ r.verb = "update_line" => r.amount \in Int
  <2>1. pc[h] = "edit" /\ UNCHANGED usable /\ r.verb \in {"update_line", "delete_line"}
    BY DEF EditLine, IInv, TypeOK, Serves
  <2>2. \/ r.verb = "update_line" /\ r \in UpdateLineRequest
        \/ r.verb = "delete_line" /\ r \in DeleteLineRequest
    BY <2>1, RequestLemma DEF IInv, TypeOK
  <2> QED  BY <2>1, <2>2 DEF UpdateLineRequest, DeleteLineRequest
<1>2. CASE Refuse(h, "budget_line_not_found")
  BY <1>1, <1>2, RefuseLemma DEF ReplyCodes
<1>3. CASE /\ LineOf(r) /\ lines' = [lines EXCEPT ![r.line] = edited]
           /\ Answer(h, "ok") /\ UNCHANGED budgets
  <2>1. lines[r.line] \in LineRow
    BY <1>1, <1>3 DEF IInv, TypeOK, LineOf, LiveLines, IsLive, NoLine
  <2>2. edited \in LineRow
    BY <1>1, <2>1 DEF LineRow, Stored
  <2>3. /\ budgets' \in [BudgetIds -> BudgetRow \cup {NoBudget}]
        /\ lines' \in [LineIds -> LineRow \cup {NoLine}]
    BY <1>3, <2>2 DEF IInv, TypeOK
  <2>4. /\ \A b \in BudgetIds : Exists(b) => Exists(b)'
        /\ RangeOrdered'
    BY <1>3 DEF IInv, RangeOrdered, Exists
  <2>5. \A g \in Handlers \ {h} : arg[g].verb = "create" => ~Exists(arg[g].budget)'
    BY <1>3 DEF IInv, TypeOK, Anchored, Exists, Answer
  <2> QED  BY <1>1, <1>3, <2>3, <2>4, <2>5, AnswerLemma DEF ReplyCodes
<1> QED  BY <1>2, <1>3 DEF EditLine


LEMMA UpdateEnforcementInv ==
    ASSUME IInv, NEW h \in Handlers, UpdateEnforcement(h)
    PROVE  IInv'
<1> DEFINE r == arg[h]
           row == [Row(h) EXCEPT !.enforcement = r.enforcement]
<1>1. pc[h] = "enforce" /\ UNCHANGED <<lines, usable>> /\ Answer(h, "ok")
  BY DEF UpdateEnforcement
<1>2. r.verb = "update" /\ r \in UpdateRequest /\ r.budget \in BudgetIds
  BY <1>1, RequestLemma DEF IInv, TypeOK, Serves, Verbs
<1>3. Exists(r.budget) /\ r.enforcement # Keep
  BY <1>1, <1>2 DEF IInv, Anchored
<1>4. Row(h) \in BudgetRow /\ Row(h).from <= Row(h).to
  BY <1>2, <1>3 DEF IInv, TypeOK, RangeOrdered, Row, Exists, NoBudget
<1>5. row \in BudgetRow /\ row.from <= row.to
  BY <1>2, <1>3, <1>4 DEF BudgetRow, UpdateRequest
<1>6. budgets' = [budgets EXCEPT ![r.budget] = row]
  BY <1>2 DEF UpdateEnforcement, Row
<1> QED  BY <1>1, <1>2, <1>3, <1>5, <1>6, HeaderCommitLemma

LEMMA UpdateHeaderInv ==
    ASSUME IInv, NEW h \in Handlers, UpdateHeader(h)
    PROVE  IInv'
<1> DEFINE r == arg[h]
<1>1. pc[h] = "patch" /\ UNCHANGED usable
  BY DEF UpdateHeader
<1>2. r.verb = "update" /\ r \in UpdateRequest /\ r.budget \in BudgetIds
  BY <1>1, RequestLemma DEF IInv, TypeOK, Serves, Verbs
<1>3. CASE \E code \in ReplyCodes : Refuse(h, code)
  BY <1>1, <1>3, RefuseLemma
<1>4. CASE /\ NewFrom(h) <= NewTo(h) /\ Row(h).status = "draft"
           /\ budgets' = [budgets EXCEPT ![r.budget] = Patched(h)]
           /\ Answer(h, "ok") /\ UNCHANGED lines
  <2>1. Exists(r.budget) /\ Row(h) \in BudgetRow
    BY <1>2, <1>4 DEF IInv, TypeOK, Row, Exists, NoBudget
  <2>2. hdr[h] \in BudgetRow
    BY <1>1 DEF IInv, Anchored
  <2>3. NewFrom(h) \in Dates /\ NewTo(h) \in Dates
    BY <1>2, <2>2 DEF NewFrom, NewTo, BudgetRow, UpdateRequest
  <2>4. PatchedDescription(h) \in Descriptions \cup {Null}
    BY <1>2, <2>1 DEF PatchedDescription, BudgetRow, UpdateRequest
  <2>5. Patched(h) \in BudgetRow /\ Patched(h).from <= Patched(h).to
    BY <1>4, <2>1, <2>3, <2>4 DEF Patched, BudgetRow
  <2> QED  BY <1>1, <1>2, <1>4, <2>1, <2>5, HeaderCommitLemma
<1>5. \/ \E code \in ReplyCodes : Refuse(h, code)
      \/ /\ NewFrom(h) <= NewTo(h) /\ Row(h).status = "draft"
         /\ budgets' = [budgets EXCEPT ![r.budget] = Patched(h)]
         /\ Answer(h, "ok") /\ UNCHANGED lines
  BY DEF UpdateHeader, ReplyCodes
<1> QED  BY <1>3, <1>4, <1>5

LEMMA CompareAndSetInv ==
    ASSUME IInv, NEW h \in Handlers, CompareAndSet(h)
    PROVE  IInv'
<1> DEFINE r == arg[h]
           row == [Row(h) EXCEPT !.status = Target(r.verb)]
<1>1. /\ pc[h] = "cas" /\ UNCHANGED usable /\ r.budget \in BudgetIds
      /\ r.verb \in {"confirm", "close", "cancel"}
  BY RequestLemma DEF CompareAndSet, IInv, TypeOK, Serves, Verbs
<1>2. CASE \E code \in ReplyCodes : Refuse(h, code)
  BY <1>1, <1>2, RefuseLemma
<1>3. CASE /\ Matches(h)
           /\ budgets' = [budgets EXCEPT ![r.budget].status = Target(r.verb)]
           /\ Answer(h, "ok") /\ UNCHANGED lines
  <2>1. Exists(r.budget)
    BY <1>1 DEF IInv, Anchored
  <2>2. Row(h) \in BudgetRow /\ Row(h).from <= Row(h).to
    BY <1>1, <2>1 DEF IInv, TypeOK, RangeOrdered, Row, Exists, NoBudget
  <2>3. Target(r.verb) \in Statuses
    BY DEF Target, Statuses
  <2>4. row \in BudgetRow /\ row.from <= row.to
    BY <2>2, <2>3 DEF BudgetRow
  <2>5. budgets' = [budgets EXCEPT ![r.budget] = row]
    BY <1>1, <1>3 DEF Row
  <2> QED  BY <1>1, <1>3, <2>1, <2>4, <2>5, HeaderCommitLemma
<1>4. \/ \E code \in ReplyCodes : Refuse(h, code)
      \/ /\ Matches(h)
         /\ budgets' = [budgets EXCEPT ![r.budget].status = Target(r.verb)]
         /\ Answer(h, "ok") /\ UNCHANGED lines
  BY DEF CompareAndSet, ReplyCodes
<1> QED  BY <1>2, <1>3, <1>4

LEMMA BeginInv ==
    ASSUME IInv, NEW h \in Handlers, Begin(h)
    PROVE  IInv'
<1>1. PICK r \in Requests :
         /\ Fresh(r) /\ arg' = [arg EXCEPT ![h] = r]
         /\ pc' = [pc EXCEPT ![h] = IF r.verb = "create" THEN "code" ELSE "read"]
  BY DEF Begin, Goto
<1>2. UNCHANGED <<budgets, lines, usable, hdr, todo>> /\ reply' = [reply EXCEPT ![h] = NoReply]
  BY DEF Begin
<1>3. r \in RequestType
  BY RequestsAssumption
<1>4. r.verb \in Verbs
  BY <1>3 DEF RequestType, CreateRequest, UpdateRequest, AddLineRequest,
              UpdateLineRequest, DeleteLineRequest, TransitionRequest, Verbs
<1>5. TypeOK'
  BY <1>1, <1>2, <1>3, <1>4 DEF IInv, TypeOK, Serves, Statements, Verbs
<1>6. DistinctCreates'
  BY <1>1, <1>2 DEF IInv, TypeOK, DistinctCreates, Fresh
<1>7. Anchored(pc[h], arg[h], hdr[h])'
  BY <1>1, <1>2 DEF IInv, TypeOK, Anchored, Fresh, Exists
<1>8. ASSUME NEW g \in Handlers \ {h} PROVE Anchored(pc[g], arg[g], hdr[g])'
  BY <1>1, <1>2 DEF IInv, TypeOK, Anchored, Exists
<1>9. RangeOrdered'
  BY <1>2 DEF IInv, RangeOrdered, Exists
<1> QED  BY <1>5, <1>6, <1>7, <1>8, <1>9 DEF IInv

LEMMA ChangeMasterInv ==
    ASSUME IInv, ChangeMaster
    PROVE  IInv'
<1>1. UNCHANGED <<budgets, lines, pc, arg, hdr, todo, reply>>
  BY DEF ChangeMaster, db, local
<1>2. usable' \subseteq Masters
  BY VolatileAssumption DEF ChangeMaster, IInv, TypeOK
<1>3. TypeOK'
  BY <1>1, <1>2 DEF IInv, TypeOK
<1> QED  BY <1>1, <1>3 DEF IInv, DistinctCreates, Anchored, RangeOrdered, Exists

LEMMA InitIInv == Init => IInv
<1>1. <<>> \in Seq(Position)
  BY EmptySeq
<1> QED  BY <1>1 DEF Init, IInv, TypeOK, DistinctCreates, Anchored, RangeOrdered, Serves,
                     Statements, NoBudget, NoRequest, Exists

LEMMA NextIInv == IInv /\ [Next]_vars => IInv'
<1> SUFFICES ASSUME IInv, [Next]_vars PROVE IInv'
  OBVIOUS
<1>1. CASE UNCHANGED vars
  BY <1>1 DEF vars, IInv, TypeOK, DistinctCreates, Anchored, RangeOrdered, Exists
<1>2. ASSUME NEW h \in Handlers, Step(h) PROVE IInv'
  BY <1>2, CheckAccountInv, CheckCostCenterInv, CheckPeriodInv, CheckKeyInv,
     CheckCodeInv, MintPeriodInv, CommitInsertInv, StartAddLineInv,
     StartEditLineInv, EditLineInv, StartUpdateInv, UpdateEnforcementInv,
     UpdateHeaderInv, StartTransitionInv, ReadLinesInv, CompareAndSetInv DEF Step
<1>3. ASSUME NEW h \in Handlers, Abort(h) PROVE IInv'
  BY <1>3, RefuseLemma DEF Abort, ReplyCodes
<1> QED  BY <1>1, <1>2, <1>3, BeginInv, ChangeMasterInv DEF Next

LEMMA InvariantHolds == Spec => []IInv
  BY InitIInv, NextIInv, PTL DEF Spec

(* Rows, requests and what handlers remember keep their types, and every   *)
(* handler is at a statement of the verb it serves, for every number of    *)
(* handlers and every interleaving of their transactions.                  *)
THEOREM TypeCorrect == Spec => []TypeOK
<1>1. IInv => TypeOK
  BY DEF IInv
<1> QED  BY <1>1, InvariantHolds, PTL

(* Patches that race never leave a header whose date range is reversed:    *)
(* update_budget writes the pair of dates it compared.                     *)
THEOREM RangeStaysOrdered == Spec => []RangeOrdered
<1>1. IInv => RangeOrdered
  BY DEF IInv
<1> QED  BY <1>1, InvariantHolds, PTL

(***************************************************************************)
(* The history of a line.                                                  *)
(***************************************************************************)
(* Every statement that is not one of the four commits leaves the rows     *)
(* alone.                                                                  *)
LEMMA OnlyCommitsWrite ==
    ASSUME [Next]_vars
    PROVE  \/ UNCHANGED <<budgets, lines>>
           \/ \E h \in Handlers : \/ CommitInsert(h) \/ EditLine(h) \/ UpdateEnforcement(h)
                                  \/ UpdateHeader(h) \/ CompareAndSet(h)
<1> USE DEF Reads, Refuse, db
<1>1. CASE UNCHANGED vars
  BY <1>1 DEF vars
<1>2. CASE ChangeMaster
  BY <1>2 DEF ChangeMaster
<1>3. ASSUME NEW h \in Handlers,
             \/ Begin(h) \/ Abort(h) \/ CheckAccount(h) \/ CheckCostCenter(h)
             \/ CheckPeriod(h) \/ CheckKey(h) \/ CheckCode(h) \/ MintPeriod(h)
      PROVE  UNCHANGED <<budgets, lines>>
  BY <1>3 DEF Begin, Abort, CheckAccount, CheckCostCenter, CheckPeriod, CheckKey,
              CheckCode, MintPeriod
<1>4. ASSUME NEW h \in Handlers,
             \/ StartAddLine(h) \/ StartEditLine(h) \/ StartUpdate(h)
             \/ StartTransition(h) \/ ReadLines(h)
      PROVE  UNCHANGED <<budgets, lines>>
  BY <1>4 DEF StartAddLine, StartEditLine, StartUpdate, StartTransition, ReadLines, NotFound
<1> QED  BY <1>1, <1>2, <1>3, <1>4 DEF Next, Step

LEMMA InsertKeepsHistory ==
    ASSUME IInv, NEW h \in Handlers, CommitInsert(h)
    PROVE  KeepsHistory
<1> DEFINE r == arg[h]
<1>1. CASE UNCHANGED lines
  BY <1>1 DEF KeepsHistory
<1>2. CASE \E id \in [DOMAIN r.lines -> FreeLines] :
              lines' = [l \in LineIds |->
                 IF \E i \in DOMAIN r.lines : id[i] = l
                 THEN NewRow(r.budget, r.lines[CHOOSE i \in DOMAIN r.lines : id[i] = l])
                 ELSE lines[l]]
  <2>1. ASSUME NEW l \in LineIds, lines[l] # NoLine PROVE lines'[l] = lines[l]
    BY <1>2, <2>1 DEF FreeLines
  <2> QED  BY <2>1 DEF KeepsHistory
<1> QED  BY <1>1, <1>2 DEF CommitInsert, Refuse, db

LEMMA EditKeepsHistory ==
    ASSUME IInv, NEW h \in Handlers, EditLine(h)
    PROVE  KeepsHistory
<1> DEFINE r == arg[h]
           edited == IF r.verb = "update_line"
                     THEN [lines[r.line] EXCEPT !.amount = Stored(r.amount)]
                     ELSE [lines[r.line] EXCEPT !.state = "deleted"]
<1>1. CASE UNCHANGED lines
  BY <1>1 DEF KeepsHistory
<1>2. CASE LineOf(r) /\ lines' = [lines EXCEPT ![r.line] = edited]
  <2>1. r.line \in LineIds /\ lines[r.line] \in LineRow /\ lines[r.line].state = "live"
    BY <1>2 DEF IInv, TypeOK, LineOf, LiveLines, IsLive, NoLine
  <2>2. /\ edited.budget = lines[r.line].budget /\ Key(edited) = Key(lines[r.line])
        /\ edited.state # "absent"
    BY <2>1 DEF LineRow, Key
  <2>3. edited # NoLine
    BY <2>2 DEF NoLine
  <2>4. ASSUME NEW l \in LineIds
        PROVE  lines'[l] = IF l = r.line THEN edited ELSE lines[l]
    BY <1>2, <2>1 DEF IInv, TypeOK
  <2> QED  BY <2>1, <2>2, <2>3, <2>4 DEF KeepsHistory
<1> QED  BY <1>1, <1>2 DEF EditLine, Refuse, db

(* Whatever races, a line keeps its budget and its control key for ever,   *)
(* and a deleted line is never written again.                              *)
THEOREM LineHistoryKept == Spec => LineHistory
<1>1. ASSUME IInv, [Next]_vars PROVE [KeepsHistory]_vars
  <2>1. CASE UNCHANGED lines
    BY <2>1 DEF KeepsHistory
  <2>2. ASSUME NEW h \in Handlers,
               UpdateEnforcement(h) \/ UpdateHeader(h) \/ CompareAndSet(h)
        PROVE  UNCHANGED lines
    BY <2>2 DEF UpdateEnforcement, UpdateHeader, CompareAndSet, Refuse, db
  <2> QED  BY <1>1, <2>1, <2>2, OnlyCommitsWrite, InsertKeepsHistory, EditKeepsHistory
<1> QED  BY <1>1, InvariantHolds, PTL DEF Spec, LineHistory

(***************************************************************************)
(* The workflow implements the lifecycle.                                  *)
(***************************************************************************)
(* The abstract state is a function of the rows. *)
LEMMA SameRowsStutter ==
    ASSUME UNCHANGED budgets
    PROVE  UNCHANGED Lifecycle!vars
BY DEF Lifecycle!vars, StatusMap, PlanMap, Exists

(* The abstract state of a budget is that of its row; a commit that        *)
(* changes one header shows in the abstract state of that header only.     *)
LEMMA HeaderMaps ==
    ASSUME NEW b \in BudgetIds
    PROVE  /\ StatusMap[b] = budgets[b].status
           /\ Exists(b) => PlanMap[b] = PlanOf(budgets[b])
           /\ [StatusMap EXCEPT ![b] = StatusMap[b]] = StatusMap
           /\ [PlanMap EXCEPT ![b] = PlanMap[b]] = PlanMap
BY DEF StatusMap, PlanMap

LEMMA OneHeader ==
    ASSUME IInv, NEW b \in BudgetIds, NEW row \in BudgetRow,
           budgets' = [budgets EXCEPT ![b] = row]
    PROVE  /\ StatusMap' = [StatusMap EXCEPT ![b] = row.status]
           /\ PlanMap' = [PlanMap EXCEPT ![b] = PlanOf(row)]
<1>1. row.status # "absent"
  BY DEF BudgetRow, Statuses
<1> QED  BY <1>1 DEF IInv, TypeOK, Exists, StatusMap, PlanMap, PlanOf

LEMMA OrderedPlanOf ==
    ASSUME NEW row \in BudgetRow, row.from <= row.to
    PROVE  PlanOf(row) \in OrderedPlans
BY DEF PlanOf, OrderedPlans, BudgetRow

LEMMA InsertCreates ==
    ASSUME IInv, NEW h \in Handlers, CommitInsert(h)
    PROVE  UNCHANGED budgets \/ Lifecycle!Next
<1> DEFINE r == arg[h]
<1>1. /\ r \in CreateRequest \cup AddLineRequest /\ r.budget \in BudgetIds
      /\ hdr[h] \in BudgetRow
      /\ r.verb = "create" => /\ ~Exists(r.budget) /\ hdr[h] = DraftRow(r.header)
                              /\ r.header.from <= r.header.to
  BY RequestLemma DEF CommitInsert, IInv, TypeOK, Anchored, Serves, Verbs
<1>2. CASE UNCHANGED budgets
  BY <1>2
<1>3. CASE r.verb = "create" /\ budgets' = [budgets EXCEPT ![r.budget] = hdr[h]]
  <2>1. hdr[h].status = "draft" /\ hdr[h].from <= hdr[h].to
    BY <1>1, <1>3 DEF DraftRow
  <2>2. StatusMap[r.budget] = "absent"
    BY <1>1, <1>3, HeaderMaps DEF Exists
  <2>3. /\ StatusMap' = [StatusMap EXCEPT ![r.budget] = "draft"]
        /\ PlanMap' = [PlanMap EXCEPT ![r.budget] = PlanOf(hdr[h])]
    BY <1>1, <1>3, <2>1, OneHeader
  <2>4. PlanOf(hdr[h]) \in OrderedPlans
    BY <1>1, <2>1, OrderedPlanOf
  <2>5. Lifecycle!Create(r.budget)
    BY <2>2, <2>3, <2>4 DEF Lifecycle!Create
  <2> QED  BY <1>1, <2>5 DEF Lifecycle!Next
<1> QED  BY <1>2, <1>3 DEF CommitInsert, Refuse, db

LEMMA EnforcementStutters ==
    ASSUME IInv, NEW h \in Handlers, UpdateEnforcement(h)
    PROVE  UNCHANGED Lifecycle!vars
<1> DEFINE b == arg[h].budget
           row == [budgets[b] EXCEPT !.enforcement = arg[h].enforcement]
<1>1. arg[h] \in UpdateRequest /\ b \in BudgetIds /\ Exists(b) /\ arg[h].enforcement # Keep
  BY RequestLemma DEF UpdateEnforcement, IInv, TypeOK, Anchored, Serves, Verbs
<1>2. budgets[b] \in BudgetRow
  BY <1>1 DEF IInv, TypeOK, Exists, NoBudget
<1>3. row \in BudgetRow
  BY <1>1, <1>2 DEF BudgetRow, UpdateRequest
<1>4. budgets' = [budgets EXCEPT ![b] = row]
  BY DEF UpdateEnforcement
<1>5. row.status = StatusMap[b] /\ PlanOf(row) = PlanMap[b]
  BY <1>1, <1>2, HeaderMaps DEF BudgetRow, PlanOf
<1>6. UNCHANGED StatusMap /\ UNCHANGED PlanMap
  <2>1. /\ StatusMap' = [StatusMap EXCEPT ![b] = row.status]
        /\ PlanMap' = [PlanMap EXCEPT ![b] = PlanOf(row)]
    BY <1>1, <1>3, <1>4, OneHeader
  <2>2. /\ [StatusMap EXCEPT ![b] = StatusMap[b]] = StatusMap
        /\ [PlanMap EXCEPT ![b] = PlanMap[b]] = PlanMap
    BY <1>1, HeaderMaps
  <2> QED  BY <1>5, <2>1, <2>2
<1> QED  BY <1>6 DEF Lifecycle!vars

LEMMA PatchRevises ==
    ASSUME IInv, NEW h \in Handlers, UpdateHeader(h)
    PROVE  UNCHANGED budgets \/ Lifecycle!Next
<1> DEFINE b == arg[h].budget
<1>1. arg[h] \in UpdateRequest /\ b \in BudgetIds /\ hdr[h] \in BudgetRow
  BY RequestLemma DEF UpdateHeader, IInv, TypeOK, Anchored, Serves, Verbs
<1>2. CASE UNCHANGED budgets
  BY <1>2
<1>3. CASE /\ NewFrom(h) <= NewTo(h) /\ Row(h).status = "draft"
           /\ budgets' = [budgets EXCEPT ![b] = Patched(h)]
  <2>1. Row(h) \in BudgetRow /\ Exists(b)
    BY <1>1, <1>3 DEF IInv, TypeOK, Row, Exists, NoBudget
  <2>2. NewFrom(h) \in Dates /\ NewTo(h) \in Dates
    BY <1>1 DEF NewFrom, NewTo, BudgetRow, UpdateRequest
  <2>3. PatchedDescription(h) \in Descriptions \cup {Null}
    BY <1>1, <2>1 DEF PatchedDescription, BudgetRow, UpdateRequest
  <2>4. /\ Patched(h) \in BudgetRow /\ Patched(h).status = "draft"
        /\ Patched(h).code = budgets[b].code /\ Patched(h).year = budgets[b].year
        /\ Patched(h).from <= Patched(h).to
    BY <1>3, <2>1, <2>2, <2>3 DEF Patched, BudgetRow, Row
  <2>5. StatusMap[b] = "draft" /\ PlanMap[b] = PlanOf(budgets[b])
    BY <1>1, <1>3, <2>1, HeaderMaps DEF Row
  <2>6. UNCHANGED StatusMap /\ PlanMap' = [PlanMap EXCEPT ![b] = PlanOf(Patched(h))]
    <3>1. /\ StatusMap' = [StatusMap EXCEPT ![b] = Patched(h).status]
          /\ PlanMap' = [PlanMap EXCEPT ![b] = PlanOf(Patched(h))]
      BY <1>1, <1>3, <2>4, OneHeader
    <3>2. [StatusMap EXCEPT ![b] = StatusMap[b]] = StatusMap
      BY <1>1, HeaderMaps
    <3> QED  BY <2>4, <2>5, <3>1, <3>2
  <2>7. PlanOf(Patched(h)) \in OrderedPlans
    BY <2>4, OrderedPlanOf
  <2>8. PlanOf(Patched(h)).code = PlanMap[b].code /\ PlanOf(Patched(h)).year = PlanMap[b].year
    BY <2>4, <2>5 DEF PlanOf
  <2>9. Lifecycle!Revise(b)
    BY <2>5, <2>6, <2>7, <2>8 DEF Lifecycle!Revise
  <2> QED  BY <1>1, <2>9 DEF Lifecycle!Next
<1> QED  BY <1>2, <1>3 DEF UpdateHeader, Refuse, db

(* The compare-and-set fires on the status that was read, which the verb   *)
(* accepts: the header takes an edge of the lifecycle.                     *)
LEMMA TransitionMoves ==
    ASSUME IInv, NEW h \in Handlers, CompareAndSet(h)
    PROVE  UNCHANGED budgets \/ Lifecycle!Next
<1> DEFINE verb == arg[h].verb
           b == arg[h].budget
           row == [budgets[b] EXCEPT !.status = Target(verb)]
<1>1. /\ b \in BudgetIds /\ Exists(b) /\ verb \in {"confirm", "close", "cancel"}
      /\ hdr[h].status \in AllowedFrom(verb)
  BY RequestLemma DEF CompareAndSet, IInv, TypeOK, Anchored, Serves, Verbs
<1>2. CASE UNCHANGED budgets
  BY <1>2
<1>3. CASE Matches(h) /\ budgets' = [budgets EXCEPT ![b].status = Target(verb)]
  <2>1. budgets[b] \in BudgetRow /\ StatusMap[b] \in AllowedFrom(verb)
    BY <1>1, <1>3, HeaderMaps DEF IInv, TypeOK, Matches, Row, Exists, NoBudget
  <2>2. row \in BudgetRow /\ row.status = Target(verb)
    BY <2>1 DEF BudgetRow, Target, Statuses
  <2>3. PlanOf(row) = PlanMap[b]
    BY <1>1, <2>1, HeaderMaps DEF BudgetRow, PlanOf
  <2>4. budgets' = [budgets EXCEPT ![b] = row]
    BY <1>3
  <2>5. StatusMap' = [StatusMap EXCEPT ![b] = Target(verb)] /\ UNCHANGED PlanMap
    <3>1. /\ StatusMap' = [StatusMap EXCEPT ![b] = row.status]
          /\ PlanMap' = [PlanMap EXCEPT ![b] = PlanOf(row)]
      BY <1>1, <2>2, <2>4, OneHeader
    <3>2. [PlanMap EXCEPT ![b] = PlanMap[b]] = PlanMap
      BY <1>1, HeaderMaps
    <3> QED  BY <2>2, <2>3, <3>1, <3>2
  <2>6. CASE verb = "confirm"
    <3>1. Lifecycle!Move(b, {"draft"}, "confirmed")
      BY <2>1, <2>5, <2>6 DEF Lifecycle!Move, AllowedFrom, Target
    <3> QED  BY <1>1, <3>1 DEF Lifecycle!Next
  <2>7. CASE verb = "close"
    <3>1. Lifecycle!Move(b, {"confirmed"}, "closed")
      BY <2>1, <2>5, <2>7 DEF Lifecycle!Move, AllowedFrom, Target
    <3> QED  BY <1>1, <3>1 DEF Lifecycle!Next
  <2>8. CASE verb = "cancel"
    <3>1. Lifecycle!Move(b, {"draft", "confirmed"}, "cancelled")
      BY <2>1, <2>5, <2>8 DEF Lifecycle!Move, AllowedFrom, Target
    <3> QED  BY <1>1, <3>1 DEF Lifecycle!Next
  <2> QED  BY <1>1, <2>6, <2>7, <2>8
<1> QED  BY <1>2, <1>3 DEF CompareAndSet, Refuse, db

(* The write path, with its transactions interleaved statement by          *)
(* statement, implements the lifecycle of a budget: one edge at a time,    *)
(* closed and cancelled final, the plan revised in a draft only.           *)
THEOREM Implements == Spec => ImplementsLifecycle
<1>1. Init => Lifecycle!Init
  BY DEF Init, Lifecycle!Init, StatusMap, PlanMap, NoBudget, Exists
<1>2. ASSUME IInv, [Next]_vars PROVE [Lifecycle!Next]_(Lifecycle!vars)
  <2>1. CASE UNCHANGED budgets
    BY <2>1, SameRowsStutter
  <2>2. ASSUME NEW h \in Handlers, EditLine(h) PROVE UNCHANGED budgets
    BY <2>2 DEF EditLine, Refuse, db
  <2> QED  BY <1>2, <2>1, <2>2, OnlyCommitsWrite, InsertCreates, PatchRevises,
              EnforcementStutters, TransitionMoves
<1> QED  BY <1>1, <1>2, InvariantHolds, PTL DEF Spec, ImplementsLifecycle, Lifecycle!Spec

=============================================================================
