------------------------- MODULE BudgetSerialProofs -------------------------
(***************************************************************************)
(* What the workflow keeps when requests are served one at a time.  The    *)
(* guards of a verb are statements of their own, so the theorems need to   *)
(* know what a verb half-way through has judged: Judged says it, and with  *)
(* one handler nobody changes the rows before the verb's last statement.   *)
(***************************************************************************)
EXTENDS BudgetDecoratedProofs

OneHandler == \A g, h \in Handlers : g = h

Checks == {"account", "cost_center", "period", "key"}

Left(position, q) == \E j \in DOMAIN q : q[j] = position

LineFits(l, header) == lines[l].amount > 0 /\ PeriodFits(lines[l].period, header)

(* The header a verb compares is the row's.  The positions that create and *)
(* add_line insert hold free keys, and the lines confirm blesses fit,      *)
(* except for those that are still to be checked.                          *)
JudgedRow(s, r, header) ==
    /\ s \notin {"idle", "read", "code", "edit"} /\ r.verb # "create" =>
          header = budgets[r.budget]
    /\ s = "edit" \/ (r.verb = "add_line" /\ s # "read") =>
          budgets[r.budget].status = "draft"
    /\ s = "enforce" => budgets[r.budget].status \in {"draft", "confirmed"}
    /\ r.verb = "create" /\ s # "code" => ~CodeTaken(r.header.code, r.budget)

JudgedInserts(s, r, q) ==
    r.verb \in {"create", "add_line"} /\ s \in Checks \cup {"insert"} =>
        \A i \in DOMAIN r.lines :
            \/ ~KeyTaken(Key(r.lines[i]), r.budget)
            \/ s # "insert" /\ Left(r.lines[i], q)

JudgedLines(s, r, header, q) ==
    r.verb = "confirm" /\ s \in Checks \cup {"cas"} =>
        /\ LiveLines(r.budget) # {}
        /\ \A l \in LiveLines(r.budget) :
              LineFits(l, header) \/ (s # "cas" /\ Left(Candidate(l), q))
        /\ s \in {"cost_center", "period", "key"} => Head(q).amount > 0
        /\ s = "key" => PeriodFits(Head(q).period, header)

Judged(s, r, header, q) ==
    JudgedRow(s, r, header) /\ JudgedInserts(s, r, q) /\ JudgedLines(s, r, header, q)

SerialInv ==
    /\ \A h \in Handlers : Judged(pc[h], arg[h], hdr[h], todo[h])
    /\ KeysDisjoint /\ OneBudgetPerCode /\ ConfirmedPositionsFit

(* A verb that only reads moves to a statement whose judgement holds now.  *)
LEMMA SerialMove ==
    ASSUME OneHandler, IInv, SerialInv, UNCHANGED <<budgets, lines>>, NEW h \in Handlers,
           NEW s, pc'[h] = s, NEW r, arg'[h] = r,
           NEW row, hdr'[h] = row, NEW q, todo'[h] = q,
           Judged(s, r, row, q)
    PROVE  SerialInv'
<1>1. \A g \in Handlers : g = h
  BY DEF OneHandler
<1>2. Judged(s, r, row, q)'
  BY DEF Judged, JudgedRow, JudgedInserts, JudgedLines, CodeTaken, KeyTaken, LiveLines,
         IsLive, LineFits, Candidate, Exists
<1>3. \A g \in Handlers : Judged(pc[g], arg[g], hdr[g], todo[g])'
  BY <1>1, <1>2
<1>4. (KeysDisjoint /\ OneBudgetPerCode /\ ConfirmedPositionsFit)'
  BY DEF SerialInv, KeysDisjoint, OneBudgetPerCode, ConfirmedPositionsFit, LiveLines,
         IsLive, Exists, Key
<1> QED  BY <1>3, <1>4 DEF SerialInv

(* A verb that is over has judged nothing. *)
LEMMA SerialAnswer ==
    ASSUME OneHandler, IInv, NEW h \in Handlers, NEW code, Answer(h, code),
           KeysDisjoint', OneBudgetPerCode', ConfirmedPositionsFit'
    PROVE  SerialInv'
<1>1. \A g \in Handlers : g = h
  BY DEF OneHandler
<1>2. /\ pc'[h] = "idle" /\ arg'[h] = NoRequest
      /\ hdr'[h] = NoBudget /\ todo'[h] = <<>>
  BY DEF Answer, IInv, TypeOK
<1>3. Judged(pc[h], arg[h], hdr[h], todo[h])'
  BY <1>2 DEF Judged, JudgedRow, JudgedInserts, JudgedLines, NoRequest
<1> QED  BY <1>1, <1>3 DEF SerialInv

LEMMA SerialRefuse ==
    ASSUME OneHandler, IInv, SerialInv, NEW h \in Handlers, NEW code, Refuse(h, code)
    PROVE  SerialInv'
<1>1. UNCHANGED <<budgets, lines>> /\ Answer(h, code)
  BY DEF Refuse, db
<1>2. (KeysDisjoint /\ OneBudgetPerCode /\ ConfirmedPositionsFit)'
  BY <1>1 DEF SerialInv, KeysDisjoint, OneBudgetPerCode, ConfirmedPositionsFit, LiveLines,
              IsLive, Exists, Key
<1> QED  BY <1>1, <1>2, SerialAnswer

(* What is left to check is checked; when nothing is left, everything is   *)
(* judged, and the last statement of the verb may rely on it.              *)
LEMMA SerialCheckNext ==
    ASSUME OneHandler, IInv, SerialInv, NEW h \in Handlers,
           arg[h].verb \in {"create", "add_line", "confirm"},
           NEW positions \in Seq(Position), CheckNext(h, positions), Reads(h),
           NEW row, hdr'[h] = row,
           Judged("account", arg[h], row, positions)
    PROVE  SerialInv'
<1>1. UNCHANGED <<budgets, lines>> /\ arg'[h] = arg[h]
  BY DEF Reads
<1>2. CASE positions # <<>>
  <2>1. pc'[h] = "account" /\ todo'[h] = positions
    BY <1>2 DEF CheckNext, Goto, IInv, TypeOK
  <2> QED  BY <1>1, <2>1, SerialMove
<1>3. CASE positions = <<>>
  <2>1. \A position : ~Left(position, positions)
    BY <1>3 DEF Left
  <2>2. CASE arg[h].verb = "confirm"
    <3>1. pc'[h] = "cas" /\ todo'[h] = <<>>
      BY <1>3, <2>2 DEF CheckNext, Goto, IInv, TypeOK
    <3>2. Judged("cas", arg[h], row, <<>>)
      BY <1>3, <2>1, <2>2 DEF Judged, JudgedRow, JudgedInserts, JudgedLines, Checks
    <3> QED  BY <1>1, <3>1, <3>2, SerialMove
  <2>3. CASE arg[h].verb # "confirm"
    <3>1. pc'[h] = "insert" /\ todo'[h] = arg[h].lines
      BY <1>3, <2>3 DEF CheckNext, Goto, IInv, TypeOK
    <3>2. Judged("insert", arg[h], row, arg[h].lines)
      BY <2>1, <2>3 DEF Judged, JudgedRow, JudgedInserts, JudgedLines, Checks
    <3> QED  BY <1>1, <3>1, <3>2, SerialMove
  <2> QED  BY <2>2, <2>3
<1> QED  BY <1>2, <1>3

(***************************************************************************)
(* The guard matrix.                                                       *)
(***************************************************************************)
LEMMA CheckAccountSerial ==
    ASSUME OneHandler, IInv, SerialInv, NEW h \in Handlers, CheckAccount(h)
    PROVE  SerialInv'
<1> DEFINE p == Head(todo[h])
           s == IF p.cc = NoCC THEN "period" ELSE "cost_center"
<1>1. CASE \E code \in ReplyCodes : Refuse(h, code)
  BY <1>1, SerialRefuse
<1>2. CASE p.amount > 0 /\ Goto(h, s) /\ Reads(h) /\ UNCHANGED <<hdr, todo>>
  <2>1. /\ UNCHANGED <<budgets, lines>> /\ pc[h] = "account"
        /\ pc'[h] = s /\ arg'[h] = arg[h] /\ hdr'[h] = hdr[h] /\ todo'[h] = todo[h]
    BY <1>2 DEF CheckAccount, Within, Goto, Reads, IInv, TypeOK
  <2>2. Judged("account", arg[h], hdr[h], todo[h]) /\ s \in {"cost_center", "period"}
    BY <2>1 DEF SerialInv
  <2>3. Judged(s, arg[h], hdr[h], todo[h])
    BY <1>2, <2>2 DEF Judged, JudgedRow, JudgedInserts, JudgedLines, Checks
  <2> QED  BY <2>1, <2>3, SerialMove
<1> QED  BY <1>1, <1>2 DEF CheckAccount, ReplyCodes

LEMMA CheckCostCenterSerial ==
    ASSUME OneHandler, IInv, SerialInv, NEW h \in Handlers, CheckCostCenter(h)
    PROVE  SerialInv'
<1>1. CASE Refuse(h, "budget_cost_center_invalid")
  BY <1>1, SerialRefuse
<1>2. CASE Goto(h, "period") /\ Reads(h) /\ UNCHANGED <<hdr, todo>>
  <2>1. /\ UNCHANGED <<budgets, lines>> /\ pc[h] = "cost_center"
        /\ pc'[h] = "period" /\ arg'[h] = arg[h] /\ hdr'[h] = hdr[h] /\ todo'[h] = todo[h]
    BY <1>2 DEF CheckCostCenter, Within, Goto, Reads, IInv, TypeOK
  <2>2. Judged("cost_center", arg[h], hdr[h], todo[h])
    BY <2>1 DEF SerialInv
  <2>3. Judged("period", arg[h], hdr[h], todo[h])
    BY <2>2 DEF Judged, JudgedRow, JudgedInserts, JudgedLines, Checks
  <2> QED  BY <2>1, <2>3, SerialMove
<1> QED  BY <1>1, <1>2 DEF CheckCostCenter

LEMMA CheckPeriodSerial ==
    ASSUME OneHandler, IInv, SerialInv, NEW h \in Handlers, CheckPeriod(h)
    PROVE  SerialInv'
<1>1. CASE Refuse(h, "budget_period_invalid")
  BY <1>1, SerialRefuse
<1>2. CASE /\ PeriodFits(Head(todo[h]).period, hdr[h])
           /\ Goto(h, "key") /\ Reads(h) /\ UNCHANGED <<hdr, todo>>
  <2>1. /\ UNCHANGED <<budgets, lines>> /\ pc[h] = "period"
        /\ pc'[h] = "key" /\ arg'[h] = arg[h] /\ hdr'[h] = hdr[h] /\ todo'[h] = todo[h]
    BY <1>2 DEF CheckPeriod, Within, Goto, Reads, IInv, TypeOK
  <2>2. Judged("period", arg[h], hdr[h], todo[h])
    BY <2>1 DEF SerialInv
  <2>3. Judged("key", arg[h], hdr[h], todo[h])
    BY <1>2, <2>2 DEF Judged, JudgedRow, JudgedInserts, JudgedLines, Checks
  <2> QED  BY <2>1, <2>3, SerialMove
<1> QED  BY <1>1, <1>2 DEF CheckPeriod

(* A position that is left is the one being checked or is left after it. *)
LEMMA LeftAfterHead ==
    ASSUME NEW S, NEW q \in Seq(S), q # <<>>, NEW position, Left(position, q),
           position # Head(q)
    PROVE  Left(position, Tail(q))
<1>1. PICK j \in 1 .. Len(q) : q[j] = position
  BY LenProperties DEF Left
<1>2. /\ Len(q) \in Nat /\ Len(Tail(q)) = Len(q) - 1
      /\ \A i \in 1 .. Len(Tail(q)) : Tail(q)[i] = q[i + 1]
      /\ DOMAIN Tail(q) = 1 .. Len(Tail(q)) /\ Head(q) = q[1]
  BY HeadTailProperties, LenProperties
<1>3. j # 1 /\ j - 1 \in 1 .. Len(Tail(q))
  BY <1>1, <1>2
<1>4. Tail(q)[j - 1] = position
  BY <1>1, <1>2, <1>3
<1> QED  BY <1>2, <1>3, <1>4 DEF Left

(* The key guard ends the check of a position: an inserted position that   *)
(* passed holds a free key, and a line confirm passed fits the header.     *)
LEMMA CheckKeySerial ==
    ASSUME OneHandler, IInv, SerialInv, NEW h \in Handlers, CheckKey(h)
    PROVE  SerialInv'
<1> DEFINE p == Head(todo[h])
           r == arg[h]
<1>1. CASE Refuse(h, "budget_coverage_conflict")
  BY <1>1, SerialRefuse
<1>2. CASE /\ ~KeyTaken(Key(p), r.budget)
           /\ CheckNext(h, Tail(todo[h])) /\ Reads(h) /\ UNCHANGED hdr
  <2>1. /\ pc[h] = "key" /\ todo[h] # <<>> /\ todo[h] \in Seq(Position)
        /\ r.verb \in {"create", "add_line", "confirm"} /\ hdr'[h] = hdr[h]
    BY <1>2 DEF CheckKey, Within, IInv, TypeOK, Serves
  <2>2. Tail(todo[h]) \in Seq(Position)
    BY <2>1, HeadTailProperties
  <2>3. Judged("key", r, hdr[h], todo[h])
    BY <2>1 DEF SerialInv
  <2>4. JudgedRow("account", r, hdr[h])
    BY <2>3 DEF Judged, JudgedRow
  <2>5. JudgedInserts("account", r, Tail(todo[h]))
    <3>1. SUFFICES ASSUME r.verb \in {"create", "add_line"}, NEW i \in DOMAIN r.lines,
                          KeyTaken(Key(r.lines[i]), r.budget)
                   PROVE  Left(r.lines[i], Tail(todo[h]))
      BY DEF JudgedInserts
    <3>2. Left(r.lines[i], todo[h])
      BY <2>3, <3>1 DEF Judged, JudgedInserts, Checks
    <3>3. r.lines[i] # p
      BY <1>2, <3>1
    <3> QED  BY <2>1, <3>2, <3>3, LeftAfterHead
  <2>6. JudgedLines("account", r, hdr[h], Tail(todo[h]))
    <3>1. SUFFICES ASSUME r.verb = "confirm"
                   PROVE  /\ LiveLines(r.budget) # {}
                          /\ \A l \in LiveLines(r.budget) :
                                LineFits(l, hdr[h]) \/ Left(Candidate(l), Tail(todo[h]))
      BY DEF JudgedLines
    <3>2. /\ LiveLines(r.budget) # {} /\ p.amount > 0 /\ PeriodFits(p.period, hdr[h])
          /\ \A l \in LiveLines(r.budget) : LineFits(l, hdr[h]) \/ Left(Candidate(l), todo[h])
      BY <2>3, <3>1 DEF Judged, JudgedLines, Checks
    <3>3. ASSUME NEW l \in LiveLines(r.budget), Candidate(l) = p PROVE LineFits(l, hdr[h])
      BY <3>2, <3>3 DEF Candidate, LineFits
    <3> QED  BY <2>1, <3>2, <3>3, LeftAfterHead
  <2> QED  BY <1>2, <2>1, <2>2, <2>4, <2>5, <2>6, SerialCheckNext DEF Judged
<1> QED  BY <1>1, <1>2 DEF CheckKey

(* Everything is left to check when the checks begin. *)
LEMMA AllLeft ==
    ASSUME NEW q, NEW i \in DOMAIN q
    PROVE  Left(q[i], q)
BY DEF Left

LEMMA CheckCodeSerial ==
    ASSUME OneHandler, IInv, SerialInv, NEW h \in Handlers, CheckCode(h)
    PROVE  SerialInv'
<1> DEFINE r == arg[h]
           row == DraftRow(r.header)
<1>1. CASE \E code \in ReplyCodes : Refuse(h, code)
  BY <1>1, SerialRefuse
<1>2. CASE /\ ~CodeTaken(r.header.code, r.budget)
           /\ hdr' = [hdr EXCEPT ![h] = row]
           /\ CheckNext(h, r.lines) /\ Reads(h)
  <2>1. r.verb = "create" /\ r.lines \in Seq(Position) /\ hdr'[h] = row
    BY <1>2, RequestLemma DEF CheckCode, IInv, TypeOK, Serves
  <2>2. Judged("account", r, row, r.lines)
    BY <1>2, <2>1, AllLeft DEF Judged, JudgedRow, JudgedInserts, JudgedLines
  <2> QED  BY <1>2, <2>1, <2>2, SerialCheckNext
<1> QED  BY <1>1, <1>2 DEF CheckCode, ReplyCodes

LEMMA MintPeriodSerial ==
    ASSUME OneHandler, IInv, SerialInv, NEW h \in Handlers, MintPeriod(h)
    PROVE  SerialInv'
<1>1. CASE Refuse(h, "budget_period_invalid")
  BY <1>1, SerialRefuse
<1>2. CASE /\ todo' = [todo EXCEPT ![h] = Tail(todo[h])]
           /\ Reads(h) /\ UNCHANGED <<pc, hdr>>
  <2>1. /\ UNCHANGED <<budgets, lines>> /\ pc[h] = "insert" /\ pc'[h] = "insert"
        /\ arg'[h] = arg[h] /\ hdr'[h] = hdr[h] /\ todo'[h] = Tail(todo[h])
    BY <1>2 DEF MintPeriod, Within, Reads, IInv, TypeOK
  <2>2. Judged("insert", arg[h], hdr[h], todo[h])
    BY <2>1 DEF SerialInv
  <2>3. Judged("insert", arg[h], hdr[h], Tail(todo[h]))
    BY <2>2 DEF Judged, JudgedRow, JudgedInserts, JudgedLines, Checks
  <2> QED  BY <2>1, <2>3, SerialMove
<1> QED  BY <1>1, <1>2 DEF MintPeriod

(***************************************************************************)
(* The statements that read the budget's row.                              *)
(***************************************************************************)
LEMMA StartAddLineSerial ==
    ASSUME OneHandler, IInv, SerialInv, NEW h \in Handlers, StartAddLine(h)
    PROVE  SerialInv'
<1> DEFINE r == arg[h]
<1>1. CASE \E code \in ReplyCodes : Refuse(h, code)
  BY <1>1, SerialRefuse
<1>2. CASE /\ Exists(r.budget) /\ ~NotDraft(h) /\ hdr' = [hdr EXCEPT ![h] = Row(h)]
           /\ CheckNext(h, r.lines) /\ Reads(h)
  <2>1. r.verb = "add_line" /\ r.lines \in Seq(Position) /\ hdr'[h] = Row(h)
    BY <1>2, RequestLemma DEF StartAddLine, ReadingRow, IInv, TypeOK
  <2>2. Row(h) = budgets[r.budget] /\ budgets[r.budget].status = "draft"
    BY <1>2 DEF Row, NotDraft
  <2>3. Judged("account", r, Row(h), r.lines)
    BY <2>1, <2>2, AllLeft DEF Judged, JudgedRow, JudgedInserts, JudgedLines
  <2> QED  BY <1>2, <2>1, <2>3, SerialCheckNext
<1> QED  BY <1>1, <1>2 DEF StartAddLine, NotFound, ReplyCodes

LEMMA StartEditLineSerial ==
    ASSUME OneHandler, IInv, SerialInv, NEW h \in Handlers, StartEditLine(h)
    PROVE  SerialInv'
<1> DEFINE r == arg[h]
<1>1. CASE \E code \in ReplyCodes : Refuse(h, code)
  BY <1>1, SerialRefuse
<1>2. CASE /\ Exists(r.budget) /\ ~NotDraft(h)
           /\ Goto(h, "edit") /\ Reads(h) /\ UNCHANGED <<hdr, todo>>
  <2>1. /\ UNCHANGED <<budgets, lines>> /\ r.verb \in {"update_line", "delete_line"}
        /\ pc'[h] = "edit" /\ arg'[h] = r /\ hdr'[h] = hdr[h] /\ todo'[h] = todo[h]
    BY <1>2 DEF StartEditLine, ReadingRow, Goto, Reads, IInv, TypeOK
  <2>2. budgets[r.budget].status = "draft"
    BY <1>2 DEF Row, NotDraft
  <2>3. Judged("edit", r, hdr[h], todo[h])
    BY <2>1, <2>2 DEF Judged, JudgedRow, JudgedInserts, JudgedLines
  <2> QED  BY <2>1, <2>3, SerialMove
<1>3. \/ \E code \in ReplyCodes : Refuse(h, code)
      \/ /\ Exists(r.budget) /\ ~NotDraft(h)
         /\ Goto(h, "edit") /\ Reads(h) /\ UNCHANGED <<hdr, todo>>
  BY DEF StartEditLine, NotFound, ReplyCodes
<1> QED  BY <1>1, <1>2, <1>3

LEMMA StartUpdateSerial ==
    ASSUME OneHandler, IInv, SerialInv, NEW h \in Handlers, StartUpdate(h)
    PROVE  SerialInv'
<1> DEFINE r == arg[h]
           s == IF r.enforcement # Keep THEN "enforce" ELSE "patch"
<1>1. CASE \E code \in ReplyCodes : Refuse(h, code)
  BY <1>1, SerialRefuse
<1>2. CASE /\ r.enforcement # Keep => PostureEditable(h)
           /\ hdr' = [hdr EXCEPT ![h] = Row(h)]
           /\ Goto(h, s) /\ Reads(h) /\ UNCHANGED todo
  <2>1. /\ UNCHANGED <<budgets, lines>> /\ r.verb = "update"
        /\ pc'[h] = s /\ arg'[h] = r /\ hdr'[h] = Row(h) /\ todo'[h] = todo[h]
    BY <1>2 DEF StartUpdate, ReadingRow, Goto, Reads, IInv, TypeOK
  <2>2. /\ Row(h) = budgets[r.budget]
        /\ s = "enforce" => budgets[r.budget].status \in {"draft", "confirmed"}
    BY <1>2 DEF Row, PostureEditable
  <2>3. Judged(s, r, Row(h), todo[h])
    BY <2>1, <2>2 DEF Judged, JudgedRow, JudgedInserts, JudgedLines
  <2> QED  BY <2>1, <2>3, SerialMove
<1>3. \/ \E code \in ReplyCodes : Refuse(h, code)
      \/ /\ r.enforcement # Keep => PostureEditable(h)
         /\ hdr' = [hdr EXCEPT ![h] = Row(h)]
         /\ Goto(h, s) /\ Reads(h) /\ UNCHANGED todo
  BY DEF StartUpdate, NotFound, ReplyCodes
<1> QED  BY <1>1, <1>2, <1>3

LEMMA StartTransitionSerial ==
    ASSUME OneHandler, IInv, SerialInv, NEW h \in Handlers, StartTransition(h)
    PROVE  SerialInv'
<1> DEFINE r == arg[h]
           s == IF r.verb = "confirm" THEN "lines" ELSE "cas"
<1>1. CASE \E code \in ReplyCodes : Refuse(h, code)
  BY <1>1, SerialRefuse
<1>2. CASE /\ hdr' = [hdr EXCEPT ![h] = Row(h)]
           /\ Goto(h, s) /\ Reads(h) /\ UNCHANGED todo
  <2>1. /\ UNCHANGED <<budgets, lines>> /\ r.verb \in {"confirm", "close", "cancel"}
        /\ pc'[h] = s /\ arg'[h] = r /\ hdr'[h] = Row(h) /\ todo'[h] = todo[h]
    BY <1>2 DEF StartTransition, ReadingRow, Goto, Reads, IInv, TypeOK
  <2>2. Judged(s, r, Row(h), todo[h])
    BY <2>1 DEF Row, Judged, JudgedRow, JudgedInserts, JudgedLines, Checks
  <2> QED  BY <2>1, <2>2, SerialMove
<1> QED  BY <1>1, <1>2 DEF StartTransition, NotFound, ReplyCodes

(* confirm reads every live line of its budget. *)
LEMMA EveryLineListed ==
    ASSUME NEW b \in BudgetIds, NEW order \in LineLists(b), NEW l \in LiveLines(b)
    PROVE  \E i \in DOMAIN order : order[i] = l
<1> DEFINE n == Cardinality(LiveLines(b))
           rest == LiveLines(b) \ {l}
<1>1. IsFiniteSet(LiveLines(b))
  BY FiniteAssumption, FS_Subset DEF LiveLines
<1>2. n \in Nat /\ IsFiniteSet(rest) /\ Cardinality(rest) = n - 1
  BY <1>1, FS_CardinalityType, FS_RemoveElement
<1>3. order \in [1 .. n -> LiveLines(b)] /\ \A i, j \in 1 .. n : order[i] = order[j] => i = j
  BY DEF LineLists
<1>4. IsFiniteSet(1 .. n) /\ Cardinality(1 .. n) = n
  BY <1>2, FS_Interval
<1>5. ASSUME \A i \in 1 .. n : order[i] # l PROVE FALSE
  <2>1. order \in [1 .. n -> rest]
    BY <1>3, <1>5
  <2>2. Cardinality(rest) < Cardinality(1 .. n)
    BY <1>2, <1>4
  <2>3. \E i, j \in 1 .. n : i # j /\ order[i] = order[j]
    BY <1>2, <1>4, <2>1, <2>2, FS_PigeonHole
  <2> QED  BY <1>3, <2>3
<1> QED  BY <1>3, <1>5

LEMMA ReadLinesSerial ==
    ASSUME OneHandler, IInv, SerialInv, NEW h \in Handlers, ReadLines(h)
    PROVE  SerialInv'
<1> DEFINE r == arg[h]
<1>1. CASE Refuse(h, "budget_no_lines")
  BY <1>1, SerialRefuse
<1>2. CASE /\ LiveLines(r.budget) # {}
           /\ \E order \in LineLists(r.budget) :
                 CheckNext(h, [i \in DOMAIN order |-> Candidate(order[i])])
           /\ Reads(h) /\ UNCHANGED hdr
  <2>1. r.verb = "confirm" /\ r.budget \in BudgetIds /\ pc[h] = "lines" /\ hdr'[h] = hdr[h]
    BY <1>2, RequestLemma DEF ReadLines, IInv, TypeOK, Serves, Verbs
  <2>2. PICK order \in LineLists(r.budget) :
           CheckNext(h, [i \in DOMAIN order |-> Candidate(order[i])])
    BY <1>2
  <2> DEFINE q == [i \in DOMAIN order |-> Candidate(order[i])]
  <2>3. q \in Seq(Position)
    BY <2>1, LineListsLemma
  <2>4. ASSUME NEW l \in LiveLines(r.budget) PROVE Left(Candidate(l), q)
    BY <2>1, EveryLineListed DEF Left
  <2>5. Judged("lines", r, hdr[h], todo[h])
    BY <2>1 DEF SerialInv
  <2>6. Judged("account", r, hdr[h], q)
    <3> HIDE DEF q
    <3> QED  BY <1>2, <2>1, <2>4, <2>5 DEF Judged, JudgedRow, JudgedInserts, JudgedLines
  <2> QED  BY <1>2, <2>1, <2>2, <2>3, <2>6, SerialCheckNext
<1> QED  BY <1>1, <1>2 DEF ReadLines

LEMMA BeginSerial ==
    ASSUME OneHandler, IInv, SerialInv, NEW h \in Handlers, Begin(h)
    PROVE  SerialInv'
<1>1. PICK r \in Requests :
         /\ arg' = [arg EXCEPT ![h] = r]
         /\ pc' = [pc EXCEPT ![h] = IF r.verb = "create" THEN "code" ELSE "read"]
  BY DEF Begin, Goto
<1>2. UNCHANGED <<budgets, lines, hdr, todo>>
  BY DEF Begin
<1> DEFINE s == IF r.verb = "create" THEN "code" ELSE "read"
<1>3. pc'[h] = s /\ arg'[h] = r
  BY <1>1 DEF IInv, TypeOK
<1>4. Judged(s, r, hdr[h], todo[h])
  BY DEF Judged, JudgedRow, JudgedInserts, JudgedLines, Checks
<1> QED  BY <1>2, <1>3, <1>4, SerialMove

(***************************************************************************)
(* The commits.                                                            *)
(***************************************************************************)
(* Every line that a commit writes is a line of budget b. *)
WritesLinesOf(b) ==
    \A l \in LineIds : lines'[l] # lines[l] =>
        /\ lines[l] # NoLine => lines[l].budget = b
        /\ lines'[l] # NoLine => lines'[l].budget = b

LEMMA InsertWritesOwn ==
    ASSUME IInv, NEW h \in Handlers, CommitInsert(h)
    PROVE  WritesLinesOf(arg[h].budget)
<1> DEFINE r == arg[h]
<1>1. CASE UNCHANGED lines
  BY <1>1 DEF WritesLinesOf
<1>2. CASE \E id \in [DOMAIN r.lines -> FreeLines] :
              \A l \in LineIds :
                 \/ lines'[l] = lines[l]
                 \/ \E i \in DOMAIN r.lines :
                       id[i] = l /\ lines'[l] = NewRow(r.budget, r.lines[i])
  <2>1. PICK id \in [DOMAIN r.lines -> FreeLines] :
           \A l \in LineIds :
              \/ lines'[l] = lines[l]
              \/ \E i \in DOMAIN r.lines :
                    id[i] = l /\ lines'[l] = NewRow(r.budget, r.lines[i])
    BY <1>2
  <2>2. ASSUME NEW i \in DOMAIN r.lines
        PROVE  lines[id[i]] = NoLine /\ NewRow(r.budget, r.lines[i]).budget = r.budget
    BY <2>1 DEF FreeLines, NewRow
  <2> QED  BY <2>1, <2>2 DEF WritesLinesOf
<1> QED  BY <1>1, <1>2, InsertedRows

LEMMA EditWritesOwn ==
    ASSUME IInv, NEW h \in Handlers, EditLine(h)
    PROVE  WritesLinesOf(arg[h].budget)
<1> DEFINE r == arg[h]
<1>1. CASE UNCHANGED lines
  BY <1>1 DEF WritesLinesOf
<1>2. CASE LineOf(r)
  <2>1. KeepsHistory
    BY EditKeepsHistory
  <2>2. ASSUME NEW l \in LineIds, lines'[l] # lines[l] PROVE l = r.line
    BY <2>2 DEF EditLine, Refuse, db, IInv, TypeOK
  <2>3. r.line \in LineIds /\ lines[r.line].budget = r.budget /\ lines[r.line] # NoLine
    BY <1>2 DEF LineOf, LiveLines, IsLive, NoLine
  <2>4. lines'[r.line].budget = r.budget
    BY <2>1, <2>3 DEF KeepsHistory
  <2> QED  BY <2>2, <2>3, <2>4 DEF WritesLinesOf
<1> QED  BY <1>1, <1>2 DEF EditLine, Refuse, db

(* A commit on a budget that it does not leave confirmed blesses nothing. *)
LEMMA FitsElsewhere ==
    ASSUME IInv, ConfirmedPositionsFit, NEW b \in BudgetIds, WritesLinesOf(b),
           \A c \in BudgetIds \ {b} : budgets'[c] = budgets[c],
           budgets'[b].status # "confirmed"
    PROVE  ConfirmedPositionsFit'
<1> SUFFICES ASSUME NEW c \in BudgetIds, budgets'[c].status = "confirmed"
             PROVE  /\ LiveLines(c)' # {}
                    /\ \A l \in LiveLines(c)' : /\ lines'[l].amount > 0
                                                /\ PeriodFits(lines'[l].period, budgets'[c])
  BY DEF ConfirmedPositionsFit, PeriodFits
<1>1. c # b /\ budgets'[c] = budgets[c]
  OBVIOUS
<1>2. /\ LiveLines(c) # {}
      /\ \A l \in LiveLines(c) : lines[l].amount > 0 /\ PeriodFits(lines[l].period, budgets[c])
  BY <1>1 DEF ConfirmedPositionsFit, Exists
<1>3. ASSUME NEW l \in LineIds, lines'[l] # lines[l]
      PROVE  l \notin LiveLines(c) /\ l \notin LiveLines(c)'
  BY <1>1, <1>3 DEF WritesLinesOf, LiveLines, IsLive, NoLine
<1>4. \A l \in LineIds : l \in LiveLines(c)' <=> l \in LiveLines(c)
  BY <1>3 DEF LiveLines, IsLive
<1>5. LiveLines(c)' = LiveLines(c)
  BY <1>4 DEF LiveLines
<1>6. \A l \in LiveLines(c) : lines'[l] = lines[l]
  BY <1>3 DEF LiveLines
<1> QED  BY <1>1, <1>2, <1>5, <1>6

(* The last statement of create and add_line puts the positions into a     *)
(* budget that is a draft, on keys that no other budget holds.             *)
LEMMA CommitInsertSerial ==
    ASSUME OneHandler, IInv, SerialInv, NEW h \in Handlers, CommitInsert(h)
    PROVE  SerialInv'
<1> DEFINE r == arg[h]
<1>1. CASE \E code \in ReplyCodes : Refuse(h, code)
  BY <1>1, SerialRefuse
<1>2. CASE Answer(h, "ok") /\ budgets' = IF r.verb = "create"
                                        THEN [budgets EXCEPT ![r.budget] = hdr[h]]
                                        ELSE budgets
  <2>1. /\ pc[h] = "insert" /\ r.verb \in {"create", "add_line"} /\ r.budget \in BudgetIds
        /\ r.verb = "create" => hdr[h] = DraftRow(r.header)
    BY RequestLemma DEF CommitInsert, IInv, TypeOK, Serves, Verbs, Anchored
  <2>2. Judged("insert", r, hdr[h], todo[h])
    BY <2>1 DEF SerialInv
  <2>3. \A c \in BudgetIds : budgets'[c] = IF r.verb = "create" /\ c = r.budget
                                           THEN hdr[h] ELSE budgets[c]
    BY <1>2 DEF IInv, TypeOK
  <2>4. KeysDisjoint'
    <3>1. \A i \in DOMAIN r.lines : ~KeyTaken(Key(r.lines[i]), r.budget)
      BY <2>1, <2>2 DEF Judged, JudgedInserts, Checks
    <3>2. CASE UNCHANGED lines
      BY <3>2 DEF SerialInv, KeysDisjoint, IsLive, Key
    <3>3. CASE \A l \in LineIds :
                  \/ lines'[l] = lines[l]
                  \/ \E i \in DOMAIN r.lines : lines'[l] = NewRow(r.budget, r.lines[i])
      <4>1. ASSUME NEW i \in DOMAIN r.lines
            PROVE  /\ NewRow(r.budget, r.lines[i]).budget = r.budget
                   /\ Key(NewRow(r.budget, r.lines[i])) = Key(r.lines[i])
        BY DEF NewRow, Key
      <4>2. SUFFICES ASSUME NEW l \in LineIds, NEW m \in LineIds, IsLive(l)', IsLive(m)',
                            lines'[l].budget # lines'[m].budget
                     PROVE  Key(lines'[l]) # Key(lines'[m])
        BY DEF KeysDisjoint, Key
      <4>3. CASE lines'[l] = lines[l] /\ lines'[m] = lines[m]
        BY <4>2, <4>3 DEF SerialInv, KeysDisjoint, IsLive
      <4>4. ASSUME lines'[l] = lines[l],
                   NEW i \in DOMAIN r.lines, lines'[m] = NewRow(r.budget, r.lines[i])
            PROVE  Key(lines'[l]) # Key(lines'[m])
        BY <3>1, <4>1, <4>2, <4>4 DEF KeyTaken, IsLive
      <4>5. ASSUME lines'[m] = lines[m],
                   NEW i \in DOMAIN r.lines, lines'[l] = NewRow(r.budget, r.lines[i])
            PROVE  Key(lines'[l]) # Key(lines'[m])
        BY <3>1, <4>1, <4>2, <4>5 DEF KeyTaken, IsLive
      <4>6. ASSUME NEW i \in DOMAIN r.lines, lines'[l] = NewRow(r.budget, r.lines[i]),
                   NEW j \in DOMAIN r.lines, lines'[m] = NewRow(r.budget, r.lines[j])
            PROVE  FALSE
        BY <4>1, <4>2, <4>6
      <4> QED  BY <3>3, <4>3, <4>4, <4>5, <4>6
    <3> QED  BY <3>2, <3>3, InsertedRows
  <2>5. OneBudgetPerCode'
    <3>1. r.verb = "create" => /\ ~CodeTaken(r.header.code, r.budget)
                               /\ hdr[h].code = r.header.code
      BY <2>1, <2>2 DEF Judged, JudgedRow, DraftRow
    <3> QED  BY <2>1, <2>3, <3>1 DEF SerialInv, OneBudgetPerCode, CodeTaken, Exists
  <2>6. budgets'[r.budget].status = "draft"
    BY <2>1, <2>2, <2>3 DEF Judged, JudgedRow, DraftRow
  <2>7. ConfirmedPositionsFit'
    BY <2>1, <2>3, <2>6, InsertWritesOwn, FitsElsewhere DEF SerialInv
  <2> QED  BY <1>2, <2>4, <2>5, <2>7, SerialAnswer
<1>3. ClashCode(r) \in ReplyCodes
  BY DEF ClashCode, ReplyCodes
<1> QED  BY <1>1, <1>2, <1>3 DEF CommitInsert

(* An edit finds its budget a draft. *)
LEMMA EditLineSerial ==
    ASSUME OneHandler, IInv, SerialInv, NEW h \in Handlers, EditLine(h)
    PROVE  SerialInv'
<1> DEFINE r == arg[h]
<1>1. CASE Refuse(h, "budget_line_not_found")
  BY <1>1, SerialRefuse
<1>2. CASE Answer(h, "ok") /\ UNCHANGED budgets
  <2>1. pc[h] = "edit" /\ r.budget \in BudgetIds
    BY RequestLemma DEF EditLine, IInv, TypeOK, Serves, Verbs
  <2>2. budgets[r.budget].status = "draft"
    BY <2>1 DEF SerialInv, Judged, JudgedRow
  <2>3. KeysDisjoint'
    <3>1. KeepsHistory
      BY EditKeepsHistory
    <3>2. ASSUME NEW l \in LineIds, IsLive(l)'
          PROVE  IsLive(l) /\ Key(lines'[l]) = Key(lines[l]) /\ lines'[l].budget = lines[l].budget
      BY <3>1, <3>2, EditRevivesNothing DEF Key, KeepsHistory, IsLive, NoLine
    <3> QED  BY <3>2 DEF SerialInv, KeysDisjoint, Key
  <2>4. OneBudgetPerCode'
    BY <1>2 DEF SerialInv, OneBudgetPerCode, Exists
  <2>5. ConfirmedPositionsFit'
    BY <1>2, <2>1, <2>2, EditWritesOwn, FitsElsewhere DEF SerialInv
  <2> QED  BY <1>2, <2>3, <2>4, <2>5, SerialAnswer
<1> QED  BY <1>1, <1>2 DEF EditLine

(* A commit on a header that changes neither its lines nor its code. *)
LEMMA HeaderSerial ==
    ASSUME OneHandler, IInv, SerialInv, NEW h \in Handlers,
           UpdateEnforcement(h) \/ UpdateHeader(h) \/ CompareAndSet(h),
           UNCHANGED lines, Answer(h, "ok"), ConfirmedPositionsFit'
    PROVE  SerialInv'
<1>1. KeysDisjoint'
  BY DEF SerialInv, KeysDisjoint, IsLive, Key
<1>2. OneBudgetPerCode'
  BY CommitsKeepCodes DEF SerialInv, OneBudgetPerCode
<1> QED  BY <1>1, <1>2, SerialAnswer

(* The posture says nothing about what a confirmed budget promises. *)
LEMMA UpdateEnforcementSerial ==
    ASSUME OneHandler, IInv, SerialInv, NEW h \in Handlers, UpdateEnforcement(h)
    PROVE  SerialInv'
<1> DEFINE b == arg[h].budget
<1>1. UNCHANGED lines /\ Answer(h, "ok")
  BY DEF UpdateEnforcement
<1>2. b \in BudgetIds /\ Exists(b)
  BY RequestLemma DEF UpdateEnforcement, IInv, TypeOK, Anchored, Serves, Verbs
<1>3. budgets[b] \in BudgetRow
  BY <1>2 DEF IInv, TypeOK, Exists, NoBudget
<1>4. budgets' = [budgets EXCEPT ![b].enforcement = arg[h].enforcement]
  BY DEF UpdateEnforcement
<1>5. ASSUME NEW c \in BudgetIds
      PROVE  /\ budgets'[c].status = budgets[c].status
             /\ budgets[c].status = "confirmed" =>
                   /\ budgets'[c].year = budgets[c].year
                   /\ budgets'[c].from = budgets[c].from
                   /\ budgets'[c].to = budgets[c].to
  BY <1>2, <1>3, <1>4 DEF IInv, TypeOK, BudgetRow
<1>6. ConfirmedPositionsFit'
  <2>1. SUFFICES ASSUME NEW c \in BudgetIds, budgets'[c].status = "confirmed"
                 PROVE  /\ LiveLines(c)' # {}
                        /\ \A l \in LiveLines(c)' :
                              lines'[l].amount > 0 /\ PeriodFits(lines'[l].period, budgets'[c])
    BY DEF ConfirmedPositionsFit, PeriodFits
  <2>2. /\ LiveLines(c) # {}
        /\ \A l \in LiveLines(c) : lines[l].amount > 0 /\ PeriodFits(lines[l].period, budgets[c])
    BY <1>5, <2>1 DEF SerialInv, ConfirmedPositionsFit, Exists
  <2>3. LiveLines(c)' = LiveLines(c)
    BY <1>1 DEF LiveLines, IsLive
  <2> QED  BY <1>1, <1>5, <2>1, <2>2, <2>3 DEF PeriodFits
<1> QED  BY <1>1, <1>6, HeaderSerial

(* A patched header is a draft. *)
LEMMA UpdateHeaderSerial ==
    ASSUME OneHandler, IInv, SerialInv, NEW h \in Handlers, UpdateHeader(h)
    PROVE  SerialInv'
<1> DEFINE b == arg[h].budget
<1>1. CASE \E code \in ReplyCodes : Refuse(h, code)
  BY <1>1, SerialRefuse
<1>2. CASE /\ Row(h).status = "draft" /\ budgets' = [budgets EXCEPT ![b] = Patched(h)]
           /\ Answer(h, "ok") /\ UNCHANGED lines
  <2>1. b \in BudgetIds
    BY RequestLemma DEF UpdateHeader, IInv, TypeOK, Serves, Verbs
  <2>2. Row(h) \in BudgetRow
    BY <1>2, <2>1 DEF IInv, TypeOK, Row, NoBudget
  <2>3. Patched(h).status = "draft"
    BY <1>2, <2>2 DEF Patched, BudgetRow
  <2>4. /\ budgets'[b].status = "draft"
        /\ \A c \in BudgetIds \ {b} : budgets'[c] = budgets[c]
    BY <1>2, <2>1, <2>3 DEF IInv, TypeOK
  <2>5. WritesLinesOf(b)
    BY <1>2 DEF WritesLinesOf
  <2>6. ConfirmedPositionsFit'
    BY <2>1, <2>4, <2>5, FitsElsewhere DEF SerialInv
  <2> QED  BY <1>2, <2>6, HeaderSerial
<1> QED  BY <1>1, <1>2 DEF UpdateHeader, ReplyCodes

(* confirm has judged every live line against the header it leaves.        *)
LEMMA CompareAndSetSerial ==
    ASSUME OneHandler, IInv, SerialInv, NEW h \in Handlers, CompareAndSet(h)
    PROVE  SerialInv'
<1> DEFINE r == arg[h]
           b == r.budget
<1>1. CASE \E code \in ReplyCodes : Refuse(h, code)
  BY <1>1, SerialRefuse
<1>2. CASE /\ budgets' = [budgets EXCEPT ![b].status = Target(r.verb)]
           /\ Answer(h, "ok") /\ UNCHANGED lines
  <2>1. /\ pc[h] = "cas" /\ b \in BudgetIds /\ Exists(b)
        /\ r.verb \in {"confirm", "close", "cancel"}
    BY RequestLemma DEF CompareAndSet, IInv, TypeOK, Anchored, Serves, Verbs
  <2>2. budgets[b] \in BudgetRow
    BY <2>1 DEF IInv, TypeOK, Exists, NoBudget
  <2>3. /\ budgets'[b].status = Target(r.verb)
        /\ budgets'[b].year = budgets[b].year
        /\ budgets'[b].from = budgets[b].from /\ budgets'[b].to = budgets[b].to
        /\ \A c \in BudgetIds \ {b} : budgets'[c] = budgets[c]
    BY <1>2, <2>1, <2>2 DEF IInv, TypeOK, BudgetRow
  <2>4. WritesLinesOf(b)
    BY <1>2 DEF WritesLinesOf
  <2>5. CASE r.verb # "confirm"
    <3>1. budgets'[b].status # "confirmed"
      BY <2>1, <2>3, <2>5 DEF Target
    <3>2. ConfirmedPositionsFit'
      BY <2>1, <2>3, <2>4, <3>1, FitsElsewhere DEF SerialInv
    <3> QED  BY <1>2, <3>2, HeaderSerial
  <2>6. CASE r.verb = "confirm"
    <3>1. /\ hdr[h] = budgets[b] /\ LiveLines(b) # {}
          /\ \A l \in LiveLines(b) : lines[l].amount > 0 /\ PeriodFits(lines[l].period, budgets[b])
      BY <2>1, <2>6 DEF SerialInv, Judged, JudgedRow, JudgedLines, LineFits, Checks
    <3>2. \A c \in BudgetIds : LiveLines(c)' = LiveLines(c)
      BY <1>2 DEF LiveLines, IsLive
    <3>3. ASSUME NEW c \in BudgetIds, budgets'[c].status = "confirmed"
          PROVE  /\ LiveLines(c) # {}
                 /\ \A l \in LiveLines(c) :
                       lines[l].amount > 0 /\ PeriodFits(lines[l].period, budgets'[c])
      <4>1. CASE c = b
        BY <2>3, <3>1, <4>1 DEF PeriodFits
      <4>2. CASE c # b
        BY <2>3, <3>3, <4>2 DEF SerialInv, ConfirmedPositionsFit, Exists
      <4> QED  BY <4>1, <4>2
    <3>4. ConfirmedPositionsFit'
      BY <1>2, <3>2, <3>3 DEF ConfirmedPositionsFit, PeriodFits
    <3> QED  BY <1>2, <3>4, HeaderSerial
  <2> QED  BY <2>5, <2>6
<1> QED  BY <1>1, <1>2 DEF CompareAndSet, ReplyCodes

LEMMA InitSerial == Init => SerialInv
BY DEF Init, SerialInv, Judged, JudgedRow, JudgedInserts, JudgedLines, NoRequest,
       KeysDisjoint, OneBudgetPerCode, ConfirmedPositionsFit, IsLive, NoLine, Exists, NoBudget

LEMMA NextSerial == OneHandler /\ IInv /\ SerialInv /\ [Next]_vars => SerialInv'
<1> SUFFICES ASSUME OneHandler, IInv, SerialInv, [Next]_vars PROVE SerialInv'
  OBVIOUS
<1>1. CASE UNCHANGED <<budgets, lines, pc, arg, hdr, todo>>
  <2>1. ASSUME NEW h \in Handlers PROVE SerialInv'
    BY <1>1, SerialMove DEF SerialInv
  <2>2. CASE Handlers = {}
    BY <1>1, <2>2 DEF SerialInv, KeysDisjoint, OneBudgetPerCode, ConfirmedPositionsFit,
                      LiveLines, IsLive, Exists, Key
  <2> QED  BY <2>1, <2>2
<1>2. ASSUME NEW h \in Handlers, Step(h) PROVE SerialInv'
  BY <1>2, CheckAccountSerial, CheckCostCenterSerial, CheckPeriodSerial, CheckKeySerial,
     CheckCodeSerial, MintPeriodSerial, CommitInsertSerial, StartAddLineSerial,
     StartEditLineSerial, EditLineSerial, StartUpdateSerial, UpdateEnforcementSerial,
     UpdateHeaderSerial, StartTransitionSerial, ReadLinesSerial, CompareAndSetSerial DEF Step
<1>3. ASSUME NEW h \in Handlers, Abort(h) PROVE SerialInv'
  BY <1>3, SerialRefuse DEF Abort
<1>4. ChangeMaster \/ UNCHANGED vars => UNCHANGED <<budgets, lines, pc, arg, hdr, todo>>
  BY DEF ChangeMaster, db, local, vars
<1> QED  BY <1>1, <1>2, <1>3, <1>4, BeginSerial DEF Next

LEMMA SerialHolds ==
    ASSUME OneHandler
    PROVE  Spec => [](IInv /\ SerialInv)
<1>1. Init => IInv /\ SerialInv
  BY InitIInv, InitSerial
<1>2. IInv /\ SerialInv /\ [Next]_vars => (IInv /\ SerialInv)'
  BY NextIInv, NextSerial
<1> QED  BY <1>1, <1>2, PTL DEF Spec

(* One request at a time, the guards of confirm are enough: a confirmed    *)
(* budget has a line, and each of its lines has a positive amount and a    *)
(* period of the header's year and range, whatever was patched and edited  *)
(* while it was a draft.                                                   *)
THEOREM SerialPositionsFit ==
    ASSUME OneHandler
    PROVE  Spec => []ConfirmedPositionsFit
<1>1. SerialInv => ConfirmedPositionsFit
  BY DEF SerialInv
<1> QED  BY <1>1, SerialHolds, PTL

(* One request at a time, the key guard alone (without any index) keeps a  *)
(* control key in one budget.                                              *)
THEOREM SerialKeysDisjoint ==
    ASSUME OneHandler
    PROVE  Spec => []KeysDisjoint
<1>1. SerialInv => KeysDisjoint
  BY DEF SerialInv
<1> QED  BY <1>1, SerialHolds, PTL

(* One request at a time, the code guard alone keeps a code unique.        *)
THEOREM SerialCodesUnique ==
    ASSUME OneHandler
    PROVE  Spec => []OneBudgetPerCode
<1>1. SerialInv => OneBudgetPerCode
  BY DEF SerialInv
<1> QED  BY <1>1, SerialHolds, PTL

(* A statement that writes a line of a budget finds the budget a draft.    *)
LEMMA WritesFindDraft ==
    ASSUME IInv, SerialInv, [Next]_vars,
           NEW b \in BudgetIds, Exists(b), NEW l \in LineIds, Touches(l, b)
    PROVE  budgets[b].status = "draft"
<1>1. ASSUME NEW c \in BudgetIds, WritesLinesOf(c),
             Exists(c) => budgets[c].status = "draft"
      PROVE  budgets[b].status = "draft"
  BY <1>1 DEF Touches, WritesLinesOf
<1>2. ASSUME NEW h \in Handlers, EditLine(h) PROVE budgets[b].status = "draft"
  <2>1. arg[h].budget \in BudgetIds /\ budgets[arg[h].budget].status = "draft"
    BY <1>2, RequestLemma
       DEF EditLine, IInv, TypeOK, Serves, Verbs, SerialInv, Judged, JudgedRow
  <2> QED  BY <1>1, <1>2, <2>1, EditWritesOwn
<1>3. ASSUME NEW h \in Handlers, CommitInsert(h) PROVE budgets[b].status = "draft"
  <2>1. /\ arg[h].budget \in BudgetIds /\ arg[h].verb \in {"create", "add_line"}
        /\ arg[h].verb = "create" => ~Exists(arg[h].budget)
        /\ Judged("insert", arg[h], hdr[h], todo[h])
    BY <1>3, RequestLemma DEF CommitInsert, IInv, TypeOK, Serves, Verbs, Anchored, SerialInv
  <2>2. Exists(arg[h].budget) => budgets[arg[h].budget].status = "draft"
    BY <2>1 DEF Judged, JudgedRow
  <2> QED  BY <1>1, <1>3, <2>1, <2>2, InsertWritesOwn
<1>4. ASSUME NEW h \in Handlers,
             UpdateEnforcement(h) \/ UpdateHeader(h) \/ CompareAndSet(h)
      PROVE  UNCHANGED lines
  BY <1>4 DEF UpdateEnforcement, UpdateHeader, CompareAndSet, Refuse, db
<1>5. CASE UNCHANGED lines
  BY <1>5 DEF Touches
<1> QED  BY <1>2, <1>3, <1>4, <1>5, OnlyCommitsWrite

(* One request at a time, the lines of a budget change while it is a draft *)
(* and at no other time.                                                   *)
THEOREM SerialEditsDraftOnly ==
    ASSUME OneHandler
    PROVE  Spec => LineEditsDraftOnly
<1> DEFINE DraftOnly == \A l \in LineIds, b \in BudgetIds :
                           Exists(b) /\ Touches(l, b) => budgets[b].status = "draft"
<1>1. ASSUME IInv, SerialInv, [Next]_vars PROVE [DraftOnly]_vars
  BY <1>1, WritesFindDraft
<1> QED  BY <1>1, SerialHolds, PTL DEF Spec, LineEditsDraftOnly

(* One request at a time, the posture of a closed or cancelled budget is   *)
(* frozen, though the UPDATE that writes it does not look at the status.   *)
THEOREM SerialPostureFrozen ==
    ASSUME OneHandler
    PROVE  Spec => PostureFrozen
<1> DEFINE Frozen == \A b \in BudgetIds : budgets[b].status \in {"closed", "cancelled"} =>
                        budgets'[b].enforcement = budgets[b].enforcement
<1>1. ASSUME IInv, SerialInv, [Next]_vars PROVE [Frozen]_vars
  <2>1. CASE UNCHANGED budgets
    BY <2>1
  <2>2. ASSUME NEW b \in BudgetIds, \A c \in BudgetIds \ {b} : budgets'[c] = budgets[c],
               \/ budgets[b].status \notin {"closed", "cancelled"}
               \/ budgets'[b].enforcement = budgets[b].enforcement
        PROVE  Frozen
    BY <2>2
  <2>3. ASSUME NEW h \in Handlers, UpdateEnforcement(h) PROVE Frozen
    <3>1. /\ arg[h].budget \in BudgetIds
          /\ budgets[arg[h].budget].status \in {"draft", "confirmed"}
      BY <1>1, <2>3, RequestLemma
         DEF UpdateEnforcement, IInv, TypeOK, Serves, Verbs, SerialInv, Judged, JudgedRow
    <3>2. \A c \in BudgetIds \ {arg[h].budget} : budgets'[c] = budgets[c]
      BY <1>1, <2>3 DEF UpdateEnforcement, IInv, TypeOK
    <3> QED  BY <2>2, <3>1, <3>2
  <2>4. ASSUME NEW h \in Handlers, CommitInsert(h) PROVE Frozen
    <3>1. /\ arg[h].budget \in BudgetIds /\ arg[h].verb \in {"create", "add_line"}
          /\ arg[h].verb = "create" => ~Exists(arg[h].budget)
      BY <1>1, <2>4, RequestLemma DEF CommitInsert, IInv, TypeOK, Serves, Verbs, Anchored
    <3>2. UNCHANGED budgets \/ budgets' = [budgets EXCEPT ![arg[h].budget] = hdr[h]]
      BY <2>4 DEF CommitInsert, Refuse, db
    <3>3. arg[h].verb = "add_line" => UNCHANGED budgets
      BY <2>4 DEF CommitInsert, Refuse, db
    <3>4. CASE arg[h].verb = "create"
      <4>1. budgets[arg[h].budget].status = "absent"
        BY <3>1, <3>4 DEF Exists
      <4>2. \A c \in BudgetIds \ {arg[h].budget} : budgets'[c] = budgets[c]
        BY <1>1, <3>2 DEF IInv, TypeOK
      <4> QED  BY <2>2, <3>1, <4>1, <4>2
    <3> QED  BY <2>1, <3>1, <3>3, <3>4
  <2>5. ASSUME NEW h \in Handlers, UpdateHeader(h) PROVE Frozen
    <3>1. arg[h].budget \in BudgetIds
      BY <1>1, <2>5, RequestLemma DEF UpdateHeader, IInv, TypeOK, Serves, Verbs
    <3>2. CASE /\ Row(h).status = "draft"
               /\ budgets' = [budgets EXCEPT ![arg[h].budget] = Patched(h)]
      <4>1. budgets[arg[h].budget].status = "draft"
        BY <3>2 DEF Row
      <4>2. \A c \in BudgetIds \ {arg[h].budget} : budgets'[c] = budgets[c]
        BY <1>1, <3>2 DEF IInv, TypeOK
      <4> QED  BY <2>2, <3>1, <4>1, <4>2
    <3> QED  BY <2>1, <2>5, <3>2 DEF UpdateHeader, Refuse, db
  <2>6. ASSUME NEW h \in Handlers, CompareAndSet(h) PROVE Frozen
    <3>1. arg[h].budget \in BudgetIds /\ Exists(arg[h].budget)
      BY <1>1, <2>6, RequestLemma DEF CompareAndSet, IInv, TypeOK, Serves, Verbs, Anchored
    <3>2. budgets[arg[h].budget] \in BudgetRow
      BY <1>1, <3>1 DEF IInv, TypeOK, Exists, NoBudget
    <3>3. CASE budgets' = [budgets EXCEPT ![arg[h].budget].status = Target(arg[h].verb)]
      BY <1>1, <2>2, <3>1, <3>2, <3>3 DEF IInv, TypeOK, BudgetRow
    <3> QED  BY <2>1, <2>6, <3>3 DEF CompareAndSet, Refuse, db
  <2>7. ASSUME NEW h \in Handlers, EditLine(h) PROVE UNCHANGED budgets
    BY <2>7 DEF EditLine, Refuse, db
  <2> QED  BY <1>1, <2>1, <2>3, <2>4, <2>5, <2>6, <2>7, OnlyCommitsWrite
<1> QED  BY <1>1, SerialHolds, PTL DEF Spec, PostureFrozen

=============================================================================
