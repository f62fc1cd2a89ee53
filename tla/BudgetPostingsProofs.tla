------------------------ MODULE BudgetPostingsProofs ------------------------
(***************************************************************************)
(* What postings move, for every chart of accounts and calendar: the sums  *)
(* of the control and of the ledger agree.                                 *)
(***************************************************************************)
EXTENDS BudgetPostings, BudgetSums

(* The control resolves a posting date to the periods that the general     *)
(* ledger may stamp.                                                       *)
LEMMA PeriodsAgree ==
    ASSUME NEW date \in Int
    PROVE  LedgerPeriods(date) = PeriodsFor(date)
<1>1. \A p \in Periods : Calendar[p].start \in Int /\ Calendar[p].end \in Int
  BY CalendarAssumption
<1>2. \A p, q \in Periods : ~(Width(p) > Width(q)) <=> Width(p) <= Width(q)
  BY <1>1 DEF Width
<1>3. \A p \in Periods : date \in Calendar[p].start .. Calendar[p].end
                              <=> p \in Covering(date)
  BY <1>1 DEF Covering
<1> QED
  BY <1>2, <1>3 DEF LedgerPeriods, PeriodsFor, Width, Covering

(* The rows that count on a key through a date, and what each of them      *)
(* moves.                                                                  *)
Counted(rows, a, c, p, d) ==
    {r \in rows : r.account = a /\ r.cc = c /\ r.period = p /\ r.date <= d}

Movement(rows) == [r \in rows |-> NormalDirection(r.normal, r.debit, r.credit)]

(* The lines of a posting that count on a key, and what each of them       *)
(* moves.                                                                  *)
OnKey(j, a, c) == {i \in KnownLines(j) : j.lines[i].account = a /\ j.lines[i].cc = c}

LineMovement(j, a) ==
    [i \in DOMAIN j.lines |->
        NormalDirection(Normal[a], j.lines[i].debit, j.lines[i].credit)]

(* The movement of a finite set of rows is a sum. *)
LEMMA MovedIsSum ==
    ASSUME NEW S, IsFiniteSet(S), NEW rows, S \subseteq rows
    PROVE  Moved(S) = Sum(Movement(rows), S)
<1> DEFINE f == Movement(rows)
           P(g) == g = [s \in SUBSET S |->
              IF s = {} THEN 0
              ELSE NormalDirection(Pick(s).normal, Pick(s).debit, Pick(s).credit)
                     + g[s \ {Pick(s)}]]
           G == CHOOSE g : P(g)
<1>1. Moved(S) = G[S]
  BY DEF Moved, MapThenSumSet, MapThenFoldSet, Pick
<1>2. PICK g : Recurs(g, f, SUBSET S)
  BY SumRecursion
<1>3. ASSUME NEW s \in SUBSET S, s # {}
      PROVE  f[Pick(s)] = NormalDirection(Pick(s).normal, Pick(s).debit, Pick(s).credit)
  BY <1>3, PickType DEF Movement
<1> HIDE DEF f
<1>4. P(G)
  <2>1. P(g)
    BY <1>2, <1>3 DEF Recurs
  <2> QED
    BY <2>1, Zenon
<1>5. Recurs(G, f, SUBSET S)
  <2> HIDE DEF G
  <2> QED
    BY <1>3, <1>4 DEF Recurs
<1> HIDE DEF G
<1> QED
  BY <1>1, <1>5, SumOfRecursion DEF f

(* So is what a posting adds to a key. *)
LEMMA PendingIsSum ==
    ASSUME NEW j, NEW a, NEW c, IsFiniteSet(OnKey(j, a, c))
    PROVE  Pending(j, a, c) = Sum(LineMovement(j, a), OnKey(j, a, c))
<1> DEFINE S == OnKey(j, a, c)
           f == LineMovement(j, a)
           P(g) == g = [s \in SUBSET S |->
                           IF s = {} THEN 0
                           ELSE NormalDirection(Normal[a], j.lines[Pick(s)].debit,
                                                j.lines[Pick(s)].credit)
                                  + g[s \ {Pick(s)}]]
           G == CHOOSE g : P(g)
<1>1. Pending(j, a, c) = G[S]
  BY DEF Pending, MapThenSumSet, MapThenFoldSet, Pick, OnKey
<1>2. PICK g : Recurs(g, f, SUBSET S)
  BY SumRecursion
<1>3. ASSUME NEW s \in SUBSET S, s # {}
      PROVE  f[Pick(s)] = NormalDirection(Normal[a], j.lines[Pick(s)].debit,
                                          j.lines[Pick(s)].credit)
  BY <1>3, PickType DEF LineMovement, OnKey, KnownLines
<1> HIDE DEF S, f
<1>4. P(G)
  <2>1. P(g)
    BY <1>2, <1>3 DEF Recurs
  <2> QED
    BY <2>1, Zenon
<1>5. Recurs(G, f, SUBSET S)
  <2> HIDE DEF G
  <2> QED
    BY <1>3, <1>4 DEF Recurs
<1>6. IsFiniteSet(S)
  BY DEF S
<1>7. Pending(j, a, c) = Sum(f, S)
  <2> HIDE DEF G
  <2> QED
    BY <1>1, <1>5, <1>6, SumOfRecursion
<1> QED
  BY <1>7 DEF S, f

(* The shape of a ledger row that the sums rely on. *)
Oriented(r) ==
    /\ r.debit \in Nat /\ r.credit \in Nat
    /\ r.account \in DOMAIN Normal /\ r.normal = Normal[r.account]

(* What a row moves is an integer. *)
LEMMA MovementType ==
    ASSUME NEW rows, NEW r \in rows, Oriented(r)
    PROVE  Movement(rows)[r] \in Int
BY NormalAssumption DEF Oriented, Movement, NormalDirection

(* A posting has finitely many lines, each with its amounts. *)
LEMMA LinesAreFinite ==
    ASSUME NEW j \in Posting
    PROVE  /\ IsFiniteSet(DOMAIN j.lines)
           /\ \A i \in DOMAIN j.lines : j.lines[i] \in PostingLine
<1>1. j.lines \in Seq(PostingLine)
  BY DEF Posting
<1>2. DOMAIN j.lines = 1 .. Len(j.lines) /\ Len(j.lines) \in Nat
  BY <1>1
<1>3. IsFiniteSet(1 .. Len(j.lines))
  BY <1>2, FS_Interval
<1> QED
  BY <1>1, <1>2, <1>3

(* Finitely many of them count on a key. *)
LEMMA OnKeyIsFinite ==
    ASSUME NEW j \in Posting, NEW a, NEW c
    PROVE  IsFiniteSet(OnKey(j, a, c))
<1>1. OnKey(j, a, c) \in SUBSET (DOMAIN j.lines)
  BY DEF OnKey, KnownLines
<1> QED
  BY <1>1, LinesAreFinite, FS_Subset

(* What a posting adds to a key is an integer, 0 if no line is on the key. *)
LEMMA PendingType ==
    ASSUME NEW j \in Posting, NEW a, NEW c
    PROVE  /\ Pending(j, a, c) \in Int
           /\ OnKey(j, a, c) = {} => Pending(j, a, c) = 0
<1> DEFINE S == OnKey(j, a, c)
<1>1. IsFiniteSet(S) /\ Pending(j, a, c) = Sum(LineMovement(j, a), S)
  BY OnKeyIsFinite, PendingIsSum
<1>2. ASSUME NEW i \in S PROVE LineMovement(j, a)[i] \in Int
  <2>1. i \in DOMAIN j.lines
    BY DEF OnKey, KnownLines
  <2>2. j.lines[i].debit \in Nat /\ j.lines[i].credit \in Nat
    BY <2>1, LinesAreFinite DEF PostingLine
  <2> QED
    BY <2>1, <2>2 DEF LineMovement, NormalDirection
<1> HIDE DEF S
<1>3. Sum(LineMovement(j, a), S) \in Int
  BY <1>1, <1>2, SumType
<1>4. S = {} => Sum(LineMovement(j, a), S) = 0
  BY SumEmpty
<1> QED
  BY <1>1, <1>3, <1>4 DEF S

(* A posting adds only to keys of accounts that exist and that it names. *)
LEMMA PendingKnown ==
    ASSUME NEW j \in Posting, NEW a, NEW c, Pending(j, a, c) > 0
    PROVE  /\ a \in DOMAIN Normal
           /\ \E i \in DOMAIN j.lines : j.lines[i].account = a
<1>1. OnKey(j, a, c) # {}
  BY PendingType
<1> QED
  BY <1>1 DEF OnKey, KnownLines

(* The row that a line of a posting becomes. *)
RowOf(j, n, p) ==
    [i \in DOMAIN j.lines |->
        [posting |-> n, account |-> j.lines[i].account, cc |-> j.lines[i].cc,
         period |-> p, date |-> j.date, normal |-> Normal[j.lines[i].account],
         line |-> i, debit |-> j.lines[i].debit, credit |-> j.lines[i].credit]]

(* The rows that a posting becomes move on a key what the control expects  *)
(* it to add: the stamp of a row is the orientation of its account.        *)
LEMMA StampedMovement ==
    ASSUME NEW j \in Posting, NEW n, NEW p, NEW a \in DOMAIN Normal, NEW c, NEW d,
           j.date <= d, NEW rows, Counted(Stamped(j, n, p), a, c, p, d) \subseteq rows
    PROVE  /\ IsFiniteSet(Counted(Stamped(j, n, p), a, c, p, d))
           /\ \A r \in Counted(Stamped(j, n, p), a, c, p, d) : Oriented(r)
           /\ Sum(Movement(rows), Counted(Stamped(j, n, p), a, c, p, d)) = Pending(j, a, c)
<1> DEFINE I == OnKey(j, a, c)
           g == RowOf(j, n, p)
           C == Counted(Stamped(j, n, p), a, c, p, d)
           Image == {g[i] : i \in I}
<1>1. C = Image
  <2>1. Stamped(j, n, p) = {g[i] : i \in DOMAIN j.lines}
    BY DEF Stamped, RowOf
  <2>2. \A i \in DOMAIN j.lines :
           /\ g[i].account = j.lines[i].account /\ g[i].cc = j.lines[i].cc
           /\ g[i].period = p /\ g[i].date = j.date
    BY DEF RowOf
  <2> HIDE DEF g
  <2> QED
    BY <2>1, <2>2 DEF Counted, OnKey, KnownLines
<1>2. ASSUME NEW i \in I
      PROVE  /\ i \in DOMAIN j.lines /\ g[i].line = i
             /\ g[i].normal = Normal[a] /\ g[i].account = a
             /\ g[i].debit = j.lines[i].debit /\ g[i].credit = j.lines[i].credit
             /\ g[i].debit \in Nat /\ g[i].credit \in Nat
  <2>1. i \in DOMAIN j.lines /\ j.lines[i].account = a
    BY DEF OnKey, KnownLines
  <2>2. j.lines[i].debit \in Nat /\ j.lines[i].credit \in Nat
    BY <2>1, LinesAreFinite DEF PostingLine
  <2> QED
    BY <2>1, <2>2 DEF RowOf
<1> HIDE DEF I, g
<1>3. \A r \in C : Oriented(r)
  BY <1>1, <1>2 DEF Oriented
<1>4. IsFiniteSet(I)
  BY OnKeyIsFinite DEF I
<1>5. \A i \in I : Movement(rows)[g[i]] \in Int
                   /\ LineMovement(j, a)[i] = Movement(rows)[g[i]]
  <2> TAKE i \in I
  <2>1. g[i] \in rows /\ Oriented(g[i])
    BY <1>1, <1>3
  <2>2. Movement(rows)[g[i]] \in Int
    BY <2>1, MovementType
  <2>3. Movement(rows)[g[i]] = NormalDirection(Normal[a], j.lines[i].debit, j.lines[i].credit)
    BY <1>2, <2>1 DEF Movement
  <2>4. LineMovement(j, a)[i] = NormalDirection(Normal[a], j.lines[i].debit, j.lines[i].credit)
    BY <1>2 DEF LineMovement
  <2> QED
    BY <2>2, <2>3, <2>4
<1>6. \A i, k \in I : g[i] = g[k] => i = k
  BY <1>2
<1>7. IsFiniteSet(Image) /\ Sum(Movement(rows), Image) = Sum(LineMovement(j, a), I)
  BY <1>4, <1>5, <1>6, SumReindex
<1>8. Pending(j, a, c) = Sum(LineMovement(j, a), I)
  BY <1>4, PendingIsSum DEF I
<1> QED
  BY <1>1, <1>3, <1>7, <1>8

(* No row moves nothing. *)
LEMMA MovedNothing == Moved({}) = 0
<1>1. Moved({}) = Sum(Movement({}), {})
  BY MovedIsSum, FS_EmptySet
<1> QED
  BY <1>1, SumEmpty

(* A finite set of rows moves an integer. *)
LEMMA MovedType ==
    ASSUME NEW S, IsFiniteSet(S), \A r \in S : Oriented(r)
    PROVE  Moved(S) \in Int
<1>1. \A r \in S : Movement(S)[r] \in Int
  BY MovementType
<1>2. Sum(Movement(S), S) \in Int
  BY <1>1, SumType
<1> QED
  BY <1>2, MovedIsSum

(* Disjoint sets of rows move their sum. *)
LEMMA MovedUnion ==
    ASSUME NEW S, IsFiniteSet(S), NEW T, IsFiniteSet(T), S \cap T = {},
           \A r \in S \cup T : Oriented(r)
    PROVE  Moved(S \cup T) = Moved(S) + Moved(T)
<1> DEFINE f == Movement(S \cup T)
<1>1. \A r \in S \cup T : f[r] \in Int
  BY MovementType
<1>2. IsFiniteSet(S \cup T)
  BY FS_Union
<1>3. /\ Moved(S) = Sum(f, S) /\ Moved(T) = Sum(f, T)
      /\ Moved(S \cup T) = Sum(f, S \cup T)
  BY <1>2, MovedIsSum
<1> HIDE DEF f
<1> QED
  BY <1>1, <1>3, SumUnion

(* StampedMovement, of the operator that the control evaluates. *)
LEMMA MovedStamped ==
    ASSUME NEW j \in Posting, NEW n, NEW p, NEW a \in DOMAIN Normal, NEW c, NEW d,
           j.date <= d
    PROVE  Moved(Counted(Stamped(j, n, p), a, c, p, d)) = Pending(j, a, c)
BY StampedMovement, MovedIsSum

(* The ledger takes a posting whose lines are all on accounts that exist. *)
AllKnown(j) == KnownLines(j) = DOMAIN j.lines

(* The rows such a posting becomes. *)
LEMMA StampedRows ==
    ASSUME NEW j \in Posting, KnownLines(j) = DOMAIN j.lines, NEW n, NEW p
    PROVE  /\ IsFiniteSet(Stamped(j, n, p))
           /\ \A r \in Stamped(j, n, p) :
                 Oriented(r) /\ r.posting = n /\ r.date = j.date /\ r.period = p
<1> DEFINE g == RowOf(j, n, p)
           I == DOMAIN j.lines
<1>1. Stamped(j, n, p) = {g[i] : i \in I}
  BY DEF Stamped, RowOf
<1>2. IsFiniteSet({g[i] : i \in I})
  <2>1. IsFiniteSet(I)
    BY LinesAreFinite
  <2> HIDE DEF g, I
  <2> QED
    BY <2>1, ImageIsFinite
<1>3. ASSUME NEW i \in I
      PROVE  Oriented(g[i]) /\ g[i].posting = n /\ g[i].date = j.date /\ g[i].period = p
  <2>1. j.lines[i].account \in DOMAIN Normal
    BY DEF KnownLines
  <2>2. j.lines[i].debit \in Nat /\ j.lines[i].credit \in Nat
    BY LinesAreFinite DEF PostingLine
  <2> QED
    BY <2>1, <2>2 DEF RowOf, Oriented
<1> HIDE DEF g, I
<1> QED
  BY <1>1, <1>2, <1>3

(* A committed posting moves a key of its period by what the control       *)
(* expected, and leaves the keys of the other periods.                     *)
LEMMA MovedByPosting ==
    ASSUME NEW rows, IsFiniteSet(rows), \A r \in rows : Oriented(r),
           NEW n, \A r \in rows : r.posting # n,
           NEW j \in Posting, AllKnown(j), NEW q,
           NEW a \in DOMAIN Normal, NEW c, NEW p, NEW d, j.date <= d
    PROVE  /\ Moved(Counted(rows, a, c, p, d)) \in Int
           /\ Moved(Counted(rows \cup Stamped(j, n, q), a, c, p, d))
                = Moved(Counted(rows, a, c, p, d)) + IF q = p THEN Pending(j, a, c) ELSE 0
<1> DEFINE old == Counted(rows, a, c, p, d)
           stamped == Stamped(j, n, q)
           new == Counted(stamped, a, c, p, d)
<1>1. IsFiniteSet(stamped) /\ \A r \in stamped : Oriented(r) /\ r.posting = n /\ r.period = q
  BY StampedRows DEF AllKnown
<1>2. Counted(rows \cup stamped, a, c, p, d) = old \cup new
  BY DEF Counted
<1>3. old \cap new = {} /\ new \subseteq stamped /\ old \subseteq rows
  BY <1>1 DEF Counted
<1>4. IsFiniteSet(old) /\ IsFiniteSet(new)
  BY <1>1, <1>3, FS_Subset
<1>5. \A r \in old \cup new : Oriented(r)
  BY <1>1, <1>3
<1>6. Moved(new) = IF q = p THEN Pending(j, a, c) ELSE 0
  <2>1. CASE q = p
    BY <2>1, MovedStamped
  <2>2. CASE q # p
    <3>1. new = {}
      BY <1>1, <2>2 DEF Counted
    <3> QED
      BY <2>2, <3>1, MovedNothing
  <2> QED
    BY <2>1, <2>2
<1>7. Moved(old) \in Int
  BY <1>4, <1>5, MovedType
<1> HIDE DEF old, new, stamped
<1>8. Moved(old \cup new) = Moved(old) + Moved(new)
  BY <1>3, <1>4, <1>5, MovedUnion
<1> QED
  BY <1>2, <1>6, <1>7, <1>8 DEF old, stamped

=============================================================================
