# Verification of backbone-budget

TLA+ specifications of the budget module: its write path (budgets, lines,
lifecycle), the control that the general ledger consults before it commits a
posting, the reads beside them, their composition on one database, and the generated
services over the same tables. TLC checks small instances; TLAPS proves the results
listed under [Theorems](#theorems) for every value of the constants. `PROJECT.json`
maps each definition to the source lines it models and lists components, runs,
mutants, findings, hazards and theorems.

    tlc -workers 2 -config MCSerial.cfg MCBudgetWorkflow
    tlapm BudgetWorkflowProofs.tla

## The system

The module is a Rust library over PostgreSQL. It keeps no state in memory: every
verb is one transaction at PostgreSQL's default isolation level, READ COMMITTED
(no code sets another one), in which each statement sees what had been committed
when that statement started. Several requests, of one process or of many, run at
the same time.

| Component | State | Operations |
|---|---|---|
| Workflow service (`budget_workflow_service.rs`) | rows of `budget.budgets`, `budget.budget_lines` | create, update, add / update / delete line, confirm, close, cancel |
| Control service (`budget_control_service.rs`) | none; reads plan and ledger | `evaluate_posting`, achievement, coverage |
| Read repository (`budget_read_repository.rs`) | none | the SQL reads of both services |
| HTTP verbs (`budget_ops_handler.rs`, `guarded_routes.rs`) | none | parse, delegate, map errors to codes |
| Schema (`migrations/`) | tables, CHECKs, indexes | unique indexes dropped by `strip_tenancy`, restored by the composing service's decorator; CHECKs added where no stored row breaks them |
| Generic services, DTOs (`budget_service.rs`, `budget_line_service.rs`, handlers, repositories) | none of their own | create, update, soft delete, restore, purge, empty trash, with the declared row rules; `readonly_routes` mounts the GETs only, `all_routes` everything |
| Events, exports, seeders | none | no rule depends on them |
| Accounting (external) | accounts, cost centers, fiscal periods, `accounting.ledgers` | changes its masters; posts, asking the control first |

**Interaction.** The workflow service and the control share the two budget tables
and never call each other. Both read accounting's tables by plain SQL. Accounting
calls `evaluate_posting` through a port the host application wires: a block breach
refuses the posting, a warn breach is logged. The generic services write the same
two tables, for trusted contexts.

**What is hard.** A verb tests a condition in one statement and writes in a later
one; only some of the writes test it again. Uniqueness of codes and control keys is
a query before the INSERT unless a decorator installed indexes. Masters change
under a running verb. Two evaluations of the same position do not see each other.
A report is made of two or three statements. A generic update is judged against the
row it loaded and stored as a whole row later. Transactions roll back at any
statement.

**What makes each part correct.**

* Workflow: a header moves along draft -> confirmed -> closed | cancelled and its
  plan changes in a draft only; a confirmed budget has positions, each positive and
  inside its header's year and range; no two budgets hold one control key or one
  code; line edits happen in drafts; the posture is final with the budget; every
  request is answered.
* Control: a posting that commits leaves the block positions it adds to within
  plan; one that is refused would have exceeded one; racing postings overshoot by a
  bounded amount.
* Reads: a report on a plan that has left its draft shows that plan; achievement and
  control agree on what a key has absorbed; coverage names the one budget of a key.
* Together: what an evaluation remembers of the plan is the plan when its posting
  commits.
* Generic services: a row that only they write obeys every declared rule, whether or
  not the CHECKs exist, and no line is left without its budget.

## Modules

| Module | Models |
|---|---|
| `BudgetTypes` | rows, enums, the control key, BG6 (`PeriodFits`), rounding of the amount column (`Stored`), the lifecycle table (`AllowedFrom`, `Target`) |
| `BudgetLifecycle` | the abstract promise of a header: created as a draft, revised as a draft, moved one edge at a time |
| `BudgetWorkflow` | the workflow service, one action per SQL statement |
| `BudgetWorkflowProps` | its type invariant, inductive invariant, properties, refinement mapping |
| `BudgetPostings` | the pure part of the control: calendar, orientation, what a posting or a set of ledger rows moves |
| `BudgetControl`, `BudgetControlProps` | `evaluate_posting`, the posting it decides, planners' edits; its properties |
| `BudgetReads` | detail, achievement and coverage, one action per statement |
| `BudgetSystem`, `BudgetSystemProps` | `BudgetWorkflow`, `BudgetControl` and `BudgetReads` on one database; what holds of them together |
| `BudgetCrud`, `BudgetCrudProps` | the generic services, the row rules, the CHECKs; its type and inductive invariants and properties |
| `BudgetWorkflowProofs` | theorems for any number of handlers |
| `BudgetDecoratedProofs` | theorems for any number of handlers under the decorator's indexes |
| `BudgetSerialProofs` | theorems for one handler |
| `BudgetSums` | lemmas about sums over finite sets, and the induction they need |
| `BudgetPostingsProofs` | lemmas about what postings and ledger rows move |
| `BudgetControlProofs` | theorems about the control, for one producer and for any |
| `BudgetSystemProofs` | theorems about the composition, for any readers |
| `BudgetCrudProofs` | theorems about the generic services |
| `MCBudgetWorkflow`, `MCBudgetControl`, `MCBudgetSystem`, `MCBudgetCrud` | small instances and menus of requests |

### BudgetWorkflow against the code

`budgets` and `lines` are the committed rows; a soft-deleted line keeps its row with
`state = "deleted"`. `pc`, `arg`, `hdr`, `todo` are the local variables of the async
function that serves a request: the statement it runs next, its input, the header
row it read (or, for create, minted) and the lines left in its loop. `usable` is the
set of masters that pass their guard query now. `reply` is the answer last given.

| Statement (`pc`) | Action | Code |
|---|---|---|
| `idle` | `Begin` | a mounted route accepts a request |
| `code` | `CheckCode` | create: date order, `code_taken` |
| `account`, `cost_center`, `period` | `CheckAccount`, `CheckCostCenter`, `CheckPeriod` | `validate_line` (BG3-BG6) |
| `key` | `CheckKey` | `key_taken` (BG1) |
| `insert` | `MintPeriod`, `CommitInsert` | `insert_line`, the INSERTs, COMMIT |
| `read` | `StartAddLine`, `StartEditLine`, `StartUpdate`, `StartTransition` | `get_budget_row` and the tests on it |
| `edit` | `EditLine` | the UPDATE of update_line / delete_line, COMMIT |
| `enforce`, `patch` | `UpdateEnforcement`, `UpdateHeader` | the two UPDATEs of update_budget |
| `lines` | `ReadLines` | confirm: `budget_lines` (BG2) |
| `cas` | `CompareAndSet` | confirm and `transition`: UPDATE ... WHERE status |
| any | `Abort` | the connection, the client or the process goes away: ROLLBACK |
| - | `ChangeMaster` | accounting (external) disables or enables a master |

An UPDATE and the COMMIT after it are one step: nobody sees the row in between, and
a second UPDATE of that row waits and then tests its WHERE again on the new version.
The INSERTs of a verb are published by its COMMIT and are one step with it. An INSERT
that meets a unique key of a transaction in flight waits for its end, so that the
clash is decided by what is committed: that a transaction is all or nothing is assumed
of the database, not checked; the one thing this loses is which refusal is
given when a create clashes on its code and a period vanishes between two of its
statements. An amount is an integer number of thousandths, so that the rounding of
`NUMERIC(18, 2)` is visible. The order of `budget_lines` (by ids) is left open. A NULL
cost center matches only NULL in `key_taken` and matches nothing in an index.

`Decorated` says whether the decorator's two unique indexes exist: the code index and
the control-key index over live rows. One org unit is modelled.

### BudgetPostings and BudgetControl against the code

`PeriodsFor` is `period_covering`, with the tie of two smallest periods left open;
soft-deleted periods are none of `Periods`. `LedgerPeriods` is the same choice as the
general ledger makes it when it stamps a posting, a definition of its own, so that a
control that resolved another period would be seen (`PeriodsAgree` proves that they agree).
`Moved` is the SUM over `accounting.ledgers`, each row oriented by its own stamp;
`Pending` the contribution of a posting's lines, oriented by the accounts as they are.

Period resolution and account orientations do not change in this module, so
`Resolve` is `require_gl`, `period_covering` and `normal_balances` in one step.
`ReadPositions` and `ReadAchieved` are the two later statements. `Post` is accounting's
commit: it stamps rows with a period of `LedgerPeriods` and the orientation of the
account. `Plans` is a committed header write of the workflow service. The list of
breaches is reduced to what accounting acts on: is a block position in it?

### BudgetReads against the code

`pc` is the statement a read runs next; `query` the request; `header` and `found` the
rows its earlier statements returned; `answer` the code and body of the response.

| Statement (`pc`) | Action | Code |
|---|---|---|
| `idle` | `Ask` | a GET route of the guarded router |
| `header` | `ReadHeader` | `budget_detail`: `get_budget_row`; `achievement`: `require_gl`, `get_budget` |
| `lines` | `ReadLines` | `budget_lines`; the detail ends here |
| `movement` | `ReadMovement` | `achieved_by_period` and the rows of the report |
| `key` | `ReadCoverage` | `coverage`: `require_gl`, the position of one key |

A utilization is the pair that is divided, `<<0, 1>>` for a position that plans
nothing. `achieved_by_period` takes a list of accounts and a list of periods and sums
over every combination; the report picks its keys out of the result
(`AchievedPerPeriod`, `AchievementBody`). `coverage` fetches one row of possibly several
and the model leaves open which.

### BudgetSystem against the code

`lib.rs` and `lib.ext.rs` build one module whose two services share a pool.
`BudgetSystem` extends `BudgetWorkflow` and `BudgetPostings` and instantiates the control
and the reads on its `budgets` and `lines`, with no planner edits of their own: a `Planner` step is one statement of a
verb, a `Producer` step one of an evaluation or a posting, a `Reader` step one of a read,
in any order.

### BudgetCrud against the code

`state` and `content` are the rows of both tables, reduced to the fields a rule reads;
a text is its length and what trimming leaves of it. `checks` are the CHECKs that exist.
`Receive`, `Judge`, `Write` and `Trash` serve a request: an update loads the row, is
judged by `BudgetRowRules` / `BudgetLineRowRules` on the fields that differ from it, and
stores the whole row in a later statement. The generic service and repository are a
dependency whose source is not in the repository: their actions are modelled from the
use the code makes of them, and where that does not decide (does an update reach a row
that went to the trash after it was loaded?) the model leaves it open. `VerbStores` and
`VerbDeletes` are the verbs of the workflow service on the same tables, which ask no row
rule. `DeclareChecks` is the migration: it adds a CHECK where no stored row breaks it,
may run at any time and again. `VerbRows` are the ids the verbs write; the properties
are about the others.

## Runs

Passing runs (deadlock is checked where not said otherwise):

| Run | Instance | Shows |
|---|---|---|
| `header_race` | 2 handlers, 1 budget, 1 line, 2 dates | `TypeOK`, `RangeOrdered`, refinement of `BudgetLifecycle` |
| `line_race` | 2 handlers, 1 budget, 2 lines, an account, a cost center and a period that come and go | `LineHistory` |
| `serial` | 1 handler, 2 budgets, 2 lines, every verb, bad dates, zero and sub-cent amounts | what the guard matrix is for, after any sequence of requests |
| `decorated` | 2 handlers, 2 budgets, 2 lines, indexes installed, fairness | uniqueness under races; every request is answered |
| `control_serial` | 1 producer, 3 postings, planners edit meanwhile; no deadlock check | `CommitsWithinPlan`, `RefusedForCause` |
| `control_race` | 3 producers, 7 postings of one day; no deadlock check | `OvershootBounded` |
| `system` | 1 handler, 1 producer, 1 reader, 2 budgets, 2 lines, 2 postings; no deadlock check | `EvaluatedPlanIsCurrent`, `ShownPlanIsCurrent`, `ReportMatchesControl`, `PostedWithinPlan`, `CoverageNamesTheBudget` |
| `crud` | 2 clients, 2 budgets, 2 lines, one of each written by the verbs | `RuledRowsLegal`, `RuledWritesNeverTrip`, `LinesHaveBudget` |

The bounds. A conflict on a row or a key is between two requests, so two handlers and
two budgets show every kind of interleaving of the write path; one line slot more than
a create uses lets a second insertion meet the first. Ids are never reused, so the
number of ids bounds the length of a history: each budget passes its whole lifecycle.
Two dates give an ordered, an empty and a reversed range, and a period inside and one
outside a narrowed range. `control_race` posts seven times with three producers, more
often than two rounds, so that a bound that grew with the number of postings would be
exceeded, on the last day of a month, so that a boundary missed by the control would be
seen too. `MaxPostings` bounds the ledger, and when it is reached the producers stop:
those runs do not check deadlock.

`system`: the budget that is read and posted to has two positions on one account in two
periods, so that a movement counted on the account alone would be seen, and a second
budget competes for one of its keys; two postings of the planned amount, so that the
second meets a plan that an edit of the draft may have doubled. One handler, because its
properties are promised for verbs that do not race (`raced_verb` shows why); an
evaluation and a read are never alone with it.

`crud`: a code of 31 characters, one too many; a thirteenth month; the last year that is
allowed; a text of spaces, which guard and CHECK refuse, and one of tabs, which only the
guard refuses. The two clients race on one budget and one line that only they write; the
verbs write another budget and another line, with rows that break the rules.

**Fairness.** Only `EveryRequestAnswered` needs it: weak fairness of each handler's
statements (`FairSpec`). The runtime polls an accepted request until it returns, and
every statement either returns or fails. No client has to send, no failure has to
happen, and accounting does not have to act.

Violation runs, each a disagreement between the repository's words and its code
(`PROJECT.json`, findings, quotes both):

| Run | What TLC finds |
|---|---|
| `raced_verb` | a verb that lost its race is not refused with a 409: a line is written into a budget that has left its draft, a posture into one that is closed, and a raced confirm answers 500 |
| `recreate` | cancel + recreate is refused: cancelled lines hold their keys |
| `duplicate_key` | one budget takes a control key twice, without any race |
| `raced_confirm` | a budget is confirmed without a line, which `delete_line` took away while confirm ran |

More without a run, because no behaviour has to be searched for or no promise is made:

* the comments at `budget_control_service.rs:153-155` and
  `budget_workflow_service.rs:211-212` speak of one consistent snapshot, which READ
  COMMITTED does not give (the `system` run shows what holds all the same);
* the README's guard matrix lists `budget_line_company_mismatch`, which no code raises;
* `tests/integration/tests/budget_api_test.rs:33` expects 201 for a budget of the fiscal
  year 1, which `BudgetRowRules` refuses (years start at 2020);
* `budget_ops_handler.rs:241` says that `description: null` clears the field; the COALESCE
  of the UPDATE (`budget_workflow_service.rs:519`) keeps the old text and the patch is
  answered with success (`PatchedDescription`);
* a patch that names the enforcement is answered with success after the enforcement
  UPDATE: its other fields are dropped, which no line of the repository excludes;
* `budget_service.rs:37` says that a broken rule is a 422; the error mapping of
  `budget_handler.rs` answers 400.

Every property of a passing run has a mutant, an operator commented "Mutant" in the
module of the definition it would replace, under which TLC finds the property violated.

## Theorems

All hold for every value of the constants that satisfies the named assumptions (finitely
many line ids; NULL, `Keep` and `NoCC` outside the values they stand beside; requests of
the request type; a calendar of integers, no period named "none"; postings of the posting
type), and whatever accounting does to its masters.

| Theorem | Holds for | States |
|---|---|---|
| `TypeCorrect` | any handlers | `[]TypeOK` |
| `RangeStaysOrdered` | any handlers | `[]RangeOrdered` |
| `LineHistoryKept` | any handlers | `LineHistory` |
| `Implements` | any handlers | `ImplementsLifecycle`: the write path implements `BudgetLifecycle` |
| `DecoratedKeysUnique` | any handlers, decorated | `[]OneLinePerKey` |
| `DecoratedCodesUnique` | any handlers, decorated | `[]OneBudgetPerCode` |
| `SerialPositionsFit` | one handler | `[]ConfirmedPositionsFit` |
| `SerialKeysDisjoint` | one handler | `[]KeysDisjoint` |
| `SerialCodesUnique` | one handler | `[]OneBudgetPerCode` |
| `SerialEditsDraftOnly` | one handler | `LineEditsDraftOnly` |
| `SerialPostureFrozen` | one handler | `PostureFrozen` |
| `ControlInvariant` | any producers, planners meanwhile | `[]ControlInv`: what an evaluation remembers, and that the ledger can be summed |
| `RefusedForCauseHolds` | any producers, planners meanwhile | `RefusedForCause` |
| `CommitsWithinPlanHolds` | one producer, planners meanwhile | `CommitsWithinPlan` |
| `OvershootBoundedHolds` | any producers, postings of one day | `[]OvershootBounded` |
| `EvaluationSeesThePlan` | one handler, any producers and readers | `[]EvaluatedPlanIsCurrent` |
| `ReadsShowThePlan` | one handler, any producers and readers | `[]ShownPlanIsCurrent` |
| `CoverageIsUnambiguous` | one handler, any producers and readers | `CoverageNamesTheBudget` |
| `ReportMatchesControlHolds` | any handlers, producers and readers | `ReportMatchesControl` |
| `PostedWithinPlanHolds` | one handler, one producer, any readers | `PostedWithinPlan` |
| `RowRulesHold` | any clients, with the verbs and the migration | `[]RuledRowsLegal` |
| `ChecksNeverTrip` | any clients, with the verbs and the migration | `[]RuledWritesNeverTrip` |
| `LinesKeepTheirBudget` | any clients, with the verbs and the migration | `[]LinesHaveBudget` |

**Any handlers (`IInv`).** None of the invariants is inductive alone: that `UpdateHeader`
writes an ordered range needs to know that the header it read is a row; that
`CommitInsert` creates a budget, and does not overwrite one, needs to know that no other
handler minted or committed its id; that a compare-and-set takes an edge needs to know
that the status it compares with is one the verb accepts. `IInv` adds `Anchored` (what a
handler at a statement knows of its budget, kept by all others because budgets never go
away) and `DistinctCreates`. There is one preservation lemma per action; lemmas about the
ways a handler moves (`AnswerLemma`, `RefuseLemma`, `MoveLemma`, `CheckNextLemma`) carry
the parts about other handlers. The refinement maps `CommitInsert` of a create to
`Create`, `UpdateHeader` to `Revise`, `CompareAndSet` to `Move`, and shows that every
other step stutters.

**Decorated.** The index tests of `CommitInsert` compare what is inserted with the rows
that are committed, and no other commit writes a code or a key or undeletes a line, so
that the two properties are inductive over `IInv` with no word about what a handler has
judged before.

**One handler (`SerialInv`).** Without the indexes a guard is a statement of its own, and
the invariant has to say what a verb half-way through has judged: `Judged` says that the
header it compares is the row's, that each position it will insert has a free key unless
it is still in `todo`, and that each line that confirm blesses fits unless it is still in
`todo`. With one handler nobody changes the rows before the verb's last statement, so
that a statement that only reads keeps `Judged` for itself (`SerialMove`). That every
line of the budget is in the sequence that confirm walks is a counting argument: a
sequence of as many distinct lines as the set has holds them all.

**Sums.** What the control and the report compare are sums over a ledger of any size. A
sum of the community modules (`MapThenSumSet`) is a CHOOSE of a function that recurs on
sets. `BudgetSums` shows that such a function exists and that any two agree
(`SumRecursion`, `RecursionAgrees`), and from that what a sum is on an empty set, on a
disjoint union, along a bijection, of a difference, and under a bound per element. The
induction is stated for sets, not predicates (`NatInductionSet`, `SubsetInduction`), and
rests on the well-foundedness of `<`, so that no library theorem with an operator
parameter is needed. `BudgetPostingsProofs` says it of postings: the rows that a posting
becomes move a key by its pending contribution (`StampedMovement`), although the rows are
counted by their stamp and the contribution by the account.

**The control (`ControlInv`).** A refusal compares the ledger with an amount read one
statement earlier, so the invariant says that a remembered position is still the plan's
on that key and that its budget is past its draft (`Faithful`). With one producer nothing
is posted between the verdict and the posting, so that a posting about to commit has no
breach on the ledger as it is (`Passed`); its rows then raise the movement by exactly
what the verdict added.

**Racing postings (`OvershootInv`).** A posting that passed its evaluation and has not
been committed is a charge on each position it adds to. The invariant bounds what is spent
and charged together by the amount and one largest posting for each other producer. A
step that commits turns its charge into movement; a step that passes an evaluation has
just compared the movement and its own charge with the amount, and each other producer
charges one posting at most; every other step lowers the sum or leaves it. `Racing(day)`
names what the bound needs:

* finitely many producers, at least one, and finitely many postings, or there is no
  largest;
* all postings of one day that one smallest period covers, since a later date sees
  movement that an evaluation of an earlier one did not count;
* no change of posture, since what passed while the budget only warned was never refused;
* a plan of nothing less than zero, which `validate_line` sees to.

`OvershootBounded` speaks of live lines of a budget that was a confirmed block budget
from the start.

**The system (`SystemInv`).** The key fact is `PastDraftStays` with `PlanStays`: a budget
past its draft stays past it and keeps its lines, amounts included. An evaluation reads
positions of confirmed budgets only, so what it remembers stays true (`Evaluations`),
even after a close or a cancel. A read whose header was past its draft finds the lines of
a plan that is frozen (`Answers`). `CoverageNamesTheBudget` follows from `KeysDisjoint`.
Neither producers nor readers write the plan (`PlanUntouched`).

`ReportMatchesControl` needs no single planner: both sides sum one ledger, by key in the
control and over all accounts and periods of the report in `achieved_by_period`, whose
groups the report then picks from. A key without a group is one on which no row counts,
so that the sum of the control is zero too. `Awaits` says that a read has no answer
before its last statement. `PostedWithinPlan` joins two invariants that know nothing of
each other: `SystemInv` (what was read is the plan as the verbs left it) and `ProducerInv`
(what passed has no breach on the ledger as it is).

**The generic services (`CrudInv`).** An update is judged field by field against the row
it loaded, which may have changed when it writes. It is safe because it stores the whole
image: each field either was judged or equals that of a row that was legal when loaded.
So a request that has passed the guard carries a legal row (`CrudInv`), whatever the
stored row has become. The guard trims more than the CHECK (`GuardIsStricter`), hence a
CHECK never refuses such a row.

**Only model-checked.** `EveryRequestAnswered`: liveness is out of the prover's reach, as
is ENABLED. Every other property of a passing run is stated by a theorem. The properties
that the code does not keep when handlers race (`raced_verb`, `raced_confirm`) are stated for one handler,
in the runs and in the theorems, and `CommitsWithinPlan` and `PostedWithinPlan` for one
producer: `OvershootBounded` is what several keep. In `BudgetControl` planners change
headers only; that the lines of a budget past its draft stay as they are is a theorem of
the composition, for one handler.

## Not modelled

* Names, notes and audit metadata of the verbs, parsing, formatting.
* PATCH, bulk create and upsert of the generic services: the merge is the dependency's
  own, and the module's `apply_patch` has no caller. Lists, filters and pages.
* Tenancy, row-level security and audit triggers: the composing service's; one org unit
  is modelled. The ordering guard of `strip_tenancy` is one deterministic transaction
  without another actor.
* Events and exports (types and empty handlers; the verbs publish none), seeders.
* Lock waits inside PostgreSQL: two inserts that wait for each other's index entries end
  by its deadlock detection, as a 500 that no code of the module handles.
* Orientations of accounts and calendars that change: the code promises nothing about
  them (`PROJECT.json`, hazards). Of two periods of one width that cover a date the model
  leaves open which one a query takes; `OvershootBoundedHolds` assumes none, and no run
  has any.

## Plan

Done, in this order: types, lifecycle and workflow; the control; the reads; the
composition; the generic services; the proofs for any handlers, for the decorator, for
one handler, for the system and for the generic services; sums, and the proofs about the
control and its composition with the verbs.

Left: the bound of `OvershootBounded` in the composition, where postures are edited and
budgets confirmed under running evaluations; what the generic services promise of each
step, as action properties; the merge of PATCH, once the source of the generic service is
at hand; a posting path in which accounting locks what the control reads, should the
module offer one, against which `OvershootBounded` could be tightened to zero.
