# A TLA+ model of the CosteAR backend

CosteAR computes the cost of a product month by month: a *costista* keeps the
configuration of a cost structure (raw material, labour, indirect costs, sales),
opens and closes costing periods, receives documents and data that carry the
amounts, and runs an engine whose results are kept as numbered runs. The backend
is a Node/TypeScript service over PostgreSQL (through Prisma), with background
workers on BullMQ and calls to a language model.

Two things can go wrong in it. One is that a handler reads, decides and only then
writes; that two handlers overlap; that a month which is a closed accounting fact
changes behind its frozen numbers; that a night job and a person calculate the same
thing at once. The other is that money, units or hours are lost or counted twice on
the way from an account to a product, through prorations, losses and stocks in
process that carry from month to month. These modules model both parts, check them
on small instances with TLC and prove the invariants of both for every instance with
TLAPS.

Paths below are relative to the repository's own `src/`, and `application/` is
`src/application/`.

## 1. The system

| Component | State | Operations | Hard behaviour | Module |
|---|---|---|---|---|
| Costing periods (`cost-period-service`, `cost-period-propagation-service`, `period-sync`) | `cost_periods`: status, the month's copy of the inputs, frozen result, reopen count | open next, close, reopen, mirror of every write | reads before the transaction; structure and period in step; closed months | `CostPeriods` |
| Cost structures (`cost-structure-service`) | `cost_structures`: the configuration on the screen, late-data policy | save a section, sales, third-party work, policy | which month a save goes to | `CostPeriods` |
| Late data (`late-data-service`) | `late_data_decisions` | detect, decide by policy or by a person | reopening outside the transaction; a decision taken long after | `CostPeriods` |
| Data points (`data-point-service`, `evidence-service`) | `data_points`, `data_point_versions` | create, void, impute to a month; correct, sign, attach a paper | closed month checked outside the transaction; versions numbered without a lock; a signature that must not cover another number | `CostPeriods`, `Traceability` |
| Data of a section (`datapoint-reconciler`, `cost-structure-service`, populator) | the same, `cost_config_versions` | reconcile the data with every save of the section, or after a document | index read and applied later; equal movements; a document whose trace fails | `Traceability` |
| Documents into the structure (`cost-structure-populator`) | the same tables | read, write the structure, mirror into the period | three separate statements, errors swallowed | `CostPeriods` |
| Calculation runs (`calculation-run-service`, `calculation-run-persistence`) | `calculation_runs`, `cost_calculations` | calculate, save, validate | correlative number under a row lock; two tables in step | `CalcRuns` |
| Daily run (`daily-run-service`, its worker) | `cost_periods.lastAutoRunAt` | nightly calculation of the open periods | standby mark; crash between run and mark; isolation | `CalcRuns` |
| Limiter of the language model (`groq-rate-limiter`) | counter, queue | acquire, release, retry | every exit path; hand-over; starvation | `GroqLimiter`, `Slots` |
| Process departments (`process-department-service`, `process-setup-service`) | `process_departments`: sequence | create, remove, reorder, complete the setup | checks before the transaction; places rewritten in two passes; a chain that has runs | `Departments` |
| Unit movements and their carry-over (`unit-movement-service`, `cost-period-propagation-service`) | `unit_movement_schedules` | save, open the next month, repropagate | reads outside the transactions; saved for any month; partial repropagation; each month opens with what the last one closed | `ProcessChain` |
| Engine of process costing (`process-costing`, `process-costing-engine`, `validate-inputs`) | none | schedule, equivalent production, losses, report | unknowns solved by difference; losses, increases and conversions that must lose no money | `ProcessSheet` |
| Joint costs (`joint-costs`, `joint-cost-service`) | `joint_cost_allocations` | split by four methods | bases that are missing, zero or negative | `JointCosts` |
| Overheads (`indirect-costs`, `calculate`) | none | primary, secondary (direct, by steps), quota, variances | cost that reaches no product; cycles; centres that have not closed | `Overheads` |
| Book of a month (`calculate`, `raw-material`, `desperdicio`, `cost-statement`) | the configuration sections | save, populate, record waste, calculate | the partial engines must agree with each other | `CostSheet` |
| Labour (`direct-labor`, populator, catalogue of charges) | `directLaborConfig` | save, populate from documents, calculate | merges of a section read before; charges with a wrong hint; hours missing | `Labour` |
| Ingestion (`ingest-data-entry`) | `data_entries`, `processed_caes` | classify, detect duplicates, insert | concurrent and repeated deliveries | `Intake` |
| Classifier (`cascade-classifier`, its layers, `groq-classifier`) | none but the fingerprints | classify a document | six sources of evidence, the memory of the supplier and a language model that may answer anything; a wrong decision that nobody is asked about | `Classifier` |
| Review (`validaciones-service`, `ledger-builder`, `condicion-iva-signal`, `validaciones-ledger-service`) | `data_entries.status`, `cost_ledger_entries`, `supplier_fingerprints`, `companies.condicionIvaRevisar` | approve, correct, reject, approve in bulk, assign a department; add, edit and delete a line | double approval; non-fatal steps after the commit; sums and fingerprints read and written back; the amount of a line by the condition of the company | `Intake`, `Ledger`, `Classifier` |
| Budgets and hours of an order (`presupuesto-orden-service`, `parte-horas-service`) | `versiones_presupuesto`, `partes_horas` | create, prepare, approve, reject, revalidate; load and approve hours | separation of duties over stale reads | `WorkOrders` |
| Inventory (`inventario-service`) | `movimientos_inventario` | receipt, issue, return, transfer, adjustment | balance read without a lock; returns in parts | `Inventory` |
| Indicators and recalculation (`macro-sync.worker`, `recalculate.worker`, `alert-service`) | `macro_snapshots`, the queues, `alerts` | sync, manual record, recalculate, margin alert and its e-mail | two consumers of one queue; jobs that fail or stall; a jump that must not be lost; an alert told once a day | `Indicators` |
| How costs behave (`parametros-costeo-service`, `concepto-costeo-service`, `tramo-semifijo-service`, `contribucion-marginal`, `punto-equilibrio`) | `parametros_costeo`, `conceptos_costeo`, `tramos_semifijos` | classify, unset, create, edit and remove a concept, separate a half-fixed one, calculate | edits that cross; the cascade period, structure, company; what is not classified yet | `Margin` |
| Warnings of a closing (`anomaly-detection`, `period-anomaly-runner`) | the frozen results | close, reopen, detect | means over the months closed before; scale | `Anomalies` |
| Comparison of two months (`period-comparison`, `cost-period-service`) | none | compare, in one money, by unit | months of different mix and money; what is missing on a side | `Comparison` |
| Calendar (`domain/periods`, `company-service`) | rhythm of the company | codes, bounds, successor; change of rhythm | month ends, leap days, custom cycles; a rhythm changed while a period opens | `Calendar` |

Not modelled, and why: reports over results after which nothing happens (variable
results, closing point, dashboards), the patterns and the prompts of the classifier
(`Classifier` takes what they find, `Intake` lets it answer anything), the deletion of
structures, users, sessions and tenant isolation (the models have one user), the numeric parameters and the
assets, the rules of alerts that a person writes (no alert changes a cost), operations of
the plant (records with little shared state), the assistant and its vault, audit and
telemetry (logs written inside the transactions of others), the HTTP routes and the portal
(adapters).
`PROJECT.json` has the whole list, with a reason for each, and the list of
hazards with the line where each one bites.

### How the parts interact

The screen edits the *structure*. Every save looks up the open period and writes
the same section into it in one transaction (`period-sync.ts`). Closing runs the
engine over the *period* and freezes the result in its row. Opening the next
month takes a seed from the newest period (the recipe stays, what belongs to the
month goes) and resets the structure to it, so that the screen shows the new
month. An approved document does the same as a save, in separate statements. A
datum that is imputed to a closed month becomes a decision, which may reopen that
month. The button *Calcular* and the daily job run the engine over the structure
and save the result as a numbered run and, for older readers, as a row of
`cost_calculations`; the daily job skips a period where nothing arrived since its
mark. Everything that asks the language model goes through the limiter.

A document arrives through a channel, is classified and becomes an entry that waits
for a person (`Intake`); approved, its amount is added to a section of the structure
or, in the PROCESSES system, to the sum of a department (`Labour`, `CostSheet`,
`Intake`). A calculation of the ORDERS system runs the book of the month: materials,
labour, overheads, waste and statement (`CostSheet` over `Overheads`). One of the
PROCESSES system runs the chain of departments (`ProcessSheet`), whose closing stocks
the next month opens with (`ProcessChain`) and whose order is a protocol of its own
(`Departments`). The rhythm of the company says which months there are (`Calendar`).

Around the book, the workers keep the indicators and recalculate every structure when one
of them moves (`Indicators`), and every calculation adds how its costs behave, the
contribution margin and the break-even point (`Margin`). A closing compares the month with
those closed before and leaves its warnings (`Anomalies`), and two months can be put side
by side (`Comparison`).

## 2. The modules

### CostPeriods

One cost structure, its periods, its data and the requests in flight (`Actors`).
A handler has two steps: what it reads and checks before its transaction
(`OpenNextRead`, `CloseRead`, ...), kept in `req`, and the transaction
(`OpenNextCommit`, `CloseCommit`, ...). Anything may happen in between. A check
that the code makes inside its transaction (`requireWritablePeriod` in
`updateConfig`) is in the guard of the step of the transaction.

| Variable | Code |
|---|---|
| `structure` | the configuration columns of `cost_structures` |
| `policy` | `cost_structures.lateDataPolicy` |
| `status`, `cfg`, `frozen`, `reopens` | `cost_periods`: `status`, the configuration columns, `resultSnapshot`, `reopenCount` |
| `datum` | `data_points`: created or voided, `periodoImputado` (0 for null) |
| `decision` | `late_data_decisions`, one per datum and month, with `openPeriodCode` |
| `req` | the local variables of the handlers in flight |
| `held`, `writes` | history: what each period ever held; the name of the next write |

A configuration is the number of the last write it comes from, whether the real
activity of the productive centres is loaded (the only content that guards an
operation; "missing" also stands for inputs the engine rejects) and whether it has
third-party work (the only column with rules of its own). A period is its position
in the calendar. The frozen result is represented by the inputs it was computed
from, because the engine is a function of them.

Not in the module: what happens between two statements *inside* a transaction
(two READ COMMITTED transactions that interleave statement by statement; the
numbering of runs, where it matters, is modelled so in `CalcRuns`), reads that only
answer a question, the deletion of structures, the opening stock of process
departments and its repropagation, data that are born already imputed, and
`setGastosDeNoFabricacion`, which changes a column of the period that no guard
reads.

### CalcRuns

One structure of the ORDERS system with its open periods. The transaction that
saves a run is modelled statement by statement (`LockRow`, `ReadLastRun`, `Save`),
because its row lock is what makes the number free. Time is the order in which data
arrive: a run has read the data `1 .. input`, and a mark in time is the number of
the last datum that had arrived. `Fail` rolls back at any point, `MarkFails` is a
failure or a crash after the run was committed. `shown` is the run behind the newest
row of `cost_calculations`, the one `/calculations/latest` and the portal read.

Abstracted: data that commit after a timestamp they carry and the skew between
clocks; the legacy calculation and the recalculation worker, which write
`cost_calculations` without a run; closing a period while the list is visited.

### GroqLimiter and Slots

`Slots` says what a limiter promises: at most `MaxConcurrent` holders, and a slot
given back goes to a waiting call if there is one. `GroqLimiter` is the code, one
action per stretch between two awaits, and implements `Slots` under the mapping
`waiting <- Waiting`, `holding <- Holding`. The decrement and the increment of a
hand-over happen in one synchronous stretch of JavaScript, so no state between them
exists. The caller reads the body after the slot is free; that is outside.

### Intake

One structure of the PROCESSES system, its departments, papers that any channel may
deliver any number of times, and the requests in flight. `entry`, `audit`, `caeOwner`,
`reviews` and `ledger` are the tables of the same names; `total` is the cost of a
department, not as a number but as how often each entry is in the sum, which is what
tells a lost amount from one counted twice; `req` holds the locals of each request,
`fate` is history. The searches for duplicates, the classification and the insertion
are separate steps, as the awaits between them are; the transaction of `Insert` and
the one of `ReviewCommit` are one action each; `WriteLedger`, `ReadSum` and `WriteSum`
are statements of their own. `Crash` may end a request anywhere. The department of an
entry is set by the review or later by `AssignRead` and `AssignSave`. What the
extraction reads on a paper and what the classifier answers are any member of
`Readings` and `Classes`. The structure exists and is not deleted meanwhile. A document
without a department is left for the list of pending ones (`LeaveForList`): its alert names
no document, so that it does not count as told. `Listed` is that list as the code filters it,
by the section of the classifier; a document whose section a person corrected into a cost,
and that has no department, is not in it (`MissedByList`).

### Classifier and Ledger

A document of `Classifier` is the record of what the patterns find in its text: quality,
definitive marks, hints, numbers that check or not, words of each section. The layers are
operators over it: `Definitive`, `Points`, `NumericDelta`, `Route`, and the answer of the
language model over its two attempts (`Answer`, with the repair of a JSON whose fields are not
valid). `ClassifyDocument` puts them together as the cascade does. `Evidence` holds what the
layers say of each document, since nothing but the row of the supplier changes. `Classify`
is an arrival; `ReadRow` and `WriteRow` are the review that reads the fingerprint of the
supplier and writes it back, and `Learned` what it learns. All documents are of one supplier
of one company, and layers 2 and 4 have one combination of words per branch. `lesson` and
`crossed` are history.

`Ledger` is what follows an approval: `Cost` chooses among the net, the tax and the total that
were read, `InsertLine` and `Signal` are the two steps after the commit, each of which may fail
(`AskingDies`), with the condition of the company as the review read it. `ReadCompany` and
`WriteCompany` are the edit of a company, which writes the whole row. A line may be added,
corrected, moved to another month and deleted. `unheard` and `overwritten` are history.

### WorkOrders

The budgets of one order: `CheckBase`, `ReadLastNumber` and `CreateBudget` are the two
reads and the insertion of `create`; a decision (`PrepareRead`, `ApproveRead`,
`RejectRead`, `RevalidateRead`) reads and checks the row, and `Change` writes it. A
budget may expire at any moment. A sheet of hours with an exceptional premium names
the additional budget that is its cause. `stale` is history: the versions somebody
decided on after another request had changed the row they had read.

### Inventory

The movements of one article in the order of `createdAt`. Quantity, value and moving
average are computed from the movements, as the code does; each kind of movement has
its action up to the insertion (`Record`). What is inserted is what the service and the columns
keep (`Kept`): the cost rounded to `Scale`, the quantity to the digits of its column.

### Fractions, ProcessSheet, ProcessChain, Departments and JointCosts

`Fractions` is the arithmetic of `Money` and `Decimal`. Inside an engine it is exact (28 digits in
the code); where the code rounds what it keeps or shows, the model does: `Rounded` is
`toDecimalPlaces` (of two as near, the even one), `Stored` a numeric column (the one above),
`Near` a comparison with a tolerance. `ProcessSheet` is
the engine as operators: from the sheet of a department to its schedule of units (with
the unknown that is solved by difference), equivalent production, cost per unit, the
cost of the losses (`Caup`, `ModifiedCost`) and the report; `Run` chains the
departments; the checks before it let a difference of a column's last digit pass (`Unnoticed`; the
code compares floating point numbers there, the model exact ones). `ProcessChain` has the sheets of
each month, kept to `Grid`, and requests that overlap. `SaveRead` and `SaveWrite` are
`UnitMovementService.save`: the units that open the sheet are read and the form is checked outside the
transaction that writes the row. `OpenNextRead` works out what the last month leaves
and `OpenNextCommit` creates the next one with it. `Repropagate` takes the months after a reopened
one; for each, `WalkRead` computes what the month before leaves and `WalkWrite` upserts one department,
a statement of its own. `RequestEnds` is a request that ends anywhere: its errors, its death. The two
reads of `processWipCarryOver`, of the rows and of the report, are one step. `settled` is
history: a month whose carry was written whole from a reading that is still good (a request is
`stale` once it is not). `Departments` has the places of the chain, each operation with what it
checks before its transaction, and the order that the first calculation froze.
`JointCosts` is the split at a point of separation, saved as a whole.

### Overheads, CostSheet and Labour

`Overheads` has the primary proration (by base and by direct allocation), the
secondary one, direct and by steps, what each refuses, quotas and variances, with the
fixed and the variable side apart. `CostSheet` is the month that uses them: the
sections that are saved or populated, the waste that is recorded, and `CalculateBook`,
the run of the engine over all of it; a change clears the result, which is of this
very book. A section is saved as its schema lets it through, and the engine parses it again, as
`calculation-run-service.ts:240` does; a purchase without a cost is refused. `Labour` has the section of labour with its documents in flight
(`PopulateRead`, `PopulateWrite`), the merge of days, charges and departments, and the
engine: working days, charges, normal, idle and hidden cost.

### Calendar

Days are numbered as UTC dates are. Codes, bounds, successor and cycles are operators
for the four rhythms; `CreateStructure`, `ChangeRhythmRead`, `ChangeRhythmWrite`,
`OpenRead` and `OpenWrite` are the operations that fix a rhythm and use it.

### Traceability

One section of a structure of the ORDERS system: `numbers` is what it says, `points` the
data of each field with their versions, signature and flag of voiding, `task` the locals of
the requests in flight. A field is a key of a datum; `Movements` are the keys that several
equal movements of one day share and that only their repetition tells apart. A save of a
form is `SaveBegin` (the last version of the section is read), `SaveInsert` (its insertion,
which waits for the same number and fails if it is taken), `ReconcileLook` (the index of
the live data) and `SaveCommit`; it may abort at any point and leaves nothing. A document
reads the section, writes it, and reconciles in a transaction of its own
(`DocumentBegin`, `DocumentWrite`, `ReconcileLook`, `DocumentCommit`), so that its trace
may be lost (`DocumentStops`). By hand, each request reads and later writes: `PointRead`
and `PointWrite`, `HandBegin`, `LastRead` and one write per operation. `traced` is a
history: a form or a document has reconciled the data and nobody else has written the
section or a datum since, or while it was doing it. Not kept: the date and the label of a
correction, which may move a datum to another movement (the next save voids it and creates
the right one), more than one paper, and whom an orphan is attributed to. The order of
`createdAt` is taken as total; two data created within the same instant would come in any
order, and two equal movements would exchange their data. Nor does a section have the same
coefficient twice, for which the index keeps one datum only.

### Indicators

`rec` is the last record of each indicator, `sync` the locals of the sync job between two
awaits, `queue` the recalculations that wait (by how often each one stalled) and `job` the
one each consumer is at. `SyncStart`, `SyncUsd`, `SyncIpc`, `SyncOthers`, `SyncQueue` and
`SyncEnd` are the sync job; `Record` keeps a value and, if it moved more than 1 %, owes its
recalculation to every structure (`owed`). `TakeJob`, `Recalculate`, `Look`, `Create`, `Mail`,
`Mark` and `EndJob` are a recalculation, with the search for an alert of the last 24 hours
apart from its creation, since two consumers (the server and the process of the workers) may
be at it at once; `CannotCalculate` and `Caught` are the `catch` of its loop, around the
calculation and around the alert. `SyncFails` is a job that throws, which is not retried;
`SyncDies` and `Dies` are a process that stops: BullMQ runs a stalled job once more, from its
start. `lost` is history: the structures whose recalculation no job will do any more for the
last jump. A sync that fails or dies between the record and the queue loses them all, also
when its second run ends well, because that run compares with the value its first one
recorded (`ForgetsJump`); so does an entry by hand that is stored and not queued. A
recalculation that stalls twice loses what was left of its list, and a calculation that
throws its structure. One sync is under way at a time; two processes consume its queue, so
that a sync queued by hand or at the start of the server may run beside the one of the
schedule, and that overlap is left out. The result of a recalculation is not here but in
`CalcRuns`.

### Margin

`params` and `concepts` are the rows in the order of their insertion; a request reads
(`ReadSet`, `ReadUnset`, `ReadCreate`, `ReadEdit`, `ReadRemove`) and later writes. The unique
index does not see a null, so that it protects only the rows of a period. `crossed` is
history: a row written by a request that another one had overtaken. `SaveSplit` separates a
half-fixed concept by one of four methods. `Calculate` resolves the classification of each
item by the cascade (`Classified`), adds the contribution margin and the break-even point, or
the zone between the two extremes when something is not classified yet, and converts them to
the unit in which the company reads. The zone is stated under what the code leaves to its
callers: everything that is open may still be fixed or variable, what was sold reaches the
lower end, nothing half fixed is separated (it is in neither sum of the zone), and nothing
open is negative. A waste that was recovered comes as a negative cost
(`calculation-result-enrichment.ts:170`); as long as it is not classified, the end called
lower is the higher one, which `punto-equilibrio.ts:144` ("R13: acota la incertidumbre") and
`tests/integration/contribucion-marginal.test.ts:217` do not expect. One of the outputs of the
instance has such a waste, and is outside the property only for its zone.

### Anomalies and Comparison

`Anomalies` closes and reopens months with any result of `Sheets`; `Detect` looks at the share
of each element against its mean over the last closed months, and at the variances of the
centres against what they applied; a result is one of a structure costed by orders (by
processes there is no detail of the materials). `Comparison` extends it with `Compare`, that puts two
months side by side: in one money if both indices are known, in total, by unit of management,
line by line, and the materials in price and quantity. Every amount is shown to the cent (`Shown`),
and each is rounded by itself: both sides, their difference, both effects of a material. The amounts of
a unit are rounded first and then converted to the unit of management (`ByUnit`). A month that made
nothing has no cost by unit, even if it sold (`UnitsOf`: a `Decimal` that is zero is still true).
Left out: the four decimals of the percentages and of the quantities, the six of the prices, the
three elements by unit, which are computed as their totals are.

### MCWorkers, MCDesk and MCOps

Components that share no variables. Each of these modules puts some of them in one
specification whose variable `part` chooses, at the start, the one that runs; the others
keep their initial state, so that the states are the sum and not the product of theirs.
`MCWorkers` has the runs, the limiter and the indicators, with the fairness of the three
(a component that does not run has no fair action enabled); `MCDesk` has `Margin`,
`Comparison`, `Classifier` and `Ledger`; `MCOps` has the engines and the operations around them.

## 3. The runs

| Run | Instance | What it shows |
|---|---|---|
| `CostPeriodsRaces` | 2 requests, 1 datum, 2 months, 2 writes, 1 reopening, crashes | with every interleaving of two requests: a month freezes only inputs it held and that could be closed (`FrozenIsOwnInputs`); a month is born from its predecessor or not at all (`OpeningCarriesPredecessor`); a decision is neither lost nor repeated (`NeverAskedTwice`) |
| `CostPeriodsSequences` | 1 request at a time, 1 datum, 3 months, 3 writes, 1 reopening | along any sequence: a closed month still has the inputs its frozen result came from (`FrozenMatchesInputs`); the screen shows the open month (`ScreenMirrorsOpenPeriod`); a month closes with no datum without a period (`ClosesWithEverythingImputed`); only a decision puts a datum in a closed month (`ClosedMonthOnlyByDecision`) |
| `CostPeriodsTwoOpen` | 1 request at a time | finding: two open periods |
| `CostPeriodsPending` | 1 request at a time | finding: a datum counts while its decision is pending |
| `Workers` | runs: 1 person, the worker, 2 periods, 3 runs, 1 datum, 1 lost mark; limiter: 4 callers, 2 slots, 1 retry; indicators: 1 structure, 2 consumers, 1 sync over an earlier record of both or none, 1 manual entry and 1 death or 2 deaths | the history of runs is append-only (`HistoryStands`), a standby repeats a run only after a lost mark (`RepeatsOnlyAfterFailure`), every request ends (`EveryRequestEnds`); the limiter implements `Slots`, serves in order (`NoOvertaking`) and starves nobody (`EveryCallEnds`); a recorded jump recalculates every structure, but for what the code gives up of it, structure by structure (`JumpIsRecalculated`), and a margin that fell is told once a day by each consumer at most (`FallIsToldOnce`) |
| `CalcRunsMark` | the runs alone, 1 period, 2 data, no failures | finding: the mark covers a datum no run read |
| `CalcRunsShown` | the same | finding: an unvalidated run is shown |
| `MacroSync` | the indicators alone | finding: an index that was fetched and is not recorded |
| `Intake` | 2 requests, 1 paper, 2 entries, 1 department, deaths anywhere | an entry is whole and owns its CAE (`IngestIsWhole`); an approved document enters the costs once at most (`CountsAtMostOnce`), and if it does not, it is listed, somebody was told, or it is one of the losses the property names (`AcceptedIsVisible`) |
| `IntakeSums` | the same | finding: a sum that is saved over another |
| `Ops` | one component per behaviour, see below | the thirteen properties of the components of `MCOps` |
| `Desk` | one component per behaviour, see below | the nine invariants of the components of `MCDesk` |

The parts of `Ops`, with what each shows:

| Part | Instance | Invariants |
|---|---|---|
| orders | 2 requests, 2 people, 2 versions, 1 sheet | `SeparationOfDuties`, `OneBasePerOrder`, `PremiumHasItsCause` |
| inventory | 2 requests, 4 movements, 3 entries, quantities of 24/25, 26/25, 1, 2 and 3 kept to a tenth, 3 policies | `StockIsWorthWhatEntered` |
| chain | 2 departments with a conversion of 2, 2 months, 2 requests that overlap, numbers kept to a quarter, one form of the first and two of the second: with losses, increases, a quarter of a unit that is not noticed, its own opening | `MoneyIsConserved`: of each month, and from one to the next |
| departments | 3 departments, 2 requests | `ChainStands`: continuous, and in the order of its calculations |
| book | 2 productive and 2 service centres, 8 configurations (direct, by steps, incomplete, cyclic, repeated), 4 ledgers, 3 kinds of waste | `CostIsAccountedFor`: overheads reach the products, and everything is borne |
| joint | every list of up to 2 of 5 products, the 4 methods | `JointCostIsBorneWhole` |
| labour | 2 documents in flight, 4 charges, 2 forms, 3 documents | `ChargesFollowTheCatalogue`, `PaidLabourIsBorne` |
| calendar | 2 structures, 3 periods, a December and the 29th of a February, cycles of 10 days | `PeriodsTileTheDays` |
| data | 2 requests at once and 4 in all, a price and a purchase with 1 or 2 repetitions, 2 forms, 3 data of a field | `SectionIsTraced`, `SignedNumberStands` |

The parts of `Desk`:

| Part | Instance | Invariants |
|---|---|---|
| classes | 2 requests, 1 item of two levels, up to 4 rows of which 2 or 3 exist at the start, 4 outputs of the engine | `LevelAnswersOnce`, `BreakEvenStands` |
| concepts | 2 requests, up to 2 concepts, 3 edits, the 4 methods of separation | `VariableByVolume`, `BreakEvenStands` |
| closings | 5 months, 5 closings, any of 3 results in the odd months, a mean over 4 | `AlertsIgnoreScale` |
| months | 2 months, any of 5 results, one of a month that made nothing, indices that rise, fall or are missing, a unit of management of 1 or 3/2 | `VariationIsExplained` |
| mail | 15 documents, 3 pairs of attempts of the model, a known supplier or a new one, 2 reviews, 2 documents reviewed | `NothingSilent`, `LessonIsAsked` |
| lines | 5 bills, 3 conditions, 1 request, 1 line | `TaxFollowsTheCompany`, `SuspicionIsHeard` |
| condition | the same bills, 2 requests that race for the condition | `SuspicionIsHeard` |

**Bounds.** Two requests are enough for a race between a read and a commit, since
every handler has one such window. Two months give a predecessor and a successor
(the races), three give an older month that is reopened while the newest one is open
and a middle one (the sequences). One datum: no guard relates two data other
than the count at closing, which one datum without a period already stops. Two
writes distinguish a month's inputs before and after an edit, three also in two
months. `Closing` leaves out structures without productive centres in the two runs,
for the number of states; the proofs include them. Four callers and two slots let
two calls wait at once, the least for an order in the queue; one retry is enough for a call
that comes back to the queue behind others (the code has 3, and the proofs any number). In the
indicators two levels are a jump and no jump, in either order (`MacroSync` has a third, at
exactly 1 %); two deaths use up the second attempt of a job of either queue. `Lookback` is 4 and not 6, the least that drops a month with five closed ones
and still leaves more than `MinPeriods`, which has its real value 3. The bounds stand in the guards: `MaxWrites` and `MaxReopens`
(`CostPeriods`), `MaxRuns`, checked where a calculation begins so that it never
stops one in flight, `MaxData` and `MaxFails` (`CalcRuns`), `MaxSyncs`, `MaxManual` and `MaxDeaths`
(`Indicators`), `MaxParams`, `MaxConcepts` and `MaxStamp` (`Margin`), `MaxOpened` and
`MaxClosings` (`Anomalies`), `MaxDocuments` (`Classifier`) and `MaxLines` (`Ledger`; `MaxAmount`
is a limit of the code, the digits of the column). Deadlock is not checked: the bounds exhaust, and all calls to the
limiter may have ended. In `Intake` one paper in two entries is the least
that lets deliveries overlap and two entries of one department race for its sum
(`MaxEntries` stops deliveries, never a request that began). In `Ops` the bounds are
`MaxVersions`, `MaxMoves`, `MaxMonths`, `MaxChain`, `MaxRequests` and `MaxPoints`; `Scale` and `Grid`
(10000 in the code) are small, so that small amounts are rounded, while `Cents` has its real value 100; four requests
let a datum be saved, signed and corrected while a paper is on its way; three departments give a
middle one to remove; two months are enough for an opening, since each month only
reads the one before. The engines are functions: what matters is which of their
branches an instance reaches, so that its forms were chosen one per branch, the ones
that are refused included.

**Why the sequences have one request.** The four properties of
`CostPeriodsSequences` are not true of overlapping requests, by the code's design:
`close` checks and computes before its transaction, and the populator mirrors into a
period that may have been closed since. The list of hazards names both lines. What
remains true under races is what `CostPeriodsRaces` checks, and is proved. The
modules of later components have overlapping requests throughout, and a history
variable (`fate`, `stale`, `settled`, `raced`, `contested`, `mixed`, `undone`, `traced`) that marks what was
decided on a reading that no longer held: the code has no lock there, and each property
says what remains true of everything else. The `CostPeriodsRaces`
run lets a request die between two of its writes; the sequences do not, since nothing
in the code repairs a structure whose mirror was never written.

**Symmetry and view.** Requests are interchangeable, so `CostPeriodsRaces`, `Intake` and `Ops` use a
symmetry, and `Desk` one of its requests; none has a liveness property, and `Workers`, which has
them, uses no symmetry. The components of `Ops` share the names of their
requests and people, to keep the group small. `CostPeriodsSequences` leaves the history
`held` out of the fingerprint by a view: no action and no property of that run reads it.

**Fairness.** `CostPeriods` has none and only safety is stated. In `CalcRuns` a
handler that began goes on or fails (weak fairness of its steps: Node keeps running
it), and the row lock is granted strongly fairly, because PostgreSQL queues the
waiters of a row; nothing obliges data to arrive, a person to press a button or
the daily job to start. In `GroqLimiter` resolved promises and timers (at most
`MAX_BACKOFF_MS`) run, and `fetch` settles; the code passes no signal, so this last
one rests on the HTTP client's own time limits. Nobody is obliged to call. In `Indicators` a
sync that began goes on and each consumer works while there is something to do, which is what
BullMQ does while some process is up; deaths are bounded, and no sync or entry is obliged to
come.

**Mutants.** Each property of a passing run has beside the definition it defends a
mutant of that definition, a plausible bug (a check dropped, a lock forgotten, an
off-by-one, the screen used for the month), that violates it.

## 4. What the code does not keep

1. *At most one open period* (`cost-period-service.ts:56`): reopening does not look
   at the other months; saves then go to the newest, not to the reopened one.
2. *A datum with a pending decision enters no calculation*
   (`late-data-service.ts:19`): it can be imputed to an open month meanwhile.
3. *The external values are persisted as snapshots* (`macro-sync.worker.ts:12`): `||=` does not
   evaluate its right side, which is where the index is recorded, once the dollar has jumped.
4. *The mark never takes for seen what was not processed*
   (`daily-run-service.ts:142`): it is the time after the calculation.
5. *An automatic run is not shown as the current result*
   (`daily-run-service.ts:12`): it becomes the newest row of `cost_calculations`.
6. *The sum of a department never overwrites an amount, it always adds*
   (`cost-structure-populator.ts:445`): it is read, added to in memory and written
   back, and two documents approved at once leave one amount.

Found by reading, with no run of its own: the comment of `calculation-run-service.ts:216` takes
the third-party work of the structure for that of the period, but the column is in no seed, so
it is neither copied into the first month nor reset by the next (`CostPeriods` has it so).

The comment of `validaciones-service.ts:718` says that a document whose *final* section is a cost
and that has no department stays visible in the list: the list filters by the section of the
classifier (:756), so that one a person corrected into a cost is approved, in no cost and not
listed (`MissedByList` in `Intake`). And the promise of `recalculate.worker.ts:8`, a recalculation
on every jump, is broken when the process dies between the record and the queue (`lost` in
`Indicators`).

Of what is rounded: `period-comparison.ts` says that the three elements sum exactly to the variation
(:20) and price and quantity to that of a material to the cent (:516), but each of these amounts is
rounded to the cent by itself, so that three of them may miss by one; by unit, the cent is rounded before
it is multiplied (:350, :477). The unit cost of a movement is stored with four decimals
(`inventario-service.ts:109`) and values the stock: 3 units worth 5, issued at 1.6667, leave an empty
stock worth -0.0001. `VariationIsExplained` and `StockIsWorthWhatEntered` say how far each may go.

Of the classifier: the comment of `cascade-classifier.ts:415` says that any doubt goes to the
model *and/or* a person, but when the model contradicts the mark of the law on its own (:507)
nobody is asked; that an answer was repaired (`groq-schemas.ts:389`) is dropped by layer 5, so
that an invalid section with a high confidence of the model stands unless a rule dissents; and
a file skips the question of the losses, which only typed text is asked. Of the ledger: the bill
of a company that does not recover the tax is marked as with tax even when only its net was
read, and a credit note adds its amount. `company-service.ts:134` writes back the condition it
read (`overwritten` in `Ledger`).

## 5. What is proved

Eight `*_proofs` modules, checked by TLAPS for every value of the constants that meets the
assumption of its module:

- bounds are naturals, special values are not ordinary ones, numbers are naturals: units of their
  last decimal (`PeriodsAssumption`, `RunsAssumption`, `IndicatorsAssumption`, `LimiterAssumption`,
  `IntakeAssumption`, `WorkOrdersAssumption`, `TraceabilityAssumption`, `LedgerAssumption`,
  `ClassifierAssumption`); the chain and the centres are finite (`DepartmentsAssumption`,
  `OverheadsAssumption`);
- a date is of the year 1 or later, a cycle of a structure has from 1 to 366 days, as
  `period-calendar.ts:111` demands (`CalendarAssumption`);
- a form is what its schema lets through, and an input of an engine what the engine before it
  returns: `JointFormsAssumption`, `InventoryAssumption`, `ProcessChainAssumption` (their `Scale` and
  `Grid` are positive naturals), `LabourAssumption` (`directLaborConfigSchema`), `CostSheetAssumption`
  (`indirectCostConfigSchema` and `rawMaterialConfigSchema`, `cost.schema.ts`),
  `MarginAssumption` (`tramo-semifijo.schema.ts`; the unit of management has a positive factor),
  `AnomaliesAssumption`, `ComparisonAssumption` (indices and factors are positive, and `Cents` a positive
  natural).

TLC evaluates each of them on the instance of its run. A month, a book, a form, a chain may have
any size and any amounts.

- **Fractions_proofs.** The ground of the engines. Induction is first-order here: a set of
  naturals, or of subsets of a finite set, that holds the first and is closed holds all
  (`NaturalsFrom`, `FiniteFrom`). With it the recursive `Gcd` satisfies its equation and divides
  what it should, every operation returns a fraction in lowest terms (`FractionOps`) and obeys the
  laws of arithmetic and of order, and the fold of the community modules does not depend on the
  order in which it takes the elements (`FoldsAgree`), so that sums can be split, added, multiplied,
  telescoped and swapped. Identities are shown over one common denominator (`At`, `PlusAt`,
  `OverAt`), which leaves the solver integers. Rounding is a quotient of integers: the result is within
  half a unit (`NearestIsNear`), keeps the order and its own multiples, and such errors add up
  (`NearPlus`, `NearTimes`, `NearSums`).
- **CostPeriods_proofs.** `TypeOK` and `FrozenIsOwnInputs` are not inductive: whether
  a transaction is right depends on what its handler read. `IInv` adds that the
  configuration of an existing period is in its history (`PeriodsInv`), that a
  decision is about a period that exists (`DecisionsInv`), and, for every request,
  what its reads still guarantee when the transaction comes (`OpeningInv`: the seed is the carry-over of inputs the
  predecessor held; `ClosingInv`: what will be frozen was held by the month and can be
  closed; `NeedsInv`: what it writes to exists). The step proof has one case per
  action. From it: `TypeCorrect`, `FrozenCorrect`, `OpeningCorrect`, `DecisionsCorrect`.
  The second half is about one request at a time (`OneRequest`, which the run
  `CostPeriodsSequences` instantiates), with any crashes. `FreshInv` says that what the request read is
  still so; from `AloneInv` follow `FrozenStands`, `ClosesImputed` and `ClosedByDecision`. With no crash
  in addition, `MirrorInv` says that the screen and the open month differ by what a document
  half way still has to write, and nothing else; from it `ScreenMirrored`. The races that the
  hypothesis leaves out are those of `CostPeriodsRaces` and of the findings.
  And the calendar. `DaysAreTiled`: for every date, any rhythm of the company and of its structures and
  any number of them, the periods that `openNext` makes leave no day out and put none in two, and the first
  holds the day of the creation, until a rhythm is changed (or a period opened) on an old reading. Three
  layers. The arithmetic of dates: a month begins where the last one ends (`MonthStep`), `DateOf` and `Utc`
  undo each other (`DateFacts`), a later day has the greater date (`DateOrder`). The codes: whatever the
  rhythm, the next code is one of it, begins the day after and sorts later (`RhythmFollows`); the code of a
  day is of its rhythm and holds it (`CodeHolds`), and an old code read with another rhythm, when it is
  accepted, is a code of that rhythm (`FirstCode`). The state: `CalendarInv` says that the codes of a structure are a chain from the one it was born with,
  in increasing order, so that the newest period is the last, and that a code about to be opened is the one
  that comes. The order of two codes is the one of the texts while years have four digits.
- **Workers_proofs.** For `CalcRuns`, `IInv` adds to the types that only the holder of the lock is
  between the lock and the insert (`LockInv`), that the number it has is still the one
  after the last (`NumberInv`) and which steps belong to whom (`RolesInv`). From it:
  `NumberCorrect`, `HistoryCorrect`, and two that no run repeats, `NumberingCorrect` (the
  numbers have no holes) and `SignatureCorrect` (validated if and only if a person signed).
  `RepeatsOnlyAfterFailure` counts: `DebtInv` says that the runs repeated and those that will be
  (the mark is behind an automatic run that nobody is about to mark) are together no
  more than the failures; `StandbyInv` says what the worker in flight has seen. From it `StandbyCorrect`.
  For `Indicators`, `ToldInv` says that every job under way may still add one alert, one mail or one mark: with those
  of its structure there are no more alerts than consumers, mails than alerts and marks than mails; from it `AlertsCorrect`.
  For `GroqLimiter`, `LimiterInv` says that the queue holds exactly the waiting calls,
  once each (`QueueInv`), that the counter is the number of holders (`CountInv`) and
  how attempts, requests and answers go together (`CallInv`). From it `CounterCorrect`,
  `RetriesCorrect`, `InTurn` (no call overtakes another that waits) and `Refinement`: every step of the
  limiter is a step of `Slots` or leaves it as it is.
- **Ops_proofs.** Separation of duties is not inductive: an approval in flight
  must still be about the row it read. `WorkOrdersInv` says what each state implies of
  the signatures, that a request nobody crossed has in hand the row that is in the
  table, and that the cause of a premium is approved or stale. From it
  `DutiesAreSeparate`, `OneBase` and `PremiumIsCaused`. `JointSplitsAreWhole`: whatever the method and its
  bases, the parts of a split add up to its cost. `InventoryInv`: until two movements cross, the stock is
  sound but for the roundings of its issues, and an issue in flight that nobody overtook takes no more than there is, at
  the rounded average (`Possible`); from it `StockStands`, after any number of movements.
  `ChainInv`: the stored sheets are sheets as the program writes them (`AreMonths`), each request holds
  what its readings still guarantee (`ReqInv`, by the step it is at: `SaveHeld`, `OpenHeld`, `WalkHeld`, `WriteHeld`),
  and a month that is `settled` has its report and the next one opens with it, to half a digit of each column
  (`SettledInv`). From it `MoneyStaysInTheChain`: inside a month by induction along the chain, where
  the transfers of a department and of the next cancel as a telescoping sum (`Telescopes`), and the units
  whose difference nobody notices add up (`NearSums`).
  `DepartmentsInv`: a request that nobody crossed rests on places that are still taken, and the places are
  the first ones (no hole, by counting); from it `ChainIsKept`.
- **Book_proofs.** For `Labour`, `LabourInv` says that a document in flight that nobody crossed holds each
  charge of what it read and adds once, in the list of the catalogue; from it `ChargesAreSorted`, by induction
  along the charges of a document. `PaidLabourIsAllBorne`: what a department was paid with its charges is
  applicable, informed or hidden, and the informed idleness goes by its reasons, however many, without a rest. For `CostSheet`, `BookInv` says that the sections are what their schemas
  let through, the saved settings of a centre included, and that the result, when there is one, is of this
  very book. From it `CostIsKept`, in four parts: the primary proration and the direct secondary one give every
  account to centres (double sums that are swapped); each closing by steps moves a cost and loses none, so
  that after all of them nothing is left in a service; fixed and variable agree because the totals do and no
  side is less; and what was spent on materials (by induction over the movements), labour and overheads is in
  what was sold, is in stock, or was lost, where what a centre applied and its budget variance are what it bears.
- **Intake_proofs.** `IngestInv` adds to the types the paper of every entry
  and request (`PaperInv`) and what a request holds at each step (`RequestInv`). From it
  `IntakeTypeCorrect` and `IngestionIsWhole`: no interleaving of deliveries leaves
  an entry without its audit or two entries for one CAE. `CountInv` follows the cost of an
  entry from its review to the sum: who has the right to count it (`ClaimInv`: one request carries the
  entry, or nobody can any more), what the row says meanwhile (`RowInv`), and where an accepted
  cost is (`VisibleInv`: in a sum, in the hands of a request, or in an alert). From it
  `DocumentCountsAtMostOnce` and `AcceptedCostIsVisible`.
- **Traceability_proofs.** `SignedNumberStands` is not inductive: a paper in flight holds
  a value it read. `TraceInv` adds that its number is still free only if that value is
  still the current one (`HandFacts`), which holds because data only grow (`Grows`: no
  step removes a datum or a version), and what the writers of the section hold
  (`WriterFacts`). `ReconciledFacts` shows that the reconciler, whatever index it applies
  and however old, keeps every version and signs nothing. From it `SignatureStands` and
  `VersionsStay`. `SectionTraced` is under `OneNumberEach`: a field that is not a movement has one
  number in a form. In the code such a field is known by its key alone (`datapoint-reconciler.ts`), so
  a form with two of one key has data that hide each other; that is outside the theorem and the run. Its
  invariant `SectionInv` says that what a writer nobody crossed has read is still so (`Fresh`) and that
  one save at a time is about to commit, because the number of its version is the next one (`Numbered`,
  `OneSaver`). The rest is about the reconciler: the live data in their order are the only increasing
  listing of them (`ListsIsListing`), and after it they are those of the first numbers and one more for each
  number that had none (`AllSettled`), or the last one alone has the number (`LastSettled`).
- **Desk_proofs.** `MarginInv`: what a request in flight read of the margin (`ParamHand`,
  `ConceptHand`) is still so unless another one crossed it; from it `LevelsAnswerOnce` (of the
  rows that nobody crossed, no two answer for one level) and `OnlyVolumeVaries`. `LedgerInv`: every
  line is as the condition it was written under makes it (`LinesInv`), a review whose news still counts has
  read the condition in force (`AskingInv`), and what was approved and contradicts that condition raised the
  flag (`HeardInv`), the last two while no edit put an old condition back;
  from it `TaxFollows` and `SuspicionsAreHeard`, with the lemmas about the amounts of a paper
  (`TwoAmountsTell`, `CostOfTwo`) and about the clues (`ClueSuggests`). `LessonInv` ties the counters of
  the lessons to what was seen; from it `LessonsAreAsked`. `NoDoubtIsSilent` is for any evidence, any
  answer of the model and any lesson (`AlwaysHeard`).
  `AlertInv`: every finding was computed from the month and the months closed before it; from it
  `AlertsAreOfShares`: with the month that closes, or any one of the mean, twice or three times as large the findings are the
  same, because shares, means of shares and their distances are (`ScaledSheet`, `MeansIgnore`).
  `ComparedInv` and `VariationExplained`: the lines of a comparison add up to the variation of its total, in any
  money, price and quantity explain the materials (`EffectsAdd`), the cost of a unit times the units is the
  total (`UnitsMakeUp`), and a month that is the older one at the prices of its own moment varied in
  nothing (`OlderFacts`). Before rounding these are equalities; what is shown misses them by half a
  cent of each amount at most (`ShownIsNear`, `ShownAdds`, `EffectsNear`).
  `CostsInv`: every row has a known behaviour, every separation two portions that are fractions
  (`SeparatedIs`: the observations have a least and a greatest volume, which differ, and the squares of
  least squares add up to something positive, so that no slope divides by zero), and what is shown was computed
  from an output of the engine and such a trace. From it `BreakEvenHolds`: at a point, margin times what was sold
  beyond it is the result of the month (`SoldBeyondThePoint`); in a zone, any assignment of the open items
  has its point between the ends, because the point rises each time that a cost moves from the margin to the
  fixed side while the fixed ones are within the margin (`PointRises`, `AssignedPoint`).

Some results are proved only, and no run repeats them: the types (`TypeOK` and the like), the
numbers without holes of `CalcRuns`, the exact counter of the limiter (`CounterIsExact`) and all
its retries before a 429 (`FullEffortBefore429`).

Only model-checked: liveness (`EveryRequestEnds`, `EveryCallEnds`, `JumpIsRecalculated`), which is
beyond the prover with its fairness. Every other invariant and action property of the passing runs
is a theorem. The prover cannot instantiate the induction theorems of its library, which take an
operator; what needed induction over data (the greatest common divisor, sums, chains, charges,
movements, closings, observations) is by the first-order induction of `Fractions_proofs`. No module
declares a RECURSIVE operator. The six findings are runs that TLC refutes; nothing is proved of them.

## 6. Plan

Done in the order of the first plan: the periods, the runs and the limiter; then the
chain of process inventories, the intake of documents, budgets and inventory, the
calendar, the engines, and the theorems of all of them. What is left, by what it would add:

1. A composition of `CalcRuns` with `CostPeriods`, for a run of a reopened month
   that takes the inputs of another (`calculation-run-service.ts:261`).
2. `ProcessChain` composed with the status of the periods: a late datum that
   repropagates before it enters its month.
3. The deletion of structures, and a correction that moves a datum to another date.
4. The zone of a break-even with half-fixed costs that are separated, once the code counts
   them in its two sums.

## 7. Running

    tlc -workers 2 -config CostPeriodsRaces.cfg MCCostPeriods
    tlapm CostPeriods_proofs.tla

The passing runs take from one to four minutes each with two workers, those of the findings
seconds; the proofs from one to eight minutes per module, about half an hour in all.
