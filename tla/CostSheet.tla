----------------------------- MODULE CostSheet -----------------------------
(***************************************************************************)
(* The book of a structure of the ORDERS system and the statement of costs *)
(* worked out of it (calculate.ts: runCalculation): the stock ledger at    *)
(* the weighted average price, the overheads, the waste of the month and   *)
(* the statement.  Direct labour is an amount here.                        *)
(***************************************************************************)
EXTENDS Overheads

CONSTANTS
  OverheadForms,  \* configurations of the indirect costs that may be sent
  Ledgers,        \* stocks of the materials: [quantity, unitCost, movements]
  Wastes,         \* wastes that may be recorded: [nature, value, recovered]
  Labour,         \* cost of direct labour
  Apart,          \* work of third parties and depreciation
  Stocks          \* [wip0, wip1, goods0, goods1]: initial and final inventories

\* What the schemas of the sections let through.
IsMovement(m) == IsFraction(m.qty) /\ IsPositive(m.qty) /\ IsOptional(m.unitCost)
IsLedger(l) ==
  /\ IsAmount(l.quantity) /\ IsAmount(l.unitCost)
  /\ l.movements \in Seq(ToSet(l.movements)) /\ \A i \in DOMAIN l.movements : IsMovement(l.movements[i])
IsWaste(w) == IsFraction(w.value) /\ IsFraction(w.recovered)

ASSUME CostSheetAssumption ==
  /\ \A form \in OverheadForms : IsBook(form)
  /\ \A l \in Ledgers : IsLedger(l)
  /\ \A w \in Wastes : IsWaste(w)
  /\ IsFraction(Labour) /\ IsFraction(Apart) /\ IsFraction(Stocks.wip0) /\ IsFraction(Stocks.wip1)
  /\ IsFraction(Stocks.goods0) /\ IsFraction(Stocks.goods1)

VARIABLES
  cfg,      \* indirectCostConfig of the structure
  ledger,   \* rawMaterialConfig
  wastes,   \* wastes recorded in the month
  result    \* the output of the engine for this very book, once it has run

bookVars == <<cfg, ledger, wastes, result>>

NoResult == [done |-> FALSE]
NoBook   == [concepts |-> << >>, dist |-> << >>, order |-> << >>, settings |-> << >>]
NoLedger == [quantity |-> Zero, unitCost |-> Zero, movements |-> << >>]

CostSheetInit ==
  /\ cfg = NoBook
  /\ ledger = NoLedger
  /\ wastes = {}
  /\ result = NoResult

-----------------------------------------------------------------------------
(* calcStockLedgerPPP.                                                       *)

LedgerStart(l) == [qty |-> l.quantity, price |-> l.unitCost,
                   value |-> Times(l.unitCost, l.quantity), consumed |-> Zero, refused |-> FALSE]

Purchase(b, m) ==
  LET qty   == Plus(b.qty, m.qty)
      value == Plus(b.value, Times(m.unitCost, m.qty))
  IN [qty |-> qty, price |-> IF qty = Zero THEN Zero ELSE Over(value, qty), value |-> value,
      consumed |-> b.consumed, refused |-> FALSE]

\* It goes out at the price of the moment.
Consumption(b, m) ==
  LET cost == Times(b.price, m.qty)
  IN [qty |-> Minus(b.qty, m.qty), price |-> b.price, value |-> Minus(b.value, cost),
      consumed |-> Plus(b.consumed, cost), refused |-> FALSE]

\* A purchase without its cost is refused, and a consumption of more than there is.
Refuses(b, m) == IF m.type = "purchase" THEN ~Given(m.unitCost) ELSE Less(b.qty, m.qty)
StockAfter(b, m) ==
  IF b.refused \/ Refuses(b, m)
  THEN [qty |-> b.qty, price |-> b.price, value |-> b.value, consumed |-> b.consumed, refused |-> TRUE]
  ELSE IF m.type = "purchase" THEN Purchase(b, m) ELSE Consumption(b, m)

LedgerOf(l) ==
  LET after[n \in 0 .. Len(l.movements)] ==
        IF n = 0 THEN LedgerStart(l) ELSE StockAfter(after[n - 1], l.movements[n])
  IN after[Len(l.movements)]

Purchases(l) ==
  SumOver([i \in DOMAIN l.movements |-> IF l.movements[i].type = "purchase"
             THEN Times(Default(l.movements[i].unitCost, Zero), l.movements[i].qty) ELSE Zero],
          DOMAIN l.movements)

-----------------------------------------------------------------------------
(* imputarDesperdicios, calcCostStatement and runCalculation.                *)

\* A waste whose nature nobody declared goes nowhere.
WasteRecovery(ws)     == SumOver([w \in ws |-> IF w.nature = "normal" THEN w.recovered ELSE Zero], ws)
ExtraordinaryCost(ws) == SumOver([w \in ws |-> IF w.nature = "extraordinaria"
                                               THEN Minus(w.value, w.recovered) ELSE Zero], ws)

\* Mutant: the variance of the capacity goes into the product too.
StatementWithVolume(consumed, perCentre, ws) ==
  LET applied  == SumOver([c \in DOMAIN perCentre |-> perCentre[c].applied], DOMAIN perCentre)
      variance == SumOver([c \in DOMAIN perCentre |->
                     Plus(perCentre[c].budgetVariance, perCentre[c].volumeVariance)], DOMAIN perCentre)
      normal   == Plus(consumed, Plus(Labour, applied))
      real     == Plus(normal, Plus(Apart, variance))
      net      == Minus(Minus(real, WasteRecovery(ws)), ExtraordinaryCost(ws))
      finished == Minus(Plus(net, Stocks.wip0), Stocks.wip1)
  IN [normal |-> normal, real |-> real, net |-> net, finished |-> finished,
      sold |-> Minus(Plus(finished, Stocks.goods0), Stocks.goods1)]

Statement(consumed, perCentre, ws) ==
  LET applied  == SumOver([c \in DOMAIN perCentre |-> perCentre[c].applied], DOMAIN perCentre)
      variance == SumOver([c \in DOMAIN perCentre |-> perCentre[c].budgetVariance], DOMAIN perCentre)
      normal   == Plus(consumed, Plus(Labour, applied))
      real     == Plus(normal, Plus(Apart, variance))
      net      == Minus(Minus(real, WasteRecovery(ws)), ExtraordinaryCost(ws))
      finished == Minus(Plus(net, Stocks.wip0), Stocks.wip1)
  IN [normal |-> normal, real |-> real, net |-> net, finished |-> finished,
      sold |-> Minus(Plus(finished, Stocks.goods0), Stocks.goods1)]

\* The output of runCalculation, or that it threw.
OutputOf(proration, stock, perCentre) ==
  IF \/ proration.refused \/ stock.refused
     \/ \E c \in DOMAIN perCentre : perCentre[c].refused
  THEN NoResult
  ELSE [done |-> TRUE, cip |-> proration.cip, perCentre |-> perCentre,
        consumed |-> stock.consumed, stock |-> stock.value,
        statement |-> Statement(Minus(Plus(Times(ledger.unitCost, ledger.quantity), Purchases(ledger)),
                                      stock.value), perCentre, wastes)]
PerCentre(proration) ==
  [c \in DOMAIN cfg.settings |-> Applied(cfg.settings[c], BudgetOf(cfg, proration, c))]
OutputWith(proration) == OutputOf(proration, LedgerOf(ledger), PerCentre(proration))
Output == OutputWith(Proration(cfg))

-----------------------------------------------------------------------------
(* Writers of the book, and the engine.                                      *)

Setting(s, budget) == [bp |-> s.bp, actual |-> s.actual, cip |-> s.cip, budget |-> budget]
WithBudgets(form, proration) ==
  IF proration.refused THEN form
  ELSE [concepts |-> form.concepts, dist |-> form.dist, order |-> form.order,
        settings |-> [c \in DOMAIN form.settings |->
          IF c \in Productive THEN Setting(form.settings[c], proration.cip[c])
          ELSE form.settings[c]]]

\* updateConfig, section indirectCosts: a capacity of nothing is refused, and the budgets
\* are written over with those of the proration when it works.
SaveOverheads(form) ==
  /\ \A c \in DOMAIN form.settings : form.settings[c].bp # Zero
  /\ cfg' = WithBudgets(form, Proration(form))
  /\ result' = NoResult
  /\ UNCHANGED <<ledger, wastes>>

\* The document populator writes the setting of a centre it adds with no capacity.
PopulateSetting(c) ==
  /\ c \in Productive \ DOMAIN cfg.settings
  /\ cfg' = [concepts |-> cfg.concepts, dist |-> cfg.dist, order |-> cfg.order,
             settings |-> [x \in DOMAIN cfg.settings \union {c} |->
               IF x = c THEN [bp |-> Zero, actual |-> Zero, cip |-> Zero, budget |-> Nothing]
               ELSE cfg.settings[x]]]
  /\ result' = NoResult
  /\ UNCHANGED <<ledger, wastes>>

SaveMaterials(l) ==
  /\ ledger' = l
  /\ result' = NoResult
  /\ UNCHANGED <<cfg, wastes>>

RecordWaste(w) ==
  /\ wastes' = wastes \union {w}
  /\ result' = NoResult
  /\ UNCHANGED <<cfg, ledger>>

\* A run that throws leaves no result.
CalculateBook ==
  /\ result' = Output
  /\ UNCHANGED <<cfg, ledger, wastes>>

CostSheetNext ==
  \/ \E form \in OverheadForms : SaveOverheads(form)
  \/ \E c \in Productive : PopulateSetting(c)
  \/ \E l \in Ledgers : SaveMaterials(l)
  \/ \E w \in Wastes : RecordWaste(w)
  \/ CalculateBook

CostSheetSpec == CostSheetInit /\ [][CostSheetNext]_bookVars

-----------------------------------------------------------------------------
(* Properties of the result.                                                 *)

\* Not a cent of the overheads is lost or changes its nature between the accounts and the
\* centres that make the product, whatever the path (resolveProductiveCip).
OverheadReachesProducts ==
  result.done =>
    \A side \in Sides :
      SumOver([c \in Productive |-> result.cip[c][side]], Productive)
        = SumOver([i \in DOMAIN cfg.concepts |-> cfg.concepts[i].amount[side]],
                  DOMAIN cfg.concepts)

\* What the product bears is what was spent, less the idle capacity, the waste and what is
\* still in stock: the quotas, the variances, the ledger and the statement agree.  Of a
\* centre that has not closed it bears the budget at the activity known so far.
Bears(s, budget, r) ==
  IF Pending(s)
  THEN IF IsPositive(s.actual) THEN r.applied ELSE IF s.bp = Zero THEN Zero ELSE Total(budget)
  ELSE Minus(s.cip, r.volumeVariance)

EverythingIsBorne ==
  result.done =>
    LET settings == cfg.settings
        spent == Plus(Plus(Times(ledger.unitCost, ledger.quantity), Purchases(ledger)),
                      Plus(Plus(Labour, Apart), Plus(Stocks.wip0, Stocks.goods0)))
        borne == SumOver([c \in DOMAIN settings |->
                    Bears(settings[c], IF c \in Productive THEN result.cip[c] ELSE settings[c].budget,
                          result.perCentre[c])], DOMAIN settings)
        kept  == Plus(result.stock, Plus(Stocks.wip1, Stocks.goods1))
        wasted == Plus(WasteRecovery(wastes), ExtraordinaryCost(wastes))
    IN /\ Plus(result.statement.sold, Plus(kept, wasted)) = Plus(spent, borne)
       /\ result.consumed = Minus(Plus(Times(ledger.unitCost, ledger.quantity),
                                       Purchases(ledger)), result.stock)

\* The cost of a structure is accounted for from the accounts to the statement: the overheads
\* reach the centres of the product, and what was spent is in what was sold, kept or lost.
CostIsAccountedFor == OverheadReachesProducts /\ EverythingIsBorne
=============================================================================
