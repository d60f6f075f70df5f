------------------------------ MODULE MCDesk ------------------------------
(* Instances for TLC of the components around the cost sheet that do not   *)
(* share any state: a behaviour is one of the component in part, and the   *)
(* others stay as they begin.                                              *)
EXTENDS Margin, Comparison, Classifier, Ledger, TLC

VARIABLE part

\* Margin: rows of the company, of the structure and of a month of it; results of the engine
\* that sell what they make, that do not, that are older than some items, that have a
\* half-fixed item in zero, and that recover a waste.
MCScopes == {[structure |-> FALSE, period |-> NoMonth], [structure |-> TRUE, period |-> 1]}
MCRow(i, s, k) == [item |-> i, scope |-> s, kind |-> k, live |-> TRUE, crossed |-> FALSE]
MCCompany == [structure |-> FALSE, period |-> NoMonth]
MCStructure == [structure |-> TRUE, period |-> NoMonth]
MCSeeds == {
  <<MCRow("cip", MCCompany, "VARIABLE"), MCRow("depreciation", MCCompany, "FIJO")>>,
  <<MCRow("mp", MCStructure, "VARIABLE"), MCRow("cip", MCStructure, "FIJO"),
    MCRow("depreciation", MCCompany, "FIJO")>>}
MCConcept(key, element, scope, kind, cause) ==
  [key |-> key, element |-> element, scope |-> scope, kind |-> kind, cause |-> cause]
MCConceptForms == {MCConcept("e", "mp", MCCompany, "SEMIFIJO", Undefined),
  MCConcept("e", "mp", [structure |-> TRUE, period |-> 1], "FIJO", "tiempo"),
  MCConcept("f", "mp", MCStructure, "SEMIFIJO", "volumen")}
MCEdit(kind, cause) == [kind |-> kind, cause |-> cause]
MCEditForms == {MCEdit("VARIABLE", Undefined), MCEdit("SEMIFIJO", Undefined),
                MCEdit(Undefined, "tiempo")}
MCSplit(amount, method, points, fixed, variable) ==
  [amount |-> Whole(amount), method |-> method, points |-> points, fixed |-> fixed,
   variable |-> variable]
MCPoints(a, b, c) == <<<<Whole(3), Whole(b)>>, <<Whole(1), Whole(a)>>, <<Whole(2), Whole(c)>>>>
MCSplitForms == {MCSplit(6, "DECLARADO", << >>, Whole(2), Whole(4)),
  MCSplit(6, "PUNTOS_EXTREMOS", MCPoints(3, 5, 3), NoData, NoData),
  MCSplit(6, "CORRELACION", MCPoints(3, 5, 4), NoData, NoData),
  MCSplit(6, "DISPERSION_GRAFICA", MCPoints(1, 1, 1), Whole(4), Whole(1))}
MCAmounts(mp, cip, depreciation, waste) ==
  [i \in Elements \union Optional |->
     CASE i = "mp" -> Whole(mp) [] i = "cip" -> Whole(cip) [] i = "depreciation" -> depreciation
       [] i = "waste" -> waste [] OTHER -> Zero]
MCOutput(amounts, price, sold, produced, factor) ==
  [amount |-> amounts, adsPerUnit |-> Fraction(1, 2), admin |-> One, price |-> Whole(price),
   sold |-> Whole(sold), produced |-> Whole(produced), factor |-> Whole(factor)]
MCOutputs == {MCOutput(MCAmounts(6, 4, Whole(2), Zero), 5, 4, 4, 2),
  MCOutput(MCAmounts(6, 1, NoData, Whole(-1)), 3, 2, 0, 1),
  MCOutput(MCAmounts(0, 4, Whole(2), Zero), 5, 2, 2, 3),
  MCOutput(MCAmounts(6, 4, Whole(2), Whole(-1)), 5, 4, 4, 1)}

\* Months: one with a variance, the same one twice as dear, one with another mix and a centre
\* that has not closed, and one without cost. The index rises, falls, or misses a month.
MCCenter(applied, variance, pending) ==
  [applied |-> Whole(applied), variance |-> variance, pending |-> pending]
MCVariance(over, budget, volume) ==
  [v \in {"overUnder", "budget", "volume"} |->
     Whole(IF v = "overUnder" THEN over ELSE IF v = "budget" THEN budget ELSE volume)]
MCMaterial(quantity, value) == [quantity |-> Whole(quantity), value |-> Whole(value)]
MCMonth(material, labour, center, produced, sold) ==
  [material |-> material, labour |-> labour, center |-> center, produced |-> produced,
   sold |-> sold, cogs |-> Whole(12), sales |-> Whole(20)]
MCPlain == MCMonth("m1" :> MCMaterial(2, 8), "d" :> Whole(6),
                   "c1" :> MCCenter(6, MCVariance(-1, 1, 0), FALSE), Whole(4), Whole(4))
MCBusy == MCMonth(("m1" :> MCMaterial(1, 6)) @@ ("m2" :> MCMaterial(2, 2)), "d" :> Whole(2),
                  ("c1" :> MCCenter(2, MCVariance(0, 0, 0), TRUE))
                    @@ ("c2" :> MCCenter(8, MCVariance(0, 0, 1), FALSE)), NoData, Whole(3))
MCIdle == MCMonth("m1" :> MCMaterial(0, 0), "d" :> Zero,
                  "c1" :> MCCenter(0, MCVariance(0, 0, 0), FALSE), NoData, NoData)
MCStopped == [MCPlain EXCEPT !.produced = Zero]
MCSheets == {MCPlain, Inflated(MCPlain, Whole(2)), MCBusy, MCIdle, MCStopped}
MCSeries == {<<Whole(1), Whole(2)>>, <<Whole(3), Whole(2)>>, <<Whole(1)>>}
MCFactors == {One, Fraction(3, 2)}

\* Classifier: documents for each branch of the cascade, of a new supplier or a known one.
\* The bare text of a document, and what some documents show above it.
MCText == [source |-> "TEXT", quality |-> "none", short |-> FALSE, words |-> {}, hints |-> {},
  cuit |-> "none", cae |-> "none", date |-> "none", waste |-> {}, role |-> "none",
  direction |-> "none", aboutSale |-> FALSE, trade |-> {}, plantPower |-> FALSE, fuel |-> FALSE,
  mp |-> 0, cip |-> 0, cipCore |-> 0, mod |-> 0, freight |-> FALSE, overPurchase |-> FALSE,
  toClient |-> FALSE, gasto |-> [s \in {"GASTO_COMERCIALIZACION", "GASTO_ADMINISTRACION",
                                        "GASTO_FINANCIERO"} |-> 0]]
MCInvoice == [MCText EXCEPT !.words = {"invoice", "invoiceABC"}, !.hints = {"CUIT_FORMAT"},
                            !.cuit = "valid"]
MCPayslip == [MCText EXCEPT !.source = "PDF", !.words = {"payslip"},
                            !.hints = {"ANSES", "OBRA_SOCIAL", "CUIL_KEYWORD"}, !.date = "near"]
MCRemito  == [MCText EXCEPT !.hints = {"REMITO_KEYWORD", "FECHA_ENTREGA", "TRANSPORTE"},
                            !.cuit = "valid", !.date = "near", !.direction = "in"]
MCContent ==
  <<MCInvoice,
    [MCInvoice EXCEPT !.source = "PDF", !.mp = 2, !.cip = 1, !.freight = TRUE],
    [MCInvoice EXCEPT !.cae = "valid", !.hints = @ \union {"REMITO_KEYWORD", "FECHA_ENTREGA", "TRANSPORTE"}, !.mp = 1],
    [MCInvoice EXCEPT !.source = "PDF", !.cip = 2, !.cipCore = 2, !.quality = "parcial"],
    [MCInvoice EXCEPT !.cuit = "none", !.cae = "valid", !.mp = 1, !.waste = {"generic"}],
    [MCInvoice EXCEPT !.source = "PDF", !.cip = 1, !.overPurchase = TRUE, !.mp = 2, !.freight = TRUE],
    [MCInvoice EXCEPT !.source = "PDF", !.gasto["GASTO_FINANCIERO"] = 2, !.mp = 1],
    [MCInvoice EXCEPT !.source = "PDF", !.fuel = TRUE, !.trade = {"TRANSPORTE"}],
    [MCInvoice EXCEPT !.source = "PDF", !.words = @ \union {"creditABC"}, !.aboutSale = TRUE],
    [MCPayslip EXCEPT !.role = "MOD"],
    [MCPayslip EXCEPT !.role = "other"],
    [MCPayslip EXCEPT !.words = {}, !.hints = @ \union {"HORAS_WORKED", "DEPT_HOURS", "TURNO_JORNADA", "HOURS_FORMAT"}, !.role = "MOD"],
    MCRemito,
    [MCText EXCEPT !.source = "IMAGE", !.hints = {"CUIT_FORMAT", "COMP_NRO"}, !.cip = 2, !.cipCore = 2],
    [MCRemito EXCEPT !.source = "PDF", !.quality = "ilegible"]>>
MCDocuments == DOMAIN MCContent
MCAttempt(read, wrong, type, section, confidence) ==
  [read |-> read, wrong |-> wrong, type |-> type, section |-> section, confidence |-> confidence]
MCNothing == MCAttempt("nothing", {}, "none", "none", 0)
MCSure == MCAttempt("json", {}, "FACTURA_COMPRA", "MATERIA_PRIMA", 90)
MCHalf == MCAttempt("json", {"costSection"}, "LIQUIDACION_MOD", "none", 95)
MCAttempts == {<<MCSure, MCNothing>>, <<MCNothing, MCNothing>>, <<MCHalf, MCHalf>>}
MCRows == {NoFingerprint, [type |-> "FACTURA_COMPRA", section |-> "MATERIA_PRIMA", seen |-> 3,
                            overridden |-> 0, bonus |-> 25]}
MCTruths == {[type |-> "REMITO", section |-> "MATERIA_PRIMA"],
             [type |-> "FACTURA_COMPRA", section |-> "COSTOS_INDIRECTOS"]}

\* Ledger: bills that tell two of their amounts or one, of a month that may not be legible,
\* with words that suggest a condition.
MCB(net, tax, tells, month, note, text) ==
  [net |-> net, tax |-> tax, tells |-> tells, month |-> month, note |-> note, text |-> text]
MCBill ==
  <<MCB(2, 1, {"net", "tax"}, 1, {}, {"Factura C", "Responsable Inscripto"}),
    MCB(2, 1, {"total", "tax"}, 0, {"Exento"}, {}),
    MCB(2, 0, {"total", "tax"}, 2, {"Exento", "Responsable Inscripto"}, {"Consumidor Final"}),
    MCB(3, 1, {"total"}, 1, {}, {"Exento", "Responsable Inscripto"}),
    MCB(8, 1, {"net", "total"}, 1, {"Responsable No Inscripto"}, {})>>
MCBills == DOMAIN MCBill

\* Who asks: the components share the names, so that the group is small.
DeskSymmetry == Permutations(Costers)

DeskInit ==
  /\ part \in {"classes", "concepts", "closings", "months", "mail", "lines", "condition"}
  /\ MarginInit /\ (part # "classes" => Len(params) = 3)
  /\ ComparisonInit
  /\ IF part = "mail" THEN ClassifierInit
     ELSE ClassifierInit /\ fingerprint = NoFingerprint
  /\ IF part \in {"lines", "condition"} THEN LedgerInit
     ELSE LedgerInit /\ declared = "EXENTO"

\* The lines of the ledger are of one request; two of them race for the condition of the company.
OneAsks == Cardinality({r \in Costists : asking'[r] # NoAsking}) <= 1
DeskNext ==
  /\ UNCHANGED part
  /\ \/ part = "classes" /\ (CalculateNext \/ (shown = NotShown /\ ParamNext))
     \/ part = "concepts" /\ (CalculateNext \/ (shown = NotShown /\ ConceptNext))
     \/ part \notin {"classes", "concepts"} /\ UNCHANGED marginVars
  /\ \/ /\ part = "closings" /\ AnomaliesNext /\ UNCHANGED compared
        /\ \A m \in DOMAIN sheet' : sheet'[m] \in IF m % 2 = 0 THEN {MCBusy} ELSE {MCPlain, MCBusy, MCIdle}
     \/ part = "months" /\ ComparisonNext /\ opened' <= 2
     \/ part \notin {"closings", "months"} /\ UNCHANGED comparisonVars
  /\ \/ part = "mail" /\ ClassifierNext
     \/ part # "mail" /\ UNCHANGED classifierVars
  /\ \/ part = "lines" /\ LedgerNext /\ OneAsks
     \/ part = "condition" /\ LedgerNext /\ lines' = << >>
     \/ part \notin {"lines", "condition"} /\ UNCHANGED ledgerVars
DeskSpec ==
  DeskInit /\ [][DeskNext]_<<part, marginVars, comparisonVars, classifierVars, ledgerVars>>
=============================================================================
