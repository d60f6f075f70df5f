------------------------------- MODULE MCOps -------------------------------
(* Instances for TLC of the components that do not share any state: a      *)
(* behaviour is one of the component in part, and the others stay as they  *)
(* begin.                                                                  *)
EXTENDS WorkOrders, Inventory, ProcessChain, Departments, CostSheet, JointCosts, Labour,
        Calendar, Traceability, TLC

VARIABLE part

\* Inventory: two purchases, one of them with its document, and an adjustment, at a decimal.
MCEntry(tipo, qty, cost, doc) ==
  [tipo |-> tipo, qty |-> Whole(qty), cost |-> Whole(cost), period |-> 1, doc |-> doc]
MCEntries == {MCEntry("INGRESO", 2, 1, "doc"), [MCEntry("INGRESO", 1, 3, "none") EXCEPT !.qty = Fraction(26, 25)],
              MCEntry("AJUSTE", 1, 2, "none")}
MCQuantities == {Fraction(24, 25), Whole(3)}
MCPolicies == {[ppp |-> "MOVIL", return |-> "COSTO_SALIDA"],
               [ppp |-> "MOVIL", return |-> "PPP_VIGENTE"],
               [ppp |-> "PERIODO", return |-> "COSTO_SALIDA"]}

\* Chain of two departments, two units of the second made of one of the first: sheets that
\* leave a stock in process, that lose units, more of them than is normal, that add some, and
\* that say the units they open with, or receive a quarter less than was passed.
MCForm == [ei |-> NoData, started |-> NoData, received |-> NoData, increase |-> NoData,
  out |-> NoData, stock |-> Zero, lossPct |-> NoData, totalLoss |-> NoData, ef |-> NoData,
  avMp |-> NoData, avConv |-> Fraction(1, 2), cMp |-> NoData, cMo |-> NoData,
  cCif |-> NoData, iMp |-> NoData, iMo |-> NoData, iCif |-> NoData]
MCFirst == [MCForm EXCEPT !.started = Whole(4), !.out = Whole(2), !.lossPct = Fraction(1, 4),
                          !.totalLoss = Fraction(3, 2), !.cMp = Whole(6), !.cMo = Whole(2), !.cCif = One]
MCSecond == [MCForm EXCEPT !.received = Whole(4), !.increase = Whole(2), !.lossPct = Fraction(1, 2),
                           !.stock = One, !.ef = One, !.cMp = One, !.cMo = Whole(3)]
MCSecondLess == [MCForm EXCEPT !.received = Fraction(15, 4), !.ef = One, !.ei = Zero, !.cMo = Whole(3)]
MCForms == <<{MCFirst}, {MCSecond, MCSecondLess}>>
MCFactor == <<One, Whole(2)>>
MCUnified == <<TRUE, FALSE>>

\* Overheads: two concepts, one of them direct, over two productive centres and two of
\* service; the direct proration, the one by steps, and those that the checks refuse.
MCSides(f, v) == [side \in Sides |-> IF side = "fixed" THEN Whole(f) ELSE Whole(v)]
MCTo(x, y) == ("p1" :> x @@ "p2" :> y)
MCRent  == [mode |-> "percent", amount |-> MCSides(12, 0),
            share |-> [c \in Centers |-> One]]
MCPower == [mode |-> "direct", amount |-> MCSides(6, 2),
            share |-> ("p1" :> Whole(4) @@ "s1" :> Whole(4))]
MCSetting(bp, actual, cip) == [bp |-> Whole(bp), actual |-> Whole(actual), cip |-> Whole(cip),
                               budget |-> Nothing]
MCS1 == [of |-> "s1", to |-> MCTo(MCSides(1, 1), MCSides(1, 3))]
MCS2 == [of |-> "s2", to |-> MCTo(MCSides(1, 0), MCSides(2, 0))]
MCS1ToS2 == [of |-> "s1", to |-> ("p1" :> MCSides(1, 1) @@ "s2" :> MCSides(1, 1))]
MCS2Whole == [of |-> "s2", to |-> MCTo(MCSides(1, 1), MCSides(2, 1))]
MCS2ToS1 == [of |-> "s2", to |-> ("p1" :> MCSides(1, 1) @@ "s1" :> MCSides(1, 1))]
MCCfg(dist, order) ==
  [concepts |-> <<MCRent, MCPower>>, dist |-> dist, order |-> order,
   settings |-> ("p1" :> MCSetting(4, 3, 13) @@ "p2" :> MCSetting(2, 0, 0))]
MCPlain == MCCfg(<<MCS1, MCS2>>, << >>)
MCOverheadForms == {MCPlain, MCCfg(<<MCS1>>, << >>), MCCfg(<<MCS1ToS2, MCS2Whole>>, <<"s1", "s2">>),
   MCCfg(<<MCS1ToS2, MCS2ToS1>>, <<"s1", "s2">>), MCCfg(<<MCS1, MCS2, MCS1>>, << >>),
   [MCCfg(<<MCS1ToS2, MCS2Whole>>, <<"s1">>) EXCEPT !.concepts = <<MCPower>>],
   [MCPlain EXCEPT !.settings = ("p1" :> MCSetting(4, 5, 13))],
   [MCPlain EXCEPT !.settings = ("p1" :> MCSetting(4, 0, 3))]}
MCBuy(q, c) == [type |-> "purchase", qty |-> Whole(q), unitCost |-> Whole(c)]
MCUse(q) == [type |-> "consumption", qty |-> Whole(q), unitCost |-> NoData]
MCStock(q, c, movements) == [quantity |-> Whole(q), unitCost |-> Whole(c), movements |-> movements]
MCLedgers == {MCStock(2, 3, <<MCBuy(2, 6), MCUse(3)>>), MCStock(1, 3, <<MCUse(2), MCBuy(2, 6)>>),
              MCStock(1, 3, <<[MCBuy(2, 6) EXCEPT !.unitCost = NoData], MCUse(1)>>),
              MCStock(0, 0, <<MCBuy(3, 2), MCUse(2), MCBuy(2, 4), MCUse(1)>>)}
MCWaste(nature, value, recovered) ==
  [nature |-> nature, value |-> Whole(value), recovered |-> Whole(recovered)]
MCWastes == {MCWaste("normal", 3, 1), MCWaste("extraordinaria", 4, 2), MCWaste("undeclared", 5, 1)}
MCLabour == Whole(5)
MCApart == Whole(3)
MCStocks == [wip0 |-> Whole(2), wip1 |-> Whole(1), goods0 |-> Whole(4), goods1 |-> Whole(3)]

\* Joint costs: products without a yield or a price, and one that sells for less than its expenses.
MCProduct(units, yield, price, varPct, fixedPerUnit) ==
  [units |-> units, yield |-> yield, price |-> price, varPct |-> varPct,
   fixedPerUnit |-> fixedPerUnit]
MCProducts == {MCProduct(Whole(2), Fraction(1, 2), Whole(3), Fraction(1, 3), Whole(1)),
               MCProduct(Whole(1), NoData, Whole(4), NoData, Whole(1)),
               MCProduct(Whole(2), Whole(1), Whole(2), NoData, Fraction(5, 2)),
               MCProduct(Whole(1), Zero, NoData, NoData, NoData),
               MCProduct(Zero, One, One, NoData, NoData)}
MCJointForms ==
  [method : {"PHYSICAL_UNITS", "TECHNICAL_YIELD", "MARKET_VALUE", "NET_REALIZABLE_VALUE"},
   total : {Whole(5), Whole(-1)}, products : UNION {[1 .. n -> MCProducts] : n \in 0 .. 2}]

\* Labour: charges of the catalogue under the wrong hint, an unknown one, hours lost.
MCCatalogue == ("premio" :> "remunerative" @@ "ropa" :> "nonRemunerative"
                @@ "otro" :> "unknown" @@ "iap" :> "unknown")
MCCharge(name, tenths, hint) ==
  [name |-> name, coefficient |-> Fraction(tenths, 10), hint |-> hint]
MCListed(name, tenths) == [name |-> name, coefficient |-> Fraction(tenths, 10)]
MCWage(name, basic, present, productive, standard, lost) ==
  [name |-> name, basic |-> basic, hours |-> present, productive |-> productive,
   standard |-> standard, lost |-> lost]
MCDays(all, unpaid, paidDays) == [all |-> all, unpaid |-> unpaid, paid |-> paidDays]
MCSection(rem, non, depts) ==
  [days |-> MCDays(Whole(10), Whole(3), Whole(2)), base |-> Fraction(1, 4), art |-> Zero,
   rem |-> rem, non |-> non, depts |-> depts]
MCLabourForms == {
  MCSection(<<MCListed("iap", 3), MCListed("premio", 0)>>, << >>,
            <<MCWage("corte", Whole(12), Whole(6), Whole(4), Whole(3), <<Whole(1)>>)>>),
  MCSection(<<MCListed("ropa", 1)>>, <<MCListed("otro", 2)>>,
            <<MCWage("corte", Zero, Whole(4), NoData, Whole(5), << >>),
              MCWage("pulido", Whole(8), Whole(4), Whole(3), NoData, <<Whole(3), Whole(1)>>)>>)}
MCPaper(days, base, charges, depts) ==
  [days |-> days, base |-> base, art |-> NoData, charges |-> charges, depts |-> depts]
MCNoDays == MCDays(NoData, NoData, NoData)
MCLabourPapers == {
  MCPaper(MCNoDays, NoData, <<MCCharge("ropa", 2, "remunerative"), MCCharge("iap", 5, "remunerative"),
                              MCCharge("premio", 1, "nonRemunerative")>>, << >>),
  MCPaper(MCDays(Whole(12), NoData, Whole(1)), Fraction(1, 5),
          <<MCCharge("otro", 1, "remunerative"), MCCharge("otro", 2, "nonRemunerative")>>,
          <<[name |-> "corte", basic |-> Whole(6), hours |-> Whole(2)],
            [name |-> "armado", basic |-> Whole(4), hours |-> Whole(2)]>>),
  MCPaper(MCNoDays, NoData, <<MCCharge("otro", 3, "none")>>, << >>)}

\* Calendar: a December and the end of a February of 29 days; cycles of ten days.
MCToday == {<<2027, 12, 16>>, <<2028, 2, 29>>}
MCOwnRhythms == {[kind |-> "CUSTOM_DAYS", lengthDays |-> 10, anchor |-> Utc(2028, 3, 5)]}

\* Data points: a price and two purchases with the same label and date, which a form may
\* save with one number more or less.
MCKeys == {"price", "buy"}
MCSectionForms == {("price" :> <<1>> @@ "buy" :> <<2, 2>>), ("price" :> <<2>> @@ "buy" :> <<2>>)}

\* Who asks, and for whom: the components share the names, so that the group is small.
OpsSymmetry == Permutations(Requests) \union Permutations(People)

OpsInit ==
  /\ part \in {"orders", "chain", "departments", "book", "joint", "labour", "inventory", "calendar",
              "data"}
  /\ WorkOrdersInit /\ ProcessChainInit /\ DepartmentsInit /\ CostSheetInit
  /\ JointCostsInit /\ LabourInit /\ TraceabilityInit
  /\ IF part = "inventory" THEN InventoryInit
     ELSE InventoryInit /\ policy = CHOOSE p \in Policies : TRUE
  /\ IF part = "calendar" THEN CalendarInit
     ELSE CalendarInit /\ rhythm = "MONTHLY" /\ own = [s \in Structures |-> Inherited]

OpsNext ==
  /\ UNCHANGED part
  /\ \/ part = "orders" /\ WorkOrdersNext
     \/ part # "orders" /\ UNCHANGED workOrdersVars
  /\ \/ part = "chain" /\ ProcessChainNext
     \/ part # "chain" /\ UNCHANGED chainVars
  /\ \/ part = "departments" /\ DepartmentsNext
     \/ part # "departments" /\ UNCHANGED departmentsVars
  /\ \/ part = "book" /\ CostSheetNext
     \/ part # "book" /\ UNCHANGED bookVars
  /\ \/ part = "joint" /\ JointCostsNext
     \/ part # "joint" /\ UNCHANGED split
  /\ \/ part = "labour" /\ LabourNext
     \/ part # "labour" /\ UNCHANGED labourVars
  /\ \/ part = "inventory" /\ InventoryNext
     \/ part # "inventory" /\ UNCHANGED inventoryVars
  /\ \/ part = "calendar" /\ CalendarNext
     \/ part # "calendar" /\ UNCHANGED calendarVars
  /\ \/ part = "data" /\ TraceabilityNext
     \/ part # "data" /\ UNCHANGED traceVars

OpsVars == <<part, workOrdersVars, chainVars, departmentsVars, bookVars, split, labourVars,
             inventoryVars, calendarVars, traceVars>>
OpsSpec == OpsInit /\ [][OpsNext]_OpsVars
=============================================================================
