---------------------------- MODULE ProcessSheet ----------------------------
(***************************************************************************)
(* The sheet of costs of one month of a chain of departments, as           *)
(* process-costing.ts, process-costing-engine.ts and validateProcessInputs *)
(* work it out: units, losses, equivalent production, the cost that comes  *)
(* from the department before, and the report in three parts.              *)
(*                                                                         *)
(* A row is what is stored for a department and a month, NoData for what   *)
(* is null; rows is the sequence of the rows of a month.  Where the code   *)
(* throws there is a predicate, and the result means nothing.              *)
(***************************************************************************)
EXTENDS Fractions, SequencesExt

CONSTANTS
  Unified,   \* for each department of the chain, MOD and CIP are one column
  Factor,    \* units of the department made of one unit of the department before
  Grid       \* parts of one that a column of the sheet keeps (four decimals)

Depts == 1 .. Len(Unified)

-----------------------------------------------------------------------------
(* calcNormalAndExtraordinaryLosses and buildUnitMovementSchedule.           *)

\* The units of the month: never those that were in process when it began.
PeriodUnits(d, u) == IF d = 1 THEN Default(u.started, Zero)
                     ELSE Plus(Default(u.received, Zero), Default(u.increase, Zero))
NormalLoss(d, u) == Times(Default(u.lossPct, Zero), PeriodUnits(d, u))
ExtraordinaryLoss(d, u) ==
  Minus(Default(u.totalLoss, NormalLoss(d, u)), NormalLoss(d, u))

ToAccount(d, u) == Plus(Default(u.ei, Zero), PeriodUnits(d, u))

\* What is missing of the two amounts that are found by difference.
KnownOut(d, u) == Plus(Default(u.stock, Zero), Plus(NormalLoss(d, u), ExtraordinaryLoss(d, u)))
FinalWip(d, u) ==
  IF Given(u.ef) THEN u.ef ELSE Minus(Minus(ToAccount(d, u), u.out), KnownOut(d, u))
TransferredOut(d, u) ==
  IF Given(u.out) THEN u.out ELSE Minus(Minus(ToAccount(d, u), u.ef), KnownOut(d, u))

MisplacedUnits(d, u) ==
  IF d = 1 THEN \/ IsPositive(Default(u.received, Zero))
                \/ IsPositive(Default(u.increase, Zero))
           ELSE IsPositive(Default(u.started, Zero))

ImpossibleSchedule(d, u) ==
  \/ MisplacedUnits(d, u)
  \/ IsNegative(ExtraordinaryLoss(d, u))
  \/ ~Given(u.out) /\ ~Given(u.ef)
  \/ IsNegative(FinalWip(d, u))
  \/ IsNegative(TransferredOut(d, u))
  \/ ToAccount(d, u) # Plus(Plus(TransferredOut(d, u), FinalWip(d, u)), KnownOut(d, u))

\* Some columns of a month that begins are null: its units are those it got.
Schedule(d, u) ==
  [ei |-> Default(u.ei, Zero), period |-> PeriodUnits(d, u),
   received |-> IF d = 1 THEN Zero ELSE Default(u.received, Zero),
   increase |-> IF d = 1 THEN Zero ELSE Default(u.increase, Zero),
   out |-> TransferredOut(d, u), stock |-> Default(u.stock, Zero),
   normal |-> NormalLoss(d, u), extra |-> ExtraordinaryLoss(d, u),
   ef |-> FinalWip(d, u)]

-----------------------------------------------------------------------------
(* calcEquivalentProduction and the costs of each element.                   *)

Elements(d) == IF Unified[d] THEN {"MP", "CC"} ELSE {"MP", "MOD", "CIP"}

Opening(u, e) == CASE e = "MP"  -> u.iMp
                   [] e = "MOD" -> u.iMo
                   [] e = "CIP" -> u.iCif
                   [] e = "CC"  -> Plus(u.iMo, u.iCif)
OfPeriod(u, e) == CASE e = "MP"  -> u.cMp
                    [] e = "MOD" -> u.cMo
                    [] e = "CIP" -> u.cCif
                    [] e = "CC"  -> Plus(u.cMo, u.cCif)
ElementCost(u, e) == Plus(Opening(u, e), OfPeriod(u, e))

\* Materials are all in from the start unless it is said otherwise.
Avance(u, e) == IF e = "MP" THEN Default(u.avMp, One) ELSE Default(u.avConv, Zero)

Equivalent(s, u, e) ==
  Plus(Plus(s.out, Plus(s.stock, s.extra)), Times(s.ef, Avance(u, e)))

\* The division by nothing that the report refuses.
CostWithoutUnits(s, u, e) == Equivalent(s, u, e) = Zero /\ ElementCost(u, e) # Zero
UnitCost(s, u, e) ==
  IF Equivalent(s, u, e) = Zero THEN Zero ELSE Over(ElementCost(u, e), Equivalent(s, u, e))
ElementEF(s, u, e) == Times(Times(s.ef, Avance(u, e)), UnitCost(s, u, e))

-----------------------------------------------------------------------------
(* calcTransferredCost: the modified cost and the cost of the lost units.    *)

Received(s) == Plus(s.ei, Plus(s.received, s.increase))
Step1(s)    == IsPositive(s.ei) \/ IsPositive(s.increase)

ModifiedCost(s, u, previous) ==
  IF Step1(s) THEN Over(Plus(u.iPrev, Times(s.received, previous)), Received(s))
  ELSE previous

GoodUnits(s) == Minus(Received(s), s.normal)
LostUnitsNobodyBears(s) == IsPositive(s.normal) /\ ~IsPositive(GoodUnits(s))
\* More units of the same money must be cheaper.
NotDiluted(s, u, previous) ==
  IsPositive(s.increase) /\ AtMost(previous, ModifiedCost(s, u, previous))

\* Mutant: the lost units are spread over all the units.
CaupOverAll(s, u, previous) ==
  IF IsPositive(s.normal)
  THEN Over(Times(s.normal, ModifiedCost(s, u, previous)), Received(s)) ELSE Zero

Caup(s, u, previous) ==
  IF IsPositive(s.normal)
  THEN Over(Times(s.normal, ModifiedCost(s, u, previous)), GoodUnits(s)) ELSE Zero

TransferredCost(s, u, previous) ==
  Plus(ModifiedCost(s, u, previous), Caup(s, u, previous))

-----------------------------------------------------------------------------
(* runDepartment and buildProductionCostReport.                              *)

\* previous is the unit cost of the department before, in its own units.
InOwnUnits(d, previous) == Over(previous, Factor[d])

SectionA(d, s, u, previous) ==   \* unit cost and total of the department before
  IF d = 1 THEN [unit |-> Zero, total |-> Zero]
  ELSE LET t == TransferredCost(s, u, InOwnUnits(d, previous))
       IN [unit |-> t, total |-> Times(GoodUnits(s), t)]

RefusedReport(d, s, u, previous) ==
  \/ \E e \in Elements(d) : CostWithoutUnits(s, u, e)
  \/ d > 1 /\ (LostUnitsNobodyBears(s) \/ NotDiluted(s, u, InOwnUnits(d, previous)))

SectionB(d, s, u) ==             \* what the department itself adds
  [unit  |-> SumOver([e \in Elements(d) |-> UnitCost(s, u, e)], Elements(d)),
   total |-> SumOver([e \in Elements(d) |-> ElementCost(u, e)], Elements(d)),
   efs   |-> [e \in Elements(d) |-> ElementEF(s, u, e)]]

\* Section C: where the cost due is, at the cost of a unit.
SectionC(refused, s, a, b, unit, due) ==
  [refused |-> refused, schedule |-> s, unit |-> unit, due |-> due, out |-> Times(s.out, unit),
   stock |-> Times(s.stock, unit), extra |-> Times(s.extra, unit),
   efs |-> b.efs, efPrevious |-> Times(s.ef, a.unit),
   ef |-> Minus(Minus(Minus(due, Times(s.out, unit)), Times(s.stock, unit)), Times(s.extra, unit)),
   efByElement |-> Plus(SumOver(b.efs, DOMAIN b.efs), Times(s.ef, a.unit))]

Sections(refused, s, a, b) ==
  SectionC(refused, s, a, b, Plus(b.unit, a.unit), Plus(b.total, a.total))

Report(d, s, u, previous) ==
  Sections(RefusedReport(d, s, u, previous),
           s, SectionA(d, s, u, previous), SectionB(d, s, u))

\* run: the departments in their order, each with the unit cost of the one before.
Run(rows) ==
  FoldLeftDomain(LAMBDA done, d : Append(done,
                   Report(d, Schedule(d, rows[d]), rows[d],
                          IF d = 1 THEN Zero ELSE done[d - 1].unit)),
                 << >>, rows)

-----------------------------------------------------------------------------
(* validateProcessInputs, before the engine runs.                            *)

Lost(u) == Default(u.totalLoss, u.normal)
ResolvedOut(d, u) == IF Given(u.out) THEN u.out
                     ELSE Minus(ToAccount(d, u), Plus(Plus(u.stock, Lost(u)), Default(u.ef, Zero)))

\* A difference that the checks let pass: the last digit of a column.
Unnoticed == Fraction(1, Grid)

DoesNotBalance(d, u) ==
  /\ Given(u.out) /\ Given(u.ef)
  /\ ~Near(ToAccount(d, u), Plus(Plus(u.out, u.stock), Plus(Lost(u), u.ef)), Unnoticed)

UnitsGoMissing(d, rows) ==
  /\ d > 1
  /\ ~Near(Times(ResolvedOut(d - 1, rows[d - 1]), Factor[d]),
           Default(rows[d].received, Zero), Unnoticed)

RefusedInputs(rows) ==
  \E d \in Depts :
    \/ ~Given(rows[d].out) /\ ~Given(rows[d].ef)
    \/ DoesNotBalance(d, rows[d])
    \/ Given(rows[d].ef) /\ IsPositive(rows[d].ef) /\ ~Given(rows[d].avConv)
    \/ UnitsGoMissing(d, rows)

\* The month has a report unless one of the checks, in their order, throws: those of
\* the service, those of each schedule, those of each report.
IsReport(rows, report) ==
  /\ ~RefusedInputs(rows)
  /\ \A d \in Depts : ~ImpossibleSchedule(d, rows[d])
  /\ \A d \in Depts : ~report[d].refused
Calculates(rows) == IsReport(rows, Run(rows))
=============================================================================
