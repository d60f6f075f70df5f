----------------------------- MODULE Anomalies -----------------------------
(***************************************************************************)
(* What the closing of a month warns of (cost-period-service.ts, close;    *)
(* period-anomaly-runner.ts; anomaly-detection.ts): the share of each      *)
(* element of the cost against its mean over the months closed before, and *)
(* the variances of the overheads against what the month itself applied.   *)
(*                                                                         *)
(* A sheet has what the engine left of a month of a structure costed by    *)
(* orders: by processes there is no detail of the materials, and the cost  *)
(* is not the sum of its elements.  The jump of the unit cost is not here: *)
(* the closing passes neither units nor the raw material, and the detector *)
(* skips it.                                                               *)
(***************************************************************************)
EXTENDS Fractions, FiniteSets, FiniteSetsExt

CONSTANTS
  Sheets,      \* results of the engine: [material, labour, center, cogs, sales, produced, sold]
  MaxOpened,   \* bound: months that are opened
  MaxClosings, \* bound: closings of all the months
  Lookback,    \* the closed months of the mean (6)
  MinPeriods   \* the least of them (3)

CostElements == {"rawMaterial", "directLabor", "indirectCosts"}
Variances    == {"overUnder", "budget", "volume"}

\* What the engine leaves.  Every movement has a quantity, so that a material of which
\* nothing was consumed has no value.
IsMaterial(x) ==
  /\ DOMAIN x = {"quantity", "value"}
  /\ IsFraction(x.quantity) /\ IsFraction(x.value) /\ (x.quantity = Zero => x.value = Zero)
IsCenter(x) ==
  /\ DOMAIN x = {"applied", "variance", "pending"}
  /\ x.pending \in BOOLEAN /\ IsFraction(x.applied)
  /\ DOMAIN x.variance = Variances /\ \A v \in Variances : IsFraction(x.variance[v])
IsSheet(f) ==
  /\ DOMAIN f = {"material", "labour", "center", "cogs", "sales", "produced", "sold"}
  /\ IsFiniteSet(DOMAIN f.material) /\ \A x \in DOMAIN f.material : IsMaterial(f.material[x])
  /\ IsFiniteSet(DOMAIN f.labour) /\ \A d \in DOMAIN f.labour : IsFraction(f.labour[d])
  /\ IsFiniteSet(DOMAIN f.center) /\ \A c \in DOMAIN f.center : IsCenter(f.center[c])
  /\ IsFraction(f.cogs) /\ IsFraction(f.sales) /\ IsOptional(f.produced) /\ IsOptional(f.sold)

ASSUME AnomaliesAssumption ==
  /\ \A f \in Sheets : IsSheet(f)
  /\ MaxOpened \in Nat
  /\ MaxClosings \in Nat
  /\ MinPeriods \in Nat \ {0}
  /\ Lookback \in Nat

VARIABLES
  opened,   \* the months there are: 1 .. opened
  closed,   \* those that are CLOSED
  sheet,    \* resultSnapshot of the months that closed
  report    \* the last closing: its result, the history, and the findings, each of
            \* which is a COST_SPIKE alert from then on

anomalyVars == <<opened, closed, sheet, report>>

NoReport == [n |-> 0]

AnomaliesInit ==
  /\ opened = 1
  /\ closed = {}
  /\ sheet = [m \in {} |-> {}]
  /\ report = NoReport

-----------------------------------------------------------------------------
(* The detector *)

ElementCost(f) == [e \in CostElements |->
  IF e = "rawMaterial"
    THEN SumOver([x \in DOMAIN f.material |-> f.material[x].value], DOMAIN f.material)
  ELSE IF e = "directLabor" THEN SumOver(f.labour, DOMAIN f.labour)
  ELSE SumOver([c \in DOMAIN f.center |-> f.center[c].applied], DOMAIN f.center)]
ProductionCost(f) == SumOver(ElementCost(f), CostElements)

Distance(x) == IF IsNegative(x) THEN Minus(Zero, x) ELSE x
Percent(x, y) == Over(Times(Whole(100), x), y)
Severity(deviation, threshold) ==
  IF Less(Distance(deviation), Whole(2 * threshold)) THEN "warn" ELSE "critical"
Finding(signal, key, deviation, threshold) ==
  [signal |-> signal, key |-> key, deviation |-> deviation,
   severity |-> Severity(deviation, threshold)]

\* Mutant: the mean of the shares is the share of the sums.
BaselineOfSums(e, usable, past) ==
  Percent(SumOver([m \in usable |-> ElementCost(past[m])[e]], usable),
          SumOver([m \in usable |-> ProductionCost(past[m])], usable))

\* The share of element e, and the mean of the shares.
Share(f, e) == Percent(ElementCost(f)[e], ProductionCost(f))
Baseline(e, usable, past) ==
  Over(SumOver([m \in usable |-> Share(past[m], e)], usable), Whole(Cardinality(usable)))

\* S1: a month that cost nothing has no shares, and enters no mean.
Usable(past) == {m \in DOMAIN past : IsPositive(ProductionCost(past[m]))}
MixDeviation(now, past) ==
  LET deviation == [e \in CostElements |-> Minus(Share(now, e), Baseline(e, Usable(past), past))]
  IN IF ~IsPositive(ProductionCost(now)) \/ Cardinality(Usable(past)) < MinPeriods THEN {}
     ELSE {Finding("MIX_DEVIATION", <<e, "share">>, deviation[e], 10) :
             e \in {e \in CostElements : AtMost(Whole(10), Distance(deviation[e]))}}

\* S3: the centres that have closed and applied something.
Measured(f) == {c \in DOMAIN f.center : ~f.center[c].pending /\ f.center[c].applied # Zero}
Relative(f, c, v) == Percent(f.center[c].variance[v], Distance(f.center[c].applied))
CifVariance(now) ==
  LET relative == [cv \in Measured(now) \X Variances |-> Relative(now, cv[1], cv[2])]
  IN {Finding("CIF_VARIANCE", cv, relative[cv], 5) :
        cv \in {cv \in Measured(now) \X Variances : AtMost(Whole(5), Distance(relative[cv]))}}

Detect(now, past) ==
  (IF Cardinality(DOMAIN past) < MinPeriods THEN {} ELSE MixDeviation(now, past))
    \union CifVariance(now)

-----------------------------------------------------------------------------
(* The months *)

\* The next month opens once the one before is closed.
OpenMonth ==
  /\ opened < MaxOpened /\ closed = 1 .. opened
  /\ opened' = opened + 1
  /\ UNCHANGED <<sheet, closed, report>>

\* The newest closed months by code, but the one that closes.
Newest(months) ==
  {m \in months : Cardinality({o \in months : o > m}) < Lookback}

\* The engine gives f for the month that closes, and each finding leaves its alert.
CloseMonth(m, f) ==
  LET past == [x \in Newest(closed \ {m}) |-> sheet[x]]
  IN /\ m \in 1 .. opened \ closed /\ report.n < MaxClosings
     /\ closed' = closed \union {m}
     /\ sheet' = [x \in DOMAIN sheet \union {m} |-> IF x = m THEN f ELSE sheet[x]]
     /\ report' = [n |-> report.n + 1, now |-> f, past |-> past, found |-> Detect(f, past)]
     /\ UNCHANGED opened

ReopenMonth(m) ==
  /\ m \in closed
  /\ closed' = closed \ {m}
  /\ UNCHANGED <<opened, sheet, report>>

AnomaliesNext ==
  \/ OpenMonth
  \/ \E m \in 1 .. MaxOpened : (\E f \in Sheets : CloseMonth(m, f)) \/ ReopenMonth(m)
AnomaliesSpec == AnomaliesInit /\ [][AnomaliesNext]_anomalyVars

-----------------------------------------------------------------------------
\* f, with all that it cost k times.
Scaled(f, k) ==
  [f EXCEPT
     !.material = [x \in DOMAIN f.material |->
       [f.material[x] EXCEPT !.value = Times(k, f.material[x].value)]],
     !.labour = [d \in DOMAIN f.labour |-> Times(k, f.labour[d])],
     !.center = [c \in DOMAIN f.center |->
       [f.center[c] EXCEPT !.applied = Times(k, f.center[c].applied),
                           !.variance = [v \in Variances |-> Times(k, f.center[c].variance[v])]]]]

\* Rule 1 of the detector, "NUNCA POR IMPORTE TOTAL": a month that produced twice
\* as much, the one that closes or any of the mean, changes no finding.
AlertsIgnoreScale ==
  report # NoReport =>
    /\ Detect(Scaled(report.now, Whole(2)), report.past) = report.found
    /\ \A m \in DOMAIN report.past :
         Detect(report.now, [report.past EXCEPT ![m] = Scaled(@, Whole(3))]) = report.found
=============================================================================
