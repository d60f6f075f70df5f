----------------------------- MODULE Comparison -----------------------------
(***************************************************************************)
(* Two months of a structure side by side (cost-period-service.ts,         *)
(* compare; period-comparison.ts): what varied, in money of one moment     *)
(* when the indices are known, in total and by unit, which element, which  *)
(* centre, department or material made it vary, and of each material how   *)
(* much was its price and how much its quantity.  Every amount is shown to *)
(* the cent, and each is rounded by itself.                                *)
(***************************************************************************)
EXTENDS Anomalies

CONSTANTS
  Series,   \* the last version of the price indices: a function of some of the months
  Factors,  \* base units in one unit of management
  Cents     \* parts of one that an amount is shown in: 100 in the code

\* reexpresar throws when an index is not positive; so is the factor of a unit of management.
ASSUME ComparisonAssumption ==
  /\ \A series \in Series : \A m \in DOMAIN series : IsFraction(series[m]) /\ IsPositive(series[m])
  /\ \A factor \in Factors : IsFraction(factor) /\ IsPositive(factor)
  /\ Cents \in Nat \ {0}

VARIABLE compared

NotCompared == [shown |-> FALSE]
comparisonVars == <<compared, anomalyVars>>
ComparisonInit == AnomaliesInit /\ compared = NotCompared

\* The amounts of a result, in the totals and in their detail.
Totals(f) == [x \in CostElements \union {"productionCost", "costOfGoodsSold", "grossMargin"} |->
  IF x \in CostElements THEN ElementCost(f)[x]
  ELSE IF x = "productionCost" THEN ProductionCost(f)
  ELSE IF x = "costOfGoodsSold" THEN f.cogs ELSE Minus(f.sales, f.cogs)]
Result(f) ==
  [total |-> Totals(f),
   material |-> [x \in DOMAIN f.material |-> f.material[x].value],
   labour |-> f.labour,
   center |-> [c \in DOMAIN f.center |-> f.center[c].applied]]
Quantity(f) == [x \in DOMAIN f.material |-> f.material[x].quantity]

Money(g, source, destination) == [x \in DOMAIN g |-> Over(Times(g[x], destination), source)]

\* Mutant: the detail of the materials stays in the money of its month.
ReexpressedTotals(r, source, destination) ==
  [total |-> Money(r.total, source, destination), material |-> r.material,
   labour |-> Money(r.labour, source, destination), center |-> Money(r.center, source, destination)]

\* reexpressPeriodSide: amounts only, never quantities.
Reexpressed(r, source, destination) ==
  [total |-> Money(r.total, source, destination), material |-> Money(r.material, source, destination),
   labour |-> Money(r.labour, source, destination), center |-> Money(r.center, source, destination)]

\* delta: num rounds what is shown, each amount by itself.
Shown(x) == Rounded(x, Cents)
Delta(a, b) ==
  [a |-> Shown(a), b |-> Shown(b), delta |-> Shown(Minus(b, a)),
   pct |-> IF a = Zero THEN NoData ELSE Percent(Minus(b, a), Distance(a))]

\* What each line explains of total; when ups and downs cancel, of all that moved. These
\* are the amounts before they are rounded.
Contributions(delta, total) ==
  LET offsetting == Less(Distance(total), Fraction(1, 2 * Cents))
      base == IF offsetting THEN SumOver([x \in DOMAIN delta |-> Distance(delta[x])], DOMAIN delta)
              ELSE Distance(total)
  IN [x \in DOMAIN delta |-> IF base = Zero THEN NoData ELSE Percent(delta[x], base)]

\* Two lists by key: one that is missing on a side is compared with zero.
ValueAt(g, x) == IF x \in DOMAIN g THEN g[x] ELSE Zero
LinesOf(g, h) == [x \in DOMAIN g \union DOMAIN h |-> Delta(ValueAt(g, x), ValueAt(h, x))]
Moves(g, h) == [x \in DOMAIN g \union DOMAIN h |-> Minus(ValueAt(h, x), ValueAt(g, x))]
Lines(g, h, total) == [line |-> LinesOf(g, h), contribution |-> Contributions(Moves(g, h), total)]

\* dV = (P1 - P0) Q1 + (Q1 - Q0) P0; without an old price all of it is consumption.
Effects(v0, v1, q0, q1) ==
  LET p0 == Over(v0, q0)
  IN IF q0 = Zero THEN [price |-> Zero, quantity |-> Shown(Minus(v1, v0))]
     ELSE [price |-> IF q1 = Zero THEN Zero ELSE Shown(Times(Minus(Over(v1, q1), p0), q1)),
           quantity |-> Shown(Times(Minus(q1, q0), p0))]
Materials(a, b, qa, qb, total) ==
  [line |-> LinesOf(a, b), contribution |-> Contributions(Moves(a, b), total),
   effect |-> [x \in DOMAIN a \union DOMAIN b |->
     Effects(ValueAt(a, x), ValueAt(b, x), ValueAt(qa, x), ValueAt(qb, x))]]

\* By what was produced, nothing included (a Decimal is truthy); an old month has only what
\* was sold.
UnitsOf(f) == Default(f.produced, f.sold)

\* By unit of management: amounts of one unit, to the cent, are multiplied, quantities divided.
ByUnit(a, b, ua, ub, factor) ==
  [x \in DOMAIN a |->
     LET base == Delta(Over(a[x], ua), Over(b[x], ub))
     IN [a |-> Times(base.a, factor), b |-> Times(base.b, factor),
         delta |-> Times(base.delta, factor), pct |-> base.pct]]

Comparing(f, g, source, destination, factor) ==
  LET homogeneous == Given(source) /\ Given(destination)
      a == IF homogeneous THEN Reexpressed(Result(f), source, destination) ELSE Result(f)
      b == Result(g)
      ua == UnitsOf(f)
      ub == UnitsOf(g)
      comparable == Given(ua) /\ Given(ub) /\ IsPositive(ua) /\ IsPositive(ub)
      total == [x \in DOMAIN a.total |-> Delta(a.total[x], b.total[x])]
      move  == Moves(a.total, b.total)
      moved == SumOver(move, CostElements)
  IN [shown |-> TRUE, homogeneous |-> homogeneous, comparable |-> comparable, total |-> total,
      components |-> Contributions([e \in CostElements |-> move[e]], moved),
      unit |-> IF comparable THEN ByUnit(a.total, b.total, ua, ub, factor) ELSE total,
      units |-> [from |-> IF Given(ua) THEN Over(ua, factor) ELSE NoData,
                 to |-> IF Given(ub) THEN Over(ub, factor) ELSE NoData],
      materials |-> Materials(a.material, b.material, Quantity(f), Quantity(g), moved),
      departments |-> Lines(a.labour, b.labour, move["directLabor"]),
      centers |-> Lines(a.center, b.center, move["indirectCosts"]),
      of |-> [from |-> f, to |-> g, source |-> source, destination |-> destination]]

IndexOf(series, m) == IF m \in DOMAIN series THEN series[m] ELSE NoData

\* A closed month has its frozen result; an open one is calculated now.
Sides(m) == IF m \in closed THEN {sheet[m]} ELSE Sheets

\* The older month is the point of departure, in whatever order they are asked.
Compare(a, b, series, factor) ==
  /\ compared = NotCompared /\ a < b
  /\ \E f \in Sides(a), g \in Sides(b) :
       compared' = Comparing(f, g, IndexOf(series, a), IndexOf(series, b), factor)
  /\ UNCHANGED anomalyVars

ComparisonNext ==
  \/ \E a, b \in 1 .. opened, series \in Series, factor \in Factors : Compare(a, b, series, factor)
  \/ compared = NotCompared /\ AnomaliesNext /\ UNCHANGED compared
ComparisonSpec == ComparisonInit /\ [][ComparisonNext]_comparisonVars

-----------------------------------------------------------------------------
\* g is f with every amount k times what it was.
Inflated(f, k) == [Scaled(f, k) EXCEPT !.cogs = Times(k, @), !.sales = Times(k, @)]
SumOfDeltas(lines) == SumOver([x \in DOMAIN lines.line |-> lines.line[x].delta], DOMAIN lines.line)

\* n amounts shown to the cent may be off by half a cent each.
HalfCents(n) == Fraction(n, 2 * Cents)
\* total is what the lines add up to, but for the cents of each and its own.
Explains(lines, total) == Near(SumOfDeltas(lines), total, HalfCents(Cardinality(DOMAIN lines.line) + 1))
\* Units of management at a cost that is of one unit to the cent.
MakeUp(unit, units, made, total) ==
  Near(Times(unit, units), total, Plus(Times(HalfCents(1), made), HalfCents(1)))

\* "La suma de los tres es, exactamente, la variacion total": what varied is
\* explained to the end at every level, line by line and in price and quantity,
\* in one money, but for half a cent of each amount that is added or compared; the
\* cost of a unit of management times the units is the total, but for half a cent
\* of it and of every unit made; and a month that is the older one at the prices of
\* its own moment varied in nothing.
VariationIsExplained ==
  compared # NotCompared =>
    LET c == compared
        k == Over(c.of.destination, c.of.source)
    IN /\ Near(SumOver([e \in CostElements |-> c.total[e].delta], CostElements),
               c.total["productionCost"].delta, HalfCents(4))
       /\ Explains(c.materials, c.total["rawMaterial"].delta)
       /\ Explains(c.departments, c.total["directLabor"].delta)
       /\ Explains(c.centers, c.total["indirectCosts"].delta)
       /\ \A x \in DOMAIN c.materials.effect :
            Near(Plus(c.materials.effect[x].price, c.materials.effect[x].quantity),
                 c.materials.line[x].delta, HalfCents(3))
       /\ c.comparable => \A x \in DOMAIN c.total :
            /\ MakeUp(c.unit[x].a, c.units.from, UnitsOf(c.of.from), c.total[x].a)
            /\ MakeUp(c.unit[x].b, c.units.to, UnitsOf(c.of.to), c.total[x].b)
       /\ (c.homogeneous /\ c.of.to = Inflated(c.of.from, k)) =>
            \A x \in DOMAIN c.total : c.total[x].delta = Zero
=============================================================================
