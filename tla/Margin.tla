------------------------------ MODULE Margin ------------------------------
(***************************************************************************)
(* How the costs of a structure behave when the volume changes: the rows   *)
(* that classify them (parametros-costeo-service.ts, concepto-costeo-      *)
(* service.ts, tramo-semifijo-service.ts), the cascade period, structure,  *)
(* company that resolves them, and the contribution margin and the         *)
(* break-even point that every calculation shows (calculation-result-      *)
(* enrichment.ts, contribucion-marginal.ts, punto-equilibrio.ts).          *)
(*                                                                         *)
(* A handler reads in a transaction, decides and writes: two steps, since  *)
(* READ COMMITTED locks nothing in between.  A request whose row another   *)
(* one wrote in that interval is crossed, and so is the row it writes.     *)
(***************************************************************************)
EXTENDS Fractions, FiniteSets, Sequences

CONSTANTS
  Costers,       \* requests in flight
  EditedItems,   \* items whose classification the requests set
  Scopes,        \* levels of a row: [structure : BOOLEAN, period : Months \union {NoMonth}]
  Months,        \* periods of the structure
  NoMonth,       \* a null periodId
  Seeds,         \* rows of parametros_costeo that a behaviour begins with
  MaxParams,     \* bound on the rows of parametros_costeo
  ConceptForms,  \* concepts that may be created: [key, element, scope, kind, cause]
  EditForms,     \* what an edit may name of a concept: [kind, cause], or Undefined
  MaxConcepts,   \* bound on the rows of conceptos_costeo
  MaxStamp,      \* bound on the edits of concepts
  SplitForms,    \* separations that may be saved: [amount, method, points, fixed, variable]
  Outputs        \* results of the engine: [amount, adsPerUnit, admin, price, sold, produced, factor]

VARIABLES
  params,    \* parametros_costeo, in order: item, scope, kind, live, crossed
  concepts,  \* conceptos_costeo, in order; split is its newest tramo, stamp its clasificadoEn
  mreq,      \* locals of the requests in flight
  shown      \* the result of the calculation that ends the behaviour

marginVars == <<params, concepts, mreq, shown>>

Elements == {"mp", "mod", "cip"}
Optional == {"variance", "third", "depreciation", "waste"}
Behaviours == {"VARIABLE", "FIJO", "SEMIFIJO"}
Undefined == "undefined"
NoSplit  == [fixed |-> NoData, variable |-> NoData]
Resting  == [at |-> "idle", id |-> 0, form |-> "none", crossed |-> FALSE]
NotShown == [status |-> "none"]

Levels   == [structure : BOOLEAN, period : Months \union {NoMonth}]
ParamRow == [item : Elements \union Optional, scope : Levels, kind : Behaviours,
             live : BOOLEAN, crossed : BOOLEAN]

\* What the forms let through (tramo-semifijo.schema.ts) and what the engine returns.
IsSplitForm(f) ==
  /\ IsAmount(f.amount) /\ IsOptional(f.fixed) /\ IsOptional(f.variable)
  /\ Len(f.points) \in Nat /\ DOMAIN f.points = 1 .. Len(f.points)
  /\ \A n \in DOMAIN f.points : IsAmount(f.points[n][1]) /\ IsAmount(f.points[n][2])
IsOutput(o) ==
  /\ \A i \in Elements \union Optional : Given(o.amount[i]) => IsFraction(o.amount[i])
  /\ IsFraction(o.adsPerUnit) /\ IsFraction(o.admin) /\ IsFraction(o.price)
  /\ IsFraction(o.sold) /\ IsFraction(o.factor) /\ IsPositive(o.factor)

\* A behaviour begins with rows of which nobody wrote two at once: one of each item and level.
ASSUME MarginAssumption ==
  /\ EditedItems \subseteq Elements \union Optional /\ Scopes \subseteq Levels
  /\ Seeds \subseteq Seq(ParamRow)
  /\ \A seed \in Seeds : \A m, n \in DOMAIN seed :
       m # n => seed[m].item # seed[n].item \/ seed[m].scope # seed[n].scope
  /\ \A f \in SplitForms : IsSplitForm(f)
  /\ \A o \in Outputs : IsOutput(o)

MarginInit ==
  /\ params \in Seeds
  /\ concepts = << >>
  /\ mreq = [r \in Costers |-> Resting]
  /\ shown = NotShown

-----------------------------------------------------------------------------
(* Rows of parametros_costeo.                                                *)

ParamsAt(i, s) == {n \in DOMAIN params : params[n].live /\ params[n].item = i /\ params[n].scope = s}
ConceptsAt(k, s) ==
  {n \in DOMAIN concepts : concepts[n].live /\ concepts[n].key = k /\ concepts[n].scope = s}

\* findFirst without an order: any of the rows, 0 when there is none.
FirstOf(rows) == IF rows = {} THEN {0} ELSE rows

\* The unique index covers the deleted rows and, since nulls differ, no row with one.
Unique(s) == s.structure /\ s.period # NoMonth
ParamTaken(f) ==
  Unique(f.scope) /\ \E n \in DOMAIN params : params[n].item = f.item /\ params[n].scope = f.scope
ConceptTaken(f) ==
  Unique(f.scope) /\ \E n \in DOMAIN concepts : concepts[n].key = f.key /\ concepts[n].scope = f.scope

\* r is done, and what the others had read with Touches no longer holds.
Ends(r, Touches(_)) ==
  mreq' = [q \in Costers |->
    IF q = r THEN Resting
    ELSE [mreq[q] EXCEPT !.crossed = @ \/ (mreq[q].at # "idle" /\ Touches(mreq[q]))]]
Reads(r, at, id, form) ==
  mreq' = [mreq EXCEPT ![r] = [at |-> at, id |-> id, form |-> form, crossed |-> FALSE]]
Answers(r) == mreq' = [mreq EXCEPT ![r] = Resting]
SameParam(q, f) ==
  q.at \in {"setting", "unsetting"} /\ q.form.item = f.item /\ q.form.scope = f.scope

\* set: R6/R8, the depreciation is never variable.
ReadSet(r, i, s, k) ==
  /\ mreq[r].at = "idle" /\ ~(i = "depreciation" /\ k = "VARIABLE")
  /\ \E n \in FirstOf(ParamsAt(i, s)) : Reads(r, "setting", n, [item |-> i, scope |-> s, kind |-> k])
  /\ UNCHANGED <<params, concepts, shown>>

\* Mutant: a set is always a new row.
WriteSetAnew(r) ==
  LET q == mreq[r]
  IN /\ q.at = "setting" /\ Len(params) < MaxParams /\ ~ParamTaken(q.form)
     /\ params' = Append(params, [item |-> q.form.item, scope |-> q.form.scope,
                                  kind |-> q.form.kind, live |-> TRUE, crossed |-> q.crossed])
     /\ Ends(r, LAMBDA o : SameParam(o, q.form))
     /\ UNCHANGED <<concepts, shown>>

WriteSet(r) ==
  LET q == mreq[r]
      row == [item |-> q.form.item, scope |-> q.form.scope, kind |-> q.form.kind, live |-> TRUE,
              crossed |-> q.crossed]
  IN /\ q.at = "setting"
     /\ \/ /\ q.id # 0
           /\ params' = [params EXCEPT ![q.id] = 
                [row EXCEPT !.live = params[q.id].live, !.crossed = @ \/ params[q.id].crossed]]
           /\ Ends(r, LAMBDA o : SameParam(o, q.form))
        \/ /\ q.id = 0 /\ Len(params) < MaxParams
           /\ ~ParamTaken(q.form)
           /\ params' = Append(params, row)
           /\ Ends(r, LAMBDA o : SameParam(o, q.form))
        \/ /\ q.id = 0 /\ ParamTaken(q.form)
           /\ Answers(r) /\ UNCHANGED params
     /\ UNCHANGED <<concepts, shown>>

\* delete: without a row of that level there is nothing to delete.
ReadUnset(r, i, s) ==
  /\ mreq[r].at = "idle"
  /\ \E n \in ParamsAt(i, s) : Reads(r, "unsetting", n, [item |-> i, scope |-> s, kind |-> "none"])
  /\ UNCHANGED <<params, concepts, shown>>

WriteUnset(r) ==
  /\ mreq[r].at = "unsetting"
  /\ params' = [params EXCEPT ![mreq[r].id].live = FALSE]
  /\ Ends(r, LAMBDA o : SameParam(o, mreq[r].form))
  /\ UNCHANGED <<concepts, shown>>

-----------------------------------------------------------------------------
(* Concepts, and the separation of the half-fixed ones.                      *)

Chosen(x, y) == IF x = Undefined THEN y ELSE x     \* x ?? y
DefiesCause(kind, cause) == kind = "VARIABLE" /\ cause \notin {Undefined, "volumen"}
NextStamp == 1 + FoldFunction(LAMBDA a, b : IF a > b THEN a ELSE b, 0,
                              [n \in DOMAIN concepts |-> concepts[n].stamp])
IsLive(n) == concepts[n].live
SameKey(q, f) == q.at = "creating" /\ q.form.key = f.key /\ q.form.scope = f.scope
SameConcept(q, n) == q.at \in {"editing", "removing"} /\ q.id = n

ReadCreate(r, form) ==
  /\ mreq[r].at = "idle" /\ ~DefiesCause(form.kind, form.cause)
  /\ ConceptsAt(form.key, form.scope) = {}
  /\ Reads(r, "creating", 0, form)
  /\ UNCHANGED <<params, concepts, shown>>

WriteCreate(r) ==
  LET f == mreq[r].form
      taken == ConceptTaken(f)
  IN /\ mreq[r].at = "creating"
     /\ \/ /\ taken /\ Answers(r) /\ UNCHANGED concepts
        \/ /\ ~taken /\ Len(concepts) < MaxConcepts /\ NextStamp <= MaxStamp
           /\ concepts' = Append(concepts,
                [key |-> f.key, element |-> f.element, scope |-> f.scope, kind |-> f.kind,
                 cause |-> f.cause, stamp |-> NextStamp, split |-> NoSplit, live |-> TRUE,
                 crossed |-> mreq[r].crossed])
           /\ Ends(r, LAMBDA o : SameKey(o, f))
     /\ UNCHANGED <<params, shown>>

\* Mutant: the rule is checked on what the form names.
ReadEditOfForm(r, n, kind, cause) ==
  /\ mreq[r].at = "idle" /\ n \in DOMAIN concepts /\ IsLive(n)
  /\ ~DefiesCause(kind, cause)
  /\ Reads(r, "editing", n, [kind |-> kind, cause |-> cause])
  /\ UNCHANGED <<params, concepts, shown>>

\* actualizar: what the form does not name stays as it was read, and only what it names is
\* written.
ReadEdit(r, n, kind, cause) ==
  /\ mreq[r].at = "idle" /\ n \in DOMAIN concepts /\ IsLive(n)
  /\ ~DefiesCause(Chosen(kind, concepts[n].kind), Chosen(cause, concepts[n].cause))
  /\ Reads(r, "editing", n, [kind |-> kind, cause |-> cause])
  /\ UNCHANGED <<params, concepts, shown>>

WriteEdit(r) ==
  LET q == mreq[r]
      c == concepts[q.id] IN
  /\ q.at = "editing" /\ NextStamp <= MaxStamp
  /\ concepts' = [concepts EXCEPT ![q.id] =
       [c EXCEPT !.kind = Chosen(q.form.kind, c.kind), !.cause = Chosen(q.form.cause, c.cause),
                 !.stamp = NextStamp, !.crossed = c.crossed \/ q.crossed]]
  /\ Ends(r, LAMBDA o : SameConcept(o, q.id))
  /\ UNCHANGED <<params, shown>>

ReadRemove(r, n) ==
  /\ mreq[r].at = "idle" /\ n \in DOMAIN concepts /\ IsLive(n)
  /\ Reads(r, "removing", n, "none")
  /\ UNCHANGED <<params, concepts, shown>>

WriteRemove(r) ==
  /\ mreq[r].at = "removing"
  /\ concepts' = [concepts EXCEPT ![mreq[r].id].live = FALSE]
  /\ Ends(r, LAMBDA o : SameConcept(o, mreq[r].id))
  /\ UNCHANGED <<params, shown>>

\* The two portions of f.amount, or NoSplit when the form is refused: by the points of least
\* and greatest volume, by least squares, or as they are declared.
Cent == Fraction(1, 100)
Differ(x, y) == ~Less(Minus(x, y), Cent) \/ ~Less(Minus(y, x), Cent)
Line(f, slope, x, y) ==
  LET fixed == Minus(y, Times(slope, x)) IN [fixed |-> fixed, variable |-> Minus(f.amount, fixed)]
Mean(f, c) == Over(SumOver([n \in DOMAIN f.points |-> f.points[n][c]], DOMAIN f.points),
                   Whole(Len(f.points)))
ByExtremes(f) ==
  LET low  == CHOOSE p \in DOMAIN f.points : \A o \in DOMAIN f.points :
                Less(f.points[p][1], f.points[o][1]) \/ (f.points[p][1] = f.points[o][1] /\ p <= o)
      high == CHOOSE p \in DOMAIN f.points : \A o \in DOMAIN f.points :
                Less(f.points[o][1], f.points[p][1]) \/ (f.points[p][1] = f.points[o][1] /\ p >= o)
  IN Line(f, Over(Minus(f.points[high][2], f.points[low][2]),
                  Minus(f.points[high][1], f.points[low][1])), f.points[low][1], f.points[low][2])
ByCorrelation(f) ==
  LET x == Mean(f, 1)
      y == Mean(f, 2)
      ofX == [n \in DOMAIN f.points |-> Minus(f.points[n][1], x)]
      ofY == [n \in DOMAIN f.points |-> Minus(f.points[n][2], y)]
      xy == SumOver([n \in DOMAIN f.points |-> Times(ofX[n], ofY[n])], DOMAIN f.points)
      xx == SumOver([n \in DOMAIN f.points |-> Times(ofX[n], ofX[n])], DOMAIN f.points)
  IN Line(f, Over(xy, xx), x, y)
Observed(f) == Cardinality({f.points[n][1] : n \in DOMAIN f.points}) >= 2
Separated(f) ==
  LET parts == IF f.method = "PUNTOS_EXTREMOS" THEN ByExtremes(f)
               ELSE IF f.method = "CORRELACION" THEN ByCorrelation(f)
               ELSE [fixed |-> f.fixed, variable |-> f.variable]
      refused == \/ IsNegative(parts.fixed) \/ IsNegative(parts.variable)
                 \/ Differ(Plus(parts.fixed, parts.variable), f.amount)
  IN IF f.method # "DECLARADO" /\ ~Observed(f) THEN NoSplit
     ELSE IF ~Given(parts.fixed) \/ ~Given(parts.variable) THEN NoSplit
     ELSE IF refused THEN NoSplit ELSE parts

\* guardar: the separation that was in force stays as history.
SaveSplit(n, f) ==
  /\ n \in DOMAIN concepts /\ IsLive(n) /\ concepts[n].kind = "SEMIFIJO"
  /\ Separated(f) # NoSplit
  /\ concepts' = [concepts EXCEPT ![n].split = Separated(f)]
  /\ UNCHANGED <<params, mreq, shown>>

-----------------------------------------------------------------------------
(* The cascade.                                                              *)

\* How near the row is to what is calculated: 4 when it is of another period.
Rank(s, month) ==
  IF month # NoMonth /\ s.period = month THEN 1
  ELSE IF s.period # NoMonth THEN 4
  ELSE IF s.structure THEN 2 ELSE 3

\* The concepts that are half fixed, one of each key: the nearest, and the last classified.
Nearer(m, n, month) ==
  LET a == Rank(concepts[m].scope, month)
      b == Rank(concepts[n].scope, month)
  IN a < b \/ (a = b /\ concepts[m].stamp >= concepts[n].stamp)
HalfFixed == {n \in DOMAIN concepts : IsLive(n) /\ concepts[n].kind = "SEMIFIJO"}
Resolved(month) ==
  {n \in HalfFixed : /\ Rank(concepts[n].scope, month) < 4
                     /\ \A m \in HalfFixed : concepts[m].key = concepts[n].key => Nearer(n, m, month)}

\* The one concept of an element that takes the place of its row, when it is separated.
Stands(i, month) ==
  {n \in Resolved(month) : /\ {m \in Resolved(month) : concepts[m].element = i} = {n}
                           /\ concepts[n].split # NoSplit}

NotClassified == [kind |-> "none", fixed |-> NoData, variable |-> NoData]
RowsOf(i, month) ==
  {n \in DOMAIN params : params[n].live /\ params[n].item = i /\ Rank(params[n].scope, month) < 4}

\* The classification of item i: the nearest row, a concept before a parameter of its level.
\* oldest says which of two rows of one level the query returns first.
Classified(i, month, oldest) ==
  LET near == {n \in RowsOf(i, month) : \A m \in RowsOf(i, month) :
                 Rank(params[n].scope, month) <= Rank(params[m].scope, month)}
      row == CHOOSE n \in near : \A m \in near : IF oldest THEN n <= m ELSE n >= m
      before(c) == \A n \in near :
        Rank(concepts[c].scope, month) <= Rank(params[n].scope, month)
      standing == {c \in Stands(i, month) : before(c)}
  IN IF standing # {}
       THEN LET c == CHOOSE c \in standing : TRUE
            IN [kind |-> "SEMIFIJO", fixed |-> concepts[c].split.fixed,
                variable |-> concepts[c].split.variable]
     ELSE IF near = {} THEN NotClassified
     ELSE [kind |-> params[row].kind, fixed |-> NoData, variable |-> NoData]

-----------------------------------------------------------------------------
(* The contribution margin and the break-even point.                         *)

\* What each present item amounts to; the expenses that are not of the factory are the period's.
Present(o) == {i \in Elements \union Optional : Given(o.amount[i])} \union {"ads", "admin"}
AmountOf(o) == [i \in Present(o) |->
  IF i = "ads" THEN Times(o.adsPerUnit, o.sold) ELSE IF i = "admin" THEN o.admin ELSE o.amount[i]]
Forced(i) == [NotClassified EXCEPT !.kind = IF i = "ads" THEN "VARIABLE" ELSE "FIJO"]
Trace(o, month, oldest) == [i \in Present(o) |->
  IF i \in {"ads", "admin"} THEN Forced(i) ELSE Classified(i, month, oldest)]

Unclassified(a, t) == {i \in DOMAIN t : a[i] # Zero /\ t[i].kind = "none"}
Unseparated(a, t) ==
  {i \in DOMAIN t : /\ a[i] # Zero /\ t[i].kind = "SEMIFIJO"
                    /\ IF Given(t[i].fixed) THEN Differ(Plus(t[i].fixed, t[i].variable), a[i]) ELSE TRUE}
Variable(a, t) == [i \in DOMAIN t |->
  IF t[i].kind = "VARIABLE" THEN a[i]
  ELSE IF t[i].kind = "SEMIFIJO" THEN Default(t[i].variable, Zero) ELSE Zero]
\* Mutant: the fixed portion of the half-fixed items is left out.
FixedOfWhole(a, t) == [i \in DOMAIN t |-> IF t[i].kind = "FIJO" THEN a[i] ELSE Zero]

Fixed(a, t) == [i \in DOMAIN t |->
  IF t[i].kind = "FIJO" THEN a[i]
  ELSE IF t[i].kind = "SEMIFIJO" THEN Default(t[i].fixed, Zero) ELSE Zero]
Base(o) == IF IsPositive(o.produced) THEN o.produced ELSE o.sold

\* What the production bears divides by the units produced, what the sale bears by the sold ones.
UnitMargin(o, a, t) ==
  LET v == Variable(a, t)
  IN Minus(o.price, Plus(Over(SumOver(v, DOMAIN t \ {"ads", "admin"}), Base(o)),
                         Over(SumOver(v, {"ads", "admin"}), o.sold)))
PointOf(o, a, t) == Over(SumOver(Fixed(a, t), DOMAIN t), UnitMargin(o, a, t))

\* The zone between all that is not classified being variable and being fixed.
As(t, items, kind) == [i \in DOMAIN t |-> IF i \in items THEN [t[i] EXCEPT !.kind = kind] ELSE t[i]]
OnlyWhole(t) == [i \in DOMAIN t |->
  IF t[i].kind = "SEMIFIJO" THEN NotClassified ELSE t[i]]
ZoneOf(o, a, t) ==
  LET open == Unclassified(a, t)
      known == OnlyWhole(t)
      low  == As(known, open, "VARIABLE")
      high == As(known, open, "FIJO")
      asked == open # {} /\ Unseparated(a, t) = {} /\ IsPositive(o.price) /\ IsPositive(o.sold)
  IN IF ~asked THEN [status |-> "incomplete"]
     ELSE IF ~IsPositive(UnitMargin(o, a, low)) \/ ~IsPositive(UnitMargin(o, a, high))
       THEN [status |-> "incomplete"]
     ELSE [status |-> "zone", low |-> PointOf(o, a, low), high |-> PointOf(o, a, high)]

\* calcularContribucionMarginal and calcularPuntoEquilibrio, in the unit base.
BreakEven(o, a, t) ==
  IF Unclassified(a, t) \union Unseparated(a, t) # {} \/ ~IsPositive(o.sold) THEN ZoneOf(o, a, t)
  ELSE LET cm == UnitMargin(o, a, t)
       IN IF IsPositive(cm) THEN [status |-> "point", cm |-> cm, q |-> PointOf(o, a, t)]
          ELSE [status |-> "no point", cm |-> cm]

\* The unit in which the company reads: quantities are divided by its factor, and the amounts
\* of one unit multiplied.
Managed(o, b) ==
  IF b.status = "zone"
    THEN [b EXCEPT !.low = Over(@, o.factor), !.high = Over(@, o.factor)]
  ELSE IF b.status = "point" THEN [b EXCEPT !.cm = Times(@, o.factor), !.q = Over(@, o.factor)]
  ELSE b

\* The behaviour ends with a calculation, of the period the caller knows or of the open one.
Calculate(o, month, oldest) ==
  /\ shown = NotShown /\ \A r \in Costers : mreq[r] = Resting
  /\ LET a == AmountOf(o)
         t == Trace(o, month, oldest)
         b == BreakEven(o, a, t)
     IN shown' = [status |-> b.status, output |-> o, trace |-> t, base |-> b, read |-> Managed(o, b)]
  /\ UNCHANGED <<params, concepts, mreq>>

ParamNext ==
  \E r \in Costers :
    \/ \E i \in EditedItems, s \in Scopes : (\E k \in Behaviours : ReadSet(r, i, s, k)) \/ ReadUnset(r, i, s)
    \/ WriteSet(r)
    \/ WriteUnset(r)
ConceptNext ==
  \/ \E r \in Costers :
       \/ \E f \in ConceptForms : ReadCreate(r, f)
       \/ WriteCreate(r)
       \/ \E n \in 1 .. MaxConcepts :
            \/ ReadRemove(r, n)
            \/ \E f \in EditForms : ReadEdit(r, n, f.kind, f.cause)
       \/ WriteEdit(r)
       \/ WriteRemove(r)
  \/ \E n \in 1 .. MaxConcepts, f \in SplitForms : SaveSplit(n, f)
CalculateNext ==
  \E o \in Outputs, m \in Months \union {NoMonth}, oldest \in BOOLEAN : Calculate(o, m, oldest)
MarginNext == \/ shown = NotShown /\ (ParamNext \/ ConceptNext)
              \/ CalculateNext

MarginSpec == MarginInit /\ [][MarginNext]_marginVars

-----------------------------------------------------------------------------
(* A level that nobody crossed answers with one row: the second set of a      *)
(* parameter updates the first, and a deleted one is out of the cascade.      *)
LevelAnswersOnce ==
  \A m, n \in DOMAIN params :
    (m # n /\ params[m].live /\ params[n].live /\ ~params[m].crossed /\ ~params[n].crossed)
      => ~(params[m].item = params[n].item /\ params[m].scope = params[n].scope)

\* R4: a concept is variable only by the volume, whatever was edited of it and in which order,
\* unless two edits crossed.
VariableByVolume ==
  \A n \in DOMAIN concepts : concepts[n].crossed \/ ~DefiesCause(concepts[n].kind, concepts[n].cause)

\* What the two portions of each item say it costs.
Borne(a, t) == [i \in DOMAIN t |->
  IF t[i].kind = "SEMIFIJO" THEN Plus(Default(t[i].fixed, Zero), Default(t[i].variable, Zero))
  ELSE a[i]]

\* The margin and the point tell one story: with all that was produced sold, the units sold
\* beyond the break-even point earn, at the margin of one, the price of the sales less all
\* the costs, in the unit the company reads.  A cost is the one of the month to less than a
\* cent, except that of an item of zero whose concept is half fixed: its old portions are
\* still added.
MarginTellsTheResult ==
  (shown.status = "point" /\ shown.output.produced = shown.output.sold) =>
    LET o == shown.output
        a == AmountOf(o)
        borne == Borne(a, shown.trace)
    IN /\ Times(shown.read.cm, Minus(Over(o.sold, o.factor), shown.read.q))
            = Minus(Times(o.price, o.sold), SumOver(borne, DOMAIN a))
       /\ \A i \in DOMAIN a : a[i] # Zero => ~Differ(borne[i], a[i])

\* R13: the zone holds the point of every classification that may still come, while what was
\* sold reaches its lower end, nothing was separated and nothing that is open takes from the
\* cost (a waste that was recovered does, and the ends of its zone are the other way round).
ZoneHoldsEveryPoint ==
  LET o == shown.output
      a == AmountOf(o)
      open == Unclassified(a, shown.trace)
  IN (/\ shown.status = "zone" /\ o.produced = o.sold /\ AtMost(shown.base.low, o.sold)
      /\ \A i \in DOMAIN shown.trace : shown.trace[i].kind # "SEMIFIJO"
      /\ \A i \in open : ~IsNegative(a[i])) =>
       \A fixed \in SUBSET open :
         LET b == BreakEven(o, a, As(As(shown.trace, fixed, "FIJO"), open \ fixed, "VARIABLE"))
             q == Over(b.q, o.factor)
         IN b.status = "point" /\ AtMost(shown.read.low, q) /\ AtMost(q, shown.read.high)

\* The break-even point stands: where it is a point it agrees with the result of the month, and
\* where it is a zone it holds the point that any classification still missing would give.
BreakEvenStands == MarginTellsTheResult /\ ZoneHoldsEveryPoint
=============================================================================
