----------------------------- MODULE Overheads -----------------------------
(***************************************************************************)
(* The overheads of a structure of the ORDERS system: the primary          *)
(* proration, the secondary one (direct or in an order of closing), the    *)
(* checks around them, the quotas and the variances (indirect-costs.ts,    *)
(* and the part of calculate.ts that calls it).                            *)
(*                                                                         *)
(* A configuration is a record: concepts and distributions are sequences,  *)
(* a record keyed by centre is a function whose domain is its keys, and an *)
(* amount is a function of the two sides, fixed and variable.  Where the   *)
(* code throws there is a predicate, and the result means nothing.         *)
(***************************************************************************)
EXTENDS Fractions, FiniteSets, SequencesExt

CONSTANTS
  Productive,   \* centres of the structure that make the product
  Service       \* the others

ASSUME OverheadsAssumption == IsFiniteSet(Productive) /\ IsFiniteSet(Service)

Centers == Productive \union Service
Sides   == {"fixed", "variable"}

\* What indirectCostConfigSchema lets through.
IsPair(amount)   == \A side \in Sides : IsAmount(amount[side])
IsKeyed(share)   == IsFiniteSet(DOMAIN share)
IsConcept(c)     == IsPair(c.amount) /\ IsKeyed(c.share) /\ \A x \in DOMAIN c.share : IsAmount(c.share[x])
IsDistribution(d) == IsKeyed(d.to) /\ \A x \in DOMAIN d.to : IsPair(d.to[x])
IsSetting(s)     == IsAmount(s.bp) /\ IsAmount(s.actual) /\ IsAmount(s.cip) /\ IsPair(s.budget)
IsBook(cfg) ==
  /\ cfg.concepts \in Seq(ToSet(cfg.concepts)) /\ \A i \in DOMAIN cfg.concepts : IsConcept(cfg.concepts[i])
  /\ cfg.dist \in Seq(ToSet(cfg.dist)) /\ \A i \in DOMAIN cfg.dist : IsDistribution(cfg.dist[i])
  /\ cfg.order \in Seq(ToSet(cfg.order))
  /\ IsKeyed(cfg.settings) /\ \A c \in DOMAIN cfg.settings : IsSetting(cfg.settings[c])

Nothing == [side \in Sides |-> Zero]
Total(amount) == SumOver(amount, Sides)
SumOfCenters(share, S, side) == SumOver([x \in S |-> share[x][side]], S)
Whose(share) == SumOver(share, DOMAIN share)

-----------------------------------------------------------------------------
(* primaryProration.                                                         *)

Misallocated(concept) ==
  \/ concept.mode = "direct" /\ Whose(concept.share) # Total(concept.amount)
  \/ concept.mode # "direct" /\ Whose(concept.share) = Zero
  \/ ~(DOMAIN concept.share \subseteq Centers)

\* A direct amount is split like the concept, the rest of it being variable.
DirectSide(concept, x, side) ==
  LET fixed == IF Total(concept.amount) = Zero THEN Zero
               ELSE Times(concept.share[x], Over(concept.amount["fixed"], Total(concept.amount)))
  IN IF side = "fixed" THEN fixed ELSE Minus(concept.share[x], fixed)

Share(concept, x, side) ==
  IF x \notin DOMAIN concept.share THEN Zero
  ELSE IF concept.mode = "direct" THEN DirectSide(concept, x, side)
  ELSE Times(concept.amount[side], Over(concept.share[x], Whose(concept.share)))

Primary(cfg) ==
  [x \in Centers |-> [side \in Sides |->
    SumOver([i \in DOMAIN cfg.concepts |-> Share(cfg.concepts[i], x, side)], DOMAIN cfg.concepts)]]

-----------------------------------------------------------------------------
(* secondaryProration and secondaryProrationStepwise.  A distribution is     *)
(* [of |-> centre, to |-> [centre -> units of each side]].                   *)

\* pairsToFixedRecord, pairsToVariableRecord: a pair without units is no target.
Targets(dist, side) == {x \in DOMAIN dist.to : IsPositive(dist.to[x][side])}
AllTargets(dist)    == Targets(dist, "fixed") \union Targets(dist, "variable")
Base(dist, side)    == SumOfCenters(dist.to, Targets(dist, side), side)

\* What x gets of cost, which dist gives away.
Gets(dist, cost, x, side) ==
  IF x \in Targets(dist, side) THEN Times(cost[side], Over(dist.to[x][side], Base(dist, side)))
  ELSE Zero

DirectRefused(cfg) ==
  \E i \in DOMAIN cfg.dist :
    cfg.dist[i].of \notin Centers \/ ~(AllTargets(cfg.dist[i]) \subseteq Productive \ {cfg.dist[i].of})

Direct(cfg, primary) ==
  [x \in Productive |-> [side \in Sides |->
    Plus(primary[x][side],
         SumOver([i \in DOMAIN cfg.dist |-> Gets(cfg.dist[i], primary[cfg.dist[i].of], x, side)],
                 DOMAIN cfg.dist))]]

\* new Map(entries): the last distribution of a centre.
HasDist(cfg, c) == \E i \in DOMAIN cfg.dist : cfg.dist[i].of = c
DistOf(cfg, c)  == cfg.dist[CHOOSE i \in DOMAIN cfg.dist :
                              /\ cfg.dist[i].of = c
                              /\ \A j \in DOMAIN cfg.dist : cfg.dist[j].of = c => j <= i]

StepRefused(acc, c, dist, closed) ==
  \/ c \notin Centers \/ c \in closed
  \/ ~(AllTargets(dist) \subseteq Centers \ ({c} \union closed))
  \/ \E side \in Sides : acc[c][side] # Zero /\ Targets(dist, side) = {}

\* One closing: c gives away all it has gathered and is left with nothing.
Closing(acc, c, dist) ==
  [x \in Centers |-> IF x = c THEN Nothing
                     ELSE [side \in Sides |-> Plus(acc[x][side], Gets(dist, acc[c], x, side))]]

StepAfter(cfg, s, c) ==
  IF s.refused \/ StepRefused(s.acc, c, DistOf(cfg, c), s.closed)
  THEN [acc |-> s.acc, closed |-> s.closed, refused |-> TRUE]
  ELSE [acc |-> Closing(s.acc, c, DistOf(cfg, c)), closed |-> s.closed \union {c}, refused |-> FALSE]

Stepwise(cfg, primary) ==
  LET after[n \in 0 .. Len(cfg.order)] ==
        IF n = 0 THEN [acc |-> primary, closed |-> {}, refused |-> FALSE]
        ELSE StepAfter(cfg, after[n - 1], cfg.order[n])
  IN after[Len(cfg.order)]

-----------------------------------------------------------------------------
(* resolveProductiveCip, with its two guards.                                *)

\* Those that give away a side: with a target, or with a place in the order.
Gives(cfg, side) ==
  IF cfg.order = << >> THEN {cfg.dist[i].of : i \in {j \in DOMAIN cfg.dist : Targets(cfg.dist[j], side) # {}}}
  ELSE ToSet(cfg.order)

\* assertSecundarioCompleto
Incomplete(cfg, primary) ==
  \E c \in Service, side \in Sides : primary[c][side] # Zero /\ c \notin Gives(cfg, side)

\* assertSecundarioNoPierdeCosto: the two sides together.
LosesCost(primary, productive) ==
  SumOver([x \in Centers |-> Total(primary[x])], Centers)
    # SumOver([x \in Productive |-> Total(productive[x])], Productive)

OfProductive(steps) == [refused |-> steps.refused, cip |-> [x \in Productive |-> steps.acc[x]]]
Secondary(cfg, primary) ==
  IF cfg.order = << >> THEN [refused |-> DirectRefused(cfg), cip |-> Direct(cfg, primary)]
  ELSE OfProductive(Stepwise(cfg, primary))

ProrationRefused(cfg, primary, secondary) ==
  \/ \E i \in DOMAIN cfg.concepts : Misallocated(cfg.concepts[i])
  \/ \E i \in DOMAIN cfg.order : ~HasDist(cfg, cfg.order[i])
  \/ Incomplete(cfg, primary)
  \/ secondary.refused
  \/ LosesCost(primary, secondary.cip)

ProrationOf(cfg, primary, secondary) ==
  IF ProrationRefused(cfg, primary, secondary) THEN [refused |-> TRUE] ELSE secondary

\* What each productive centre bears, and whether the calculation throws.
Proration(cfg) == ProrationOf(cfg, Primary(cfg), Secondary(cfg, Primary(cfg)))

-----------------------------------------------------------------------------
(* Quotas and variances, centre by centre (runCalculation).  A setting is    *)
(* [bp, actual, cip, budget]: normal capacity, actual activity, actual cost, *)
(* and the budget that is stored with it.                                    *)

Quota(budget, bp, side) == IF bp = Zero THEN Zero ELSE Over(budget[side], bp)

Pending(s) == ~IsPositive(s.actual) \/ ~IsPositive(s.cip)

\* What one centre puts into the product: what its quota applies, at the activity of the
\* month or at the normal one, and the two variances of a centre that has closed.
Applied(s, budget) ==
  LET level == IF IsPositive(s.actual) THEN s.actual ELSE s.bp
      fixed == Quota(budget, s.bp, "fixed")
      rate  == Plus(fixed, Quota(budget, s.bp, "variable"))
  IN [refused |-> ~Pending(s) /\ s.bp = Zero, applied |-> Times(rate, level),
      budgetVariance |->
        IF Pending(s) \/ s.bp = Zero THEN Zero
        ELSE Minus(s.cip, Plus(budget["fixed"], Times(Over(budget["variable"], s.bp), s.actual))),
      volumeVariance |-> IF Pending(s) \/ s.bp = Zero THEN Zero ELSE Times(fixed, Minus(s.bp, s.actual))]

\* The prorated budget, or the stored one where the proration has none.
BudgetOf(cfg, proration, c) ==
  IF c \in Productive THEN proration.cip[c] ELSE cfg.settings[c].budget
=============================================================================
