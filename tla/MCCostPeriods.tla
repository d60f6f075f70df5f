--------------------------- MODULE MCCostPeriods ---------------------------
(* Instances of CostPeriods for TLC. *)
EXTENDS CostPeriods, TLC

\* Interchangeable requests and data: no property names one of them.
ActorSymmetry == Permutations(Actors)
DatumSymmetry == Permutations(DataPoints)

\* The history `held` guards no action: a run whose properties do not read it
\* need not tell two histories of one state apart.
NoHistory == <<db, writes, req>>
=============================================================================
