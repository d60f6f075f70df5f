------------------------------ MODULE MCIntake ------------------------------
(* Instances of Intake for TLC. *)
EXTENDS Intake, TLC

\* The extraction reads the CAE and the number of the paper, or neither.
MCReadings == {[cae |-> TRUE, key |-> TRUE], [cae |-> FALSE, key |-> FALSE]}

\* A sure cost, and a doubtful document of no known section.
MCClasses == {[sure |-> TRUE, section |-> "cost", amount |-> TRUE],
              [sure |-> FALSE, section |-> "unknown", amount |-> TRUE]}

ActorSymmetry == Permutations(Actors)
=============================================================================
