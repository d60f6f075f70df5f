----------------------------- MODULE MCCalcRuns -----------------------------
(* Instances of CalcRuns for TLC.  The people are interchangeable, but the    *)
(* runs check liveness or a single person, so no symmetry is declared.        *)
EXTENDS CalcRuns
=============================================================================
