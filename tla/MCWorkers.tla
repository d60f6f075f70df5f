----------------------------- MODULE MCWorkers -----------------------------
(* Instances for TLC of what waits for its turn in the background, without *)
(* any state in common: a behaviour is one of the component in part, and   *)
(* the others stay as they begin, where none of their fair actions is      *)
(* enabled.                                                                *)
EXTENDS CalcRuns, GroqLimiter, Indicators

VARIABLE part

SomeLevel == CHOOSE v \in Levels : \A w \in Levels : v <= w

\* The records of the earlier syncs matter to the indicators only: some of
\* each indicator, or none.
WorkersInit ==
  /\ Init /\ LimiterInit /\ IndicatorsInit
  /\ rec["usd"] = rec["ipc"]
  /\ \/ part = "indicators" /\ rec["usd"] \in {NoLevel, SomeLevel}
     \/ part \in {"runs", "limiter"} /\ rec["usd"] = NoLevel

\* One death, and a second one when nobody enters anything by hand.
WorkersNext ==
  /\ UNCHANGED part
  /\ \/ part = "runs" /\ Next
     \/ part # "runs" /\ UNCHANGED vars
  /\ \/ part = "limiter" /\ LimiterNext
     \/ part # "limiter" /\ UNCHANGED limiterVars
  /\ \/ part = "indicators" /\ IndicatorsNext /\ manual' + deaths' <= MaxDeaths
     \/ part # "indicators" /\ UNCHANGED indicatorVars

WorkersVars == <<part, vars, limiterVars, indicatorVars>>
WorkersSpec ==
  /\ WorkersInit /\ [][WorkersNext]_WorkersVars
  /\ Fairness /\ LimiterFairness /\ IndicatorsFairness
=============================================================================
