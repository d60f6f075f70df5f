------------------------------ MODULE CalcRuns ------------------------------
(***************************************************************************)
(* The calculation runs of ONE cost structure of the ORDERS system: the    *)
(* button of the costista and the daily job both run the engine and save   *)
(* the result as the next run of the structure; the daily job skips a      *)
(* period for which nothing arrived since its last automatic run; a human  *)
(* validates automatic runs.                                               *)
(*                                                                         *)
(* The transaction that saves a run is modelled statement by statement,    *)
(* because what it defends (the correlative number of the run) depends on  *)
(* the order of its lock, its read and its insert.                         *)
(*                                                                         *)
(* Time is the order in which data arrive: the data are numbered, a        *)
(* calculation reads the data 1 .. arrived, and a mark in time is the      *)
(* number of the last datum that had arrived by then.                      *)
(***************************************************************************)
EXTENDS Naturals, FiniteSets

CONSTANTS
  Users,     \* the people that calculate and validate, one request each
  Worker,    \* the daily-run worker (concurrency 1)
  Periods,   \* the periods that are open
  Latest,    \* the newest of them, the one the button calculates
  MaxRuns,   \* bound: runs ever saved
  MaxData,   \* bound: data that ever arrive
  MaxFails,  \* bound: failures after the run was saved and before its mark
  Nobody,    \* no user, no holder of the lock
  Never,     \* a period without an automatic run
  NoRun      \* a number that no run has

Actors == Users \cup {Worker}
RunNs  == 1 .. MaxRuns

Run == [trigger : {"MANUAL", "AUTO_DAILY"}, per : Periods, input : 0 .. MaxData,
        validated : BOOLEAN, by : Actors \cup {Nobody}]

ASSUME RunsAssumption ==
  /\ MaxRuns \in Nat \ {0}
  /\ MaxData \in Nat
  /\ MaxFails \in Nat
  /\ Worker \notin Users
  /\ Nobody \notin Actors
  /\ Latest \in Periods
  /\ Never \notin 0 .. MaxData
  /\ NoRun \notin Run

VARIABLES
  arrived,  \* data received so far, through any of the four doors
  run,      \* calculation_runs by runN
  shown,    \* the run behind the newest cost_calculations row, 0 is none
  mark,     \* cost_periods.lastAutoRunAt
  lock,     \* who holds the row lock of the structure (FOR UPDATE)
  req,      \* per actor: the step it is at and what it has read
  todo,     \* worker: the periods of its list it has not visited
  since,    \* worker: lastAutoRunAt of each of them, as the list read it
  fails     \* automatic runs that were saved and not marked

vars == <<arrived, run, shown, mark, lock, req, todo, since, fails>>

Marks == 0 .. MaxData \cup {Never}
Steps == {"idle", "batch", "due", "computed", "locked", "numbered", "marking",
          "validating"}

Idle == [at |-> "idle", per |-> Latest, input |-> 0, n |-> 0]

TypeOK ==
  /\ arrived \in 0 .. MaxData
  /\ run \in [RunNs -> Run \cup {NoRun}]
  /\ shown \in 0 .. MaxRuns
  /\ mark \in [Periods -> Marks]
  /\ lock \in Actors \cup {Nobody}
  /\ req \in [Actors -> [at : Steps, per : Periods, input : 0 .. MaxData,
                         n : 0 .. MaxRuns]]
  /\ todo \in SUBSET Periods
  /\ since \in [Periods -> Marks]
  /\ fails \in 0 .. MaxFails

Init ==
  /\ arrived = 0
  /\ run = [n \in RunNs |-> NoRun]
  /\ shown = 0
  /\ mark = [p \in Periods |-> Never]
  /\ lock = Nobody
  /\ req = [a \in Actors |-> Idle]
  /\ todo = {}
  /\ since = [p \in Periods |-> Never]
  /\ fails = 0

At(a, s)   == req[a].at = s
Move(a, s) == req' = [req EXCEPT ![a].at = s]
Forget(a, s) == req' = [req EXCEPT ![a] = [Idle EXCEPT !.at = s]]

\* Where an actor continues when its calculation is over or has failed: the
\* worker goes on with its list, whatever happened to this period.
Rest(a) == IF a = Worker THEN "batch" ELSE "idle"

Existing == {n \in RunNs : run[n] # NoRun}

\* findFirst ordered by runN descending, 0 when there is no run.
IsLastRun(l) == /\ l \in Existing \cup {0}
                /\ \A n \in Existing : n <= l

\* The bound on runs is enforced where a calculation begins, never inside.
InFlight == {a \in Actors : req[a].at \in {"computed", "locked", "numbered"}}
RoomForRun == Cardinality(Existing) + Cardinality(InFlight) < MaxRuns

-----------------------------------------------------------------------------
(* The world: a document is approved, a section or a schedule is saved, a   *)
(* traceable datum is corrected.                                            *)

Arrive ==
  /\ arrived < MaxData
  /\ arrived' = arrived + 1
  /\ UNCHANGED <<run, shown, mark, lock, req, todo, since, fails>>

-----------------------------------------------------------------------------
(* CALCULATE: everything calculate reads before its transaction. *)

Compute(a, p) ==
  /\ RoomForRun
  /\ req' = [req EXCEPT ![a] =
       [at |-> "computed", per |-> p, input |-> arrived, n |-> 0]]
  /\ UNCHANGED <<arrived, run, shown, mark, lock, todo, since, fails>>

\* The button: the newest open period.
PressCalculate(u) == At(u, "idle") /\ Compute(u, Latest)

-----------------------------------------------------------------------------
(* SAVE the run: persistCalculationRun, inside the transaction. *)

LockRow(a) ==
  /\ At(a, "computed")
  /\ lock = Nobody
  /\ lock' = a
  /\ Move(a, "locked")
  /\ UNCHANGED <<arrived, run, shown, mark, todo, since, fails>>

ReadLastRun(a) ==
  /\ At(a, "locked")
  /\ \E l \in 0 .. MaxRuns - 1 :
       /\ IsLastRun(l)
       /\ req' = [req EXCEPT ![a].at = "numbered", ![a].n = l + 1]
  /\ UNCHANGED <<arrived, run, shown, mark, lock, todo, since, fails>>

\* Whether a run is validated derives from what triggered it.
NewRun(a) ==
  LET auto == a = Worker IN
  [trigger |-> IF auto THEN "AUTO_DAILY" ELSE "MANUAL",
   per |-> req[a].per, input |-> req[a].input,
   validated |-> ~ auto, by |-> IF auto THEN Nobody ELSE a]

\* The insert of the run, the insert of the legacy calculation with the same
\* output, and the commit that releases the lock.
Save(a) ==
  /\ At(a, "numbered")
  /\ run[req[a].n] = NoRun
  /\ run' = [run EXCEPT ![req[a].n] = NewRun(a)]
  /\ shown' = req[a].n
  /\ lock' = Nobody
  /\ IF a = Worker THEN Move(a, "marking") ELSE Forget(a, "idle")
  /\ UNCHANGED <<arrived, mark, todo, since, fails>>

\* Mutant: a failed calculation keeps its lock.
FailLocked(a) ==
  /\ req[a].at \in {"due", "computed", "locked", "numbered"}
  /\ Forget(a, Rest(a))
  /\ UNCHANGED <<arrived, run, shown, mark, lock, todo, since, fails>>

\* The calculation fails at any point: an input is missing, the engine throws,
\* the unique index refuses the number, the connection drops.  The transaction
\* rolls back and its lock is gone; the worker goes on with its list.
Fail(a) ==
  /\ req[a].at \in {"due", "computed", "locked", "numbered"}
  /\ Forget(a, Rest(a))
  /\ lock' = IF lock = a THEN Nobody ELSE lock
  /\ UNCHANGED <<arrived, run, shown, mark, todo, since, fails>>

-----------------------------------------------------------------------------
(* The DAILY RUN. *)

\* runAll: the list of open periods, with the mark each one has now.
ListPeriods ==
  /\ At(Worker, "idle")
  /\ todo' = Periods
  /\ since' = mark
  /\ Move(Worker, "batch")
  /\ UNCHANGED <<arrived, run, shown, mark, lock, fails>>

\* Mutant: the standby never applies.
AlwaysNewData(p) == p \in Periods

\* The standby: did anything arrive after the mark that the list carries?
HasNewData(p) == since[p] = Never \/ arrived > since[p]

\* One period of the list, in any order.
VisitPeriod(p) ==
  /\ At(Worker, "batch")
  /\ p \in todo
  /\ todo' = todo \ {p}
  /\ req' = IF HasNewData(p)
            THEN [req EXCEPT ![Worker].at = "due", ![Worker].per = p]
            ELSE req
  /\ UNCHANGED <<arrived, run, shown, mark, lock, since, fails>>

ComputeAuto == At(Worker, "due") /\ Compute(Worker, req[Worker].per)

\* The mark is the time AFTER the calculation.
MarkPeriod ==
  /\ At(Worker, "marking")
  /\ mark' = [mark EXCEPT ![req[Worker].per] = arrived]
  /\ Forget(Worker, "batch")
  /\ UNCHANGED <<arrived, run, shown, lock, todo, since, fails>>

\* The update of the mark fails, or the process dies and starts again.
MarkFails ==
  /\ At(Worker, "marking")
  /\ fails < MaxFails
  /\ fails' = fails + 1
  /\ Forget(Worker, "batch")
  /\ UNCHANGED <<arrived, run, shown, mark, lock, todo, since>>

EndBatch ==
  /\ At(Worker, "batch")
  /\ todo = {}
  /\ since' = [p \in Periods |-> Never]
  /\ Forget(Worker, "idle")
  /\ UNCHANGED <<arrived, run, shown, mark, lock, todo, fails>>

-----------------------------------------------------------------------------
(* VALIDATE: validateRun. *)

\* The check, before the transaction: a validated run is answered as it is.
ValidateRead(u, n) ==
  /\ At(u, "idle")
  /\ n \in Existing
  /\ ~ run[n].validated
  /\ req' = [req EXCEPT ![u].at = "validating", ![u].n = n]
  /\ UNCHANGED <<arrived, run, shown, mark, lock, todo, since, fails>>

\* Mutant: validating recalculates the run in place with the data of now.
ValidateRecomputes(u) ==
  /\ At(u, "validating")
  /\ run' = [run EXCEPT ![req[u].n] =
       [@ EXCEPT !.validated = TRUE, !.by = u, !.input = arrived]]
  /\ Forget(u, "idle")
  /\ UNCHANGED <<arrived, shown, mark, lock, todo, since, fails>>

ValidateCommit(u) ==
  /\ At(u, "validating")
  /\ run' = [run EXCEPT ![req[u].n].validated = TRUE, ![req[u].n].by = u]
  /\ Forget(u, "idle")
  /\ UNCHANGED <<arrived, shown, mark, lock, todo, since, fails>>

-----------------------------------------------------------------------------

Saving(a) == LockRow(a) \/ ReadLastRun(a) \/ Save(a) \/ Fail(a)

DailyRun ==
  \/ ListPeriods
  \/ \E p \in Periods : VisitPeriod(p)
  \/ ComputeAuto \/ MarkPeriod \/ MarkFails \/ EndBatch

Next ==
  \/ Arrive
  \/ \E a \in Actors : Saving(a)
  \/ DailyRun
  \/ \E u \in Users : \/ PressCalculate(u) \/ ValidateCommit(u)
                      \/ \E n \in RunNs : ValidateRead(u, n)

\* A handler that began goes on or fails, and the database grants its row lock
\* in the order of arrival: a transaction is not passed over for ever.  Nothing
\* makes a datum arrive, a person press a button or the daily job start.
Fairness ==
  /\ \A a \in Actors : /\ SF_vars(LockRow(a))
                       /\ WF_vars(ReadLastRun(a) \/ Save(a))
  /\ WF_vars((\E p \in Periods : VisitPeriod(p)) \/ EndBatch)
  /\ WF_vars(ComputeAuto \/ Fail(Worker))
  /\ WF_vars(MarkPeriod \/ MarkFails)
  /\ \A u \in Users : WF_vars(ValidateCommit(u))

Spec == Init /\ [][Next]_vars /\ Fairness

-----------------------------------------------------------------------------
(* PROPERTIES *)

\* Two calculations of one structure never choose the same number: the number
\* an actor is about to insert is free, so the unique index never discards a
\* calculation together with its audit trail.
ChosenNumberIsFree ==
  \A a \in Actors : At(a, "numbered") => run[req[a].n] = NoRun

\* The numbers of the runs of a structure have no holes.
NumbersHaveNoHoles ==
  \A n \in RunNs : n - 1 \in RunNs /\ run[n] # NoRun => run[n - 1] # NoRun

\* An automatic run is validated only by a person, and a validated run names
\* the person that answers for it.
OnlyPeopleValidate ==
  \A n \in Existing : run[n].validated <=> run[n].by \in Users

\* The history is append-only: the number, the trigger, the period and the
\* inputs of a run never change, and a validation is never taken back.
HistoryStands ==
  [][\A n \in Existing :
       /\ run'[n] # NoRun
       /\ run'[n] = [run[n] EXCEPT !.validated = run'[n].validated,
                                   !.by = run'[n].by]
       /\ run[n].validated => run'[n].validated]_vars

\* The standby: an automatic run that repeats the inputs of an earlier one of
\* its period is always the trace of a mark that could not be written.
Repeats == {n \in Existing :
              /\ run[n].trigger = "AUTO_DAILY"
              /\ \E m \in Existing : /\ m < n
                                     /\ run[m].trigger = "AUTO_DAILY"
                                     /\ run[m].per = run[n].per
                                     /\ run[m].input = run[n].input}
RepeatsOnlyAfterFailure == Cardinality(Repeats) <= fails

\* Every calculation and every batch ends, although the transactions of one
\* structure wait for each other and any of them may fail.
EveryRequestEnds == \A a \in Actors : ~ At(a, "idle") ~> At(a, "idle")

-----------------------------------------------------------------------------
(* What the documentation states and the code does not keep. *)

\* "The mark moves only when there was a run, instead of taking for seen a
\* datum that was never processed": whatever a mark covers was read by an
\* automatic run of that period.
MarkedIsProcessed ==
  \A p \in Periods : mark[p] # Never =>
    \E n \in Existing : /\ run[n].trigger = "AUTO_DAILY"
                        /\ run[n].per = p
                        /\ run[n].input >= mark[p]

\* "It is not shown as the current result": the newest legacy calculation, the
\* one the screens and the company portal read, comes from a validated run as
\* soon as there is one.
ShownIsValidated ==
  (\E n \in Existing : run[n].validated) /\ shown # 0 => run[shown].validated
=============================================================================
