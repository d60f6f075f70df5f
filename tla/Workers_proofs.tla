-------------------------- MODULE Workers_proofs --------------------------
(***************************************************************************)
(* Proofs about what runs in the background.  CalcRuns, for any number of  *)
(* people, periods, data, runs and failures: the row lock makes the        *)
(* numbering of the runs exact, no interleaving signs an automatic run or  *)
(* rewrites the history, and the daily run repeats itself only after a     *)
(* failure.  Indicators, for any number of structures and consumers: a     *)
(* margin that fell is told once.  GroqLimiter, for any callers and any    *)
(* limits: the counter and the queue never drift from the calls they stand *)
(* for, no caller is told 429 before every retry, and the limiter          *)
(* implements Slots.                                                       *)
(***************************************************************************)
EXTENDS CalcRuns, Indicators, GroqLimiter, FiniteSetTheorems, SequenceTheorems, TLAPS

\* Only the holder of the row lock is between its lock and its commit.
LockInv == \A a \in Actors : req[a].at \in {"locked", "numbered"} => lock = a

\* Its number is the one after the last run, still.
NumberInv ==
  \A a \in Actors : At(a, "numbered") =>
    req[a].n \in RunNs /\ IsLastRun(req[a].n - 1)

\* Who can be at the steps of the worker and at those of the validation.
RolesInv ==
  \A a \in Actors :
    /\ req[a].at \in {"batch", "due", "marking"} => a = Worker
    /\ At(a, "validating") => a \in Users /\ req[a].n \in Existing

IInv ==
  /\ TypeOK /\ LockInv /\ NumberInv /\ RolesInv
  /\ NumbersHaveNoHoles /\ OnlyPeopleValidate

-----------------------------------------------------------------------------

\* The record of a request at rest, wherever it rests.
LEMMA RestFacts ==
  /\ Latest \in Periods /\ 0 \in 0 .. MaxData /\ 0 \in 0 .. MaxRuns
  /\ RunNs \subseteq 0 .. MaxRuns
  /\ Worker \in Actors /\ Users \subseteq Actors /\ Worker \notin Users
BY RunsAssumption DEF RunNs, Actors

\* The run that an actor saves is well typed, and signed by a person or not at
\* all.
LEMMA NewRunFacts ==
  ASSUME TypeOK, NEW a \in Actors
  PROVE  /\ NewRun(a) \in Run /\ NewRun(a) # NoRun
         /\ NewRun(a).validated <=> NewRun(a).by \in Users
<1>1. NewRun(a) \in Run
  BY DEF NewRun, Run, TypeOK, Actors
<1>2. NewRun(a) # NoRun
  BY <1>1, RunsAssumption
<1>3. NewRun(a).validated <=> NewRun(a).by \in Users
  BY RunsAssumption DEF NewRun, Actors
<1> QED BY <1>1, <1>2, <1>3

\* The steps that touch neither the runs nor the lock of anybody: they move one
\* actor to a step that holds nothing.
LEMMA QuietStep ==
  ASSUME IInv, TypeOK', UNCHANGED <<run, lock>>, NEW a \in Actors,
         \A b \in Actors \ {a} : req'[b] = req[b],
         req'[a].at \notin {"locked", "numbered"},
         req'[a].at \in {"batch", "due", "marking"} => a = Worker,
         req'[a].at = "validating" => a \in Users /\ req'[a].n \in Existing
  PROVE  IInv'
<1>1. LockInv' /\ NumberInv' /\ RolesInv'
  BY DEF IInv, LockInv, NumberInv, RolesInv, At, IsLastRun, Existing
<1>2. NumbersHaveNoHoles' /\ OnlyPeopleValidate'
  BY DEF IInv, NumbersHaveNoHoles, OnlyPeopleValidate, Existing
<1> QED BY <1>1, <1>2 DEF IInv

LEMMA ArriveStep == ASSUME IInv, Arrive PROVE IInv'
<1>1. TypeOK'
  BY RunsAssumption DEF Arrive, IInv, TypeOK
<1> QED BY <1>1 DEF Arrive, IInv, LockInv, NumberInv, RolesInv, At, IsLastRun,
     Existing, NumbersHaveNoHoles, OnlyPeopleValidate

LEMMA ComputeStep ==
  ASSUME IInv, NEW a \in Actors, NEW p \in Periods, Compute(a, p)
  PROVE  IInv'
<1>1. TypeOK'
  BY RestFacts DEF Compute, IInv, TypeOK, Steps
<1>2. /\ req'[a].at = "computed"
      /\ \A b \in Actors \ {a} : req'[b] = req[b]
      /\ UNCHANGED <<run, lock>>
  BY DEF Compute, IInv, TypeOK
<1> QED BY <1>1, <1>2, QuietStep

LEMMA LockRowStep == ASSUME IInv, NEW a \in Actors, LockRow(a) PROVE IInv'
<1>1. TypeOK'
  BY DEF LockRow, Move, IInv, TypeOK, Steps
<1>2. /\ At(a, "computed") /\ lock = Nobody /\ lock' = a /\ run' = run
      /\ req' = [req EXCEPT ![a].at = "locked"]
  BY DEF LockRow, Move
<1>3. \A b \in Actors : req[b].at \notin {"locked", "numbered"}
  BY <1>2, RunsAssumption DEF IInv, LockInv
<1>4. LockInv' /\ NumberInv' /\ RolesInv'
  BY <1>2, <1>3 DEF IInv, TypeOK, LockInv, NumberInv, RolesInv, At, Existing
<1> QED BY <1>1, <1>2, <1>4 DEF IInv, NumbersHaveNoHoles, OnlyPeopleValidate, Existing

LEMMA ReadLastRunStep == ASSUME IInv, NEW a \in Actors, ReadLastRun(a) PROVE IInv'
<1>1. PICK l \in 0 .. MaxRuns - 1 :
        /\ IsLastRun(l)
        /\ req' = [req EXCEPT ![a].at = "numbered", ![a].n = l + 1]
        /\ UNCHANGED <<arrived, run, shown, mark, lock, todo, since, fails>>
  BY DEF ReadLastRun
<1>2. l + 1 \in RunNs /\ l + 1 \in 0 .. MaxRuns /\ (l + 1) - 1 = l
  BY RunsAssumption DEF RunNs
<1>3. TypeOK'
  BY <1>1, <1>2 DEF IInv, TypeOK, Steps
<1>4. /\ req'[a].at = "numbered" /\ req'[a].n = l + 1
      /\ \A b \in Actors \ {a} : req'[b] = req[b]
  BY <1>1 DEF IInv, TypeOK
<1>5. LockInv' /\ RolesInv'
  BY <1>1, <1>4 DEF ReadLastRun, IInv, LockInv, RolesInv, At, Existing
<1>6. NumberInv'
  BY <1>1, <1>2, <1>4 DEF IInv, NumberInv, At, IsLastRun, Existing
<1> QED BY <1>1, <1>3, <1>5, <1>6 DEF IInv, NumbersHaveNoHoles, OnlyPeopleValidate, Existing

LEMMA SaveStep == ASSUME IInv, NEW a \in Actors, Save(a) PROVE IInv'
<1> DEFINE n == req[a].n
<1>1. /\ At(a, "numbered") /\ run[n] = NoRun
      /\ run' = [run EXCEPT ![n] = NewRun(a)]
      /\ shown' = n /\ lock' = Nobody
      /\ UNCHANGED <<arrived, mark, todo, since, fails>>
  BY DEF Save
<1>2. /\ \E s \in {"marking", "idle"} : 
           /\ req'[a].at = s /\ (s = "marking" => a = Worker)
      /\ \A b \in Actors \ {a} : req'[b] = req[b]
      /\ req' \in [Actors -> [at : Steps, per : Periods, input : 0 .. MaxData,
                              n : 0 .. MaxRuns]]
  BY RestFacts DEF Save, Move, Forget, Idle, IInv, TypeOK, Steps
<1>3. /\ n \in RunNs /\ n \in 0 .. MaxRuns /\ IsLastRun(n - 1) /\ lock = a
  BY <1>1, RestFacts DEF IInv, NumberInv, LockInv, At
<1>4. NewRun(a) \in Run /\ NewRun(a) # NoRun /\ (NewRun(a).validated <=> NewRun(a).by \in Users)
  BY NewRunFacts DEF IInv
<1> HIDE DEF n
<1>5. TypeOK'
  BY <1>1, <1>2, <1>3, <1>4 DEF IInv, TypeOK
<1>6. \A b \in Actors : req'[b].at \notin {"locked", "numbered"}
  BY <1>2, <1>3 DEF IInv, LockInv
<1>7. Existing' = Existing \cup {n}
  BY <1>1, <1>3, <1>4 DEF Existing, IInv, TypeOK
<1>8. LockInv' /\ NumberInv' /\ RolesInv'
  BY <1>2, <1>6, <1>7 DEF IInv, LockInv, NumberInv, RolesInv, At
<1>9. NumbersHaveNoHoles'
  <2> SUFFICES ASSUME NEW m \in RunNs, m - 1 \in RunNs, run'[m] # NoRun
               PROVE  run'[m - 1] # NoRun
    BY DEF NumbersHaveNoHoles
  <2>1. CASE m = n
    BY <1>1, <1>3, <2>1, RunsAssumption DEF IsLastRun, Existing, RunNs, IInv, TypeOK
  <2>2. CASE m # n
    BY <1>1, <1>3, <1>4, <2>2 DEF IInv, TypeOK, NumbersHaveNoHoles
  <2> QED BY <2>1, <2>2
<1>10. OnlyPeopleValidate'
  BY <1>1, <1>3, <1>4, <1>7 DEF IInv, TypeOK, OnlyPeopleValidate
<1> QED BY <1>5, <1>8, <1>9, <1>10 DEF IInv

LEMMA FailStep == ASSUME IInv, NEW a \in Actors, Fail(a) PROVE IInv'
<1>1. /\ req[a].at \in {"due", "computed", "locked", "numbered"}
      /\ lock' = (IF lock = a THEN Nobody ELSE lock) /\ run' = run
      /\ req'[a].at = Rest(a)
      /\ \A b \in Actors \ {a} : req'[b] = req[b]
  BY DEF Fail, Forget, IInv, TypeOK
<1>2. TypeOK'
  BY RestFacts DEF Fail, Forget, Rest, Idle, IInv, TypeOK, Steps
<1>3. LockInv' /\ NumberInv' /\ RolesInv'
  BY <1>1 DEF IInv, LockInv, NumberInv, RolesInv, At, Rest, IsLastRun, Existing
<1> QED BY <1>1, <1>2, <1>3 DEF IInv, NumbersHaveNoHoles, OnlyPeopleValidate, Existing

\* The steps of the daily run around its calculations.
LEMMA WorkerStep ==
  ASSUME IInv, NEW p \in Periods,
         ListPeriods \/ VisitPeriod(p) \/ MarkPeriod \/ MarkFails \/ EndBatch
  PROVE  IInv'
<1>1. CASE ListPeriods
  <2>1. TypeOK'
    BY <1>1 DEF ListPeriods, Move, IInv, TypeOK, Steps
  <2> QED BY <1>1, <2>1, RestFacts, QuietStep DEF ListPeriods, Move, IInv, TypeOK
<1>2. CASE VisitPeriod(p)
  <2>1. TypeOK'
    BY <1>2 DEF VisitPeriod, IInv, TypeOK, Steps
  <2> QED BY <1>2, <2>1, RestFacts, QuietStep DEF VisitPeriod, At, IInv, TypeOK
<1>3. CASE MarkPeriod
  <2>1. TypeOK'
    BY <1>3, RestFacts DEF MarkPeriod, Forget, Idle, IInv, TypeOK, Steps, Marks
  <2> QED BY <1>3, <2>1, RestFacts, QuietStep DEF MarkPeriod, Forget, IInv, TypeOK
<1>4. CASE MarkFails
  <2>1. TypeOK'
    BY <1>4, RestFacts, RunsAssumption DEF MarkFails, Forget, Idle, IInv, TypeOK, Steps
  <2> QED BY <1>4, <2>1, RestFacts, QuietStep DEF MarkFails, Forget, IInv, TypeOK
<1>5. CASE EndBatch
  <2>1. TypeOK'
    BY <1>5, RestFacts DEF EndBatch, Forget, Idle, IInv, TypeOK, Steps, Marks
  <2> QED BY <1>5, <2>1, RestFacts, QuietStep DEF EndBatch, Forget, Idle, IInv, TypeOK
<1> QED BY <1>1, <1>2, <1>3, <1>4, <1>5

LEMMA ValidateReadStep ==
  ASSUME IInv, NEW u \in Users, NEW n \in RunNs, ValidateRead(u, n)
  PROVE  IInv'
<1>1. TypeOK'
  BY RestFacts DEF ValidateRead, IInv, TypeOK, Steps
<1>2. /\ req'[u].at = "validating" /\ req'[u].n = n /\ n \in Existing
      /\ \A b \in Actors \ {u} : req'[b] = req[b]
      /\ UNCHANGED <<run, lock>>
  BY RestFacts DEF ValidateRead, IInv, TypeOK
<1> QED BY <1>1, <1>2, RestFacts, QuietStep

LEMMA ValidateCommitStep ==
  ASSUME IInv, NEW u \in Users, ValidateCommit(u)
  PROVE  IInv'
<1> DEFINE n == req[u].n
           v == [run[n] EXCEPT !.validated = TRUE, !.by = u]
<1>1. n \in RunNs /\ run[n] # NoRun /\ run[n] \in Run
  BY RestFacts DEF ValidateCommit, IInv, TypeOK, RolesInv, Existing
<1>2. /\ run' = [run EXCEPT ![n] = v]
      /\ lock' = lock
      /\ UNCHANGED <<arrived, shown, mark, lock, todo, since, fails>>
  BY DEF ValidateCommit
<1>3. /\ req'[u].at = "idle"
      /\ \A b \in Actors \ {u} : req'[b] = req[b]
      /\ req' \in [Actors -> [at : Steps, per : Periods, input : 0 .. MaxData,
                              n : 0 .. MaxRuns]]
  BY RestFacts DEF ValidateCommit, Forget, Idle, IInv, TypeOK, Steps
<1>4. v \in Run /\ v # NoRun /\ v.validated /\ v.by \in Users
  <2>1. v \in Run /\ v.validated /\ v.by = u
    BY <1>1, RestFacts DEF Run
  <2> QED BY <2>1, RunsAssumption
<1> HIDE DEF n, v
<1>5. TypeOK'
  BY <1>1, <1>2, <1>3, <1>4 DEF IInv, TypeOK
<1>6. Existing' = Existing
  BY <1>1, <1>2, <1>4 DEF Existing, IInv, TypeOK
<1>7. LockInv' /\ NumberInv' /\ RolesInv'
  BY <1>2, <1>3, <1>6 DEF IInv, LockInv, NumberInv, RolesInv, At, IsLastRun
<1>8. NumbersHaveNoHoles'
  BY <1>6 DEF IInv, NumbersHaveNoHoles, Existing
<1>9. OnlyPeopleValidate'
  BY <1>1, <1>2, <1>4, <1>6 DEF IInv, TypeOK, OnlyPeopleValidate
<1> QED BY <1>5, <1>7, <1>8, <1>9 DEF IInv

-----------------------------------------------------------------------------

LEMMA InitInv == Init => IInv
<1> SUFFICES ASSUME Init PROVE IInv
  OBVIOUS
<1>1. TypeOK
  BY RestFacts, RunsAssumption DEF Init, TypeOK, Idle, Steps, Marks
<1>2. LockInv /\ NumberInv /\ RolesInv
  BY DEF Init, LockInv, NumberInv, RolesInv, At, Idle
<1>3. NumbersHaveNoHoles /\ OnlyPeopleValidate
  BY DEF Init, NumbersHaveNoHoles, OnlyPeopleValidate, Existing
<1> QED BY <1>1, <1>2, <1>3 DEF IInv

LEMMA NextInv == IInv /\ [Next]_vars => IInv'
<1> SUFFICES ASSUME IInv, [Next]_vars PROVE IInv'
  OBVIOUS
<1>1. CASE UNCHANGED vars
  BY <1>1 DEF vars, IInv, TypeOK, LockInv, NumberInv, RolesInv, At, IsLastRun,
     Existing, NumbersHaveNoHoles, OnlyPeopleValidate
<1>2. CASE Arrive
  BY <1>2, ArriveStep
<1>3. ASSUME NEW a \in Actors, Saving(a) PROVE IInv'
  BY <1>3, LockRowStep, ReadLastRunStep, SaveStep, FailStep DEF Saving
<1>4. CASE DailyRun
  <2>1. CASE ComputeAuto
    <3>1. req[Worker].per \in Periods
      BY RestFacts DEF IInv, TypeOK
    <3> QED BY <2>1, <3>1, RestFacts, ComputeStep DEF ComputeAuto
  <2>2. CASE ~ ComputeAuto
    BY <1>4, <2>2, RestFacts, WorkerStep DEF DailyRun
  <2> QED BY <2>1, <2>2
<1>5. ASSUME NEW u \in Users, PressCalculate(u) PROVE IInv'
  BY <1>5, RestFacts, ComputeStep DEF PressCalculate
<1>6. ASSUME NEW u \in Users, ValidateCommit(u) PROVE IInv'
  BY <1>6, ValidateCommitStep
<1>7. ASSUME NEW u \in Users, NEW n \in RunNs, ValidateRead(u, n) PROVE IInv'
  BY <1>7, ValidateReadStep
<1> QED BY <1>1, <1>2, <1>3, <1>4, <1>5, <1>6, <1>7 DEF Next

\* No step of a run, of its lock or of its validation leaves the inductive
\* invariant (calculation-run-service.ts).
THEOREM Invariance == Spec => []IInv
BY InitInv, NextInv, PTL DEF Spec

\* Every variable keeps its type.
THEOREM TypeCorrect == Spec => []TypeOK
<1>1. IInv => TypeOK
  BY DEF IInv
<1> QED BY <1>1, Invariance, PTL

\* The lock taken before the read makes the number of every run free when it is
\* inserted, for any number of simultaneous calculations.
THEOREM NumberCorrect == Spec => []ChosenNumberIsFree
<1>1. IInv => ChosenNumberIsFree
  <2> SUFFICES ASSUME IInv, NEW a \in Actors, At(a, "numbered"),
                      run[req[a].n] # NoRun
               PROVE  FALSE
    BY DEF ChosenNumberIsFree
  <2>1. /\ req[a].n \in RunNs /\ req[a].n \in Existing
        /\ \A n \in Existing : n <= req[a].n - 1
    BY DEF IInv, NumberInv, IsLastRun, Existing
  <2> QED BY <2>1, RunsAssumption DEF RunNs
<1> QED BY <1>1, Invariance, PTL

\* The runs of a structure are numbered without holes.
THEOREM NumberingCorrect == Spec => []NumbersHaveNoHoles
<1>1. IInv => NumbersHaveNoHoles
  BY DEF IInv
<1> QED BY <1>1, Invariance, PTL

\* Whoever validates is a person, and validated runs name one.
THEOREM SignatureCorrect == Spec => []OnlyPeopleValidate
<1>1. IInv => OnlyPeopleValidate
  BY DEF IInv
<1> QED BY <1>1, Invariance, PTL

\* The history of runs is append-only and validations are not taken back.
THEOREM HistoryCorrect == Spec => HistoryStands
<1> DEFINE Stands(n) ==
       /\ run'[n] # NoRun
       /\ run'[n] = [run[n] EXCEPT !.validated = run'[n].validated,
                                   !.by = run'[n].by]
       /\ run[n].validated => run'[n].validated
<1>1. ASSUME IInv, [Next]_vars, NEW n \in Existing PROVE Stands(n)
  <2>1. n \in RunNs /\ run[n] # NoRun /\ run[n] \in Run
    BY <1>1 DEF Existing, IInv, TypeOK
  <2>2. CASE run' = run
    BY <2>1, <2>2 DEF Run
  <2>3. ASSUME NEW a \in Actors, Save(a) PROVE Stands(n)
    <3>1. run'[n] = run[n]
      BY <1>1, <2>1, <2>3 DEF Save, IInv, TypeOK
    <3> QED BY <2>1, <3>1 DEF Run
  <2>4. ASSUME NEW u \in Users, ValidateCommit(u) PROVE Stands(n)
    <3>1. run' = [run EXCEPT ![req[u].n] = [run[req[u].n] EXCEPT !.validated = TRUE, !.by = u]]
      BY <2>4 DEF ValidateCommit
    <3>2. CASE req[u].n = n
      <4>1. run'[n] = [run[n] EXCEPT !.validated = TRUE, !.by = u]
        BY <1>1, <2>1, <3>1, <3>2 DEF IInv, TypeOK
      <4>2. run'[n] \in Run /\ run'[n].validated = TRUE /\ run'[n].by = u
        BY <2>1, <4>1, RestFacts DEF Run
      <4>3. run'[n] # NoRun
        BY <4>2, RunsAssumption
      <4> QED BY <4>1, <4>2, <4>3
    <3>3. CASE req[u].n # n
      <4>1. run'[n] = run[n]
        BY <1>1, <2>1, <3>1, <3>3 DEF IInv, TypeOK
      <4> QED BY <2>1, <4>1 DEF Run
    <3> QED BY <3>2, <3>3
  <2>5. \/ run' = run \/ \E a \in Actors : Save(a)
        \/ \E u \in Users : ValidateCommit(u)
    BY <1>1 DEF Next, vars, Arrive, Saving, LockRow, ReadLastRun, Fail, DailyRun,
       ListPeriods, VisitPeriod, ComputeAuto, Compute, MarkPeriod, MarkFails,
       EndBatch, PressCalculate, ValidateRead
  <2> QED BY <2>2, <2>3, <2>4, <2>5
<1>2. IInv /\ [Next]_vars => [\A n \in Existing : Stands(n)]_vars
  BY <1>1
<1> QED BY <1>2, Invariance, PTL DEF Spec, HistoryStands

-----------------------------------------------------------------------------
(* The standby.                                                              *)

AutoRuns(p) == {n \in Existing : run[n].trigger = "AUTO_DAILY" /\ run[n].per = p}

\* The periods whose mark does not cover their last automatic run: the next run may repeat
\* it. The mark of the period at hand is still to be written.
Debts ==
  {p \in Periods : /\ ~ (At(Worker, "marking") /\ req[Worker].per = p)
                   /\ \E n \in AutoRuns(p) : mark[p] = Never \/ run[n].input > mark[p]}

\* Nothing is read before it arrives.
ArrivedInv == /\ \A n \in Existing : run[n].input <= arrived
              /\ \A a \in Actors : req[a].input <= arrived

\* The list carries the marks there are, and a period is visited once, for data that its
\* mark does not cover.
StandbyInv ==
  /\ \A q \in todo : since[q] = mark[q]
  /\ req[Worker].at \in {"due", "computed", "locked", "numbered", "marking"} =>
       req[Worker].per \notin todo
  /\ At(Worker, "due") => mark[req[Worker].per] = Never \/ arrived > mark[req[Worker].per]
  /\ req[Worker].at \in {"computed", "locked", "numbered"} =>
       mark[req[Worker].per] = Never \/ req[Worker].input > mark[req[Worker].per]

\* Every repetition, made or to be made, has a failure of its own.
DebtInv == Cardinality(Repeats) + Cardinality(Debts) <= fails

SInv == ArrivedInv /\ StandbyInv /\ DebtInv

LEMMA RepeatsFinite ==
  ASSUME TypeOK
  PROVE  /\ IsFiniteSet(Repeats) /\ Cardinality(Repeats) \in Nat
         /\ IsFiniteSet(Debts) /\ Cardinality(Debts) \in Nat
<1>1. IsFiniteSet(RunNs)
  BY FS_Interval, RunsAssumption DEF RunNs
<1>2. IsFiniteSet(Repeats) /\ IsFiniteSet(Existing)
  BY <1>1, FS_Subset DEF Repeats, Existing
<1> DEFINE T == {run[n].per : n \in Existing}
           f == [n \in Existing |-> run[n].per]
<1>3. f \in Surjection(Existing, T)
  BY DEF Surjection
<1>4. IsFiniteSet(T)
  BY <1>2, <1>3, FS_Surjection
<1>5. Debts \in SUBSET T
  BY DEF Debts, AutoRuns
<1>6. IsFiniteSet(Debts)
  BY <1>4, <1>5, FS_Subset
<1> QED BY <1>2, <1>6, FS_CardinalityType

\* The runs keep what the standby looks at.
SameRuns == /\ Existing' = Existing
            /\ \A n \in Existing : /\ run'[n].trigger = run[n].trigger
                                   /\ run'[n].per = run[n].per
                                   /\ run'[n].input = run[n].input

LEMMA SameRepeats ==
  ASSUME SameRuns
  PROVE  Repeats' = Repeats /\ \A p \in Periods : AutoRuns(p)' = AutoRuns(p)
BY DEF SameRuns, Repeats, AutoRuns

\* A step that makes no debt keeps the account.
LEMMA NoNewDebt ==
  ASSUME TypeOK, TypeOK', DebtInv, UNCHANGED fails, Repeats' = Repeats,
         Debts' \subseteq Debts
  PROVE  DebtInv'
<1>1. Cardinality(Debts') <= Cardinality(Debts)
  BY RepeatsFinite, FS_Subset
<1>2. Cardinality(Debts') \in Nat
  <2>1. IsFiniteSet(Debts')
    BY RepeatsFinite, FS_Subset
  <2> QED BY <2>1, FS_CardinalityType
<1> QED BY <1>1, <1>2, RepeatsFinite DEF DebtInv, TypeOK

\* The steps that write neither runs nor marks.
LEMMA QuietStandby ==
  ASSUME IInv, IInv', SInv, SameRuns, UNCHANGED <<mark, fails>>, arrived' >= arrived,
         \A a \in Actors : req'[a].input <= arrived', StandbyInv',
         At(Worker, "marking") => req'[Worker] = req[Worker]
  PROVE  SInv'
<1>1. \A n \in Existing : run[n].input \in Nat /\ run[n].input <= arrived
  BY DEF SInv, ArrivedInv, IInv, TypeOK, Existing, Run
<1>2. ArrivedInv'
  BY <1>1 DEF ArrivedInv, SameRuns, IInv, TypeOK
<1>3. Debts' \subseteq Debts
  <2> SUFFICES ASSUME NEW p \in Debts' PROVE p \in Debts
    OBVIOUS
  <2>1. /\ p \in Periods /\ ~ (At(Worker, "marking")' /\ req'[Worker].per = p)
        /\ \E n \in AutoRuns(p)' : mark'[p] = Never \/ run'[n].input > mark'[p]
    BY DEF Debts
  <2>2. AutoRuns(p)' = AutoRuns(p) /\ AutoRuns(p) \subseteq Existing
    BY <2>1, SameRepeats DEF AutoRuns
  <2>3. \E n \in AutoRuns(p) : mark[p] = Never \/ run[n].input > mark[p]
    BY <2>1, <2>2 DEF SameRuns
  <2> QED BY <2>1, <2>3 DEF Debts, At
<1>4. DebtInv'
  BY <1>3, SameRepeats, NoNewDebt DEF IInv, SInv
<1> QED BY <1>2, <1>4 DEF SInv

LEMMA SameRunsFrame == ASSUME UNCHANGED run PROVE SameRuns
BY DEF SameRuns, Existing

\* The worker and its list as they were.
LEMMA WorkerAside ==
  ASSUME IInv, IInv', SInv, UNCHANGED <<mark, todo, since>>, arrived' >= arrived,
         req'[Worker] = req[Worker]
  PROVE  StandbyInv'
<1>1. req[Worker].per \in Periods /\ Worker \in Actors
  BY RestFacts DEF IInv, TypeOK
<1>2. mark[req[Worker].per] = Never \/ mark[req[Worker].per] \in Nat
  BY <1>1 DEF IInv, TypeOK, Marks
<1>3. arrived \in Nat /\ arrived' \in Nat
  BY RunsAssumption DEF IInv, TypeOK
<1> QED BY <1>2, <1>3 DEF SInv, StandbyInv, At

LEMMA ArriveStandby ==
  ASSUME IInv, IInv', SInv, Arrive
  PROVE  SInv'
<1>1. /\ UNCHANGED <<run, mark, todo, since, req, fails>> /\ arrived' >= arrived
      /\ \A a \in Actors : req'[a].input <= arrived'
  BY DEF Arrive, SInv, ArrivedInv, IInv, TypeOK
<1> QED BY <1>1, SameRunsFrame, WorkerAside, QuietStandby

\* The steps of a person, but for the saving of a run.
LEMMA PersonStandby ==
  ASSUME IInv, IInv', SInv, NEW u \in Users,
         \/ PressCalculate(u) \/ LockRow(u) \/ ReadLastRun(u) \/ Fail(u)
         \/ \E n \in RunNs : ValidateRead(u, n)
  PROVE  SInv'
<1>1. /\ UNCHANGED <<arrived, run, mark, todo, since, fails>>
      /\ \A a \in Actors \ {u} : req'[a] = req[a]
      /\ req'[u].input \in {0, arrived, req[u].input}
  BY RestFacts DEF PressCalculate, Compute, LockRow, ReadLastRun, Fail, ValidateRead,
     Move, Forget, Idle, IInv, TypeOK
<1>2. req'[Worker] = req[Worker] /\ \A a \in Actors : req'[a].input <= arrived'
  BY <1>1, RestFacts DEF SInv, ArrivedInv, IInv, TypeOK
<1>3. arrived' >= arrived
  BY <1>1 DEF IInv, TypeOK
<1> QED BY <1>1, <1>2, <1>3, SameRunsFrame, WorkerAside, QuietStandby

LEMMA ValidateStandby ==
  ASSUME IInv, IInv', SInv, NEW u \in Users, ValidateCommit(u)
  PROVE  SInv'
<1>1. /\ req[u].n \in Existing /\ run' = [run EXCEPT ![req[u].n].validated = TRUE,
                                                     ![req[u].n].by = u]
      /\ UNCHANGED <<arrived, mark, todo, since, fails>>
  BY RestFacts DEF ValidateCommit, IInv, RolesInv
<1>2. /\ \A a \in Actors \ {u} : req'[a] = req[a]
      /\ req'[u].input = 0
  BY RestFacts DEF ValidateCommit, Forget, Idle, IInv, TypeOK
<1>3. req'[Worker] = req[Worker] /\ \A a \in Actors : req'[a].input <= arrived'
  BY <1>1, <1>2, RestFacts DEF SInv, ArrivedInv, IInv, TypeOK
<1>4. SameRuns
  <2>1. \A n \in RunNs : n # req[u].n => run'[n] = run[n]
    BY <1>1 DEF IInv, TypeOK
  <2>2. /\ run[req[u].n] \in Run /\ req[u].n \in RunNs
    BY <1>1 DEF IInv, TypeOK, Existing
  <2>3. run'[req[u].n] = [run[req[u].n] EXCEPT !.validated = TRUE, !.by = u]
    BY <1>1, <2>2 DEF IInv, TypeOK
  <2>4. /\ run'[req[u].n] \in Run
        /\ run'[req[u].n].trigger = run[req[u].n].trigger
        /\ run'[req[u].n].per = run[req[u].n].per
        /\ run'[req[u].n].input = run[req[u].n].input
    BY <2>2, <2>3, RestFacts DEF Run
  <2>5. Existing' = Existing
    BY <2>1, <2>2, <2>4, RunsAssumption DEF Existing
  <2> QED BY <2>1, <2>4, <2>5 DEF SameRuns, Existing
<1>5. arrived' >= arrived
  BY <1>1 DEF IInv, TypeOK
<1> QED BY <1>1, <1>3, <1>4, <1>5, WorkerAside, QuietStandby

\* The steps of the daily run that write neither runs nor marks.
LEMMA WorkerStandby ==
  ASSUME IInv, IInv', SInv,
         \/ ListPeriods \/ EndBatch \/ ComputeAuto \/ \E p \in Periods : VisitPeriod(p)
         \/ LockRow(Worker) \/ ReadLastRun(Worker) \/ Fail(Worker)
  PROVE  SInv'
<1> DEFINE w == req[Worker]
<1>1. /\ w.per \in Periods /\ Worker \in Actors /\ ~ At(Worker, "marking")
      /\ \A q \in Periods : mark[q] = Never \/ mark[q] \in Nat
      /\ arrived \in Nat
  BY RestFacts DEF IInv, TypeOK, Marks, At, ListPeriods, EndBatch, ComputeAuto, VisitPeriod,
     LockRow, ReadLastRun, Fail
<1>2. /\ UNCHANGED <<arrived, run, mark, fails>>
      /\ \A a \in Actors \ {Worker} : req'[a] = req[a]
      /\ req'[Worker].input \in {0, arrived, w.input}
  BY RestFacts DEF ListPeriods, EndBatch, ComputeAuto, VisitPeriod, Compute, LockRow,
     ReadLastRun, Fail, Move, Forget, Idle, IInv, TypeOK
<1>3. \A a \in Actors : req'[a].input <= arrived'
  BY <1>1, <1>2 DEF SInv, ArrivedInv, IInv, TypeOK
<1>4. StandbyInv'
  <2>1. CASE ListPeriods
    <3>1. /\ since' = mark /\ mark' = mark /\ req'[Worker].at = "batch"
      BY <1>1, <2>1 DEF ListPeriods, Move, IInv, TypeOK
    <3> QED BY <3>1 DEF StandbyInv, At
  <2>2. CASE EndBatch
    <3>1. todo' = {} /\ req'[Worker].at = "idle"
      BY <1>1, <2>2 DEF EndBatch, Forget, Idle, IInv, TypeOK
    <3> QED BY <3>1 DEF StandbyInv, At
  <2>3. CASE ComputeAuto
    <3>1. /\ At(Worker, "due") /\ UNCHANGED <<todo, since, mark>>
          /\ req'[Worker].at = "computed" /\ req'[Worker].per = w.per
          /\ req'[Worker].input = arrived
      BY <1>1, <2>3 DEF ComputeAuto, Compute, IInv, TypeOK
    <3> QED BY <3>1 DEF SInv, StandbyInv, At
  <2>4. ASSUME NEW p \in Periods, VisitPeriod(p) PROVE StandbyInv'
    <3>1. /\ At(Worker, "batch") /\ p \in todo /\ todo' = todo \ {p}
          /\ UNCHANGED <<since, mark, arrived>> /\ since[p] = mark[p]
      BY <2>4 DEF VisitPeriod, SInv, StandbyInv
    <3>2. CASE HasNewData(p)
      <4>1. req'[Worker].at = "due" /\ req'[Worker].per = p
        BY <1>1, <2>4, <3>2 DEF VisitPeriod, IInv, TypeOK
      <4> QED BY <3>1, <3>2, <4>1 DEF SInv, StandbyInv, At, HasNewData
    <3>3. CASE ~ HasNewData(p)
      <4>1. req'[Worker] = req[Worker]
        BY <2>4, <3>3 DEF VisitPeriod
      <4> QED BY <3>1, <4>1 DEF SInv, StandbyInv, At
    <3> QED BY <3>2, <3>3
  <2>5. CASE LockRow(Worker) \/ ReadLastRun(Worker)
    <3>1. /\ w.at \in {"computed", "locked"} /\ UNCHANGED <<todo, since, mark>>
          /\ req'[Worker].at \in {"locked", "numbered"}
          /\ req'[Worker].per = w.per /\ req'[Worker].input = w.input
      BY <1>1, <2>5 DEF LockRow, ReadLastRun, Move, At, IInv, TypeOK
    <3> QED BY <3>1 DEF SInv, StandbyInv, At
  <2>6. CASE Fail(Worker)
    <3>1. UNCHANGED <<todo, since, mark>> /\ req'[Worker].at = "batch"
      BY <1>1, <2>6 DEF Fail, Forget, Rest, IInv, TypeOK
    <3> QED BY <3>1 DEF SInv, StandbyInv, At
  <2> QED BY <2>1, <2>2, <2>3, <2>4, <2>5, <2>6
<1> QED BY <1>1, <1>2, <1>3, <1>4, SameRunsFrame, QuietStandby DEF IInv, TypeOK

\* The mark covers every run of its period.
LEMMA MarkStandby ==
  ASSUME IInv, IInv', SInv, MarkPeriod
  PROVE  SInv'
<1> DEFINE p == req[Worker].per
<1>1. /\ p \in Periods /\ Worker \in Actors /\ At(Worker, "marking")
      /\ p \notin todo /\ arrived \in Nat /\ arrived # Never
  BY RestFacts, RunsAssumption DEF IInv, TypeOK, MarkPeriod, SInv, StandbyInv, At
<1>2. /\ mark' = [mark EXCEPT ![p] = arrived]
      /\ UNCHANGED <<arrived, run, todo, since, fails>>
      /\ req'[Worker].at = "batch" /\ req'[Worker].input = 0
      /\ \A a \in Actors \ {Worker} : req'[a] = req[a]
  BY <1>1 DEF MarkPeriod, Forget, Idle, IInv, TypeOK
<1>3. /\ mark'[p] = arrived /\ \A q \in Periods : q # p => mark'[q] = mark[q]
      /\ todo \subseteq Periods
  BY <1>1, <1>2 DEF IInv, TypeOK
<1>4. ArrivedInv'
  BY <1>1, <1>2 DEF SInv, ArrivedInv, Existing
<1>5. StandbyInv'
  BY <1>1, <1>2, <1>3 DEF SInv, StandbyInv, At
<1> HIDE DEF p
<1>6. Repeats' = Repeats /\ \A q \in Periods : AutoRuns(q)' = AutoRuns(q)
  BY <1>2, SameRunsFrame, SameRepeats
<1>7. Debts' \subseteq Debts
  <2> SUFFICES ASSUME NEW q \in Debts' PROVE q \in Debts
    OBVIOUS
  <2>1. /\ q \in Periods
        /\ \E n \in AutoRuns(q) : mark'[q] = Never \/ run[n].input > mark'[q]
    BY <1>2, <1>6 DEF Debts
  <2>2. q # p
    <3> SUFFICES ASSUME q = p PROVE FALSE
      OBVIOUS
    <3>1. PICK n \in AutoRuns(q) : mark'[q] = Never \/ run[n].input > mark'[q]
      BY <2>1
    <3>2. run[n].input \in Nat /\ run[n].input <= arrived
      BY <3>1 DEF AutoRuns, SInv, ArrivedInv, Existing, IInv, TypeOK, Run
    <3> QED BY <1>1, <1>3, <3>1, <3>2
  <2> QED BY <1>3, <2>1, <2>2 DEF Debts, p
<1>8. DebtInv'
  BY <1>2, <1>6, <1>7, NoNewDebt DEF IInv, SInv
<1> QED BY <1>4, <1>5, <1>8 DEF SInv

\* The mark that is not written is one debt and one failure.
LEMMA MarkFailsStandby ==
  ASSUME IInv, IInv', SInv, MarkFails
  PROVE  SInv'
<1> DEFINE p == req[Worker].per
<1>1. Worker \in Actors /\ At(Worker, "marking")
  BY RestFacts DEF MarkFails
<1>2. /\ UNCHANGED <<arrived, mark, run, todo, since>> /\ fails' = fails + 1
      /\ req'[Worker].at = "batch" /\ req'[Worker].input = 0
      /\ \A a \in Actors \ {Worker} : req'[a] = req[a]
  BY <1>1 DEF MarkFails, Forget, Idle, IInv, TypeOK
<1>3. ArrivedInv'
  BY <1>1, <1>2 DEF SInv, ArrivedInv, Existing, IInv, TypeOK
<1>4. StandbyInv'
  BY <1>1, <1>2 DEF SInv, StandbyInv, At
<1>5. Repeats' = Repeats /\ \A q \in Periods : AutoRuns(q)' = AutoRuns(q)
  BY <1>2, SameRunsFrame, SameRepeats
<1>6. Debts' \subseteq Debts \cup {p}
  BY <1>2, <1>5 DEF Debts
<1> HIDE DEF p
<1>7. Cardinality(Debts') <= Cardinality(Debts) + 1 /\ Cardinality(Debts') \in Nat
  <2>1. /\ IsFiniteSet(Debts \cup {p})
        /\ Cardinality(Debts \cup {p}) =
             IF p \in Debts THEN Cardinality(Debts) ELSE Cardinality(Debts) + 1
    BY RepeatsFinite, FS_AddElement DEF IInv
  <2>2. IsFiniteSet(Debts') /\ Cardinality(Debts') <= Cardinality(Debts \cup {p})
    BY <1>6, <2>1, FS_Subset
  <2>3. Cardinality(Debts') \in Nat
    BY <2>2, FS_CardinalityType
  <2> QED BY <2>1, <2>2, <2>3, RepeatsFinite DEF IInv
<1>8. DebtInv'
  BY <1>2, <1>5, <1>7, RepeatsFinite DEF SInv, DebtInv, IInv, TypeOK
<1> QED BY <1>3, <1>4, <1>8 DEF SInv

\* What the saving of a run adds to the history.
LEMMA SavedRun ==
  ASSUME IInv, NEW a \in Actors, Save(a)
  PROVE  /\ At(a, "numbered") /\ req[a].n \in RunNs
         /\ Existing' = Existing \cup {req[a].n}
         /\ \A m \in Existing : run'[m] = run[m] /\ m < req[a].n
         /\ run'[req[a].n] = NewRun(a)
         /\ UNCHANGED <<arrived, mark, todo, since, fails>>
         /\ \A b \in Actors \ {a} : req'[b] = req[b]
<1> DEFINE n == req[a].n
<1>1. /\ At(a, "numbered") /\ run[n] = NoRun /\ run' = [run EXCEPT ![n] = NewRun(a)]
      /\ n \in RunNs /\ IsLastRun(n - 1)
      /\ UNCHANGED <<arrived, mark, todo, since, fails>>
  BY DEF Save, IInv, NumberInv
<1>2. \A b \in Actors \ {a} : req'[b] = req[b]
  BY DEF Save, Move, Forget, IInv, TypeOK
<1>3. NewRun(a) # NoRun /\ \A m \in Existing : m < n
  BY <1>1, NewRunFacts, RunsAssumption DEF IInv, IsLastRun, Existing, RunNs
<1> HIDE DEF n
<1>4. run'[n] = NewRun(a) /\ \A m \in RunNs : m # n => run'[m] = run[m]
  BY <1>1 DEF IInv, TypeOK
<1>5. Existing' = Existing \cup {n} /\ \A m \in Existing : run'[m] = run[m] /\ m < n
  BY <1>1, <1>3, <1>4 DEF Existing
<1> QED BY <1>1, <1>2, <1>4, <1>5 DEF n

\* A run of the button is no automatic one.
LEMMA ButtonStandby ==
  ASSUME IInv, IInv', SInv, NEW u \in Users, Save(u)
  PROVE  SInv'
<1> DEFINE n == req[u].n
<1>1. /\ Existing' = Existing \cup {n} /\ n \in RunNs
      /\ \A m \in Existing : run'[m] = run[m] /\ m < n
      /\ run'[n] = NewRun(u)
      /\ UNCHANGED <<arrived, mark, todo, since, fails>>
      /\ \A b \in Actors \ {u} : req'[b] = req[b]
  BY RestFacts, SavedRun
<1>2. /\ NewRun(u).trigger = "MANUAL" /\ NewRun(u).input = req[u].input
      /\ req'[Worker] = req[Worker] /\ u \in Actors
      /\ req'[u].input \in {0, req[u].input}
  BY <1>1, RestFacts DEF NewRun, Save, Move, Forget, Idle, IInv, TypeOK
<1> HIDE DEF n
<1>3. ArrivedInv'
  BY <1>1, <1>2 DEF SInv, ArrivedInv, IInv, TypeOK
<1>4. StandbyInv'
  BY <1>1, <1>2, WorkerAside DEF IInv, TypeOK
<1>5. Repeats' = Repeats /\ \A p \in Periods : AutoRuns(p)' = AutoRuns(p)
  <2>1. /\ \A p \in Periods : AutoRuns(p)' = AutoRuns(p)
    BY <1>1, <1>2 DEF AutoRuns
  <2>2. \A m \in Existing : m \in Repeats' <=> m \in Repeats
    BY <1>1, <1>2 DEF Repeats
  <2>3. n \notin Repeats' /\ n \notin Existing
    BY <1>1, <1>2 DEF Repeats, RunNs
  <2>4. Repeats \subseteq Existing /\ Repeats' \subseteq Existing'
    BY DEF Repeats
  <2> QED BY <1>1, <2>1, <2>2, <2>3, <2>4
<1>6. Debts' \subseteq Debts
  BY <1>1, <1>2, <1>5 DEF Debts, At, AutoRuns
<1>7. DebtInv'
  BY <1>1, <1>5, <1>6, NoNewDebt DEF IInv, SInv
<1> QED BY <1>3, <1>4, <1>7 DEF SInv

\* An automatic run repeats an earlier one only where the mark did not cover it, and it
\* settles that debt, or leaves one that its own mark is about to settle.
LEMMA DailyStandby ==
  ASSUME IInv, IInv', SInv, Save(Worker)
  PROVE  SInv'
<1> DEFINE n == req[Worker].n
           p == req[Worker].per
           input == req[Worker].input
<1>1. /\ Existing' = Existing \cup {n} /\ n \in RunNs /\ At(Worker, "numbered")
      /\ \A m \in Existing : run'[m] = run[m] /\ m < n
      /\ run'[n] = NewRun(Worker)
      /\ UNCHANGED <<arrived, mark, todo, since, fails>>
      /\ \A b \in Actors \ {Worker} : req'[b] = req[b]
  BY RestFacts, SavedRun
<1>2. /\ NewRun(Worker).trigger = "AUTO_DAILY" /\ NewRun(Worker).input = input
      /\ NewRun(Worker).per = p
      /\ Worker \in Actors /\ p \in Periods /\ input \in Nat
      /\ req'[Worker].at = "marking" /\ req'[Worker].input = input
      /\ req'[Worker].per = p
  BY <1>1, RestFacts DEF NewRun, Save, Move, IInv, TypeOK
<1> HIDE DEF n, p, input
<1>3. ArrivedInv'
  <2>1. input <= arrived
    BY <1>2 DEF input, SInv, ArrivedInv
  <2> QED BY <1>1, <1>2, <2>1 DEF SInv, ArrivedInv
<1>4. StandbyInv'
  BY <1>1, <1>2 DEF SInv, StandbyInv, At, p
<1>5. Repeats' \subseteq Repeats \cup {n} /\ n \notin Existing
  <2>1. n \notin Existing /\ n \in Nat /\ Existing \subseteq Nat
    BY <1>1 DEF Existing, RunNs
  <2>2. ASSUME NEW m \in Existing, m \in Repeats' PROVE m \in Repeats
    <3>1. PICK k \in Existing' : /\ k < m /\ run'[k].trigger = "AUTO_DAILY"
                                 /\ run'[k].per = run'[m].per
                                 /\ run'[k].input = run'[m].input
      BY <2>2 DEF Repeats
    <3>2. k \in Existing /\ run'[m].trigger = "AUTO_DAILY"
      BY <1>1, <2>1, <2>2, <3>1 DEF Repeats
    <3> QED BY <1>1, <3>1, <3>2 DEF Repeats
  <2>3. Repeats' \subseteq Existing \cup {n}
    BY <1>1 DEF Repeats
  <2> QED BY <2>1, <2>2, <2>3
<1>6. Debts' \subseteq Debts \ {p}
  <2> SUFFICES ASSUME NEW q \in Debts' PROVE q \in Debts /\ q # p
    OBVIOUS
  <2>1. /\ q \in Periods /\ q # p
        /\ \E m \in AutoRuns(q)' : mark[q] = Never \/ run'[m].input > mark[q]
    BY <1>1, <1>2 DEF Debts, At
  <2>2. AutoRuns(q)' = AutoRuns(q)
    BY <1>1, <1>2, <2>1 DEF AutoRuns
  <2>3. \E m \in AutoRuns(q) : mark[q] = Never \/ run[m].input > mark[q]
    BY <1>1, <2>1, <2>2 DEF AutoRuns
  <2> QED BY <1>1, <2>1, <2>3 DEF Debts, At
<1>7. n \in Repeats' => p \in Debts
  <2> SUFFICES ASSUME n \in Repeats' PROVE p \in Debts
    OBVIOUS
  <2>1. PICK m \in Existing : /\ run[m].trigger = "AUTO_DAILY" /\ run[m].per = p
                              /\ run[m].input = input
    BY <1>1, <1>2 DEF Repeats, RunNs
  <2>2. mark[p] = Never \/ run[m].input > mark[p]
    BY <1>1, <2>1 DEF SInv, StandbyInv, At, p, input
  <2>3. m \in AutoRuns(p)
    BY <2>1 DEF AutoRuns
  <2> QED BY <1>1, <1>2, <2>2, <2>3 DEF Debts, At
<1>8. /\ Cardinality(Debts') \in Nat
      /\ Cardinality(Debts') <= Cardinality(Debts) - (IF p \in Debts THEN 1 ELSE 0)
  <2>1. /\ IsFiniteSet(Debts \ {p})
        /\ Cardinality(Debts \ {p}) = Cardinality(Debts) - (IF p \in Debts THEN 1 ELSE 0)
    BY RepeatsFinite, FS_RemoveElement DEF IInv
  <2>2. IsFiniteSet(Debts') /\ Cardinality(Debts') <= Cardinality(Debts \ {p})
    BY <1>6, <2>1, FS_Subset
  <2> QED BY <2>1, <2>2, FS_CardinalityType
<1>9. /\ Cardinality(Repeats') \in Nat
      /\ Cardinality(Repeats') <= Cardinality(Repeats) + (IF n \in Repeats' THEN 1 ELSE 0)
  <2>1. CASE n \in Repeats'
    <3>1. /\ IsFiniteSet(Repeats \cup {n})
          /\ Cardinality(Repeats \cup {n}) =
               IF n \in Repeats THEN Cardinality(Repeats) ELSE Cardinality(Repeats) + 1
      BY RepeatsFinite, FS_AddElement DEF IInv
    <3>2. IsFiniteSet(Repeats') /\ Cardinality(Repeats') <= Cardinality(Repeats \cup {n})
      BY <1>5, <3>1, FS_Subset
    <3>3. Cardinality(Repeats') \in Nat /\ Cardinality(Repeats \cup {n}) \in Nat
      BY <3>1, <3>2, FS_CardinalityType
    <3> QED BY <2>1, <3>1, <3>2, <3>3, RepeatsFinite DEF IInv
  <2>2. CASE n \notin Repeats'
    <3>1. Repeats' \in SUBSET Repeats
      BY <1>5, <2>2
    <3>2. IsFiniteSet(Repeats') /\ Cardinality(Repeats') <= Cardinality(Repeats)
      BY <3>1, RepeatsFinite, FS_Subset DEF IInv
    <3>3. Cardinality(Repeats') \in Nat
      BY <3>2, FS_CardinalityType
    <3> QED BY <2>2, <3>2, <3>3, RepeatsFinite DEF IInv
  <2> QED BY <2>1, <2>2
<1>10. DebtInv'
  BY <1>1, <1>7, <1>8, <1>9, RepeatsFinite DEF SInv, DebtInv, IInv, TypeOK
<1> QED BY <1>3, <1>4, <1>10 DEF SInv

LEMMA InitStandby == ASSUME Init, IInv PROVE SInv
<1>1. Existing = {} /\ \A a \in Actors : req[a].input = 0 /\ req[a].at = "idle"
  BY DEF Init, Existing, Idle
<1>2. Repeats = {} /\ Debts = {}
  BY <1>1 DEF Repeats, Debts, AutoRuns
<1>3. DebtInv
  BY <1>2, FS_EmptySet DEF DebtInv, Init
<1>4. ArrivedInv /\ StandbyInv
  BY <1>1, RestFacts DEF Init, ArrivedInv, StandbyInv, At
<1> QED BY <1>3, <1>4 DEF SInv

LEMMA NextStandby == IInv /\ IInv' /\ SInv /\ [Next]_vars => SInv'
<1> SUFFICES ASSUME IInv, IInv', SInv, [Next]_vars PROVE SInv'
  OBVIOUS
<1>1. CASE UNCHANGED vars
  <2>1. UNCHANGED <<arrived, run, mark, lock, req, todo, since, fails>>
    BY <1>1 DEF vars
  <2>2. arrived' >= arrived /\ \A a \in Actors : req'[a].input <= arrived'
    BY <2>1 DEF IInv, TypeOK, SInv, ArrivedInv
  <2> QED BY <2>1, <2>2, SameRunsFrame, WorkerAside, QuietStandby
<1>2. CASE Arrive
  BY <1>2, ArriveStandby
<1>3. ASSUME NEW a \in Actors, Saving(a) PROVE SInv'
  <2>1. CASE a = Worker
    BY <1>3, <2>1, WorkerStandby, DailyStandby DEF Saving
  <2>2. CASE a # Worker
    BY <1>3, <2>2, PersonStandby, ButtonStandby DEF Saving, Actors
  <2> QED BY <2>1, <2>2
<1>4. CASE DailyRun
  BY <1>4, WorkerStandby, MarkStandby, MarkFailsStandby DEF DailyRun
<1>5. ASSUME NEW u \in Users, PressCalculate(u) PROVE SInv'
  BY <1>5, PersonStandby
<1>6. ASSUME NEW u \in Users, ValidateCommit(u) PROVE SInv'
  BY <1>6, ValidateStandby
<1>7. ASSUME NEW u \in Users, NEW n \in RunNs, ValidateRead(u, n) PROVE SInv'
  BY <1>7, PersonStandby
<1> QED BY <1>1, <1>2, <1>3, <1>4, <1>5, <1>6, <1>7 DEF Next

\* daily-run.worker.ts: an automatic run that repeats the inputs of an earlier one of its
\* period is the trace of a mark that could not be written, one repetition for each failure.
THEOREM StandbyCorrect == Spec => []RepeatsOnlyAfterFailure
<1>1. IInv /\ SInv => RepeatsOnlyAfterFailure
  BY RepeatsFinite DEF IInv, TypeOK, SInv, DebtInv, RepeatsOnlyAfterFailure
<1>2. IInv /\ IInv' /\ SInv /\ [Next]_vars => SInv'
  BY NextStandby
<1>3. Init /\ IInv => SInv
  BY InitStandby
<1> QED BY <1>1, <1>2, <1>3, Invariance, PTL DEF Spec

-----------------------------------------------------------------------------
(* The alerts of a margin that fell.                                         *)

\* The consumers at one step of the alert of a structure.
Working(s, place) == {c \in Consumers : job[c].s = s /\ job[c].at = place}

\* Every job under way may still add its alert, its e-mail or its mark.
Told(s) ==
  /\ alerts[s] \in Nat /\ mails[s] \in Nat /\ marked[s] \in Nat
  /\ alerts[s] + Cardinality(Working(s, "create")) <= Cardinality(Consumers)
  /\ mails[s] + Cardinality(Working(s, "mail")) <= alerts[s]
  /\ marked[s] + Cardinality(Working(s, "mark")) <= mails[s]

Stages == {"free", "visit", "look", "create", "mail", "mark"}
Jobs == [at : Stages, todo : SUBSET Structures, s : Structures \cup {NoStructure},
         stalls : 0 .. 1]

ToldInv ==
  /\ job \in [Consumers -> Jobs]
  /\ \A v \in {alerts, mails, marked} : v \in [Structures -> Nat]
  /\ \A c \in Consumers : job[c].at \in {"look", "create", "mail", "mark"} =>
       job[c].s \in Structures
  /\ \A s \in Structures : Told(s)

LEMMA WorkingFinite ==
  ASSUME NEW s, NEW place
  PROVE  /\ IsFiniteSet(Working(s, place)) /\ Cardinality(Working(s, place)) \in Nat
         /\ Cardinality(Working(s, place)) <= Cardinality(Consumers)
         /\ Cardinality(Consumers) \in Nat
<1>1. Working(s, place) \in SUBSET Consumers
  BY DEF Working
<1> QED BY <1>1, IndicatorsAssumption, FS_Subset, FS_CardinalityType

\* One consumer moves: the number of those at a step changes with it.
LEMMA OneMoves ==
  ASSUME NEW s, NEW place, NEW c \in Consumers, \A d \in Consumers \ {c} : job'[d] = job[d]
  PROVE  /\ (c \in Working(s, place)' <=> c \in Working(s, place)) =>
              Working(s, place)' = Working(s, place)
         /\ c \in Working(s, place) /\ c \notin Working(s, place)' =>
              Cardinality(Working(s, place)') = Cardinality(Working(s, place)) - 1
         /\ c \notin Working(s, place) /\ c \in Working(s, place)' =>
              Cardinality(Working(s, place)') = Cardinality(Working(s, place)) + 1
<1>1. \A d \in Consumers \ {c} : d \in Working(s, place)' <=> d \in Working(s, place)
  BY DEF Working
<1>2. Working(s, place) \subseteq Consumers /\ Working(s, place)' \subseteq Consumers
  BY DEF Working
<1>3. (c \in Working(s, place)' <=> c \in Working(s, place)) => Working(s, place)' = Working(s, place)
  BY <1>1, <1>2
<1>4. ASSUME c \in Working(s, place), c \notin Working(s, place)'
      PROVE  Cardinality(Working(s, place)') = Cardinality(Working(s, place)) - 1
  <2>1. Working(s, place)' = Working(s, place) \ {c}
    BY <1>1, <1>2, <1>4
  <2> QED BY <1>4, <2>1, WorkingFinite, FS_RemoveElement
<1>5. ASSUME c \notin Working(s, place), c \in Working(s, place)'
      PROVE  Cardinality(Working(s, place)') = Cardinality(Working(s, place)) + 1
  <2>1. Working(s, place)' = Working(s, place) \cup {c}
    BY <1>1, <1>2, <1>5
  <2> QED BY <1>5, <2>1, WorkingFinite, FS_AddElement
<1> QED BY <1>3, <1>4, <1>5

\* What a consumer does to its own job.
LEMMA JobStep ==
  ASSUME ToldInv, NEW c \in Consumers, NEW l \in Jobs, job' = [job EXCEPT ![c] = l],
         l.at \in {"look", "create", "mail", "mark"} => l.s \in Structures
  PROVE  /\ job' \in [Consumers -> Jobs] /\ job'[c] = l
         /\ \A d \in Consumers \ {c} : job'[d] = job[d]
         /\ \A d \in Consumers : job'[d].at \in {"look", "create", "mail", "mark"} =>
              job'[d].s \in Structures
BY DEF ToldInv

\* A job that writes nothing and does not come to write.
LEMMA QuietJob ==
  ASSUME ToldInv, UNCHANGED alertVars, NEW c \in Consumers, NEW l \in Jobs,
         job' = [job EXCEPT ![c] = l], l.at = "look" => l.s \in Structures,
         l.at \notin {"create", "mail", "mark"}
  PROVE  ToldInv'
<1>1. /\ job' \in [Consumers -> Jobs] /\ job'[c] = l
      /\ \A d \in Consumers \ {c} : job'[d] = job[d]
      /\ \A d \in Consumers : job'[d].at \in {"look", "create", "mail", "mark"} =>
           job'[d].s \in Structures
  BY JobStep
<1>2. ASSUME NEW s \in Structures PROVE Told(s)'
  <2>1. ASSUME NEW place \in {"create", "mail", "mark"}
        PROVE  /\ Cardinality(Working(s, place)') \in Nat
               /\ Cardinality(Working(s, place)') <= Cardinality(Working(s, place))
    <3>1. Working(s, place)' \in SUBSET Working(s, place)
      BY <1>1 DEF Working
    <3> QED BY <3>1, WorkingFinite, FS_Subset, FS_CardinalityType
  <2>2. /\ Told(s) /\ alerts' = alerts /\ mails' = mails /\ marked' = marked
        /\ \A place \in {"create", "mail", "mark"} : Cardinality(Working(s, place)) \in Nat
        /\ Cardinality(Consumers) \in Nat
    BY WorkingFinite DEF ToldInv, alertVars
  <2> QED BY <2>1, <2>2 DEF Told
<1> QED BY <1>1, <1>2 DEF ToldInv, alertVars

LEMMA JobFacts ==
  ASSUME ToldInv, NEW c \in Consumers
  PROVE  /\ job[c] \in Jobs /\ NoJob \in Jobs /\ NoJob.at = "free"
         /\ \A place \in Stages : /\ [job[c] EXCEPT !.at = place] \in Jobs
                                  /\ [job[c] EXCEPT !.at = place].at = place
                                  /\ [job[c] EXCEPT !.at = place].s = job[c].s
<1>1. job[c] \in Jobs /\ NoJob \in Jobs /\ NoJob.at = "free"
  BY DEF ToldInv, NoJob, Jobs, Stages
<1> QED BY <1>1 DEF Jobs

LEMMA QuietWork ==
  ASSUME ToldInv, NEW c \in Consumers,
         \/ TakeJob(c) \/ Recalculate(c) \/ CannotCalculate(c)
         \/ Caught(c) \/ EndJob(c) \/ Dies(c)
  PROVE  ToldInv'
<1>1. CASE TakeJob(c)
  <2>1. PICK n \in 0 .. 1 : job' = [job EXCEPT ![c] =
           [NoJob EXCEPT !.at = "visit", !.todo = Structures, !.stalls = n]]
    BY <1>1 DEF TakeJob
  <2> DEFINE l == [NoJob EXCEPT !.at = "visit", !.todo = Structures, !.stalls = n]
  <2>2. l \in Jobs /\ l.at = "visit"
    BY DEF NoJob, Jobs, Stages
  <2> QED BY <1>1, <2>1, <2>2, QuietJob DEF TakeJob
<1>2. CASE Recalculate(c) \/ CannotCalculate(c)
  <2>1. PICK s \in job[c].todo :
          \/ job' = [job EXCEPT ![c].todo = @ \ {s}]
          \/ job' = [job EXCEPT ![c].todo = @ \ {s}, ![c].s = s, ![c].at = "look"]
    BY <1>2 DEF Recalculate, CannotCalculate
  <2>2. /\ job[c] \in Jobs /\ s \in Structures /\ job[c].at = "visit"
        /\ job[c].todo \ {s} \in SUBSET Structures
    BY <1>2, <2>1 DEF Recalculate, CannotCalculate, ToldInv, Jobs
  <2> DEFINE k == [job[c] EXCEPT !.todo = job[c].todo \ {s}]
             l == [job[c] EXCEPT !.todo = job[c].todo \ {s}, !.s = s, !.at = "look"]
  <2>3. /\ k \in Jobs /\ k.at = "visit"
        /\ l \in Jobs /\ l.at = "look" /\ l.s = s
    BY <2>2 DEF Jobs, Stages
  <2>4. job' = [job EXCEPT ![c] = k] \/ job' = [job EXCEPT ![c] = l]
    BY <2>1 DEF ToldInv
  <2> HIDE DEF k, l
  <2>5. UNCHANGED alertVars
    BY <1>2 DEF Recalculate, CannotCalculate
  <2>6. CASE job' = [job EXCEPT ![c] = k]
    BY <2>3, <2>5, <2>6, QuietJob
  <2>7. CASE job' = [job EXCEPT ![c] = l]
    BY <2>2, <2>3, <2>5, <2>7, QuietJob
  <2> QED BY <2>4, <2>6, <2>7
<1>3. CASE EndJob(c) \/ Dies(c)
  BY <1>3, JobFacts, QuietJob DEF EndJob, Dies
<1>4. CASE Caught(c)
  <2> DEFINE l == [job[c] EXCEPT !.at = "visit"]
  <2>1. l \in Jobs /\ l.at = "visit"
    BY JobFacts DEF Stages
  <2>2. job' = [job EXCEPT ![c] = l]
    BY <1>4 DEF Caught, ToldInv
  <2> QED BY <1>4, <2>1, <2>2, QuietJob DEF Caught
<1> QED BY <1>1, <1>2, <1>3, <1>4

\* A job that looks when there is no alert may create one: so may every other consumer.
LEMMA LookStep == ASSUME ToldInv, NEW c \in Consumers, Look(c) PROVE ToldInv'
<1>1. CASE alerts[job[c].s] > 0
  <2> DEFINE l == [job[c] EXCEPT !.at = "visit"]
  <2>1. l \in Jobs /\ l.at = "visit"
    BY JobFacts DEF Stages
  <2>2. job' = [job EXCEPT ![c] = l]
    BY <1>1 DEF Look, ToldInv
  <2> QED BY <2>1, <2>2, QuietJob DEF Look
<1>2. CASE ~ (alerts[job[c].s] > 0)
  <2> DEFINE l == [job[c] EXCEPT !.at = "create"]
  <2>1. l \in Jobs /\ l.at = "create" /\ l.s = job[c].s
    BY JobFacts DEF Stages
  <2>2. job' = [job EXCEPT ![c] = l] /\ UNCHANGED alertVars
    BY <1>2 DEF Look, ToldInv
  <2>3. /\ job[c].at = "look" /\ job[c].s \in Structures /\ alerts[job[c].s] = 0
    BY <1>2 DEF Look, ToldInv
  <2>4. /\ job' \in [Consumers -> Jobs] /\ job'[c] = l
        /\ \A d \in Consumers \ {c} : job'[d] = job[d]
        /\ \A d \in Consumers : job'[d].at \in {"look", "create", "mail", "mark"} =>
             job'[d].s \in Structures
    BY <2>1, <2>2, <2>3, JobStep
  <2> HIDE DEF l
  <2>5. ASSUME NEW s \in Structures PROVE Told(s)'
    <3>1. Told(s) /\ alerts' = alerts /\ mails' = mails /\ marked' = marked
      BY <2>2 DEF ToldInv, alertVars
    <3>2. ASSUME NEW place \in {"mail", "mark"} PROVE Working(s, place)' = Working(s, place)
      <4>1. c \notin Working(s, place) /\ c \notin Working(s, place)'
        BY <2>1, <2>3, <2>4 DEF Working
      <4> QED BY <2>4, <4>1, OneMoves
    <3>3. alerts[s] + Cardinality(Working(s, "create")') <= Cardinality(Consumers)
      <4>1. CASE s = job[c].s
        <5>1. Working(s, "create")' \in SUBSET Consumers
          BY DEF Working
        <5>2. /\ Cardinality(Working(s, "create")') <= Cardinality(Consumers)
              /\ Cardinality(Working(s, "create")') \in Nat
          BY <5>1, IndicatorsAssumption, FS_Subset, FS_CardinalityType
        <5> QED BY <2>3, <4>1, <5>2
      <4>2. CASE s # job[c].s
        <5>1. c \notin Working(s, "create") /\ c \notin Working(s, "create")'
          BY <2>1, <2>4, <4>2 DEF Working
        <5>2. Working(s, "create")' = Working(s, "create")
          BY <2>4, <5>1, OneMoves
        <5> QED BY <3>1, <5>2 DEF Told
      <4> QED BY <4>1, <4>2
    <3> QED BY <3>1, <3>2, <3>3 DEF Told
  <2> QED BY <2>2, <2>4, <2>5 DEF ToldInv, alertVars
<1> QED BY <1>1, <1>2

\* The counters of the structures that a job is not at, and the steps it neither leaves nor
\* enters.
LEMMA ElsewhereStands ==
  ASSUME ToldInv, NEW c \in Consumers, NEW s \in Structures, s # job[c].s,
         \A d \in Consumers \ {c} : job'[d] = job[d], job'[c].s = job[c].s,
         alerts'[s] = alerts[s], mails'[s] = mails[s], marked'[s] = marked[s]
  PROVE  Told(s)'
<1>1. \A place \in Stages : c \notin Working(s, place) /\ c \notin Working(s, place)'
  BY DEF Working
<1>2. \A place \in Stages : Working(s, place)' = Working(s, place)
  BY <1>1, OneMoves
<1> QED BY <1>2 DEF ToldInv, Told, Stages

\* The job of c, at its structure, goes from one step to another.
LEMMA MovesAlong ==
  ASSUME NEW c \in Consumers, NEW from, NEW to, from # to, NEW s,
         \A d \in Consumers \ {c} : job'[d] = job[d],
         job[c].at = from, job[c].s = s, job'[c].at = to, job'[c].s = s
  PROVE  /\ Cardinality(Working(s, from)') = Cardinality(Working(s, from)) - 1
         /\ Cardinality(Working(s, to)') = Cardinality(Working(s, to)) + 1
         /\ \A place \in Stages \ {from, to} : Working(s, place)' = Working(s, place)
<1>1. /\ c \in Working(s, from) /\ c \notin Working(s, from)'
      /\ c \notin Working(s, to) /\ c \in Working(s, to)'
  BY DEF Working
<1>2. \A place \in Stages \ {from, to} : c \notin Working(s, place) /\ c \notin Working(s, place)'
  BY DEF Working
<1> QED BY <1>1, <1>2, OneMoves

\* The three steps of an alert: each turns a job under way into what it counts for.
LEMMA AlertStep ==
  ASSUME ToldInv, NEW c \in Consumers, Create(c) \/ Mail(c) \/ Mark(c)
  PROVE  ToldInv'
<1>0. PICK s \in Structures : s = job[c].s
  BY DEF ToldInv, Create, Mail, Mark
<1>1. /\ alerts \in [Structures -> Nat] /\ mails \in [Structures -> Nat]
      /\ marked \in [Structures -> Nat]
      /\ Told(s) /\ \A place \in Stages : Cardinality(Working(s, place)) \in Nat
  BY WorkingFinite DEF ToldInv
<1>2. PICK from \in {"create", "mail", "mark"}, to \in {"mail", "mark", "visit"} :
        /\ from # to /\ job[c].at = from /\ job' = [job EXCEPT ![c].at = to]
        /\ from = "create" => to # "mark" /\ alerts' = [alerts EXCEPT ![s] = @ + 1]
        /\ from = "mail" /\ to = "mark" => mails' = [mails EXCEPT ![s] = @ + 1]
        /\ from = "mark" => to = "visit" /\ marked' = [marked EXCEPT ![s] = @ + 1]
        /\ from # "create" => alerts' = alerts
        /\ ~ (from = "mail" /\ to = "mark") => mails' = mails
        /\ from # "mark" => marked' = marked
  BY <1>0 DEF Create, Mail, Mark
<1>3. /\ job' \in [Consumers -> Jobs] /\ job'[c].s = s
      /\ \A d \in Consumers \ {c} : job'[d] = job[d]
      /\ \A d \in Consumers : job'[d].at \in {"look", "create", "mail", "mark"} =>
           job'[d].s \in Structures
      /\ Cardinality(Working(s, from)') = Cardinality(Working(s, from)) - 1
      /\ Cardinality(Working(s, to)') = Cardinality(Working(s, to)) + 1
      /\ \A place \in Stages \ {from, to} : Working(s, place)' = Working(s, place)
  <2> DEFINE l == [job[c] EXCEPT !.at = to]
  <2>1. l \in Jobs /\ l.at = to /\ l.s = s
    BY <1>0, JobFacts DEF Stages
  <2>2. job' = [job EXCEPT ![c] = l]
    BY <1>2 DEF ToldInv
  <2> HIDE DEF l
  <2>3. /\ job' \in [Consumers -> Jobs] /\ job'[c] = l
        /\ \A d \in Consumers \ {c} : job'[d] = job[d]
        /\ \A d \in Consumers : job'[d].at \in {"look", "create", "mail", "mark"} =>
             job'[d].s \in Structures
    BY <2>1, <2>2, JobStep
  <2>4. /\ Cardinality(Working(s, from)') = Cardinality(Working(s, from)) - 1
        /\ Cardinality(Working(s, to)') = Cardinality(Working(s, to)) + 1
        /\ \A place \in Stages \ {from, to} : Working(s, place)' = Working(s, place)
    BY <1>0, <1>2, <2>1, <2>3, MovesAlong
  <2> QED BY <2>1, <2>3, <2>4
<1>4. /\ alerts' \in [Structures -> Nat] /\ mails' \in [Structures -> Nat]
      /\ marked' \in [Structures -> Nat]
      /\ alerts'[s] = alerts[s] + (IF from = "create" THEN 1 ELSE 0)
      /\ mails'[s] = mails[s] + (IF from = "mail" /\ to = "mark" THEN 1 ELSE 0)
      /\ marked'[s] = marked[s] + (IF from = "mark" THEN 1 ELSE 0)
      /\ \A t \in Structures \ {s} : /\ alerts'[t] = alerts[t] /\ mails'[t] = mails[t]
                                     /\ marked'[t] = marked[t]
  BY <1>1, <1>2
<1>5. Told(s)'
  BY <1>1, <1>2, <1>3, <1>4, WorkingFinite DEF Told, Stages
<1>6. ASSUME NEW t \in Structures PROVE Told(t)'
  <2>1. CASE t = s
    BY <1>5, <2>1
  <2>2. CASE t # s
    <3>1. /\ alerts'[t] = alerts[t] /\ mails'[t] = mails[t] /\ marked'[t] = marked[t]
          /\ t # job[c].s /\ job'[c].s = job[c].s
      BY <1>0, <1>3, <1>4, <2>2
    <3> QED BY <1>3, <3>1, ElsewhereStands
  <2> QED BY <2>1, <2>2
<1> QED BY <1>3, <1>4, <1>6 DEF ToldInv

\* A day goes by for a structure that no job is at work on.
LEMMA DayStep ==
  ASSUME ToldInv, NEW s \in Structures, DayGoesBy(s)
  PROVE  ToldInv'
<1>1. /\ job' = job
      /\ alerts' = [alerts EXCEPT ![s] = 0] /\ mails' = [mails EXCEPT ![s] = 0]
      /\ marked' = [marked EXCEPT ![s] = 0]
      /\ \A c \in Consumers : job[c].s # s \/ job[c].at \in {"free", "visit"}
  BY DEF DayGoesBy
<1>2. /\ alerts \in [Structures -> Nat] /\ mails \in [Structures -> Nat]
      /\ marked \in [Structures -> Nat]
  BY DEF ToldInv
<1>3. \A t, place : Working(t, place)' = Working(t, place)
  BY <1>1 DEF Working
<1>4. \A place \in {"create", "mail", "mark"} : Working(s, place) = {}
  BY <1>1 DEF Working
<1>5. /\ alerts'[s] = 0 /\ mails'[s] = 0 /\ marked'[s] = 0
      /\ \A t \in Structures \ {s} : /\ alerts'[t] = alerts[t] /\ mails'[t] = mails[t]
                                     /\ marked'[t] = marked[t]
  BY <1>1, <1>2
<1>6. ASSUME NEW t \in Structures PROVE Told(t)'
  <2>1. CASE t = s
    <3>1. \A place \in {"create", "mail", "mark"} : Cardinality(Working(s, place)) = 0
      BY <1>4, FS_EmptySet
    <3> QED BY <1>3, <1>5, <2>1, <3>1, WorkingFinite DEF Told
  <2>2. CASE t # s
    <3>1. Told(t) /\ alerts'[t] = alerts[t] /\ mails'[t] = mails[t] /\ marked'[t] = marked[t]
      BY <1>5, <2>2 DEF ToldInv
    <3> QED BY <1>3, <3>1 DEF Told
  <2> QED BY <2>1, <2>2
<1>7. /\ alerts' \in [Structures -> Nat] /\ mails' \in [Structures -> Nat]
      /\ marked' \in [Structures -> Nat]
  BY <1>1, <1>2
<1> QED BY <1>1, <1>6, <1>7 DEF ToldInv

LEMMA AsideStep == ASSUME ToldInv, UNCHANGED <<job, alertVars>> PROVE ToldInv'
<1>1. \A s, place : Working(s, place)' = Working(s, place)
  BY DEF Working
<1> QED BY <1>1 DEF ToldInv, Told, alertVars

LEMMA ToldInit == IndicatorsInit => ToldInv
<1> SUFFICES ASSUME IndicatorsInit PROVE ToldInv
  OBVIOUS
<1>1. /\ job = [c \in Consumers |-> NoJob] /\ alerts = [s \in Structures |-> 0]
      /\ mails = alerts /\ marked = alerts
  BY DEF IndicatorsInit
<1>2. NoJob \in Jobs /\ NoJob.at = "free"
  BY DEF NoJob, Jobs, Stages
<1>3. \A s \in Structures, place \in {"create", "mail", "mark"} : Working(s, place) = {}
  BY <1>1, <1>2 DEF Working
<1>4. ASSUME NEW s \in Structures PROVE Told(s)
  <2>1. \A place \in {"create", "mail", "mark"} : Cardinality(Working(s, place)) = 0
    BY <1>3, FS_EmptySet
  <2> QED BY <1>1, <2>1, WorkingFinite DEF Told
<1> QED BY <1>1, <1>2, <1>4 DEF ToldInv

LEMMA ToldNext == ToldInv /\ [IndicatorsNext]_indicatorVars => ToldInv'
<1> SUFFICES ASSUME ToldInv, [IndicatorsNext]_indicatorVars PROVE ToldInv'
  OBVIOUS
<1>1. CASE \/ UNCHANGED indicatorVars \/ SyncStart \/ Sync \/ SyncFails \/ SyncDies
          \/ RecordManual
  <2>1. UNCHANGED <<job, alertVars>>
    BY <1>1 DEF indicatorVars, alertVars, Sync, SyncUsd, SyncIpc, SyncOthers, SyncQueue,
       SyncEnd, SyncStart, SyncFails, SyncDies, RecordManual
  <2> QED BY <2>1, AsideStep
<1>2. ASSUME NEW c \in Consumers, Work(c) \/ Dies(c) PROVE ToldInv'
  BY <1>2, QuietWork, LookStep, AlertStep DEF Work
<1>3. ASSUME NEW s \in Structures, DayGoesBy(s) PROVE ToldInv'
  BY <1>3, DayStep
<1> QED BY <1>1, <1>2, <1>3 DEF IndicatorsNext

\* alert-service.ts, "idempotente por 24h": a margin that fell has no more alerts in a
\* day than there are consumers, no more e-mails than alerts and no more marks than e-mails,
\* whoever dies and however the jobs of the queue overlap.
THEOREM AlertsCorrect == IndicatorsSpec => []FallIsToldOnce
<1>1. ToldInv => FallIsToldOnce
  <2> SUFFICES ASSUME ToldInv, NEW s \in Structures
               PROVE  /\ alerts[s] <= Cardinality(Consumers)
                      /\ marked[s] <= mails[s] /\ mails[s] <= alerts[s]
    BY DEF FallIsToldOnce
  <2> QED BY WorkingFinite DEF ToldInv, Told
<1> QED BY <1>1, ToldInit, ToldNext, PTL DEF IndicatorsSpec

-----------------------------------------------------------------------------
(* The limiter of the calls to the language model.                           *)

\* The queue holds each waiting call once.
QueueInv ==
  /\ \A i, j \in 1 .. Len(waitQueue) : waitQueue[i] = waitQueue[j] => i = j
  /\ \A c \in Calls :
       at[c] = "waiting" <=> \E i \in 1 .. Len(waitQueue) : waitQueue[i] = c

\* The counter counts, and nobody waits while there is room.
CountInv == IsFiniteSet(Holding) /\ CounterIsExact

\* The requests a call has sent are the ones its loop has counted, plus the one
\* in the air.
CallInv ==
  \A c \in Calls :
    /\ at[c] # "idle" => answer[c] = "none"
    /\ at[c] \in {"waiting", "resumed"} => attempt[c] = 0 /\ sent[c] = 0
    /\ at[c] = "fetching" => attempt[c] <= MaxRetries /\ sent[c] = attempt[c] + 1
    /\ at[c] = "backoff" => attempt[c] <= MaxRetries /\ sent[c] = attempt[c]
    /\ sent[c] <= MaxRetries + 1
    /\ answer[c] = "429" => sent[c] = MaxRetries + 1

LimiterInv == LimiterTypeOK /\ QueueInv /\ CountInv /\ CallInv

-----------------------------------------------------------------------------

\* Taking a slot, or queueing behind the calls that hold them all.
LEMMA AcquireFacts ==
  ASSUME LimiterInv, NEW c \in Calls, AcquireSlot(c)
  PROVE  /\ activeRequests' \in Nat /\ waitQueue' \in Seq(Calls)
         /\ at' \in [Calls -> Places]
         /\ QueueInv' /\ CountInv'
         /\ \/ /\ activeRequests < MaxConcurrent /\ Waiting = {}
               /\ Holding' = Holding \cup {c} /\ Waiting' = Waiting
            \/ /\ activeRequests >= MaxConcurrent
               /\ Holding' = Holding /\ Waiting' = Waiting \cup {c}
         /\ c \notin Waiting \cup Holding
<1>1. /\ at[c] = "idle" /\ at \in [Calls -> Places]
      /\ activeRequests \in Nat /\ waitQueue \in Seq(Calls)
      /\ MaxConcurrent \in Nat \ {0}
  BY LimiterAssumption DEF AcquireSlot, LimiterInv, LimiterTypeOK
<1>2. c \notin Waiting \cup Holding
  BY <1>1 DEF Waiting, Holding
<1>3. \A i \in 1 .. Len(waitQueue) : waitQueue[i] # c
  BY <1>1 DEF LimiterInv, QueueInv
<1>4. CASE activeRequests < MaxConcurrent
  <2>1. /\ activeRequests' = activeRequests + 1
        /\ at' = [at EXCEPT ![c] = "resumed"] /\ waitQueue' = waitQueue
    BY <1>4 DEF AcquireSlot
  <2>2. waitQueue = <<>>
    BY <1>1, <1>4 DEF LimiterInv, CountInv, CounterIsExact
  <2>3. Waiting = {}
    BY <2>2, EmptySeq DEF Waiting, LimiterInv, QueueInv
  <2>4. Holding' = Holding \cup {c} /\ Waiting' = Waiting
    BY <1>1, <2>1 DEF Holding, Waiting
  <2>5. IsFiniteSet(Holding') /\ Cardinality(Holding') = Cardinality(Holding) + 1
    BY <1>2, <2>4, FS_AddElement DEF LimiterInv, CountInv
  <2>6. CountInv'
    BY <1>1, <1>4, <2>1, <2>2, <2>5 DEF CountInv, CounterIsExact, LimiterInv
  <2>7. QueueInv'
    BY <1>1, <2>1 DEF QueueInv, LimiterInv
  <2>8. activeRequests' \in Nat /\ waitQueue' \in Seq(Calls) /\ at' \in [Calls -> Places]
    BY <1>1, <2>1 DEF Places
  <2> QED BY <1>2, <1>4, <2>3, <2>4, <2>6, <2>7, <2>8
<1>5. CASE ~ (activeRequests < MaxConcurrent)
  <2>1. /\ activeRequests' = activeRequests
        /\ at' = [at EXCEPT ![c] = "waiting"] /\ waitQueue' = Append(waitQueue, c)
    BY <1>5 DEF AcquireSlot
  <2>2. /\ waitQueue' \in Seq(Calls) /\ Len(waitQueue) \in Nat
        /\ Len(waitQueue') = Len(waitQueue) + 1
        /\ \A i \in 1 .. Len(waitQueue) : waitQueue'[i] = waitQueue[i]
        /\ waitQueue'[Len(waitQueue) + 1] = c
    BY <1>1, <2>1, AppendProperties, LenProperties
  <2>3. Holding' = Holding /\ Waiting' = Waiting \cup {c}
    BY <1>1, <2>1 DEF Holding, Waiting
  <2>4. CountInv'
    BY <1>1, <1>5, <2>1, <2>3 DEF CountInv, CounterIsExact, LimiterInv
  <2>5. QueueInv'
    <3>1. ASSUME NEW i \in 1 .. Len(waitQueue'), NEW j \in 1 .. Len(waitQueue'),
                 waitQueue'[i] = waitQueue'[j]
          PROVE  i = j
      <4>1. (i \in 1 .. Len(waitQueue) \/ i = Len(waitQueue) + 1)
            /\ (j \in 1 .. Len(waitQueue) \/ j = Len(waitQueue) + 1)
        BY <2>2
      <4> QED BY <1>3, <2>2, <3>1, <4>1 DEF LimiterInv, QueueInv
    <3>2. ASSUME NEW d \in Calls
          PROVE  at'[d] = "waiting" <=> \E i \in 1 .. Len(waitQueue') : waitQueue'[i] = d
      <4>1. CASE d = c
        <5>1. Len(waitQueue) + 1 \in 1 .. Len(waitQueue')
          BY <2>2
        <5> QED BY <1>1, <2>1, <2>2, <4>1, <5>1
      <4>2. CASE d # c
        <5>1. at'[d] = at[d]
          BY <1>1, <2>1, <4>2
        <5>2. (\E i \in 1 .. Len(waitQueue') : waitQueue'[i] = d)
                <=> \E i \in 1 .. Len(waitQueue) : waitQueue[i] = d
          BY <2>2, <4>2
        <5> QED BY <5>1, <5>2 DEF LimiterInv, QueueInv
      <4> QED BY <4>1, <4>2
    <3> QED BY <3>1, <3>2 DEF QueueInv
  <2>6. activeRequests' \in Nat /\ at' \in [Calls -> Places]
    BY <1>1, <2>1 DEF Places
  <2> QED BY <1>1, <1>2, <1>5, <2>2, <2>3, <2>4, <2>5, <2>6
<1> QED BY <1>4, <1>5

\* Giving a slot back, or handing it to the head of the queue.
LEMMA ReleaseFacts ==
  ASSUME LimiterInv, NEW c \in Calls, at[c] = "fetching", ReleaseSlot(c)
  PROVE  /\ activeRequests' \in Nat /\ waitQueue' \in Seq(Calls)
         /\ at' \in [Calls -> Places] /\ at'[c] = "idle"
         /\ QueueInv' /\ CountInv'
         /\ \A d \in Calls \ {c} : \/ at'[d] = at[d]
                                   \/ at[d] = "waiting" /\ at'[d] = "resumed"
         /\ \/ /\ Waiting = {} /\ Waiting' = Waiting
               /\ Holding' = Holding \ {c}
            \/ \E w \in Waiting : /\ Waiting' = Waiting \ {w}
                                  /\ Holding' = (Holding \ {c}) \cup {w}
<1>1. /\ at \in [Calls -> Places]
      /\ activeRequests \in Nat /\ waitQueue \in Seq(Calls)
      /\ MaxConcurrent \in Nat \ {0}
  BY LimiterAssumption DEF LimiterInv, LimiterTypeOK
<1>2. c \in Holding /\ c \notin Waiting
  BY DEF Holding, Waiting
<1>3. /\ IsFiniteSet(Holding) /\ activeRequests = Cardinality(Holding)
      /\ IsFiniteSet(Holding \ {c})
      /\ Cardinality(Holding \ {c}) = activeRequests - 1
      /\ activeRequests - 1 \in Nat
  <2>1. IsFiniteSet(Holding) /\ activeRequests = Cardinality(Holding)
    BY DEF LimiterInv, CountInv, CounterIsExact
  <2>2. /\ IsFiniteSet(Holding \ {c})
        /\ Cardinality(Holding \ {c}) = activeRequests - 1
    BY <1>2, <2>1, FS_RemoveElement
  <2> QED BY <2>1, <2>2, FS_CardinalityType
<1>4. CASE waitQueue = <<>>
  <2>1. /\ activeRequests' = activeRequests - 1
        /\ at' = [at EXCEPT ![c] = "idle"] /\ waitQueue' = waitQueue
    BY <1>4 DEF ReleaseSlot
  <2>2. Waiting = {}
    BY <1>4, EmptySeq DEF Waiting, LimiterInv, QueueInv
  <2>3. Holding' = Holding \ {c} /\ Waiting' = Waiting
    BY <1>1, <2>1 DEF Holding, Waiting
  <2>4. CountInv'
    BY <1>1, <1>3, <1>4, <2>1, <2>3 DEF CountInv, CounterIsExact, LimiterInv
  <2>5. QueueInv'
    BY <1>1, <2>1 DEF QueueInv, LimiterInv
  <2>6. at' \in [Calls -> Places] /\ at'[c] = "idle" /\ \A d \in Calls \ {c} : at'[d] = at[d]
    BY <1>1, <2>1 DEF Places
  <2> QED BY <1>1, <1>3, <2>1, <2>2, <2>3, <2>4, <2>5, <2>6
<1>5. CASE waitQueue # <<>>
  <2> DEFINE w == Head(waitQueue)
  <2>1. /\ activeRequests' = activeRequests
        /\ at' = [at EXCEPT ![c] = "idle", ![w] = "resumed"]
        /\ waitQueue' = Tail(waitQueue)
    BY <1>5 DEF ReleaseSlot
  <2>2. /\ w \in Calls /\ waitQueue' \in Seq(Calls) /\ w = waitQueue[1]
        /\ Len(waitQueue) \in Nat \ {0} /\ Len(waitQueue') = Len(waitQueue) - 1
        /\ \A i \in 1 .. Len(waitQueue') : waitQueue'[i] = waitQueue[i + 1]
    BY <1>1, <1>5, <2>1, HeadTailProperties, LenProperties, EmptySeq
  <2> HIDE DEF w
  <2>3. at[w] = "waiting" /\ w # c /\ w \in Waiting /\ w \notin Holding
    <3>1. 1 \in 1 .. Len(waitQueue)
      BY <2>2
    <3> QED BY <2>2, <3>1 DEF LimiterInv, QueueInv, Waiting, Holding
  <2>4. /\ Waiting' = Waiting \ {w}
        /\ Holding' = (Holding \ {c}) \cup {w}
    BY <1>1, <1>2, <2>1, <2>2, <2>3 DEF Holding, Waiting
  <2>5. IsFiniteSet(Holding') /\ Cardinality(Holding') = activeRequests
    <3>1. w \notin Holding \ {c}
      BY <2>3
    <3>2. /\ IsFiniteSet((Holding \ {c}) \cup {w})
          /\ Cardinality((Holding \ {c}) \cup {w}) = Cardinality(Holding \ {c}) + 1
      BY <1>3, <3>1, FS_AddElement
    <3>3. Cardinality(Holding \ {c}) + 1 = activeRequests
      BY <1>1, <1>3
    <3> QED BY <2>4, <3>2, <3>3
  <2>6. CountInv'
    BY <1>1, <1>5, <2>1, <2>5 DEF CountInv, CounterIsExact, LimiterInv
  <2>7. QueueInv'
    <3>1. ASSUME NEW i \in 1 .. Len(waitQueue'), NEW j \in 1 .. Len(waitQueue'),
                 waitQueue'[i] = waitQueue'[j]
          PROVE  i = j
      <4>1. i + 1 \in 1 .. Len(waitQueue) /\ j + 1 \in 1 .. Len(waitQueue)
        BY <2>2
      <4>2. i + 1 = j + 1
        BY <2>2, <3>1, <4>1 DEF LimiterInv, QueueInv
      <4> QED BY <4>2
    <3>2. ASSUME NEW d \in Calls
          PROVE  at'[d] = "waiting" <=> \E i \in 1 .. Len(waitQueue') : waitQueue'[i] = d
      <4>1. ASSUME NEW i \in 1 .. Len(waitQueue'), waitQueue'[i] = d
            PROVE  at'[d] = "waiting"
        <5>1. i + 1 \in 1 .. Len(waitQueue) /\ waitQueue[i + 1] = d /\ i + 1 # 1
          BY <2>2, <4>1
        <5>2. at[d] = "waiting" /\ d # w
          BY <2>2, <5>1 DEF LimiterInv, QueueInv
        <5> QED BY <1>1, <2>1, <5>2
      <4>2. ASSUME at'[d] = "waiting"
            PROVE  \E i \in 1 .. Len(waitQueue') : waitQueue'[i] = d
        <5>1. at[d] = "waiting" /\ d # w
          BY <1>1, <2>1, <2>2, <2>3, <4>2
        <5>2. PICK i \in 1 .. Len(waitQueue) : waitQueue[i] = d
          BY <5>1 DEF LimiterInv, QueueInv
        <5>3. i # 1 /\ i - 1 \in 1 .. Len(waitQueue') /\ (i - 1) + 1 = i
          BY <2>2, <5>1, <5>2
        <5> QED BY <2>2, <5>2, <5>3
      <4> QED BY <4>1, <4>2
    <3> QED BY <3>1, <3>2 DEF QueueInv
  <2>8. /\ at' \in [Calls -> Places] /\ at'[c] = "idle"
        /\ \A d \in Calls \ {c} : \/ at'[d] = at[d]
                                  \/ at[d] = "waiting" /\ at'[d] = "resumed"
    BY <1>1, <2>1, <2>3 DEF Places
  <2> QED BY <1>1, <2>1, <2>2, <2>3, <2>4, <2>6, <2>7, <2>8
<1> QED BY <1>4, <1>5

-----------------------------------------------------------------------------

\* Sending moves nobody in or out of the slots.
LEMMA SendFacts ==
  ASSUME LimiterInv, NEW c \in Calls, Send(c)
  PROVE  /\ at' \in [Calls -> Places] /\ at'[c] = "fetching"
         /\ Holding' = Holding /\ Waiting' = Waiting
         /\ QueueInv' /\ CountInv'
<1>1. /\ at \in [Calls -> Places] /\ at[c] \in {"resumed", "backoff"}
      /\ at' = [at EXCEPT ![c] = "fetching"]
      /\ activeRequests' = activeRequests /\ waitQueue' = waitQueue
  BY DEF Send, LimiterInv, LimiterTypeOK
<1>2. Holding' = Holding /\ Waiting' = Waiting
  BY <1>1 DEF Holding, Waiting
<1>3. CountInv'
  BY <1>1, <1>2 DEF LimiterInv, CountInv, CounterIsExact
<1>4. QueueInv'
  BY <1>1 DEF LimiterInv, QueueInv
<1> QED BY <1>1, <1>2, <1>3, <1>4 DEF Places

\* A 429 that is going to be retried keeps its slot.
LEMMA BackoffFacts ==
  ASSUME LimiterInv, NEW c \in Calls, at[c] = "fetching",
         at' = [at EXCEPT ![c] = "backoff"],
         UNCHANGED <<activeRequests, waitQueue>>
  PROVE  /\ at' \in [Calls -> Places]
         /\ Holding' = Holding /\ Waiting' = Waiting
         /\ QueueInv' /\ CountInv'
<1>1. at \in [Calls -> Places]
  BY DEF LimiterInv, LimiterTypeOK
<1>2. Holding' = Holding /\ Waiting' = Waiting
  BY <1>1 DEF Holding, Waiting
<1>3. CountInv'
  BY <1>2 DEF LimiterInv, CountInv, CounterIsExact
<1>4. QueueInv'
  BY <1>1 DEF LimiterInv, QueueInv
<1> QED BY <1>1, <1>2, <1>3, <1>4 DEF Places

LEMMA LimiterInitInv == LimiterInit => LimiterInv
<1> SUFFICES ASSUME LimiterInit PROVE LimiterInv
  OBVIOUS
<1>1. LimiterTypeOK
  BY LimiterAssumption, EmptySeq DEF LimiterInit, LimiterTypeOK, Places, Answers
<1>2. QueueInv
  BY EmptySeq DEF LimiterInit, QueueInv
<1>3. Holding = {}
  BY DEF LimiterInit, Holding
<1>4. CountInv
  BY <1>3, LimiterAssumption, FS_EmptySet DEF LimiterInit, CountInv, CounterIsExact
<1>5. CallInv
  BY LimiterAssumption DEF LimiterInit, CallInv
<1> QED BY <1>1, <1>2, <1>4, <1>5 DEF LimiterInv

LEMMA AcquireStep == ASSUME LimiterInv, NEW c \in Calls, AcquireSlot(c) PROVE LimiterInv'
<1>1. /\ attempt' = [attempt EXCEPT ![c] = 0]
      /\ sent' = [sent EXCEPT ![c] = 0]
      /\ answer' = [answer EXCEPT ![c] = "none"]
      /\ at[c] = "idle"
      /\ \E s \in {"resumed", "waiting"} : at' = [at EXCEPT ![c] = s]
  BY DEF AcquireSlot
<1>2. LimiterTypeOK'
  BY <1>1, AcquireFacts, LimiterAssumption DEF LimiterInv, LimiterTypeOK, Answers
<1>3. CallInv'
  BY <1>1, LimiterAssumption DEF LimiterInv, LimiterTypeOK, CallInv
<1> QED BY <1>2, <1>3, AcquireFacts DEF LimiterInv

LEMMA SendStep == ASSUME LimiterInv, NEW c \in Calls, Send(c) PROVE LimiterInv'
<1>1. /\ at[c] \in {"resumed", "backoff"}
      /\ at' = [at EXCEPT ![c] = "fetching"]
      /\ sent' = [sent EXCEPT ![c] = @ + 1]
      /\ UNCHANGED <<activeRequests, waitQueue, attempt, answer>>
  BY DEF Send
<1>2. LimiterTypeOK'
  BY <1>1, SendFacts DEF LimiterInv, LimiterTypeOK
<1>3. attempt[c] \in Nat /\ attempt[c] <= MaxRetries /\ sent[c] = attempt[c]
  BY <1>1, LimiterAssumption DEF LimiterInv, CallInv, LimiterTypeOK
<1>4. CallInv'
  BY <1>1, <1>3, LimiterAssumption DEF LimiterInv, LimiterTypeOK, CallInv
<1> QED BY <1>2, <1>4, SendFacts DEF LimiterInv

\* Settling ends the call with its answer or lets it try again.
LEMMA SettleStep == ASSUME LimiterInv, NEW c \in Calls, Settle(c) PROVE LimiterInv'
<1>1. /\ at[c] = "fetching" /\ attempt[c] <= MaxRetries /\ sent[c] = attempt[c] + 1
      /\ attempt[c] \in Nat /\ MaxRetries \in Nat
  BY LimiterAssumption DEF Settle, Respond, Reject, TooManyRequests, LimiterInv, CallInv, LimiterTypeOK
<1>2. ASSUME NEW k \in 0 .. MaxRetries + 1, NEW x \in Answers, ReleaseSlot(c),
             x = "429" => sent[c] = MaxRetries + 1,
             attempt' = [attempt EXCEPT ![c] = k],
             answer' = [answer EXCEPT ![c] = x],
             sent' = sent
      PROVE  LimiterInv'
  <2>1. /\ activeRequests' \in Nat /\ waitQueue' \in Seq(Calls)
        /\ at' \in [Calls -> Places] /\ at'[c] = "idle"
        /\ QueueInv' /\ CountInv'
        /\ \A d \in Calls \ {c} : \/ at'[d] = at[d]
                                  \/ at[d] = "waiting" /\ at'[d] = "resumed"
    BY <1>1, <1>2, ReleaseFacts
  <2>2. LimiterTypeOK'
    BY <1>2, <2>1 DEF LimiterInv, LimiterTypeOK
  <2>3. CallInv'
    BY <1>1, <1>2, <2>1 DEF LimiterInv, LimiterTypeOK, CallInv
  <2> QED BY <2>1, <2>2, <2>3 DEF LimiterInv
<1>3. CASE Respond(c) \/ Reject(c)
  <2>1. \E x \in {"response", "error"} : answer' = [answer EXCEPT ![c] = x]
    BY <1>3 DEF Respond, Reject
  <2>2. /\ ReleaseSlot(c) /\ sent' = sent
        /\ attempt' = [attempt EXCEPT ![c] = attempt[c]]
        /\ attempt[c] \in 0 .. MaxRetries + 1
    BY <1>3 DEF Respond, Reject, LimiterInv, LimiterTypeOK
  <2> QED BY <1>2, <2>1, <2>2 DEF Answers
<1>4. CASE TooManyRequests(c)
  <2>1. /\ attempt' = [attempt EXCEPT ![c] = attempt[c] + 1] /\ sent' = sent
        /\ attempt[c] + 1 \in 0 .. MaxRetries + 1
    BY <1>1, <1>4 DEF TooManyRequests
  <2>2. CASE GiveUp(attempt[c] + 1)
    <3>1. answer' = [answer EXCEPT ![c] = "429"] /\ ReleaseSlot(c)
      BY <1>4, <2>2 DEF TooManyRequests
    <3>2. sent[c] = MaxRetries + 1
      BY <1>1, <2>2 DEF GiveUp
    <3> QED BY <1>2, <2>1, <3>1, <3>2 DEF Answers
  <2>3. CASE ~ GiveUp(attempt[c] + 1)
    <3>1. /\ at' = [at EXCEPT ![c] = "backoff"]
          /\ UNCHANGED <<activeRequests, waitQueue, answer>>
      BY <1>4, <2>3 DEF TooManyRequests
    <3>2. at' \in [Calls -> Places] /\ QueueInv' /\ CountInv'
      BY <1>1, <3>1, BackoffFacts
    <3>3. LimiterTypeOK'
      BY <2>1, <3>1, <3>2 DEF LimiterInv, LimiterTypeOK
    <3>4. CallInv'
      BY <1>1, <2>1, <2>3, <3>1 DEF LimiterInv, LimiterTypeOK, CallInv, GiveUp
    <3> QED BY <3>2, <3>3, <3>4 DEF LimiterInv
  <2> QED BY <2>2, <2>3
<1> QED BY <1>3, <1>4 DEF Settle

LEMMA LimiterNextInv == LimiterInv /\ [LimiterNext]_limiterVars => LimiterInv'
<1> SUFFICES ASSUME LimiterInv, [LimiterNext]_limiterVars PROVE LimiterInv'
  OBVIOUS
<1>1. CASE UNCHANGED limiterVars
  <2>1. Holding' = Holding
    BY <1>1 DEF limiterVars, Holding
  <2> QED BY <1>1, <2>1 DEF limiterVars, LimiterInv, LimiterTypeOK, QueueInv, CountInv, CounterIsExact, CallInv
<1>2. CASE LimiterNext
  BY <1>2, AcquireStep, SendStep, SettleStep DEF LimiterNext
<1> QED BY <1>1, <1>2

\* No step of a call, of its retries or of its answers leaves the inductive
\* invariant of the limiter (groq-rate-limiter.ts).
THEOREM LimiterInvariance == LimiterSpec => []LimiterInv
BY LimiterInitInv, LimiterNextInv, PTL DEF LimiterSpec

\* Every variable keeps its type.
THEOREM LimiterTypeCorrect == LimiterSpec => []LimiterTypeOK
<1>1. LimiterInv => LimiterTypeOK
  BY DEF LimiterInv
<1> QED BY <1>1, LimiterInvariance, PTL

\* The counter of the limiter is the number of calls in course, never above the
\* limit, and nobody waits while it is below.
THEOREM CounterCorrect == LimiterSpec => []CounterIsExact
<1>1. LimiterInv => CounterIsExact
  BY DEF LimiterInv, CountInv
<1> QED BY <1>1, LimiterInvariance, PTL

\* No caller receives a 429 before the first request and every retry met one.
THEOREM RetriesCorrect == LimiterSpec => []FullEffortBefore429
<1>1. LimiterInv => FullEffortBefore429
  BY DEF LimiterInv, CallInv, FullEffortBefore429
<1> QED BY <1>1, LimiterInvariance, PTL

\* The limiter implements the abstract slots: its counter, its queue of
\* closures and its retries amount to taking, handing over and freeing slots.
THEOREM Refinement == LimiterSpec => ImplementsSlots
<1>1. LimiterInit => S!Init
  BY DEF LimiterInit, S!Init, Waiting, Holding
<1>2. LimiterInv /\ [LimiterNext]_limiterVars => [S!Next]_<<Waiting, Holding>>
  <2> SUFFICES ASSUME LimiterInv, [LimiterNext]_limiterVars,
                      ~ (Waiting' = Waiting /\ Holding' = Holding)
               PROVE  S!Next
    OBVIOUS
  <2>1. CASE UNCHANGED limiterVars
    BY <2>1 DEF limiterVars, Waiting, Holding
  <2>2. ASSUME NEW c \in Calls, AcquireSlot(c) PROVE S!Next
    <3>1. /\ \/ /\ activeRequests < MaxConcurrent /\ Waiting = {}
                /\ Holding' = Holding \cup {c} /\ Waiting' = Waiting
             \/ /\ activeRequests >= MaxConcurrent
                /\ Holding' = Holding /\ Waiting' = Waiting \cup {c}
          /\ c \notin Waiting \cup Holding
          /\ activeRequests = Cardinality(Holding)
      BY <2>2, AcquireFacts DEF LimiterInv, CountInv, CounterIsExact
    <3>2. S!Cardinality(Holding) = Cardinality(Holding)
      BY DEF S!Cardinality, Cardinality, S!IsFiniteSet, IsFiniteSet
    <3> QED BY <3>1, <3>2 DEF S!Next, S!Arrive
  <2>3. ASSUME NEW c \in Calls, Send(c) PROVE S!Next
    BY <2>3, SendFacts
  <2>4. ASSUME NEW c \in Calls, Settle(c) PROVE S!Next
    <3>1. at[c] = "fetching"
      BY <2>4 DEF Settle, Respond, Reject, TooManyRequests
    <3>2. CASE ReleaseSlot(c)
      <4>1. \/ /\ Waiting = {} /\ Waiting' = Waiting
               /\ Holding' = Holding \ {c}
            \/ \E w \in Waiting : /\ Waiting' = Waiting \ {w}
                                  /\ Holding' = (Holding \ {c}) \cup {w}
        BY <3>1, <3>2, ReleaseFacts
      <4>2. c \in Holding
        BY <3>1 DEF Holding
      <4> QED BY <4>1, <4>2 DEF S!Next, S!Leave
    <3>3. CASE ~ ReleaseSlot(c)
      <4>1. /\ at' = [at EXCEPT ![c] = "backoff"]
            /\ UNCHANGED <<activeRequests, waitQueue>>
        BY <2>4, <3>3 DEF Settle, Respond, Reject, TooManyRequests
      <4> QED BY <3>1, <4>1, BackoffFacts
    <3> QED BY <3>2, <3>3
  <2> QED BY <2>1, <2>2, <2>3, <2>4 DEF LimiterNext
<1> QED BY <1>1, <1>2, LimiterInvariance, PTL DEF LimiterSpec, ImplementsSlots, S!Spec
\* Only a call whose turn it is gets a slot: one that waits behind another, or has
\* not called yet, gets none while that other keeps waiting.
LEMMA TurnsStep ==
  ASSUME LimiterInv, [LimiterNext]_limiterVars, NEW c \in Calls, NEW d \in Calls,
         Ahead(c, d), d \in Holding'
  PROVE  at'[c] # "waiting"
<1>1. /\ at \in [Calls -> Places] /\ waitQueue \in Seq(Calls)
      /\ DOMAIN waitQueue = 1 .. Len(waitQueue) /\ Len(waitQueue) \in Nat
  BY LenProperties DEF LimiterInv, LimiterTypeOK
<1>2. /\ at[c] = "waiting" /\ waitQueue # <<>>
      /\ at[d] = "idle" \/ (at[d] = "waiting" /\ waitQueue[1] # d)
  <2>1. PICK k \in 1 .. Len(waitQueue) : waitQueue[k] = c
    BY DEF Ahead, LimiterInv, QueueInv
  <2>2. waitQueue # <<>>
    BY <1>1, <2>1, EmptySeq
  <2>3. ASSUME NEW i \in 1 .. Len(waitQueue), NEW j \in 1 .. Len(waitQueue),
               i < j, waitQueue[j] = d
        PROVE  at[d] = "waiting" /\ waitQueue[1] # d
    <3>1. 1 \in 1 .. Len(waitQueue) /\ j # 1
      BY <1>1, <2>3
    <3> QED BY <2>3, <3>1 DEF LimiterInv, QueueInv
  <2>4. /\ at[c] = "waiting"
        /\ \/ at[d] = "idle"
           \/ \E i, j \in 1 .. Len(waitQueue) : i < j /\ waitQueue[i] = c /\ waitQueue[j] = d
    BY <1>1 DEF Ahead
  <2>5. CASE at[d] = "idle"
    BY <2>2, <2>4, <2>5
  <2>6. CASE \E i, j \in 1 .. Len(waitQueue) : i < j /\ waitQueue[i] = c /\ waitQueue[j] = d
    BY <2>2, <2>3, <2>4, <2>6
  <2> QED BY <2>4, <2>5, <2>6
<1>3. at'[d] \in {"resumed", "fetching", "backoff"}
  BY DEF Holding
<1>4. CASE UNCHANGED limiterVars
  BY <1>2, <1>3, <1>4 DEF limiterVars
<1>5. ASSUME NEW e \in Calls, AcquireSlot(e) PROVE FALSE
  <2>1. activeRequests = MaxConcurrent
    BY <1>2 DEF LimiterInv, CountInv, CounterIsExact
  <2>2. at' = [at EXCEPT ![e] = "waiting"]
    BY <1>5, <2>1, LimiterAssumption DEF AcquireSlot
  <2> QED BY <1>1, <1>2, <1>3, <2>2
<1>6. ASSUME NEW e \in Calls, Send(e) PROVE FALSE
  <2>1. at[e] \in {"resumed", "backoff"} /\ at' = [at EXCEPT ![e] = "fetching"]
    BY <1>6 DEF Send
  <2> QED BY <1>1, <1>2, <1>3, <2>1
<1>7. ASSUME NEW e \in Calls, Settle(e) PROVE FALSE
  <2>1. at[e] = "fetching"
    BY <1>7 DEF Settle, Respond, Reject, TooManyRequests
  <2>2. \/ at' = [at EXCEPT ![e] = "backoff"]
        \/ at' = [at EXCEPT ![e] = "idle", ![Head(waitQueue)] = "resumed"]
    BY <1>2, <1>7 DEF Settle, Respond, Reject, TooManyRequests, ReleaseSlot
  <2>3. Head(waitQueue) = waitQueue[1] /\ at[Head(waitQueue)] = "waiting"
    <3>1. Head(waitQueue) \in Calls /\ Head(waitQueue) = waitQueue[1] /\ 1 \in 1 .. Len(waitQueue)
      BY <1>1, <1>2, HeadTailProperties, EmptySeq
    <3> QED BY <3>1 DEF LimiterInv, QueueInv
  <2> QED BY <1>1, <1>2, <1>3, <2>1, <2>2, <2>3
<1> QED BY <1>4, <1>5, <1>6, <1>7 DEF LimiterNext

\* Nobody is overtaken: the slots go to the calls in the order they asked.
THEOREM InTurn == LimiterSpec => NoOvertaking
<1> DEFINE Turn(c, d) == Ahead(c, d) /\ d \in Holding' => at'[c] # "waiting"
<1>1. LimiterInv /\ [LimiterNext]_limiterVars => [\A c, d \in Calls : Turn(c, d)]_limiterVars
  BY TurnsStep
<1> QED BY <1>1, LimiterInvariance, PTL DEF LimiterSpec, NoOvertaking
=============================================================================
