----------------------------- MODULE Indicators -----------------------------
(***************************************************************************)
(* The macroeconomic indicators and what they set in motion: the sync job  *)
(* reads the dollar and the price index, records them and, when one of     *)
(* them moved more than 1 % against its last record, queues a              *)
(* recalculation; the job of that queue recalculates the active structures *)
(* one after the other and tells the costista of each one whose margin     *)
(* fell under the threshold, once a day.                                   *)
(*                                                                         *)
(* Both the web server and the process of the workers consume the queue of *)
(* recalculations, so that two of its jobs may be under way at once. Every *)
(* await of the code that another job can get in between is a step here.   *)
(***************************************************************************)
EXTENDS Integers, FiniteSets

CONSTANTS
  Structures,  \* the active structures with their three sections loaded
  Consumers,   \* the processes that take jobs of the recalculate queue
  Levels,      \* the values that an indicator takes
  MaxSyncs,    \* bound: runs of the sync job
  MaxManual,   \* bound: entries of a person
  MaxDeaths,   \* bound: jobs of either queue whose process dies
  NoLevel,     \* an indicator without record, or that its source did not give
  NoStructure

ASSUME IndicatorsAssumption ==
  /\ Levels \subseteq Nat
  /\ MaxSyncs \in Nat
  /\ MaxManual \in Nat
  /\ MaxDeaths \in Nat
  /\ NoLevel \notin Levels
  /\ NoStructure \notin Structures
  /\ IsFiniteSet(Consumers)

VARIABLES
  rec,     \* the last macro_snapshot of each indicator
  sync,    \* the sync job: its step, whether it owes a recalculation, the index it
           \* fetched, its stalls
  queue,   \* the recalculations that wait: the stalls of each one
  job,     \* per consumer: the recalculation it is at
  owed,    \* history: structures not recalculated since an indicator jumped
  lost,    \* history: those of them that no job will recalculate for that jump
  alerts,  \* MARGIN_BELOW_THRESHOLD alerts of the last 24 hours
  mails,   \* the e-mails sent for them
  marked,  \* those of them with emailSentAt
  syncs, manual, deaths

indicatorVars == <<rec, sync, queue, job, owed, lost, alerts, mails, marked,
                   syncs, manual, deaths>>
alertVars == <<alerts, mails, marked>>

NoSync == [at |-> "idle", jump |-> FALSE, ipc |-> NoLevel, stalls |-> 0]
NoJob  == [at |-> "free", todo |-> {}, s |-> NoStructure, stalls |-> 0]

IndicatorsTypeOK ==
  /\ rec \in [{"usd", "ipc"} -> Levels \cup {NoLevel}]
  /\ sync \in [at : {"idle", "usd", "ipc", "others", "queue", "end"}, jump : BOOLEAN,
               ipc : Levels \cup {NoLevel}, stalls : 0 .. 1]
  /\ queue \in [0 .. 1 -> Nat]
  /\ job \in [Consumers -> [at : {"free", "visit", "look", "create", "mail", "mark"},
                            todo : SUBSET Structures, s : Structures \cup {NoStructure},
                            stalls : 0 .. 1]]
  /\ owed \subseteq Structures
  /\ lost \subseteq Structures
  /\ {alerts, mails, marked} \subseteq [Structures -> Nat]

\* The syncs of earlier days left some record of each indicator, or none.
IndicatorsInit ==
  /\ rec \in [{"usd", "ipc"} -> Levels \cup {NoLevel}]
  /\ sync = NoSync
  /\ queue = [n \in 0 .. 1 |-> 0]
  /\ job = [c \in Consumers |-> NoJob]
  /\ owed = {}
  /\ lost = {}
  /\ alerts = [s \in Structures |-> 0]
  /\ mails = alerts
  /\ marked = alerts
  /\ syncs = 0 /\ manual = 0 /\ deaths = 0

-----------------------------------------------------------------------------
(* The sync job *)

Abs(n) == IF n < 0 THEN -n ELSE n

\* The first record, one after a zero, or more than 1 % away from the last.
Jumps(prev, value) ==
  prev = NoLevel \/ prev = 0 \/ (prev # NoLevel /\ 100 * Abs(value - prev) > prev)

\* A value that is stored becomes the last record, and owes its recalculation:
\* a jump owes it again, whatever was lost of an earlier one.
Record(i, value) ==
  /\ rec' = [rec EXCEPT ![i] = value]
  /\ owed' = IF Jumps(rec[i], value) THEN Structures ELSE owed
  /\ lost' = IF Jumps(rec[i], value) THEN {} ELSE lost

SyncStart ==
  /\ sync.at = "idle" /\ syncs < MaxSyncs
  /\ syncs' = syncs + 1
  /\ sync' = [NoSync EXCEPT !.at = "usd"]
  /\ UNCHANGED <<rec, queue, job, owed, lost, alertVars, manual, deaths>>

\* The dollar comes first: a source that does not answer gives nothing.
SyncUsd ==
  /\ sync.at = "usd"
  /\ \E v \in Levels \cup {NoLevel} :
       IF v = NoLevel
       THEN sync' = [sync EXCEPT !.at = "ipc"] /\ UNCHANGED <<rec, owed, lost>>
       ELSE /\ sync' = [sync EXCEPT !.at = "ipc", !.jump = Jumps(rec["usd"], v)]
            /\ Record("usd", v)
  /\ UNCHANGED <<queue, job, alertVars, syncs, manual, deaths>>

\* The index is recorded, and its answer forgets that of the dollar.
SyncIpcOnly ==
  /\ sync.at = "ipc"
  /\ \E v \in Levels \cup {NoLevel} :
       IF v = NoLevel
       THEN sync' = [sync EXCEPT !.at = "others", !.ipc = v] /\ UNCHANGED <<rec, owed, lost>>
       ELSE /\ sync' = [sync EXCEPT !.at = "others", !.ipc = v, !.jump = Jumps(rec["ipc"], v)]
            /\ Record("ipc", v)
  /\ UNCHANGED <<queue, job, alertVars, syncs, manual, deaths>>

\* The index: ||= does not evaluate its right side, which is where the index
\* is recorded, once the dollar has jumped.
SyncIpc ==
  /\ sync.at = "ipc"
  /\ \E v \in Levels \cup {NoLevel} :
       IF v = NoLevel \/ sync.jump
       THEN sync' = [sync EXCEPT !.at = "others", !.ipc = v] /\ UNCHANGED <<rec, owed, lost>>
       ELSE /\ sync' = [sync EXCEPT !.at = "others", !.ipc = v, !.jump = Jumps(rec["ipc"], v)]
            /\ Record("ipc", v)
  /\ UNCHANGED <<queue, job, alertVars, syncs, manual, deaths>>

\* The parallel dollar and the CAPIA prices, which recalculate nothing.
SyncOthers ==
  /\ sync.at = "others"
  /\ sync' = [sync EXCEPT !.at = "queue", !.ipc = NoLevel]
  /\ UNCHANGED <<rec, queue, job, owed, lost, alertVars, syncs, manual, deaths>>

Enqueue == queue' = [queue EXCEPT ![0] = @ + 1]

SyncQueue ==
  /\ sync.at = "queue"
  /\ sync' = [sync EXCEPT !.at = "end", !.jump = FALSE]
  /\ IF sync.jump THEN Enqueue ELSE UNCHANGED queue
  /\ UNCHANGED <<rec, job, owed, lost, alertVars, syncs, manual, deaths>>

SyncEnd ==
  /\ sync.at = "end"
  /\ sync' = NoSync
  /\ UNCHANGED <<rec, queue, job, owed, lost, alertVars, syncs, manual, deaths>>

\* A jump recorded and not queued: no later sync sees it, since what it
\* compares with is that very record.
ForgetsJump ==
  lost' = IF sync.jump THEN lost \cup owed ELSE lost

\* A database error, or no Redis: the job fails and is not retried.
SyncFails ==
  /\ sync.at \notin {"idle", "end"}
  /\ sync' = NoSync
  /\ ForgetsJump
  /\ UNCHANGED <<rec, queue, job, owed, alertVars, syncs, manual, deaths>>

\* The process dies: the job stalls and runs again from the dollar, once. The
\* second run sees no jump in a value that did not move since, and ends well.
SyncDies ==
  /\ sync.at # "idle" /\ deaths < MaxDeaths
  /\ deaths' = deaths + 1
  /\ sync' = IF sync.stalls = 0 THEN [NoSync EXCEPT !.at = "usd", !.stalls = 1] ELSE NoSync
  /\ ForgetsJump
  /\ UNCHANGED <<rec, queue, job, owed, alertVars, syncs, manual>>

\* Wages, tariffs: the entry of a person always recalculates, unless the queue
\* does not answer or the process dies once the entry is stored.
RecordManual ==
  /\ manual < MaxManual
  /\ manual' = manual + 1
  /\ owed' = Structures
  /\ \/ Enqueue /\ lost' = {}
     \/ UNCHANGED queue /\ lost' = Structures
  /\ UNCHANGED <<rec, sync, job, alertVars, syncs, deaths>>

-----------------------------------------------------------------------------
(* The recalculation *)

\* A consumer takes the job that waits and lists the active structures.
TakeJob(c) ==
  /\ job[c].at = "free"
  /\ \E n \in 0 .. 1 :
       /\ queue[n] > 0
       /\ queue' = [queue EXCEPT ![n] = @ - 1]
       /\ job' = [job EXCEPT ![c] = [NoJob EXCEPT !.at = "visit", !.todo = Structures,
                                                  !.stalls = n]]
  /\ UNCHANGED <<rec, sync, owed, lost, alertVars, syncs, manual, deaths>>

\* The next structure is recalculated: its margin is enough, or is below the
\* threshold.
Recalculate(c) ==
  /\ job[c].at = "visit"
  /\ \E s \in job[c].todo :
       /\ owed' = owed \ {s}
       /\ lost' = lost \ {s}
       /\ \/ job' = [job EXCEPT ![c].todo = @ \ {s}]
          \/ job' = [job EXCEPT ![c].todo = @ \ {s}, ![c].s = s, ![c].at = "look"]
  /\ UNCHANGED <<rec, sync, queue, alertVars, syncs, manual, deaths>>

\* Or it cannot be calculated: that is logged, and the list goes on.
CannotCalculate(c) ==
  /\ job[c].at = "visit"
  /\ \E s \in job[c].todo :
       /\ job' = [job EXCEPT ![c].todo = @ \ {s}]
       /\ lost' = lost \cup (owed \cap {s})
  /\ UNCHANGED <<rec, sync, queue, owed, alertVars, syncs, manual, deaths>>

\* The alerts are not looked at.
LookAtNothing(c) ==
  /\ job[c].at = "look"
  /\ job' = [job EXCEPT ![c].at = "create"]
  /\ UNCHANGED <<rec, sync, queue, owed, lost, alertVars, syncs, manual, deaths>>

\* createMarginAlert, first half: an alert of the last 24 hours ends it.
Look(c) ==
  /\ job[c].at = "look"
  /\ job' = [job EXCEPT ![c].at = IF alerts[job[c].s] > 0 THEN "visit" ELSE "create"]
  /\ UNCHANGED <<rec, sync, queue, owed, lost, alertVars, syncs, manual, deaths>>

\* Second half. The settings, read with the list, say whether to write.
Create(c) ==
  /\ job[c].at = "create"
  /\ alerts' = [alerts EXCEPT ![job[c].s] = @ + 1]
  /\ \E at \in {"mail", "visit"} : job' = [job EXCEPT ![c].at = at]
  /\ UNCHANGED <<rec, sync, queue, owed, lost, mails, marked, syncs, manual, deaths>>

Mail(c) ==
  /\ job[c].at = "mail"
  /\ mails' = [mails EXCEPT ![job[c].s] = @ + 1]
  /\ job' = [job EXCEPT ![c].at = "mark"]
  /\ UNCHANGED <<rec, sync, queue, owed, lost, alerts, marked, syncs, manual, deaths>>

Mark(c) ==
  /\ job[c].at = "mark"
  /\ marked' = [marked EXCEPT ![job[c].s] = @ + 1]
  /\ job' = [job EXCEPT ![c].at = "visit"]
  /\ UNCHANGED <<rec, sync, queue, owed, lost, alerts, mails, syncs, manual, deaths>>

\* An alert that cannot be read, written, sent or marked is logged, and the
\* list goes on: it stays as far as it got.
Caught(c) ==
  /\ job[c].at \in {"look", "create", "mail", "mark"}
  /\ job' = [job EXCEPT ![c].at = "visit"]
  /\ UNCHANGED <<rec, sync, queue, owed, lost, alertVars, syncs, manual, deaths>>

EndJob(c) ==
  /\ job[c].at = "visit" /\ job[c].todo = {}
  /\ job' = [job EXCEPT ![c] = NoJob]
  /\ UNCHANGED <<rec, sync, queue, owed, lost, alertVars, syncs, manual, deaths>>

\* The process dies: the job stalls and runs again from its list, once, and
\* what was left of it then is not recalculated.
Dies(c) ==
  /\ job[c].at # "free" /\ deaths < MaxDeaths
  /\ deaths' = deaths + 1
  /\ job' = [job EXCEPT ![c] = NoJob]
  /\ IF job[c].stalls = 0
     THEN queue' = [queue EXCEPT ![1] = @ + 1] /\ UNCHANGED lost
     ELSE lost' = lost \cup (owed \cap job[c].todo) /\ UNCHANGED queue
  /\ UNCHANGED <<rec, sync, owed, alertVars, syncs, manual>>

\* 24 hours later; a job takes minutes, so that none is at work on s.
DayGoesBy(s) ==
  /\ alerts[s] > 0
  /\ \A c \in Consumers : job[c].s # s \/ job[c].at \in {"free", "visit"}
  /\ alerts' = [alerts EXCEPT ![s] = 0]
  /\ mails' = [mails EXCEPT ![s] = 0]
  /\ marked' = [marked EXCEPT ![s] = 0]
  /\ UNCHANGED <<rec, sync, queue, job, owed, lost, syncs, manual, deaths>>

-----------------------------------------------------------------------------
Sync == SyncUsd \/ SyncIpc \/ SyncOthers \/ SyncQueue \/ SyncEnd
Work(c) ==
  \/ TakeJob(c) \/ Recalculate(c) \/ CannotCalculate(c) \/ EndJob(c)
  \/ Look(c) \/ Create(c) \/ Mail(c) \/ Mark(c) \/ Caught(c)

IndicatorsNext ==
  \/ SyncStart \/ Sync \/ SyncFails \/ SyncDies \/ RecordManual
  \/ \E c \in Consumers : Work(c) \/ Dies(c)
  \/ \E s \in Structures : DayGoesBy(s)

\* A job that began goes on, and a job that waits is taken: what BullMQ does
\* while some process of the system is up.
IndicatorsFairness ==
  /\ WF_indicatorVars(Sync)
  /\ \A c \in Consumers : WF_indicatorVars(Work(c))

IndicatorsSpec == IndicatorsInit /\ [][IndicatorsNext]_indicatorVars /\ IndicatorsFairness

-----------------------------------------------------------------------------
\* A margin that fell is told once a day: two jobs that look at the same time
\* may each create the alert, but a job that comes later never does, so that a
\* day has no more alerts than consumers; each alert is written at most once,
\* and marked as sent only when it was (createMarginAlert "idempotente por 24h").
FallIsToldOnce ==
  \A s \in Structures :
    /\ alerts[s] <= Cardinality(Consumers)
    /\ marked[s] <= mails[s] /\ mails[s] <= alerts[s]

\* A jump of an indicator that is recorded ends in the recalculation of every
\* active structure, whatever the other jobs do and whoever dies, but for what
\* the code gives up: the job that recorded the jump failed or died before it
\* queued (its second run sees no jump), the recalculation stalled twice, or
\* the structure could not be calculated.
JumpIsRecalculated == \A s \in Structures : s \in owed ~> (s \notin owed \/ s \in lost)

\* "Trae los ultimos valores externos, incluido CAPIA, los persiste como
\* snapshots" (macro-sync.worker.ts): an index that was fetched is the last
\* record when the job goes on.
EveryFetchedIsRecorded == sync.at = "others" => sync.ipc \in {NoLevel, rec["ipc"]}
=============================================================================
