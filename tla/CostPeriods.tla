---------------------------- MODULE CostPeriods ----------------------------
(***************************************************************************)
(* The costing periods of ONE cost structure: opening the next month,      *)
(* closing it (which freezes its numbers), reopening it, the writes that   *)
(* the application mirrors from the structure into the open period, and    *)
(* the data that arrive for a month that is already closed.                *)
(*                                                                         *)
(* A handler of the API runs in two or more steps: what it reads before    *)
(* its transaction is one step, the transaction is another.  Between them  *)
(* any other request may commit.  What a handler reads and validates       *)
(* INSIDE its transaction belongs to the step of the transaction.          *)
(*                                                                         *)
(* A period is named by its position in the calendar: 1 is the first       *)
(* period of the structure and p + 1 is nextPeriodCode(p).                 *)
(***************************************************************************)
EXTENDS Naturals, FiniteSets

CONSTANTS
  Actors,      \* the requests that may be in flight at the same time
  DataPoints,  \* the traceable data of the structure
  MaxPeriods,  \* bound: periods of the calendar that are ever named
  MaxWrites,   \* bound: writes of the configuration
  MaxReopens,  \* bound: times one period is reopened
  Closing,     \* bound: what is said of the productive centres, see AnyClosing
  MayCrash,    \* can a handler die between two of its writes?
  NoConfig,    \* a period without a configuration or without a frozen result
  NoDatum      \* a request that is not about a data point

Periods == 1 .. MaxPeriods

\* The end of the month of the productive centres: their real activity and real
\* CIP.  "missing" also stands for inputs the engine cannot run on; a structure
\* without productive centres has nothing to load.
AnyClosing == {"missing", "loaded", "no centres"}

\* The inputs of a month.  `rev` identifies the last write they come from;
\* `closing` is the only part of the content that guards an operation, and
\* `thirdParty`, whether there is third-party work, a column with its own rules.
Config == [rev : 0 .. MaxWrites, closing : Closing, thirdParty : BOOLEAN]

\* What a form or a document replaces.  "other" stands for raw material, direct
\* labour and sales, in which no guard looks.
Section == {"indirectCosts", "other"}

Choice == {"CURRENT_PERIOD", "REOPEN", "DISCARD"}
Policy == {"ASK", "CURRENT_PERIOD", "REOPEN"}

ASSUME PeriodsAssumption ==
  /\ MaxPeriods \in Nat \ {0}
  /\ MaxWrites \in Nat
  /\ MaxReopens \in Nat
  /\ Closing \subseteq AnyClosing /\ "missing" \in Closing
  /\ MayCrash \in BOOLEAN
  /\ NoConfig \notin Config
  /\ NoDatum \notin DataPoints

VARIABLES
  structure,  \* cost_structures: the configuration the screen shows and edits
  policy,     \* cost_structures.lateDataPolicy
  status,     \* cost_periods.status, "none" while the row does not exist
  cfg,        \* cost_periods: the period's own copy of the configuration
  frozen,     \* cost_periods.resultSnapshot: the inputs it was computed from
  reopens,    \* cost_periods.reopenCount
  datum,      \* data_points: voidedAt/status and periodoImputado (0 is null)
  decision,   \* late_data_decisions, one per (datum, target period)
  writes,     \* number of configuration writes so far, names the next one
  req,        \* per request: the step it is at and what it has read
  held        \* history: every configuration each period has ever had

db   == <<structure, policy, status, cfg, frozen, reopens, datum, decision>>
vars == <<db, writes, req, held>>

Idle == [at |-> "idle", per |-> 0, cfg |-> NoConfig, d |-> NoDatum,
         choice |-> "DISCARD", section |-> "other"]

Steps == {"idle", "opening", "closing", "reopening", "populating",
          "mirroring", "imputing", "deciding", "reopened"}

Request == [at : Steps, per : 0 .. MaxPeriods, cfg : Config \cup {NoConfig},
            d : DataPoints \cup {NoDatum}, choice : Choice, section : Section]

Decision == [state : {"none", "pending", "resolved"}, open : 0 .. MaxPeriods]

TypeOK ==
  /\ structure \in Config
  /\ policy \in Policy
  /\ status \in [Periods -> {"none", "OPEN", "CLOSED"}]
  /\ cfg \in [Periods -> Config \cup {NoConfig}]
  /\ frozen \in [Periods -> Config \cup {NoConfig}]
  /\ reopens \in [Periods -> 0 .. MaxReopens]
  /\ datum \in [DataPoints -> [state : {"absent", "active", "void"},
                               per : 0 .. MaxPeriods]]
  /\ decision \in [DataPoints \X Periods -> Decision]
  /\ writes \in 0 .. MaxWrites
  /\ req \in [Actors -> Request]
  /\ held \in [Periods -> SUBSET Config]

-----------------------------------------------------------------------------
(* What the handlers read. *)

Existing == {p \in Periods : status[p] # "none"}
Open     == {p \in Periods : status[p] = "OPEN"}

\* findOpenPeriod orders by code descending: the newest of the open ones.
IsOpenPeriod(p) == p \in Open /\ \A q \in Open : q <= p

\* The newest period whatever its status, 0 when the structure has none.
IsLast(l) == /\ l \in Existing \cup {0}
             /\ \A q \in Existing : q <= l

\* Mutant: the newest period is written even when it is closed.
IsWritableEvenClosed(p) == IsLast(p)

\* requireWritablePeriod: the open period; 0 for a structure that never had a
\* period (it is written as before periods existed); refused otherwise.
IsWritable(p) == \/ IsOpenPeriod(p)
                 \/ p = 0 /\ Existing = {}

\* carryOver: the recipe travels, what belongs to the month (movements, real
\* activity, real CIP, quantities) does not; nor does third-party work, which
\* the seed of a period never names.
Carry(c) ==
  [rev |-> c.rev,
   closing |-> IF c.closing = "loaded" THEN "missing" ELSE c.closing,
   thirdParty |-> FALSE]

\* centersMissingClosing finds none, and the engine runs.
Closable(c) == c.closing # "missing"

\* snapshotOf: the first period copies the structure, third-party work aside.
Snapshot(c) == [c EXCEPT !.thirdParty = FALSE]

\* resetStructureTo: everything the seed names; the column of third-party work
\* keeps what it had.
Reset(c, seed) == [seed EXCEPT !.thirdParty = c.thirdParty]

\* A configuration with one section replaced by write number n; `closing` is
\* what the section says of the centres when it is the one of indirect costs.
Saved(c, section, n, closing) ==
  [c EXCEPT !.rev = n,
            !.closing = IF section = "indirectCosts" THEN closing ELSE @]

\* The active data whose period nobody has decided yet.
Unimputed == {d \in DataPoints : datum[d].state = "active" /\ datum[d].per = 0}

-----------------------------------------------------------------------------

Init ==
  /\ structure = [rev |-> 0, closing |-> "missing", thirdParty |-> FALSE]
  /\ policy = "ASK"
  /\ status = [p \in Periods |-> "none"]
  /\ cfg = [p \in Periods |-> NoConfig]
  /\ frozen = [p \in Periods |-> NoConfig]
  /\ reopens = [p \in Periods |-> 0]
  /\ datum = [d \in DataPoints |-> [state |-> "absent", per |-> 0]]
  /\ decision = [k \in DataPoints \X Periods |-> [state |-> "none", open |-> 0]]
  /\ writes = 0
  /\ req = [a \in Actors |-> Idle]
  /\ held = [p \in Periods |-> {}]

Free(a)    == req[a].at = "idle"
At(a, s)   == req[a].at = s
Finish(a)  == req' = [req EXCEPT ![a] = Idle]

\* A period's configuration changes: its history remembers it.
SetConfig(p, c) ==
  /\ cfg' = [cfg EXCEPT ![p] = c]
  /\ held' = [held EXCEPT ![p] = @ \cup {c}]

-----------------------------------------------------------------------------
(* OPEN the next period: openNext. *)

\* Mutant: the new month starts from the whole screen, nothing is reset.
OpenNextReadWhole(a) ==
  /\ Free(a)
  /\ Open = {}
  /\ \E l \in 0 .. MaxPeriods - 1 :
       /\ IsLast(l)
       /\ req' = [req EXCEPT ![a] =
            [Idle EXCEPT !.at = "opening", !.per = l, !.cfg = structure]]
  /\ UNCHANGED <<db, writes, held>>

\* Everything before the transaction: no period may be open, the seed is taken
\* from the newest period (or from the structure when there is none).
OpenNextRead(a) ==
  /\ Free(a)
  /\ Open = {}
  /\ \E l \in 0 .. MaxPeriods - 1 :
       /\ IsLast(l)
       /\ req' = [req EXCEPT ![a] =
            [Idle EXCEPT !.at = "opening", !.per = l,
               !.cfg = IF l = 0 THEN Snapshot(structure) ELSE Carry(cfg[l])]]
  /\ UNCHANGED <<db, writes, held>>

\* Mutant: the screen keeps showing the previous month.
OpenNextCommitKeepsScreen(a) ==
  /\ At(a, "opening")
  /\ status[req[a].per + 1] = "none"
  /\ status' = [status EXCEPT ![req[a].per + 1] = "OPEN"]
  /\ SetConfig(req[a].per + 1, req[a].cfg)
  /\ Finish(a)
  /\ UNCHANGED <<structure, policy, frozen, reopens, datum, decision, writes>>

\* The transaction: insert the period (the unique index on the code refuses a
\* second one) and, unless it is the first, reset the structure to the seed.
OpenNextCommit(a) ==
  /\ At(a, "opening")
  /\ status[req[a].per + 1] = "none"
  /\ status' = [status EXCEPT ![req[a].per + 1] = "OPEN"]
  /\ SetConfig(req[a].per + 1, req[a].cfg)
  /\ structure' = IF req[a].per = 0 THEN structure ELSE Reset(structure, req[a].cfg)
  /\ Finish(a)
  /\ UNCHANGED <<policy, frozen, reopens, datum, decision, writes>>

-----------------------------------------------------------------------------
(* CLOSE a period: close. *)

\* Mutants: the engine runs on the screen; data without a period do not count.
CloseReadOfScreen(a, p) ==
  /\ Free(a)
  /\ status[p] = "OPEN"
  /\ Closable(structure)
  /\ Unimputed = {}
  /\ req' = [req EXCEPT ![a] =
       [Idle EXCEPT !.at = "closing", !.per = p, !.cfg = structure]]
  /\ UNCHANGED <<db, writes, held>>

CloseReadUnchecked(a, p) ==
  /\ Free(a)
  /\ status[p] = "OPEN"
  /\ Closable(cfg[p])
  /\ req' = [req EXCEPT ![a] =
       [Idle EXCEPT !.at = "closing", !.per = p, !.cfg = cfg[p]]]
  /\ UNCHANGED <<db, writes, held>>

\* Everything before the transaction: the checks, and the engine run over the
\* period's own inputs.
CloseRead(a, p) ==
  /\ Free(a)
  /\ status[p] = "OPEN"
  /\ Closable(cfg[p])
  /\ Unimputed = {}
  /\ req' = [req EXCEPT ![a] =
       [Idle EXCEPT !.at = "closing", !.per = p, !.cfg = cfg[p]]]
  /\ UNCHANGED <<db, writes, held>>

CloseCommit(a) ==
  /\ At(a, "closing")
  /\ status' = [status EXCEPT ![req[a].per] = "CLOSED"]
  /\ frozen' = [frozen EXCEPT ![req[a].per] = req[a].cfg]
  /\ Finish(a)
  /\ UNCHANGED <<structure, policy, cfg, reopens, datum, decision, writes, held>>

-----------------------------------------------------------------------------
(* REOPEN a period: reopen.  The frozen result stays in the row. *)

ReopenRead(a, p) ==
  /\ Free(a)
  /\ status[p] = "CLOSED"
  /\ req' = [req EXCEPT ![a] = [Idle EXCEPT !.at = "reopening", !.per = p]]
  /\ UNCHANGED <<db, writes, held>>

\* The update both ways of reopening make: unconditional, whatever the status
\* of the period (and of the others) has become.
MarkReopened(p) ==
  /\ reopens[p] < MaxReopens
  /\ status' = [status EXCEPT ![p] = "OPEN"]
  /\ reopens' = [reopens EXCEPT ![p] = @ + 1]

ReopenCommit(a) ==
  /\ At(a, "reopening")
  /\ MarkReopened(req[a].per)
  /\ Finish(a)
  /\ UNCHANGED <<structure, policy, cfg, frozen, datum, decision, writes, held>>

-----------------------------------------------------------------------------
(* WRITE the configuration. *)

\* updateConfig and updateSales.  One transaction: the writable period is looked
\* up inside it, and the structure and that period receive the same section.
SaveConfig(a) ==
  /\ Free(a)
  /\ writes < MaxWrites
  /\ \E p \in 0 .. MaxPeriods, section \in Section, closing \in Closing :
       /\ IsWritable(p)
       /\ structure' = Saved(structure, section, writes + 1, closing)
       /\ IF p = 0 THEN UNCHANGED <<cfg, held>>
          ELSE SetConfig(p, Saved(cfg[p], section, writes + 1, closing))
  /\ writes' = writes + 1
  /\ UNCHANGED <<policy, status, frozen, reopens, datum, decision, req>>

\* The same for the column of third-party work.
UpdateThirdPartyWork(a) ==
  /\ Free(a)
  /\ writes < MaxWrites
  /\ \E p \in 0 .. MaxPeriods, some \in BOOLEAN :
       LET Updated(c) == [c EXCEPT !.rev = writes + 1, !.thirdParty = some] IN
       /\ IsWritable(p)
       /\ structure' = Updated(structure)
       /\ IF p = 0 THEN UNCHANGED <<cfg, held>> ELSE SetConfig(p, Updated(cfg[p]))
  /\ writes' = writes + 1
  /\ UNCHANGED <<policy, status, frozen, reopens, datum, decision, req>>

\* An approved document: populateCostStructureFromApproval reads the structure
\* first, ...
PopulateRead(a) ==
  /\ Free(a)
  /\ req' = [req EXCEPT ![a] =
       [Idle EXCEPT !.at = "populating", !.cfg = structure]]
  /\ UNCHANGED <<db, writes, held>>

\* ... adds what the document brings to the section it had read, writes it to
\* the structure outside any transaction if the month is writable, ...
PopulateStructure(a) ==
  /\ At(a, "populating")
  /\ writes < MaxWrites
  /\ \E p \in 0 .. MaxPeriods, section \in Section :
       LET c == Saved(structure, section, writes + 1, req[a].cfg.closing) IN
       /\ IsWritable(p)
       /\ structure' = c
       /\ req' = [req EXCEPT ![a] =
            IF p = 0 THEN Idle
            ELSE [Idle EXCEPT !.at = "mirroring", !.per = p, !.cfg = c,
                              !.section = section]]
  /\ writes' = writes + 1
  /\ UNCHANGED <<policy, status, cfg, frozen, reopens, datum, decision, held>>

\* ... and then mirrors it into the period it had found.
PopulateMirror(a) ==
  /\ At(a, "mirroring")
  /\ LET p == req[a].per  c == req[a].cfg IN
     SetConfig(p, Saved(cfg[p], req[a].section, c.rev, c.closing))
  /\ Finish(a)
  /\ UNCHANGED <<structure, policy, status, frozen, reopens, datum, decision,
                 writes>>

UpdateLateDataPolicy(a, pol) ==
  /\ Free(a)
  /\ policy # pol
  /\ policy' = pol
  /\ UNCHANGED <<structure, status, cfg, frozen, reopens, datum, decision,
                 writes, req, held>>

-----------------------------------------------------------------------------
(* DATA POINTS and their period. *)

CreateDatum(a, d) ==
  /\ Free(a)
  /\ datum[d].state = "absent"
  /\ datum' = [datum EXCEPT ![d].state = "active"]
  /\ UNCHANGED <<structure, policy, status, cfg, frozen, reopens, decision,
                 writes, req, held>>

VoidDatum(a, d) ==
  /\ Free(a)
  /\ datum[d].state = "active"
  /\ datum' = [datum EXCEPT ![d].state = "void"]
  /\ UNCHANGED <<structure, policy, status, cfg, frozen, reopens, decision,
                 writes, req, held>>

\* Mutant: a closed month is imputed like any other.
ImputeReadAnyMonth(a, d, p) ==
  /\ Free(a)
  /\ datum[d].state # "absent"
  /\ req' = [req EXCEPT ![a] =
       [Idle EXCEPT !.at = "imputing", !.per = p, !.d = d]]
  /\ UNCHANGED <<db, writes, held>>

\* imputar, the period is not closed: the transaction follows.
ImputeRead(a, d, p) ==
  /\ Free(a)
  /\ datum[d].state # "absent"
  /\ status[p] # "CLOSED"
  /\ req' = [req EXCEPT ![a] =
       [Idle EXCEPT !.at = "imputing", !.per = p, !.d = d]]
  /\ UNCHANGED <<db, writes, held>>

ImputeCommit(a) ==
  /\ At(a, "imputing")
  /\ datum' = [datum EXCEPT ![req[a].d].per = req[a].per]
  /\ Finish(a)
  /\ UNCHANGED <<structure, policy, status, cfg, frozen, reopens, decision,
                 writes, held>>

\* Mutant: a decision that exists is asked again.
ImputeLateAgain(a, d, p) ==
  /\ Free(a)
  /\ datum[d].state # "absent"
  /\ status[p] = "CLOSED"
  /\ \E o \in 0 .. MaxPeriods :
       /\ o \in Open \/ (o = 0 /\ Open = {})
       /\ decision' = [decision EXCEPT ![<<d, p>>] = [state |-> "pending", open |-> o]]
  /\ UNCHANGED <<structure, policy, status, cfg, frozen, reopens, datum,
                 writes, req, held>>

\* imputar, the period is closed: LateDataService.handle.  A decision already
\* taken or pending is answered as it is; a new one is recorded with the period
\* that is open now (any of them: the query has no order) and the policy of the
\* structure may decide at once.
ImputeLate(a, d, p) ==
  /\ Free(a)
  /\ datum[d].state # "absent"
  /\ status[p] = "CLOSED"
  /\ decision[<<d, p>>].state = "none"
  /\ \E o \in 0 .. MaxPeriods :
       /\ o \in Open \/ (o = 0 /\ Open = {})
       /\ decision' = [decision EXCEPT ![<<d, p>>] = [state |-> "pending", open |-> o]]
       /\ req' = [req EXCEPT ![a] =
            IF policy = "REOPEN" \/ (policy = "CURRENT_PERIOD" /\ o # 0)
            THEN [Idle EXCEPT !.at = "deciding", !.per = p, !.d = d,
                              !.choice = policy]
            ELSE Idle]
  /\ UNCHANGED <<structure, policy, status, cfg, frozen, reopens, datum,
                 writes, held>>

-----------------------------------------------------------------------------
(* DECIDE about a late datum: resolve and apply. *)

ResolveRead(a, d, p, ch) ==
  /\ Free(a)
  /\ decision[<<d, p>>].state = "pending"
  /\ req' = [req EXCEPT ![a] =
       [Idle EXCEPT !.at = "deciding", !.per = p, !.d = d, !.choice = ch]]
  /\ UNCHANGED <<db, writes, held>>

\* REOPEN first reopens the target, on its own; the repropagation of the
\* process inventories comes next and the transaction last.
ApplyReopen(a) ==
  /\ At(a, "deciding")
  /\ req[a].choice = "REOPEN"
  /\ MarkReopened(req[a].per)
  /\ req' = [req EXCEPT ![a].at = "reopened"]
  /\ UNCHANGED <<structure, policy, cfg, frozen, datum, decision, writes, held>>

\* Where the datum goes: the target, or the period that was open when the
\* conflict was DETECTED (perhaps none), or nowhere.
Destination(d, p, ch) ==
  CASE ch = "REOPEN"         -> p
    [] ch = "CURRENT_PERIOD" -> decision[<<d, p>>].open
    [] ch = "DISCARD"        -> 0

ApplyCommit(a) ==
  LET d == req[a].d  p == req[a].per  ch == req[a].choice
      to == Destination(d, p, ch) IN
  /\ At(a, "reopened") \/ (At(a, "deciding") /\ ch # "REOPEN")
  /\ datum' = [datum EXCEPT
       ![d] = CASE ch = "DISCARD" -> [@ EXCEPT !.state = "void"]
                [] ch # "DISCARD" -> IF to = 0 THEN @ ELSE [@ EXCEPT !.per = to]]
  /\ decision' = [decision EXCEPT ![<<d, p>>].state = "resolved"]
  /\ Finish(a)
  /\ UNCHANGED <<structure, policy, status, cfg, frozen, reopens, writes, held>>

-----------------------------------------------------------------------------
(* A handler that throws, or whose process dies, between two steps. *)

Written == {"mirroring", "reopened"}  \* steps with a write already committed

Abandon(a) ==
  /\ ~ Free(a)
  /\ req[a].at \in Written => MayCrash
  /\ Finish(a)
  /\ UNCHANGED <<db, writes, held>>

Next ==
  \E a \in Actors :
    \/ OpenNextRead(a) \/ OpenNextCommit(a)
    \/ \E p \in Periods : CloseRead(a, p) \/ ReopenRead(a, p)
    \/ CloseCommit(a) \/ ReopenCommit(a)
    \/ SaveConfig(a) \/ UpdateThirdPartyWork(a)
    \/ PopulateRead(a) \/ PopulateStructure(a) \/ PopulateMirror(a)
    \/ \E pol \in Policy : UpdateLateDataPolicy(a, pol)
    \/ \E d \in DataPoints : CreateDatum(a, d) \/ VoidDatum(a, d)
    \/ \E d \in DataPoints, p \in Periods : ImputeRead(a, d, p) \/ ImputeLate(a, d, p)
    \/ ImputeCommit(a)
    \/ \E d \in DataPoints, p \in Periods, ch \in Choice : ResolveRead(a, d, p, ch)
    \/ ApplyReopen(a) \/ ApplyCommit(a)
    \/ Abandon(a)

Spec == Init /\ [][Next]_vars

-----------------------------------------------------------------------------
(* PROPERTIES that hold however the requests interleave. *)

\* The numbers frozen in a period were computed from inputs that this very
\* period held, complete for closing, and a closed period has frozen numbers:
\* close runs the engine on the period and never on the structure, which by
\* then may show another month.
FrozenIsOwnInputs ==
  \A p \in Periods :
    /\ status[p] = "CLOSED" => frozen[p] # NoConfig
    /\ frozen[p] # NoConfig => frozen[p] \in held[p] /\ Closable(frozen[p])

\* A period other than the first is born right after an existing one, with the
\* carry-over of inputs that THAT period held: openNext reads the predecessor
\* before its transaction, and the unique code makes a stale opening fail
\* instead of opening a month seeded from the wrong one.
OpeningCarriesPredecessor ==
  [][\A p \in Periods \ {1} :
       status[p] = "none" /\ status'[p] # "none" =>
         /\ status[p - 1] # "none"
         /\ \E c \in held[p - 1] : cfg'[p] = Carry(c)]_vars

\* The conflict of a datum with a closed month is asked once: a decision never
\* disappears, never goes back to pending, and keeps offering the period that
\* was open when it was detected.
NeverAskedTwice ==
  [][\A k \in DataPoints \X Periods :
       /\ decision[k].state # "none" => decision'[k].open = decision[k].open
       /\ decision[k].state = "resolved" => decision'[k].state = "resolved"
       /\ decision[k].state = "pending" => decision'[k].state # "none"]_vars

-----------------------------------------------------------------------------
(* PROPERTIES of long sequences of requests that do not overlap. *)

\* What a closed period shows as frozen is the result of the inputs it still
\* has: neither a form, nor a document, nor the opening of another month nor a
\* late datum edits a month between its closing and its reopening.
FrozenMatchesInputs ==
  \A p \in Periods : status[p] = "CLOSED" => frozen[p] = cfg[p]

\* The newest period is open, was never reopened, and no document is half way
\* between the structure and the period.
OnScreen(p) == /\ IsLast(p) /\ status[p] = "OPEN" /\ reopens[p] = 0
               /\ \A a \in Actors : ~ At(a, "mirroring")

\* The screen (the structure) then shows exactly the inputs that closing that
\* period will freeze; third-party work aside, which no seed names.
ScreenMirrorsOpenPeriod ==
  \A p \in Periods : OnScreen(p) => Snapshot(structure) = Snapshot(cfg[p])

\* Closing never consolidates a month while an active datum of the structure
\* has no period yet.
ClosesWithEverythingImputed ==
  [][\A p \in Periods :
       status[p] # "CLOSED" /\ status'[p] = "CLOSED" => Unimputed = {}]_vars

\* A datum enters a month that is closed only as the answer to a decision about
\* that datum, taken in the same step.
ClosedMonthOnlyByDecision ==
  [][\A d \in DataPoints, p \in Periods :
       datum'[d].per = p /\ datum[d].per # p /\ status[p] = "CLOSED" =>
         \E t \in Periods : /\ decision[<<d, t>>].state = "pending"
                            /\ decision'[<<d, t>>].state = "resolved"]_vars

-----------------------------------------------------------------------------
(* What the documentation states and the code does not keep. *)

\* "A structure has at most ONE open period at a time."
AtMostOneOpen == \A p, q \in Open : p = q

\* "While the decision is pending the datum enters no calculation", by the rule
\* of a datum without a period: an active datum whose decision is pending is not
\* imputed to some month other than the one being asked about.
PendingStaysOut ==
  \A d \in DataPoints, p \in Periods :
    decision[<<d, p>>].state = "pending" /\ datum[d].state = "active"
      => datum[d].per \in {0, p}

=============================================================================
