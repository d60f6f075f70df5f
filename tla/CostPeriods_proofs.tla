------------------------- MODULE CostPeriods_proofs -------------------------
(***************************************************************************)
(* Proofs about CostPeriods, for any requests, data, bounds and crashes.   *)
(*                                                                         *)
(* The inductive invariant says what a request that is in flight may still *)
(* rely on when its transaction runs, although other requests committed    *)
(* after it read: the facts that no later commit can take back.  The last  *)
(* two parts are about one request at a time, where what was read is still *)
(* true, and the months and the screen agree.                              *)
(*                                                                         *)
(* And proofs about Calendar: for every date, every rhythm and any number  *)
(* of structures, the periods openNext makes one after the other tile the  *)
(* days.  First the arithmetic of dates (what Date.UTC and getUTCMonth     *)
(* give each other), then the codes of each rhythm, and then the chain of  *)
(* the periods of a structure, which every action keeps.                   *)
(***************************************************************************)
EXTENDS CostPeriods, Calendar, WellFoundedInduction, TLAPS

\* A period that exists never stops existing and holds its configuration.
PeriodsInv ==
  \A p \in Periods : status[p] # "none" => cfg[p] \in held[p]

\* A conflict is only recorded about a period that exists.
DecisionsInv ==
  \A d \in DataPoints, p \in Periods :
    decision[<<d, p>>].state # "none" => status[p] # "none"

\* What a request read is still something its period held.
OpeningInv(a) ==
  At(a, "opening") =>
    /\ req[a].per \in 0 .. MaxPeriods - 1
    /\ req[a].cfg \in Config
    /\ req[a].per # 0 => /\ status[req[a].per] # "none"
                         /\ \E c \in held[req[a].per] : req[a].cfg = Carry(c)

ClosingInv(a) ==
  At(a, "closing") =>
    /\ req[a].per \in Periods
    /\ status[req[a].per] # "none"
    /\ req[a].cfg \in held[req[a].per]
    /\ Closable(req[a].cfg)

\* The requests that only need their period to exist, and their datum.
PeriodNeeded == {"reopening", "deciding", "reopened", "mirroring"}
DatumNeeded  == {"imputing", "deciding", "reopened"}
ConfigNeeded == {"populating", "mirroring"}

NeedsInv(a) ==
  /\ req[a].at \in PeriodNeeded =>
       req[a].per \in Periods /\ status[req[a].per] # "none"
  /\ req[a].at \in DatumNeeded => req[a].d \in DataPoints /\ req[a].per \in Periods
  /\ req[a].at \in ConfigNeeded => req[a].cfg \in Config

IInv ==
  /\ TypeOK
  /\ PeriodsInv
  /\ DecisionsInv
  /\ FrozenIsOwnInputs
  /\ \A a \in Actors : OpeningInv(a) /\ ClosingInv(a) /\ NeedsInv(a)

-----------------------------------------------------------------------------
(* What every step keeps. *)

\* Periods do not disappear and their history only grows.
Monotone ==
  \A p \in Periods : /\ status[p] # "none" => status'[p] # "none"
                     /\ held[p] \subseteq held'[p]

\* The facts about one request.
RequestInv(a) == OpeningInv(a) /\ ClosingInv(a) /\ NeedsInv(a)

\* A request at rest is well typed and relies on nothing.
LEMMA IdleFacts ==
  /\ Idle \in Request
  /\ Idle.at = "idle"
BY PeriodsAssumption DEF Idle, Request, Steps, Choice, Section

\* Opening a month makes configurations out of configurations, ...
LEMMA CarryFacts ==
  ASSUME NEW c \in Config
  PROVE  /\ Carry(c) \in Config
         /\ Snapshot(c) \in Config
         /\ \A seed \in Config : Reset(c, seed) \in Config
BY PeriodsAssumption DEF Carry, Snapshot, Reset, Config

\* ... and so does saving a section.
LEMMA SavedFacts ==
  ASSUME NEW c \in Config, NEW section, NEW n \in 0 .. MaxWrites, NEW closing \in Closing
  PROVE  Saved(c, section, n, closing) \in Config
BY DEF Saved, Config

\* A period that exists holds a configuration.
LEMMA ExistingHasConfig ==
  ASSUME IInv, NEW p \in Periods, status[p] # "none"
  PROVE  cfg[p] \in held[p] /\ cfg[p] \in Config
BY DEF IInv, PeriodsInv, TypeOK

\* The requests that a step does not move keep their facts: those are only
\* about things that no step takes back.
LEMMA OthersKeep ==
  ASSUME IInv, Monotone, NEW b \in Actors, req'[b] = req[b]
  PROVE  RequestInv(b)'
<1>1. RequestInv(b)
  BY DEF IInv, RequestInv
<1>2. OpeningInv(b)'
  <2>1. CASE At(b, "opening")
    <3>1. req[b].per \in 0 .. MaxPeriods - 1 /\ req[b].cfg \in Config
      BY <1>1, <2>1 DEF RequestInv, OpeningInv
    <3>2. req[b].per # 0 => /\ req[b].per \in Periods
                            /\ status[req[b].per] # "none"
                            /\ \E c \in held[req[b].per] : req[b].cfg = Carry(c)
      BY <1>1, <2>1, <3>1, PeriodsAssumption DEF RequestInv, OpeningInv, Periods
    <3>3. req[b].per # 0 => /\ status'[req[b].per] # "none"
                            /\ \E c \in held'[req[b].per] : req[b].cfg = Carry(c)
      BY <3>2 DEF Monotone
    <3> QED BY <3>1, <3>3 DEF OpeningInv, At, Carry
  <2>2. CASE ~ At(b, "opening")
    BY <2>2 DEF OpeningInv, At
  <2> QED BY <2>1, <2>2
<1>3. ClosingInv(b)'
  BY <1>1 DEF RequestInv, ClosingInv, At, Monotone
<1>4. NeedsInv(b)'
  BY <1>1 DEF RequestInv, NeedsInv, At, Monotone, PeriodNeeded, DatumNeeded, ConfigNeeded
<1> QED BY <1>2, <1>3, <1>4 DEF RequestInv

\* A step that only moves one request is safe when it leaves that request with
\* its facts.
LEMMA ReadStep ==
  ASSUME IInv, NEW a \in Actors, NEW r \in Request,
         req' = [req EXCEPT ![a] = r],
         UNCHANGED <<db, writes, held>>,
         RequestInv(a)'
  PROVE  IInv'
<1>1. TypeOK'
  BY DEF IInv, TypeOK, db
<1>2. PeriodsInv' /\ DecisionsInv' /\ FrozenIsOwnInputs'
  BY DEF IInv, PeriodsInv, DecisionsInv, FrozenIsOwnInputs, db
<1>3. Monotone
  BY DEF Monotone, db
<1>4. ASSUME NEW b \in Actors PROVE RequestInv(b)'
  <2>1. CASE b = a
    BY <2>1
  <2>2. CASE b # a
    <3>1. req'[b] = req[b]
      BY <2>2 DEF IInv, TypeOK
    <3> QED BY <1>3, <3>1, OthersKeep
  <2> QED BY <2>1, <2>2
<1> QED BY <1>1, <1>2, <1>4 DEF IInv, RequestInv

\* A step that writes and leaves its request at rest or with its facts.
LEMMA WriteStep ==
  ASSUME IInv, NEW a \in Actors, NEW r \in Request,
         req' = [req EXCEPT ![a] = r],
         TypeOK', Monotone, PeriodsInv', DecisionsInv', FrozenIsOwnInputs',
         RequestInv(a)'
  PROVE  IInv'
<1>1. ASSUME NEW b \in Actors PROVE RequestInv(b)'
  <2>1. CASE b = a
    BY <2>1
  <2>2. CASE b # a
    <3>1. req'[b] = req[b]
      BY <2>2 DEF IInv, TypeOK
    <3> QED BY <3>1, OthersKeep
  <2> QED BY <2>1, <2>2
<1> QED BY <1>1 DEF IInv, RequestInv

\* A request that ends has nothing left to rely on.
LEMMA FinishedRequest ==
  ASSUME IInv, NEW a \in Actors, Finish(a)
  PROVE  /\ req' = [req EXCEPT ![a] = Idle]
         /\ req' \in [Actors -> Request]
         /\ RequestInv(a)'
<1>1. req' = [req EXCEPT ![a] = Idle] /\ req'[a] = Idle /\ req' \in [Actors -> Request]
  BY IdleFacts DEF Finish, IInv, TypeOK
<1> QED BY <1>1, IdleFacts
  DEF RequestInv, OpeningInv, ClosingInv, NeedsInv, At, PeriodNeeded, DatumNeeded, ConfigNeeded

-----------------------------------------------------------------------------
(* The steps that only read. *)

LEMMA OpenNextReadStep ==
  ASSUME IInv, NEW a \in Actors, OpenNextRead(a)
  PROVE  IInv'
<1>1. PICK l \in 0 .. MaxPeriods - 1 :
        /\ IsLast(l)
        /\ req' = [req EXCEPT ![a] =
             [Idle EXCEPT !.at = "opening", !.per = l,
                !.cfg = IF l = 0 THEN Snapshot(structure) ELSE Carry(cfg[l])]]
        /\ UNCHANGED <<db, writes, held>>
  BY DEF OpenNextRead
<1> DEFINE c == IF l = 0 THEN Snapshot(structure) ELSE Carry(cfg[l])
           r == [Idle EXCEPT !.at = "opening", !.per = l, !.cfg = c]
<1>2. l # 0 => /\ l \in Periods
               /\ status[l] # "none"
               /\ cfg[l] \in held[l]
               /\ cfg[l] \in Config
  BY <1>1, PeriodsAssumption DEF IInv, PeriodsInv, TypeOK, IsLast, Existing, Periods
<1>3. c \in Config
  BY <1>2, CarryFacts DEF IInv, TypeOK
<1>4. r \in Request /\ r.at = "opening" /\ r.per = l /\ r.cfg = c
  <2> HIDE DEF c
  <2>1. l \in 0 .. MaxPeriods
    BY PeriodsAssumption
  <2> QED BY <1>3, <2>1, PeriodsAssumption DEF Idle, Request, Steps, Choice, Section
<1>5. req'[a] = r
  BY <1>1 DEF IInv, TypeOK
<1>6. RequestInv(a)'
  <2> HIDE DEF r
  <2>1. OpeningInv(a)'
    BY <1>1, <1>2, <1>3, <1>4, <1>5 DEF OpeningInv, At, db
  <2> QED BY <1>4, <1>5, <2>1
       DEF RequestInv, ClosingInv, NeedsInv, At, PeriodNeeded, DatumNeeded, ConfigNeeded
<1> QED BY <1>1, <1>4, <1>6, ReadStep

LEMMA CloseReadStep ==
  ASSUME IInv, NEW a \in Actors, NEW p \in Periods, CloseRead(a, p)
  PROVE  IInv'
<1> DEFINE r == [Idle EXCEPT !.at = "closing", !.per = p, !.cfg = cfg[p]]
<1>1. /\ status[p] = "OPEN" /\ Closable(cfg[p])
      /\ req' = [req EXCEPT ![a] = r]
      /\ UNCHANGED <<db, writes, held>>
  BY DEF CloseRead
<1>2. cfg[p] \in held[p] /\ cfg[p] \in Config
  BY <1>1 DEF IInv, PeriodsInv, TypeOK
<1>3. r \in Request /\ r.at = "closing" /\ r.per = p /\ r.cfg = cfg[p]
  <2>1. p \in 0 .. MaxPeriods
    BY PeriodsAssumption DEF Periods
  <2> QED BY <1>2, <2>1 DEF Idle, Request, Steps, Choice, Section
<1>4. req'[a] = r
  BY <1>1 DEF IInv, TypeOK
<1>5. RequestInv(a)'
  <2> HIDE DEF r
  <2> QED BY <1>1, <1>2, <1>3, <1>4
       DEF RequestInv, OpeningInv, ClosingInv, NeedsInv, At, db, PeriodNeeded,
       DatumNeeded, ConfigNeeded
<1> QED BY <1>1, <1>3, <1>5, ReadStep

\* A request that starts with a period, a datum or a configuration it found.
LEMMA StartStep ==
  ASSUME IInv, NEW a \in Actors, NEW r \in Request,
         r.at \notin {"opening", "closing"},
         r.at \in PeriodNeeded => r.per \in Periods /\ status[r.per] # "none",
         r.at \in DatumNeeded => r.per \in Periods /\ r.d \in DataPoints,
         r.at \in ConfigNeeded => r.cfg \in Config,
         req' = [req EXCEPT ![a] = r],
         UNCHANGED <<db, writes, held>>
  PROVE  IInv'
<1>1. req'[a] = r
  BY DEF IInv, TypeOK
<1>2. RequestInv(a)'
  BY <1>1 DEF RequestInv, OpeningInv, ClosingInv, NeedsInv, At, db
<1> QED BY <1>2, ReadStep

LEMMA ReopenReadStep ==
  ASSUME IInv, NEW a \in Actors, NEW p \in Periods, ReopenRead(a, p)
  PROVE  IInv'
<1> DEFINE r == [Idle EXCEPT !.at = "reopening", !.per = p]
<1>1. /\ status[p] = "CLOSED"
      /\ req' = [req EXCEPT ![a] = r]
      /\ UNCHANGED <<db, writes, held>>
  BY DEF ReopenRead
<1>2. p \in 0 .. MaxPeriods
  BY PeriodsAssumption DEF Periods
<1>3. r \in Request /\ r.at = "reopening" /\ r.per = p
  BY <1>2 DEF Idle, Request, Steps, Choice, Section
<1> HIDE DEF r
<1> QED BY <1>1, <1>3, StartStep DEF PeriodNeeded, DatumNeeded, ConfigNeeded

LEMMA PopulateReadStep ==
  ASSUME IInv, NEW a \in Actors, PopulateRead(a)
  PROVE  IInv'
<1> DEFINE r == [Idle EXCEPT !.at = "populating", !.cfg = structure]
<1>1. req' = [req EXCEPT ![a] = r] /\ UNCHANGED <<db, writes, held>>
  BY DEF PopulateRead
<1>2. structure \in Config
  BY DEF IInv, TypeOK
<1>3. r \in Request /\ r.at = "populating" /\ r.cfg = structure
  <2>1. 0 \in 0 .. MaxPeriods
    BY PeriodsAssumption
  <2> QED BY <1>2, <2>1 DEF Idle, Request, Steps, Choice, Section
<1> HIDE DEF r
<1> QED BY <1>1, <1>2, <1>3, StartStep DEF PeriodNeeded, DatumNeeded, ConfigNeeded

LEMMA ImputeReadStep ==
  ASSUME IInv, NEW a \in Actors, NEW d \in DataPoints, NEW p \in Periods,
         ImputeRead(a, d, p)
  PROVE  IInv'
<1> DEFINE r == [Idle EXCEPT !.at = "imputing", !.per = p, !.d = d]
<1>1. req' = [req EXCEPT ![a] = r] /\ UNCHANGED <<db, writes, held>>
  BY DEF ImputeRead
<1>2. p \in 0 .. MaxPeriods
  BY PeriodsAssumption DEF Periods
<1>3. r \in Request /\ r.at = "imputing" /\ r.per = p /\ r.d = d
  BY <1>2 DEF Idle, Request, Steps, Choice, Section
<1> HIDE DEF r
<1> QED BY <1>1, <1>3, StartStep DEF PeriodNeeded, DatumNeeded, ConfigNeeded

LEMMA ResolveReadStep ==
  ASSUME IInv, NEW a \in Actors, NEW d \in DataPoints, NEW p \in Periods,
         NEW ch \in Choice, ResolveRead(a, d, p, ch)
  PROVE  IInv'
<1> DEFINE r == [Idle EXCEPT !.at = "deciding", !.per = p, !.d = d, !.choice = ch]
<1>1. /\ req' = [req EXCEPT ![a] = r]
      /\ UNCHANGED <<db, writes, held>>
      /\ status[p] # "none"
  BY DEF ResolveRead, IInv, DecisionsInv
<1>2. p \in 0 .. MaxPeriods
  BY PeriodsAssumption DEF Periods
<1>3. r \in Request /\ r.at = "deciding" /\ r.per = p /\ r.d = d
  BY <1>2 DEF Idle, Request, Steps, Choice, Section
<1> HIDE DEF r
<1> QED BY <1>1, <1>3, StartStep DEF PeriodNeeded, DatumNeeded, ConfigNeeded

LEMMA AbandonStep ==
  ASSUME IInv, NEW a \in Actors, Abandon(a)
  PROVE  IInv'
<1>1. Finish(a) /\ UNCHANGED <<db, writes, held>>
  BY DEF Abandon
<1> QED BY <1>1, IdleFacts, FinishedRequest, ReadStep

-----------------------------------------------------------------------------
(* The steps that write. *)

LEMMA OpenNextCommitStep ==
  ASSUME IInv, NEW a \in Actors, OpenNextCommit(a)
  PROVE  IInv'
<1> DEFINE p == req[a].per + 1
           c == req[a].cfg
<1>1. p \in Periods /\ c \in Config
  BY PeriodsAssumption DEF IInv, OpeningInv, OpenNextCommit, Periods
<1>2. /\ status[p] = "none"
      /\ status' = [status EXCEPT ![p] = "OPEN"]
      /\ cfg' = [cfg EXCEPT ![p] = c]
      /\ held' = [held EXCEPT ![p] = @ \cup {c}]
      /\ structure' = IF req[a].per = 0 THEN structure ELSE Reset(structure, c)
      /\ Finish(a)
      /\ UNCHANGED <<policy, frozen, reopens, datum, decision, writes>>
  BY DEF OpenNextCommit, SetConfig
<1> HIDE DEF p, c
<1>3. TypeOK'
  <2>1. structure' \in Config
    BY <1>1, <1>2, CarryFacts DEF IInv, TypeOK
  <2> QED BY <1>1, <1>2, <2>1, FinishedRequest DEF IInv, TypeOK
<1>4. Monotone
  BY <1>1, <1>2 DEF IInv, TypeOK, Monotone
<1>5. PeriodsInv' /\ DecisionsInv'
  BY <1>1, <1>2 DEF IInv, TypeOK, PeriodsInv, DecisionsInv
<1>6. FrozenIsOwnInputs'
  BY <1>1, <1>2 DEF IInv, TypeOK, FrozenIsOwnInputs
<1> QED BY <1>2, <1>3, <1>4, <1>5, <1>6, IdleFacts, FinishedRequest, WriteStep

LEMMA CloseCommitStep ==
  ASSUME IInv, NEW a \in Actors, CloseCommit(a)
  PROVE  IInv'
<1> DEFINE p == req[a].per
           c == req[a].cfg
<1>1. /\ p \in Periods /\ status[p] # "none"
      /\ c \in held[p] /\ c \in Config /\ Closable(c)
  BY DEF IInv, ClosingInv, CloseCommit, TypeOK
<1>2. /\ status' = [status EXCEPT ![p] = "CLOSED"]
      /\ frozen' = [frozen EXCEPT ![p] = c]
      /\ Finish(a)
      /\ UNCHANGED <<structure, policy, cfg, reopens, datum, decision, writes, held>>
  BY DEF CloseCommit
<1> HIDE DEF p, c
<1>3. TypeOK'
  BY <1>1, <1>2, FinishedRequest DEF IInv, TypeOK
<1>4. Monotone
  BY <1>1, <1>2 DEF IInv, TypeOK, Monotone
<1>5. PeriodsInv' /\ DecisionsInv'
  BY <1>1, <1>2 DEF IInv, TypeOK, PeriodsInv, DecisionsInv
<1>6. FrozenIsOwnInputs'
  BY <1>1, <1>2, PeriodsAssumption DEF IInv, TypeOK, FrozenIsOwnInputs
<1> QED BY <1>2, <1>3, <1>4, <1>5, <1>6, IdleFacts, FinishedRequest, WriteStep

\* Reopening a period that exists keeps everything about the periods.
LEMMA MarkReopenedFacts ==
  ASSUME IInv, NEW p \in Periods, status[p] # "none", MarkReopened(p),
         UNCHANGED <<cfg, frozen, decision, held>>
  PROVE  /\ status' \in [Periods -> {"none", "OPEN", "CLOSED"}]
         /\ reopens' \in [Periods -> 0 .. MaxReopens]
         /\ Monotone /\ PeriodsInv' /\ DecisionsInv' /\ FrozenIsOwnInputs'
<1>1. /\ status' = [status EXCEPT ![p] = "OPEN"]
      /\ reopens' = [reopens EXCEPT ![p] = @ + 1] /\ reopens[p] < MaxReopens
  BY DEF MarkReopened
<1>2. status' \in [Periods -> {"none", "OPEN", "CLOSED"}]
  BY <1>1 DEF IInv, TypeOK
<1>3. reopens' \in [Periods -> 0 .. MaxReopens]
  BY <1>1, PeriodsAssumption DEF IInv, TypeOK
<1>4. Monotone /\ PeriodsInv' /\ DecisionsInv' /\ FrozenIsOwnInputs'
  BY <1>1 DEF IInv, TypeOK, Monotone, PeriodsInv, DecisionsInv, FrozenIsOwnInputs
<1> QED BY <1>2, <1>3, <1>4

LEMMA ReopenCommitStep ==
  ASSUME IInv, NEW a \in Actors, ReopenCommit(a)
  PROVE  IInv'
<1> DEFINE p == req[a].per
<1>1. p \in Periods /\ status[p] # "none"
  BY DEF IInv, NeedsInv, ReopenCommit, At, PeriodNeeded
<1>2. /\ MarkReopened(p) /\ Finish(a)
      /\ UNCHANGED <<structure, policy, cfg, frozen, datum, decision, writes, held>>
  BY DEF ReopenCommit
<1> HIDE DEF p
<1>3. /\ status' \in [Periods -> {"none", "OPEN", "CLOSED"}]
      /\ reopens' \in [Periods -> 0 .. MaxReopens]
      /\ Monotone /\ PeriodsInv' /\ DecisionsInv' /\ FrozenIsOwnInputs'
  BY <1>1, <1>2, MarkReopenedFacts
<1>4. TypeOK'
  BY <1>2, <1>3, FinishedRequest DEF IInv, TypeOK
<1> QED BY <1>2, <1>3, <1>4, IdleFacts, FinishedRequest, WriteStep

\* Writing a configuration into a period only adds to its history.
LEMMA SetConfigFacts ==
  ASSUME IInv, NEW p \in Periods, NEW c \in Config, SetConfig(p, c),
         UNCHANGED <<status, frozen, decision>>
  PROVE  /\ cfg' \in [Periods -> Config \cup {NoConfig}]
         /\ held' \in [Periods -> SUBSET Config]
         /\ Monotone /\ PeriodsInv' /\ DecisionsInv' /\ FrozenIsOwnInputs'
<1>1. /\ cfg' = [cfg EXCEPT ![p] = c]
      /\ held' = [held EXCEPT ![p] = @ \cup {c}]
  BY DEF SetConfig
<1>2. cfg' \in [Periods -> Config \cup {NoConfig}] /\ held' \in [Periods -> SUBSET Config]
  BY <1>1 DEF IInv, TypeOK
<1>3. Monotone /\ PeriodsInv' /\ DecisionsInv' /\ FrozenIsOwnInputs'
  BY <1>1 DEF IInv, TypeOK, Monotone, PeriodsInv, DecisionsInv, FrozenIsOwnInputs
<1> QED BY <1>2, <1>3

\* The period that a write finds exists, and holds a configuration.
LEMMA WritableFacts ==
  ASSUME IInv, NEW p \in 0 .. MaxPeriods, IsWritable(p), p # 0
  PROVE  cfg[p] \in Config
<1>1. p \in Periods /\ status[p] # "none"
  BY PeriodsAssumption DEF Periods, IsWritable, IsOpenPeriod, Open
<1> QED BY <1>1, ExistingHasConfig

\* A write of the structure that reaches the writable period, if there is one.
LEMMA WriteThrough ==
  ASSUME IInv, NEW p \in 0 .. MaxPeriods,
         writes < MaxWrites, writes' = writes + 1,
         structure' \in Config,
         IF p = 0 THEN UNCHANGED <<cfg, held>> ELSE \E c \in Config : SetConfig(p, c),
         UNCHANGED <<policy, status, frozen, reopens, datum, decision, req>>
  PROVE  IInv'
<1>1. writes' \in 0 .. MaxWrites
  BY PeriodsAssumption DEF IInv, TypeOK
<1>2. /\ cfg' \in [Periods -> Config \cup {NoConfig}]
      /\ held' \in [Periods -> SUBSET Config]
      /\ Monotone /\ PeriodsInv' /\ DecisionsInv' /\ FrozenIsOwnInputs'
  <2>1. CASE p = 0
    BY <2>1 DEF IInv, TypeOK, Monotone, PeriodsInv, DecisionsInv, FrozenIsOwnInputs
  <2>2. CASE p # 0
    <3>1. p \in Periods
      BY <2>2, PeriodsAssumption DEF Periods
    <3> QED BY <2>2, <3>1, SetConfigFacts
  <2> QED BY <2>1, <2>2
<1>3. TypeOK'
  BY <1>1, <1>2 DEF IInv, TypeOK
<1>4. ASSUME NEW b \in Actors PROVE RequestInv(b)'
  BY <1>2, OthersKeep
<1> QED BY <1>2, <1>3, <1>4 DEF IInv, RequestInv

LEMMA SaveConfigStep ==
  ASSUME IInv, NEW a \in Actors, SaveConfig(a)
  PROVE  IInv'
<1>1. PICK p \in 0 .. MaxPeriods, section \in Section, closing \in Closing :
        /\ IsWritable(p)
        /\ structure' = Saved(structure, section, writes + 1, closing)
        /\ IF p = 0 THEN UNCHANGED <<cfg, held>>
           ELSE SetConfig(p, Saved(cfg[p], section, writes + 1, closing))
  BY DEF SaveConfig
<1> DEFINE New(c) == Saved(c, section, writes + 1, closing)
<1>2. /\ writes < MaxWrites /\ writes' = writes + 1
      /\ UNCHANGED <<policy, status, frozen, reopens, datum, decision, req>>
  BY DEF SaveConfig
<1>3. writes + 1 \in 0 .. MaxWrites
  BY <1>2, PeriodsAssumption DEF IInv, TypeOK
<1>4. \A c \in Config : New(c) \in Config
  BY <1>3, SavedFacts
<1>5. /\ structure' = New(structure)
      /\ IF p = 0 THEN UNCHANGED <<cfg, held>> ELSE SetConfig(p, New(cfg[p]))
  BY <1>1
<1> HIDE DEF New
<1>6. structure' \in Config /\ (p # 0 => New(cfg[p]) \in Config)
  BY <1>1, <1>4, <1>5, WritableFacts DEF IInv, TypeOK
<1> QED BY <1>2, <1>5, <1>6, WriteThrough

LEMMA UpdateThirdPartyWorkStep ==
  ASSUME IInv, NEW a \in Actors, UpdateThirdPartyWork(a)
  PROVE  IInv'
<1>1. PICK p \in 0 .. MaxPeriods, some \in BOOLEAN :
        LET Updated(c) == [c EXCEPT !.rev = writes + 1, !.thirdParty = some] IN
        /\ IsWritable(p)
        /\ structure' = Updated(structure)
        /\ IF p = 0 THEN UNCHANGED <<cfg, held>> ELSE SetConfig(p, Updated(cfg[p]))
  BY DEF UpdateThirdPartyWork
<1> DEFINE New(c) == [c EXCEPT !.rev = writes + 1, !.thirdParty = some]
<1>2. /\ writes < MaxWrites /\ writes' = writes + 1
      /\ UNCHANGED <<policy, status, frozen, reopens, datum, decision, req>>
  BY DEF UpdateThirdPartyWork
<1>3. writes + 1 \in 0 .. MaxWrites
  BY <1>2, PeriodsAssumption DEF IInv, TypeOK
<1>4. \A c \in Config : New(c) \in Config
  BY <1>3 DEF Config
<1>5. /\ IsWritable(p)
      /\ structure' = New(structure)
      /\ IF p = 0 THEN UNCHANGED <<cfg, held>> ELSE SetConfig(p, New(cfg[p]))
  BY <1>1
<1> HIDE DEF New
<1>6. structure' \in Config /\ (p # 0 => New(cfg[p]) \in Config)
  BY <1>4, <1>5, WritableFacts DEF IInv, TypeOK
<1> QED BY <1>2, <1>5, <1>6, WriteThrough

LEMMA PopulateStructureStep ==
  ASSUME IInv, NEW a \in Actors, PopulateStructure(a)
  PROVE  IInv'
<1>1. PICK p \in 0 .. MaxPeriods, section \in Section :
        LET c == Saved(structure, section, writes + 1, req[a].cfg.closing) IN
        /\ IsWritable(p)
        /\ structure' = c
        /\ req' = [req EXCEPT ![a] =
             IF p = 0 THEN Idle
             ELSE [Idle EXCEPT !.at = "mirroring", !.per = p, !.cfg = c,
                               !.section = section]]
  BY DEF PopulateStructure
<1> DEFINE c == Saved(structure, section, writes + 1, req[a].cfg.closing)
           m == [Idle EXCEPT !.at = "mirroring", !.per = p, !.cfg = c,
                             !.section = section]
<1>2. /\ writes < MaxWrites /\ writes' = writes + 1
      /\ UNCHANGED <<policy, status, cfg, frozen, reopens, datum, decision, held>>
  BY DEF PopulateStructure
<1>3. c \in Config /\ writes' \in 0 .. MaxWrites
  <2>1. req[a].cfg.closing \in Closing
    BY DEF PopulateStructure, IInv, NeedsInv, At, ConfigNeeded, Config
  <2>2. writes + 1 \in 0 .. MaxWrites /\ structure \in Config
    BY <1>2, PeriodsAssumption DEF IInv, TypeOK
  <2> QED BY <1>2, <2>1, <2>2, SavedFacts
<1>4. IsWritable(p) /\ structure' = c /\ req' = [req EXCEPT ![a] = IF p = 0 THEN Idle ELSE m]
  BY <1>1
<1> HIDE DEF c
<1>5. p # 0 => /\ m \in Request /\ m.at = "mirroring" /\ m.cfg = c
               /\ m.per \in Periods /\ status[m.per] # "none"
  <2>1. p # 0 => p \in Periods /\ status[p] # "none"
    BY <1>4, PeriodsAssumption DEF Periods, IsWritable, IsOpenPeriod, Open
  <2> QED BY <1>3, <2>1 DEF Idle, Request, Steps, Choice, Section
<1> HIDE DEF m
<1> DEFINE r == IF p = 0 THEN Idle ELSE m
<1>6. r \in Request /\ req' = [req EXCEPT ![a] = r]
  BY <1>4, <1>5, IdleFacts
<1>7. req'[a] = r /\ req' \in [Actors -> Request]
  BY <1>6 DEF IInv, TypeOK
<1>8. RequestInv(a)'
  BY <1>2, <1>3, <1>5, <1>7, IdleFacts
  DEF RequestInv, OpeningInv, ClosingInv, NeedsInv, At, PeriodNeeded, DatumNeeded, ConfigNeeded
<1>9. TypeOK'
  BY <1>2, <1>3, <1>4, <1>7 DEF IInv, TypeOK
<1>10. Monotone /\ PeriodsInv' /\ DecisionsInv' /\ FrozenIsOwnInputs'
  BY <1>2 DEF IInv, Monotone, PeriodsInv, DecisionsInv, FrozenIsOwnInputs
<1> QED BY <1>6, <1>8, <1>9, <1>10, WriteStep

LEMMA PopulateMirrorStep ==
  ASSUME IInv, NEW a \in Actors, PopulateMirror(a)
  PROVE  IInv'
<1> DEFINE p == req[a].per
           c == req[a].cfg
           s == Saved(cfg[p], req[a].section, c.rev, c.closing)
<1>1. p \in Periods /\ status[p] # "none" /\ c \in Config
  BY DEF PopulateMirror, IInv, NeedsInv, At, PeriodNeeded, ConfigNeeded
<1>2. /\ SetConfig(p, s) /\ Finish(a)
      /\ UNCHANGED <<structure, policy, status, frozen, reopens, datum, decision, writes>>
  BY DEF PopulateMirror
<1>3. s \in Config
  <2>1. cfg[p] \in Config
    BY <1>1, ExistingHasConfig
  <2>2. c.rev \in 0 .. MaxWrites /\ c.closing \in Closing
    BY <1>1 DEF Config
  <2> QED BY <2>1, <2>2, SavedFacts
<1> HIDE DEF p, c, s
<1>4. /\ cfg' \in [Periods -> Config \cup {NoConfig}]
      /\ held' \in [Periods -> SUBSET Config]
      /\ Monotone /\ PeriodsInv' /\ DecisionsInv' /\ FrozenIsOwnInputs'
  BY <1>1, <1>2, <1>3, SetConfigFacts
<1>5. TypeOK'
  BY <1>2, <1>4, FinishedRequest DEF IInv, TypeOK
<1> QED BY <1>2, <1>4, <1>5, IdleFacts, FinishedRequest, WriteStep

LEMMA UpdateLateDataPolicyStep ==
  ASSUME IInv, NEW a \in Actors, NEW pol \in Policy, UpdateLateDataPolicy(a, pol)
  PROVE  IInv'
<1>1. /\ policy' = pol
      /\ UNCHANGED <<structure, status, cfg, frozen, reopens, datum, decision,
                     writes, req, held>>
  BY DEF UpdateLateDataPolicy
<1>2. TypeOK'
  BY <1>1 DEF IInv, TypeOK
<1>3. Monotone /\ PeriodsInv' /\ DecisionsInv' /\ FrozenIsOwnInputs'
  BY <1>1 DEF IInv, Monotone, PeriodsInv, DecisionsInv, FrozenIsOwnInputs
<1>4. ASSUME NEW b \in Actors PROVE RequestInv(b)'
  BY <1>1, <1>3, OthersKeep
<1> QED BY <1>2, <1>3, <1>4 DEF IInv, RequestInv

\* A new or voided datum changes nothing that a request relies on.
LEMMA DatumStep ==
  ASSUME IInv, NEW a \in Actors, NEW d \in DataPoints,
         CreateDatum(a, d) \/ VoidDatum(a, d)
  PROVE  IInv'
<1>1. /\ \E s \in {"active", "void"} : datum' = [datum EXCEPT ![d].state = s]
      /\ UNCHANGED <<structure, policy, status, cfg, frozen, reopens, decision,
                     writes, req, held>>
  BY DEF CreateDatum, VoidDatum
<1>2. TypeOK'
  BY <1>1 DEF IInv, TypeOK
<1>3. Monotone /\ PeriodsInv' /\ DecisionsInv' /\ FrozenIsOwnInputs'
  BY <1>1 DEF IInv, Monotone, PeriodsInv, DecisionsInv, FrozenIsOwnInputs
<1>4. ASSUME NEW b \in Actors PROVE RequestInv(b)'
  BY <1>1, <1>3, OthersKeep
<1> QED BY <1>2, <1>3, <1>4 DEF IInv, RequestInv

LEMMA ImputeCommitStep ==
  ASSUME IInv, NEW a \in Actors, ImputeCommit(a)
  PROVE  IInv'
<1>1. req[a].d \in DataPoints /\ req[a].per \in 0 .. MaxPeriods
  BY DEF ImputeCommit, IInv, TypeOK, NeedsInv, Request, At, DatumNeeded
<1>2. /\ datum' = [datum EXCEPT ![req[a].d].per = req[a].per] /\ Finish(a)
      /\ UNCHANGED <<structure, policy, status, cfg, frozen, reopens, decision,
                     writes, held>>
  BY DEF ImputeCommit
<1>3. TypeOK'
  BY <1>1, <1>2, FinishedRequest DEF IInv, TypeOK
<1>4. Monotone /\ PeriodsInv' /\ DecisionsInv' /\ FrozenIsOwnInputs'
  BY <1>2 DEF IInv, Monotone, PeriodsInv, DecisionsInv, FrozenIsOwnInputs
<1> QED BY <1>2, <1>3, <1>4, IdleFacts, FinishedRequest, WriteStep

LEMMA ImputeLateStep ==
  ASSUME IInv, NEW a \in Actors, NEW d \in DataPoints, NEW p \in Periods,
         ImputeLate(a, d, p)
  PROVE  IInv'
<1> DEFINE m == [Idle EXCEPT !.at = "deciding", !.per = p, !.d = d, !.choice = policy]
<1>1. PICK o \in 0 .. MaxPeriods :
        /\ decision' = [decision EXCEPT ![<<d, p>>] = [state |-> "pending", open |-> o]]
        /\ req' = [req EXCEPT ![a] =
             IF policy = "REOPEN" \/ (policy = "CURRENT_PERIOD" /\ o # 0)
             THEN m ELSE Idle]
  BY DEF ImputeLate
<1>2. /\ status[p] = "CLOSED"
      /\ UNCHANGED <<structure, policy, status, cfg, frozen, reopens, datum,
                     writes, held>>
  BY DEF ImputeLate
<1> DEFINE decides == policy = "REOPEN" \/ (policy = "CURRENT_PERIOD" /\ o # 0)
           r == IF decides THEN m ELSE Idle
<1>3. decides => m \in Request /\ m.at = "deciding" /\ m.per = p /\ m.d = d
  <2>1. p \in 0 .. MaxPeriods
    BY PeriodsAssumption DEF Periods
  <2>2. decides => policy \in Choice
    BY DEF Choice
  <2> QED BY <2>1, <2>2 DEF Idle, Request, Steps, Choice, Section
<1>4. r \in Request /\ req' = [req EXCEPT ![a] = r]
  BY <1>1, <1>3, IdleFacts
<1>5. req'[a] = r /\ req' \in [Actors -> Request]
  BY <1>4 DEF IInv, TypeOK
<1>6. RequestInv(a)'
  <2> HIDE DEF m, decides
  <2> QED BY <1>2, <1>3, <1>5, IdleFacts
      DEF RequestInv, OpeningInv, ClosingInv, NeedsInv, At, PeriodNeeded, DatumNeeded, ConfigNeeded
<1>7. decision' \in [DataPoints \X Periods -> Decision]
  BY <1>1 DEF IInv, TypeOK, Decision
<1>8. TypeOK'
  BY <1>2, <1>5, <1>7 DEF IInv, TypeOK
<1>9. DecisionsInv'
  BY <1>1, <1>2 DEF IInv, TypeOK, DecisionsInv
<1>10. Monotone /\ PeriodsInv' /\ FrozenIsOwnInputs'
  BY <1>2 DEF IInv, Monotone, PeriodsInv, FrozenIsOwnInputs
<1> QED BY <1>4, <1>6, <1>8, <1>9, <1>10, WriteStep

LEMMA ApplyReopenStep ==
  ASSUME IInv, NEW a \in Actors, ApplyReopen(a)
  PROVE  IInv'
<1> DEFINE p == req[a].per
           r == [req[a] EXCEPT !.at = "reopened"]
<1>1. p \in Periods /\ status[p] # "none" /\ req[a].d \in DataPoints
  BY DEF IInv, NeedsInv, ApplyReopen, At, PeriodNeeded, DatumNeeded
<1>2. /\ MarkReopened(p) /\ req' = [req EXCEPT ![a] = r]
      /\ UNCHANGED <<structure, policy, cfg, frozen, datum, decision, writes, held>>
  BY DEF ApplyReopen
<1>3. r \in Request /\ r.at = "reopened" /\ r.per = p /\ r.d = req[a].d
  BY DEF IInv, TypeOK, Request, Steps
<1>4. /\ status' \in [Periods -> {"none", "OPEN", "CLOSED"}]
      /\ reopens' \in [Periods -> 0 .. MaxReopens]
      /\ Monotone /\ PeriodsInv' /\ DecisionsInv' /\ FrozenIsOwnInputs'
  BY <1>1, <1>2, MarkReopenedFacts
<1> HIDE DEF r
<1>5. req'[a] = r /\ req' \in [Actors -> Request]
  BY <1>2, <1>3 DEF IInv, TypeOK
<1>6. RequestInv(a)'
  BY <1>1, <1>3, <1>4, <1>5
  DEF Monotone, RequestInv, OpeningInv, ClosingInv, NeedsInv, At, PeriodNeeded, DatumNeeded,
      ConfigNeeded
<1>7. TypeOK'
  BY <1>2, <1>4, <1>5 DEF IInv, TypeOK
<1> QED BY <1>2, <1>3, <1>4, <1>6, <1>7, WriteStep

LEMMA ApplyCommitStep ==
  ASSUME IInv, NEW a \in Actors, ApplyCommit(a)
  PROVE  IInv'
<1> DEFINE d  == req[a].d
           p  == req[a].per
           ch == req[a].choice
           to == Destination(d, p, ch)
           x  == IF ch = "DISCARD" THEN [datum[d] EXCEPT !.state = "void"]
                 ELSE IF to = 0 THEN datum[d] ELSE [datum[d] EXCEPT !.per = to]
<1>1. d \in DataPoints /\ p \in Periods /\ ch \in Choice
  BY DEF ApplyCommit, IInv, TypeOK, NeedsInv, Request, At, DatumNeeded
<1>2. /\ datum' = [datum EXCEPT ![d] = x]
      /\ decision' = [decision EXCEPT ![<<d, p>>].state = "resolved"]
      /\ Finish(a)
      /\ UNCHANGED <<structure, policy, status, cfg, frozen, reopens, writes, held>>
  BY <1>1 DEF ApplyCommit, Choice
<1>3. p \in 0 .. MaxPeriods
  BY <1>1, PeriodsAssumption DEF Periods
<1>4. decision[<<d, p>>] \in Decision
  BY <1>1 DEF IInv, TypeOK
<1>5. status[p] # "none"
  BY DEF ApplyCommit, IInv, NeedsInv, At, PeriodNeeded
<1> HIDE DEF d, p, ch
<1>6. to \in 0 .. MaxPeriods
  BY <1>1, <1>3, <1>4, PeriodsAssumption DEF Destination, Choice, Decision
<1>7. x \in [state : {"absent", "active", "void"}, per : 0 .. MaxPeriods]
  <2> HIDE DEF to
  <2> QED BY <1>1, <1>6 DEF IInv, TypeOK
<1> HIDE DEF x
<1>8. decision' \in [DataPoints \X Periods -> Decision]
  BY <1>1, <1>2 DEF IInv, TypeOK, Decision
<1>9. TypeOK'
  BY <1>1, <1>2, <1>7, <1>8, FinishedRequest DEF IInv, TypeOK
<1>10. DecisionsInv'
  BY <1>1, <1>2, <1>5 DEF IInv, TypeOK, DecisionsInv
<1>11. Monotone /\ PeriodsInv' /\ FrozenIsOwnInputs'
  BY <1>2 DEF IInv, Monotone, PeriodsInv, FrozenIsOwnInputs
<1> QED BY <1>2, <1>9, <1>10, <1>11, IdleFacts, FinishedRequest, WriteStep

-----------------------------------------------------------------------------
(* The invariant, and what follows from it. *)

LEMMA InitInv == Init => IInv
<1> SUFFICES ASSUME Init PROVE IInv
  OBVIOUS
<1>1. TypeOK
  BY PeriodsAssumption, IdleFacts DEF Init, TypeOK, Config, Policy, Decision
<1>2. PeriodsInv /\ DecisionsInv /\ FrozenIsOwnInputs
  BY DEF Init, PeriodsInv, DecisionsInv, FrozenIsOwnInputs
<1>3. \A a \in Actors : OpeningInv(a) /\ ClosingInv(a) /\ NeedsInv(a)
  BY IdleFacts DEF Init, OpeningInv, ClosingInv, NeedsInv, At, PeriodNeeded, DatumNeeded,
     ConfigNeeded
<1> QED BY <1>1, <1>2, <1>3 DEF IInv

LEMMA NextInv == IInv /\ [Next]_vars => IInv'
<1> SUFFICES ASSUME IInv, [Next]_vars PROVE IInv'
  OBVIOUS
<1>1. CASE UNCHANGED vars
  <2>1. TypeOK' /\ PeriodsInv' /\ DecisionsInv' /\ FrozenIsOwnInputs' /\ Monotone
    BY <1>1 DEF vars, db, IInv, TypeOK, PeriodsInv, DecisionsInv, FrozenIsOwnInputs, Monotone
  <2>2. ASSUME NEW b \in Actors PROVE RequestInv(b)'
    BY <1>1, <2>1, OthersKeep DEF vars
  <2> QED BY <2>1, <2>2 DEF IInv, RequestInv
<1>2. ASSUME NEW a \in Actors, OpenNextRead(a) \/ OpenNextCommit(a) PROVE IInv'
  BY <1>2, OpenNextReadStep, OpenNextCommitStep
<1>3. ASSUME NEW a \in Actors, NEW p \in Periods, CloseRead(a, p) \/ ReopenRead(a, p)
      PROVE IInv'
  BY <1>3, CloseReadStep, ReopenReadStep
<1>4. ASSUME NEW a \in Actors, CloseCommit(a) \/ ReopenCommit(a) PROVE IInv'
  BY <1>4, CloseCommitStep, ReopenCommitStep
<1>5. ASSUME NEW a \in Actors,
             \/ SaveConfig(a) \/ UpdateThirdPartyWork(a)
             \/ PopulateRead(a) \/ PopulateStructure(a) \/ PopulateMirror(a)
      PROVE IInv'
  BY <1>5, SaveConfigStep, UpdateThirdPartyWorkStep, PopulateReadStep, PopulateStructureStep,
     PopulateMirrorStep
<1>6. ASSUME NEW a \in Actors, NEW pol \in Policy, UpdateLateDataPolicy(a, pol)
      PROVE IInv'
  BY <1>6, UpdateLateDataPolicyStep
<1>7. ASSUME NEW a \in Actors, NEW d \in DataPoints, CreateDatum(a, d) \/ VoidDatum(a, d)
      PROVE IInv'
  BY <1>7, DatumStep
<1>8. ASSUME NEW a \in Actors, NEW d \in DataPoints, NEW p \in Periods,
             ImputeRead(a, d, p) \/ ImputeLate(a, d, p)
      PROVE IInv'
  BY <1>8, ImputeReadStep, ImputeLateStep
<1>9. ASSUME NEW a \in Actors, ImputeCommit(a) PROVE IInv'
  BY <1>9, ImputeCommitStep
<1>10. ASSUME NEW a \in Actors, NEW d \in DataPoints, NEW p \in Periods,
              NEW ch \in Choice, ResolveRead(a, d, p, ch)
       PROVE IInv'
  BY <1>10, ResolveReadStep
<1>11. ASSUME NEW a \in Actors, ApplyReopen(a) \/ ApplyCommit(a) \/ Abandon(a)
       PROVE IInv'
  BY <1>11, ApplyReopenStep, ApplyCommitStep, AbandonStep
<1> QED BY <1>1, <1>2, <1>3, <1>4, <1>5, <1>6, <1>7, <1>8, <1>9, <1>10, <1>11 DEF Next

\* Every reachable state satisfies the invariant.
THEOREM Invariance == Spec => []IInv
BY InitInv, NextInv, PTL DEF Spec

\* Every variable keeps its type, however requests interleave, fail or crash.
THEOREM TypeCorrect == Spec => []TypeOK
<1>1. IInv => TypeOK
  BY DEF IInv
<1> QED BY <1>1, Invariance, PTL

\* The numbers frozen in a period were computed from complete inputs of that
\* very period, whatever commits between the reads of close and its commit.
THEOREM FrozenCorrect == Spec => []FrozenIsOwnInputs
<1>1. IInv => FrozenIsOwnInputs
  BY DEF IInv
<1> QED BY <1>1, Invariance, PTL

\* A period is born right after an existing one, with the carry-over of inputs
\* that the predecessor held: the unique code of the period is what turns a
\* stale opening into an error.
THEOREM OpeningCorrect == Spec => OpeningCarriesPredecessor
<1> DEFINE Born(p) ==
      status[p] = "none" /\ status'[p] # "none" =>
         /\ status[p - 1] # "none"
         /\ \E c \in held[p - 1] : cfg'[p] = Carry(c)
<1>1. ASSUME IInv, [Next]_vars, NEW p \in Periods \ {1}, 
             status[p] = "none", status'[p] # "none"
      PROVE  /\ status[p - 1] # "none"
             /\ \E c \in held[p - 1] : cfg'[p] = Carry(c)
  <2>1. ASSUME NEW a \in Actors, ReopenCommit(a) \/ ApplyReopen(a) PROVE FALSE
    <3>1. /\ req[a].per \in Periods /\ status[req[a].per] # "none"
          /\ status' = [status EXCEPT ![req[a].per] = "OPEN"]
      BY <1>1, <2>1 DEF ReopenCommit, ApplyReopen, MarkReopened, IInv, NeedsInv, At, PeriodNeeded
    <3> QED BY <1>1, <3>1 DEF IInv, TypeOK
  <2>2. ASSUME NEW a \in Actors, CloseCommit(a) PROVE FALSE
    <3>1. /\ req[a].per \in Periods /\ status[req[a].per] # "none"
          /\ status' = [status EXCEPT ![req[a].per] = "CLOSED"]
      BY <1>1, <2>2 DEF CloseCommit, IInv, ClosingInv
    <3> QED BY <1>1, <3>1 DEF IInv, TypeOK
  <2>3. PICK a \in Actors : OpenNextCommit(a)
    <3>1. UNCHANGED status \/ \E a \in Actors : \/ OpenNextCommit(a) \/ CloseCommit(a)
                                              \/ ReopenCommit(a) \/ ApplyReopen(a)
      BY <1>1 DEF Next, vars, db, OpenNextRead, CloseRead, ReopenRead, SaveConfig,
         UpdateThirdPartyWork,
         PopulateRead, PopulateStructure, PopulateMirror, UpdateLateDataPolicy,
         CreateDatum, VoidDatum, ImputeRead, ImputeLate, ImputeCommit, ResolveRead,
         ApplyCommit, Abandon
    <3> QED BY <1>1, <2>1, <2>2, <3>1
  <2>4. /\ status' = [status EXCEPT ![req[a].per + 1] = "OPEN"]
        /\ cfg' = [cfg EXCEPT ![req[a].per + 1] = req[a].cfg]
    BY <2>3 DEF OpenNextCommit, SetConfig
  <2>5. p = req[a].per + 1
    BY <1>1, <2>4 DEF IInv, TypeOK
  <2>6. /\ req[a].per \in 0 .. MaxPeriods - 1
        /\ req[a].per # 0 => /\ status[req[a].per] # "none"
                             /\ \E c \in held[req[a].per] : req[a].cfg = Carry(c)
    BY <1>1, <2>3 DEF IInv, OpeningInv, OpenNextCommit
  <2>7. req[a].per = p - 1 /\ p - 1 # 0
    BY <1>1, <2>5, <2>6, PeriodsAssumption DEF Periods
  <2>8. cfg'[p] = req[a].cfg
    BY <1>1, <2>4, <2>5 DEF IInv, TypeOK
  <2> QED BY <2>6, <2>7, <2>8
<1>2. IInv /\ [Next]_vars => [\A p \in Periods \ {1} : Born(p)]_vars
  BY <1>1
<1> QED BY <1>2, Invariance, PTL DEF Spec, OpeningCarriesPredecessor

\* A decision about a late datum never disappears nor goes back, and keeps the
\* period it was detected with: no interleaving asks the same thing twice.
THEOREM DecisionsCorrect == Spec => NeverAskedTwice
<1> DEFINE Stands(k) ==
       /\ decision[k].state # "none" => decision'[k].open = decision[k].open
       /\ decision[k].state = "resolved" => decision'[k].state = "resolved"
       /\ decision[k].state = "pending" => decision'[k].state # "none"
<1>1. ASSUME IInv, [Next]_vars, NEW k \in DataPoints \X Periods PROVE Stands(k)
  <2>1. ASSUME NEW a \in Actors, NEW d \in DataPoints, NEW p \in Periods,
               ImputeLate(a, d, p)
        PROVE  Stands(k)
    <3>1. PICK o \in 0 .. MaxPeriods :
            decision' = [decision EXCEPT ![<<d, p>>] = [state |-> "pending", open |-> o]]
      BY <2>1 DEF ImputeLate
    <3>2. decision[<<d, p>>].state = "none"
      BY <2>1 DEF ImputeLate
    <3> QED BY <1>1, <3>1, <3>2 DEF IInv, TypeOK
  <2>2. ASSUME NEW a \in Actors, ApplyCommit(a) PROVE Stands(k)
    <3>1. decision' = [decision EXCEPT ![<<req[a].d, req[a].per>>].state = "resolved"]
      BY <2>2 DEF ApplyCommit
    <3> QED BY <1>1, <3>1 DEF IInv, TypeOK, Decision
  <2>3. \/ UNCHANGED decision
        \/ \E a \in Actors : ApplyCommit(a)
        \/ \E a \in Actors, d \in DataPoints, p \in Periods : ImputeLate(a, d, p)
    BY <1>1 DEF Next, vars, db, OpenNextRead, OpenNextCommit, CloseRead, CloseCommit,
       ReopenRead, ReopenCommit, SaveConfig, UpdateThirdPartyWork, PopulateRead, PopulateStructure,
       PopulateMirror, UpdateLateDataPolicy, CreateDatum, VoidDatum, ImputeRead,
       ImputeCommit, ResolveRead, ApplyReopen, Abandon
  <2> QED BY <2>1, <2>2, <2>3
<1>2. IInv /\ [Next]_vars => [\A k \in DataPoints \X Periods : Stands(k)]_vars
  BY <1>1
<1> QED BY <1>2, Invariance, PTL DEF Spec, NeverAskedTwice
-----------------------------------------------------------------------------
(* One request at a time. *)

\* No two requests are ever in flight together: then what a request read is not
\* only something that was true (RequestInv), it is still true.
OneRequest == \A a, b \in Actors : a = b

FreshInv(a) ==
  /\ At(a, "opening") => /\ Open = {} /\ IsLast(req[a].per)
                         /\ req[a].per = 0 => req[a].cfg = Snapshot(structure)
  /\ At(a, "closing") => /\ status[req[a].per] = "OPEN" /\ Unimputed = {}
                         /\ req[a].cfg = cfg[req[a].per]
  /\ At(a, "mirroring") => IsOpenPeriod(req[a].per) /\ structure = req[a].cfg
  /\ At(a, "imputing") => status[req[a].per] # "CLOSED"
  /\ At(a, "deciding") \/ At(a, "reopened") =>
       decision[<<req[a].d, req[a].per>>].state = "pending"

\* What a request and the rows of the table owe each other between two steps.
AloneInv == FrozenMatchesInputs /\ \A a \in Actors : FreshInv(a)

\* A document that has written the screen and not yet the month brings the month
\* to what the screen shows.
MirrorInv(a) ==
  LET p == req[a].per  c == req[a].cfg
  IN At(a, "mirroring") /\ IsLast(p) /\ reopens[p] = 0 =>
       Snapshot(Saved(cfg[p], req[a].section, c.rev, c.closing)) = Snapshot(structure)

ScreenInv == ScreenMirrorsOpenPeriod /\ \A a \in Actors : MirrorInv(a)

\* The newest period as the screen wants it, but for a document half way.
Shown(p) == IsLast(p) /\ status[p] = "OPEN" /\ reopens[p] = 0

\* With one request, the step of a request decides the facts about all.
LEMMA AloneStep ==
  ASSUME OneRequest, NEW a \in Actors, FrozenMatchesInputs', FreshInv(a)'
  PROVE  AloneInv'
BY DEF OneRequest, AloneInv

\* A request that has read nothing it will rely on has nothing to keep fresh.
LEMMA NothingFresh ==
  ASSUME NEW a \in Actors, req'[a].at \in {"idle", "reopening", "populating"}
  PROVE  FreshInv(a)'
BY DEF FreshInv, At

\* Steps that neither close, nor freeze, nor write a configuration.
LEMMA FrozenKept ==
  ASSUME FrozenMatchesInputs, UNCHANGED <<cfg, frozen>>,
         \A p \in Periods : status'[p] = "CLOSED" => status[p] = "CLOSED"
  PROVE  FrozenMatchesInputs'
BY DEF FrozenMatchesInputs

\* A configuration is only written to a month that is open after the step.
LEMMA FrozenWritten ==
  ASSUME IInv, FrozenMatchesInputs, NEW p \in Periods, NEW c, SetConfig(p, c),
         status'[p] = "OPEN", UNCHANGED frozen,
         \A q \in Periods \ {p} : status'[q] = status[q]
  PROVE  FrozenMatchesInputs'
BY DEF IInv, TypeOK, FrozenMatchesInputs, SetConfig

\* The month a request may write to, when there is one, is open and the newest
\* of the open ones.
LEMMA WritableIsOpen ==
  ASSUME NEW p \in 0 .. MaxPeriods, IsWritable(p), p # 0
  PROVE  p \in Periods /\ IsOpenPeriod(p) /\ status[p] = "OPEN"
BY DEF IsWritable, IsOpenPeriod, Open, Periods

LEMMA AloneReads ==
  ASSUME OneRequest, IInv, AloneInv, NEW a \in Actors,
         \/ OpenNextRead(a) \/ PopulateRead(a) \/ Abandon(a)
         \/ \E p \in Periods : CloseRead(a, p) \/ ReopenRead(a, p)
         \/ \E d \in DataPoints, p \in Periods : ImputeRead(a, d, p)
         \/ \E d \in DataPoints, p \in Periods, ch \in Choice : ResolveRead(a, d, p, ch)
  PROVE  AloneInv'
<1>1. FrozenMatchesInputs'
  <2>1. UNCHANGED <<cfg, frozen, status>>
    BY DEF OpenNextRead, PopulateRead, Abandon, CloseRead, ReopenRead, ImputeRead, ResolveRead, db
  <2> QED BY <2>1, FrozenKept DEF AloneInv
<1>2. CASE OpenNextRead(a)
  <2>1. PICK l \in 0 .. MaxPeriods - 1 :
          /\ IsLast(l) /\ Open = {}
          /\ req' = [req EXCEPT ![a] =
               [Idle EXCEPT !.at = "opening", !.per = l,
                  !.cfg = IF l = 0 THEN Snapshot(structure) ELSE Carry(cfg[l])]]
          /\ UNCHANGED db
    BY <1>2 DEF OpenNextRead
  <2>2. PICK c : c = IF l = 0 THEN Snapshot(structure) ELSE Carry(cfg[l])
    OBVIOUS
  <2>3. req'[a] = [Idle EXCEPT !.at = "opening", !.per = l, !.cfg = c]
    BY <2>1, <2>2 DEF IInv, TypeOK
  <2>4. req'[a].at = "opening" /\ req'[a].per = l /\ req'[a].cfg = c
    BY <2>3 DEF Idle
  <2>5. Open' = Open /\ IsLast(l)' /\ Snapshot(structure)' = Snapshot(structure)
    BY <2>1 DEF db, Open, IsLast, Existing, Snapshot
  <2>6. FreshInv(a)'
    BY <2>1, <2>2, <2>4, <2>5 DEF FreshInv, At
  <2> QED BY <1>1, <2>6, AloneStep
<1>3. ASSUME NEW p \in Periods, CloseRead(a, p) PROVE AloneInv'
  <2>1. /\ status[p] = "OPEN" /\ Unimputed = {}
        /\ req' = [req EXCEPT ![a] =
             [Idle EXCEPT !.at = "closing", !.per = p, !.cfg = cfg[p]]]
        /\ UNCHANGED db
    BY <1>3 DEF CloseRead
  <2>2. req'[a] = [Idle EXCEPT !.at = "closing", !.per = p, !.cfg = cfg[p]]
    BY <2>1 DEF IInv, TypeOK
  <2>3. req'[a].at = "closing" /\ req'[a].per = p /\ req'[a].cfg = cfg[p]
    BY <2>2 DEF Idle
  <2>4. Unimputed' = Unimputed
    BY <2>1 DEF db, Unimputed
  <2>5. FreshInv(a)'
    BY <2>1, <2>3, <2>4 DEF FreshInv, At, db
  <2> QED BY <1>1, <2>5, AloneStep
<1>4. ASSUME NEW d \in DataPoints, NEW p \in Periods, ImputeRead(a, d, p) PROVE AloneInv'
  <2>1. /\ status[p] # "CLOSED"
        /\ req' = [req EXCEPT ![a] = [Idle EXCEPT !.at = "imputing", !.per = p, !.d = d]]
        /\ UNCHANGED db
    BY <1>4 DEF ImputeRead
  <2>2. req'[a] = [Idle EXCEPT !.at = "imputing", !.per = p, !.d = d]
    BY <2>1 DEF IInv, TypeOK
  <2>3. req'[a].at = "imputing" /\ req'[a].per = p
    BY <2>2 DEF Idle
  <2>4. FreshInv(a)'
    BY <2>1, <2>3 DEF FreshInv, At, db
  <2> QED BY <1>1, <2>4, AloneStep
<1>5. ASSUME NEW d \in DataPoints, NEW p \in Periods, NEW ch \in Choice, ResolveRead(a, d, p, ch)
      PROVE  AloneInv'
  <2>1. /\ decision[<<d, p>>].state = "pending"
        /\ req' = [req EXCEPT ![a] =
             [Idle EXCEPT !.at = "deciding", !.per = p, !.d = d, !.choice = ch]]
        /\ UNCHANGED db
    BY <1>5 DEF ResolveRead
  <2>2. req'[a] = [Idle EXCEPT !.at = "deciding", !.per = p, !.d = d, !.choice = ch]
    BY <2>1 DEF IInv, TypeOK
  <2>3. req'[a].at = "deciding" /\ req'[a].per = p /\ req'[a].d = d
    BY <2>2 DEF Idle
  <2>4. FreshInv(a)'
    BY <2>1, <2>3 DEF FreshInv, At, db
  <2> QED BY <1>1, <2>4, AloneStep
<1>6. ASSUME PopulateRead(a) \/ Abandon(a) \/ \E p \in Periods : ReopenRead(a, p)
      PROVE  AloneInv'
  <2>1. \/ req'[a] = [Idle EXCEPT !.at = "populating", !.cfg = structure]
        \/ req'[a] = Idle
        \/ \E p \in Periods : req'[a] = [Idle EXCEPT !.at = "reopening", !.per = p]
    BY <1>6 DEF PopulateRead, Abandon, Finish, ReopenRead, IInv, TypeOK
  <2>2. [Idle EXCEPT !.at = "populating", !.cfg = structure].at = "populating"
    BY DEF Idle
  <2>3. \A p \in Periods : [Idle EXCEPT !.at = "reopening", !.per = p].at = "reopening"
    BY DEF Idle
  <2>4. req'[a].at \in {"idle", "reopening", "populating"}
    BY <2>1, <2>2, <2>3, IdleFacts
  <2> QED BY <1>1, <2>4, NothingFresh, AloneStep
<1> QED BY <1>2, <1>3, <1>4, <1>5, <1>6

\* The steps that end their request, or that a request at rest makes at once.
LEMMA AloneWrites ==
  ASSUME OneRequest, IInv, AloneInv, NEW a \in Actors,
         \/ OpenNextCommit(a) \/ CloseCommit(a) \/ ReopenCommit(a)
         \/ SaveConfig(a) \/ UpdateThirdPartyWork(a) \/ PopulateMirror(a)
         \/ \E pol \in Policy : UpdateLateDataPolicy(a, pol)
         \/ \E d \in DataPoints : CreateDatum(a, d) \/ VoidDatum(a, d)
         \/ ImputeCommit(a) \/ ApplyCommit(a)
  PROVE  AloneInv'
<1>1. req'[a].at = "idle"
  BY IdleFacts DEF OpenNextCommit, CloseCommit, ReopenCommit, SaveConfig, UpdateThirdPartyWork,
     PopulateMirror, UpdateLateDataPolicy, CreateDatum, VoidDatum, ImputeCommit, ApplyCommit,
     Finish, Free, IInv, TypeOK
<1>2. FreshInv(a)'
  BY <1>1, NothingFresh
<1>3. FrozenMatchesInputs /\ FreshInv(a)
  BY DEF AloneInv
<1>4. CASE OpenNextCommit(a)
  <2>1. req[a].per + 1 \in Periods
    BY <1>4, PeriodsAssumption DEF IInv, OpeningInv, OpenNextCommit, Periods
  <2>2. /\ status' = [status EXCEPT ![req[a].per + 1] = "OPEN"]
        /\ SetConfig(req[a].per + 1, req[a].cfg) /\ UNCHANGED frozen
    BY <1>4 DEF OpenNextCommit
  <2>3. /\ status'[req[a].per + 1] = "OPEN"
        /\ \A q \in Periods \ {req[a].per + 1} : status'[q] = status[q]
    BY <2>1, <2>2 DEF IInv, TypeOK
  <2>4. FrozenMatchesInputs'
    BY <1>3, <2>1, <2>2, <2>3, FrozenWritten
  <2> QED BY <1>2, <2>4, AloneStep
<1>5. CASE CloseCommit(a)
  <2>1. /\ status' = [status EXCEPT ![req[a].per] = "CLOSED"]
        /\ frozen' = [frozen EXCEPT ![req[a].per] = req[a].cfg]
        /\ UNCHANGED cfg /\ req[a].cfg = cfg[req[a].per]
    BY <1>3, <1>5 DEF CloseCommit, FreshInv
  <2>2. FrozenMatchesInputs'
    BY <1>3, <2>1 DEF FrozenMatchesInputs, IInv, TypeOK
  <2> QED BY <1>2, <2>2, AloneStep
<1>6. CASE ReopenCommit(a)
  <2>1. status' = [status EXCEPT ![req[a].per] = "OPEN"] /\ UNCHANGED <<cfg, frozen>>
    BY <1>6 DEF ReopenCommit, MarkReopened
  <2>2. FrozenMatchesInputs'
    BY <1>3, <2>1 DEF FrozenMatchesInputs, IInv, TypeOK
  <2> QED BY <1>2, <2>2, AloneStep
<1>7. CASE SaveConfig(a) \/ UpdateThirdPartyWork(a)
  <2>1. PICK p, c :
          /\ p \in 0 .. MaxPeriods /\ IsWritable(p) /\ UNCHANGED <<status, frozen>>
          /\ p = 0 => UNCHANGED cfg
          /\ p # 0 => SetConfig(p, c)
    BY <1>7 DEF SaveConfig, UpdateThirdPartyWork
  <2>2. FrozenMatchesInputs'
    BY <1>3, <2>1, WritableIsOpen, FrozenWritten, FrozenKept
  <2> QED BY <1>2, <2>2, AloneStep
<1>8. CASE PopulateMirror(a)
  <2>1. PICK c : SetConfig(req[a].per, c) /\ UNCHANGED <<status, frozen>>
    BY <1>8 DEF PopulateMirror
  <2>2. req[a].per \in Periods /\ status[req[a].per] = "OPEN"
    BY <1>3, <1>8 DEF PopulateMirror, FreshInv, IsOpenPeriod, Open
  <2>3. FrozenMatchesInputs'
    BY <1>3, <2>1, <2>2, FrozenWritten
  <2> QED BY <1>2, <2>3, AloneStep
<1>9. CASE \/ \E pol \in Policy : UpdateLateDataPolicy(a, pol)
           \/ \E d \in DataPoints : CreateDatum(a, d) \/ VoidDatum(a, d)
           \/ ImputeCommit(a) \/ ApplyCommit(a)
  <2>1. UNCHANGED <<status, cfg, frozen>>
    BY <1>9 DEF UpdateLateDataPolicy, CreateDatum, VoidDatum, ImputeCommit, ApplyCommit
  <2>2. FrozenMatchesInputs'
    BY <1>3, <2>1, FrozenKept
  <2> QED BY <1>2, <2>2, AloneStep
<1> QED BY <1>4, <1>5, <1>6, <1>7, <1>8, <1>9

\* The steps that write and have more to do.
LEMMA AloneGoesOn ==
  ASSUME OneRequest, IInv, AloneInv, NEW a \in Actors,
         \/ PopulateStructure(a) \/ ApplyReopen(a)
         \/ \E d \in DataPoints, p \in Periods : ImputeLate(a, d, p)
  PROVE  AloneInv'
<1>1. FrozenMatchesInputs /\ FreshInv(a)
  BY DEF AloneInv
<1>2. CASE PopulateStructure(a)
  <2>1. PICK p, section, c :
          /\ p \in 0 .. MaxPeriods /\ section \in Section /\ IsWritable(p)
          /\ structure' = c /\ UNCHANGED <<status, cfg, frozen>>
          /\ req' = [req EXCEPT ![a] =
               IF p = 0 THEN Idle
               ELSE [Idle EXCEPT !.at = "mirroring", !.per = p, !.cfg = c, !.section = section]]
    BY <1>2 DEF PopulateStructure
  <2>2. CASE p = 0
    <3>1. req'[a].at = "idle"
      BY <2>1, <2>2, IdleFacts DEF IInv, TypeOK
    <3> QED BY <1>1, <2>1, <3>1, NothingFresh, FrozenKept, AloneStep
  <2>3. CASE p # 0
    <3>1. req'[a] = [Idle EXCEPT !.at = "mirroring", !.per = p, !.cfg = c, !.section = section]
      BY <2>1, <2>3 DEF IInv, TypeOK
    <3>2. req'[a].at = "mirroring" /\ req'[a].per = p /\ req'[a].cfg = c
      BY <3>1 DEF Idle
    <3>3. IsOpenPeriod(p)'
      BY <2>1, <2>3, WritableIsOpen DEF IsOpenPeriod, Open
    <3>4. FreshInv(a)'
      BY <2>1, <3>2, <3>3 DEF FreshInv, At, IsOpenPeriod
    <3> QED BY <1>1, <2>1, <3>4, FrozenKept, AloneStep
  <2> QED BY <2>2, <2>3
<1>3. CASE ApplyReopen(a)
  <2>1. /\ status' = [status EXCEPT ![req[a].per] = "OPEN"]
        /\ req' = [req EXCEPT ![a].at = "reopened"] /\ UNCHANGED <<cfg, frozen, decision>>
        /\ decision[<<req[a].d, req[a].per>>].state = "pending"
    BY <1>1, <1>3 DEF ApplyReopen, MarkReopened, FreshInv
  <2>2. FrozenMatchesInputs'
    BY <1>1, <2>1 DEF FrozenMatchesInputs, IInv, TypeOK
  <2>3. req'[a].at = "reopened" /\ req'[a].per = req[a].per /\ req'[a].d = req[a].d
    BY <2>1 DEF IInv, TypeOK, Request
  <2>4. FreshInv(a)'
    BY <2>1, <2>3 DEF FreshInv, At
  <2> QED BY <2>2, <2>4, AloneStep
<1>4. ASSUME NEW d \in DataPoints, NEW p \in Periods, ImputeLate(a, d, p) PROVE AloneInv'
  <2>1. PICK o \in 0 .. MaxPeriods :
          /\ decision' = [decision EXCEPT ![<<d, p>>] = [state |-> "pending", open |-> o]]
          /\ req' = [req EXCEPT ![a] =
               IF policy = "REOPEN" \/ (policy = "CURRENT_PERIOD" /\ o # 0)
               THEN [Idle EXCEPT !.at = "deciding", !.per = p, !.d = d, !.choice = policy]
               ELSE Idle]
    BY <1>4 DEF ImputeLate
  <2>2. UNCHANGED <<status, cfg, frozen>>
    BY <1>4 DEF ImputeLate
  <2>3. decision'[<<d, p>>].state = "pending"
    BY <2>1 DEF IInv, TypeOK
  <2>4. \/ req'[a] = Idle
        \/ req'[a] = [Idle EXCEPT !.at = "deciding", !.per = p, !.d = d, !.choice = policy]
    BY <2>1 DEF IInv, TypeOK
  <2>5. LET m == [Idle EXCEPT !.at = "deciding", !.per = p, !.d = d, !.choice = policy]
        IN m.at = "deciding" /\ m.per = p /\ m.d = d
    BY DEF Idle
  <2>6. FreshInv(a)'
    BY <2>3, <2>4, <2>5, IdleFacts DEF FreshInv, At
  <2> QED BY <1>1, <2>2, <2>6, FrozenKept, AloneStep
<1> QED BY <1>2, <1>3, <1>4

\* A structure is born with no request in flight and no month closed.
LEMMA AloneInit == Init => AloneInv
BY IdleFacts DEF Init, AloneInv, FrozenMatchesInputs, FreshInv, At

\* Every step of the only request keeps what it has read fresh.
LEMMA AloneNext ==
  ASSUME OneRequest, IInv, AloneInv, [Next]_vars
  PROVE  AloneInv'
<1>1. CASE UNCHANGED vars
  BY <1>1 DEF vars, db, AloneInv, FrozenMatchesInputs, FreshInv, At, Open, IsLast, Existing,
     IsOpenPeriod, Unimputed, Snapshot
<1>2. CASE Next
  BY <1>2, AloneReads, AloneWrites, AloneGoesOn DEF Next
<1> QED BY <1>1, <1>2

\* With one request at a time, whatever fails or crashes, what a request has read
\* is still true when its transaction runs.
THEOREM AloneInductive ==
  ASSUME OneRequest
  PROVE  Spec => []AloneInv
<1>1. IInv /\ AloneInv /\ [Next]_vars => AloneInv'
  BY AloneNext
<1> QED BY <1>1, AloneInit, Invariance, PTL DEF Spec

\* With one request at a time, a closed month keeps the inputs its frozen result
\* was computed from: neither a form, nor a document, nor the opening of another
\* month nor a late datum edits a month between its closing and its reopening.
THEOREM FrozenStands ==
  ASSUME OneRequest
  PROVE  Spec => []FrozenMatchesInputs
<1>1. AloneInv => FrozenMatchesInputs
  BY DEF AloneInv
<1> QED BY <1>1, AloneInductive, PTL

\* With one request at a time, closing consolidates no month while an active
\* datum has no period: what the check before the transaction saw still holds.
THEOREM ClosesImputed ==
  ASSUME OneRequest
  PROVE  Spec => ClosesWithEverythingImputed
<1>1. ASSUME IInv, AloneInv, [Next]_vars, NEW p \in Periods,
             status[p] # "CLOSED", status'[p] = "CLOSED"
      PROVE  Unimputed = {}
  <2>1. ASSUME NEW a \in Actors, CloseCommit(a) PROVE Unimputed = {}
    BY <1>1, <2>1 DEF CloseCommit, AloneInv, FreshInv
  <2>2. ASSUME NEW a \in Actors, OpenNextCommit(a) \/ ReopenCommit(a) \/ ApplyReopen(a)
        PROVE  FALSE
    <3>1. PICK q : status' = [status EXCEPT ![q] = "OPEN"]
      BY <2>2 DEF OpenNextCommit, ReopenCommit, ApplyReopen, MarkReopened
    <3> QED BY <1>1, <3>1 DEF IInv, TypeOK
  <2>3. UNCHANGED status \/ \E a \in Actors : \/ OpenNextCommit(a) \/ CloseCommit(a)
                                            \/ ReopenCommit(a) \/ ApplyReopen(a)
    BY <1>1 DEF Next, vars, db, OpenNextRead, CloseRead, ReopenRead, SaveConfig,
       UpdateThirdPartyWork, PopulateRead, PopulateStructure, PopulateMirror,
       UpdateLateDataPolicy, CreateDatum, VoidDatum, ImputeRead, ImputeLate, ImputeCommit,
       ResolveRead, ApplyCommit, Abandon
  <2> QED BY <1>1, <2>1, <2>2, <2>3
<1> DEFINE Imputed(p) == status[p] # "CLOSED" /\ status'[p] = "CLOSED" => Unimputed = {}
<1>2. IInv /\ AloneInv /\ [Next]_vars => [\A p \in Periods : Imputed(p)]_vars
  BY <1>1
<1> QED BY <1>2, Invariance, AloneInductive, PTL DEF Spec, ClosesWithEverythingImputed

\* With one request at a time, a datum enters a closed month only by the answer
\* to a pending decision about that datum, resolved in the same step.
THEOREM ClosedByDecision ==
  ASSUME OneRequest
  PROVE  Spec => ClosedMonthOnlyByDecision
<1> DEFINE Decided(d, p) ==
      datum'[d].per = p /\ datum[d].per # p /\ status[p] = "CLOSED" =>
         \E t \in Periods : /\ decision[<<d, t>>].state = "pending"
                            /\ decision'[<<d, t>>].state = "resolved"
<1>1. ASSUME IInv, AloneInv, [Next]_vars, NEW d \in DataPoints, NEW p \in Periods
      PROVE  Decided(d, p)
  <2>1. ASSUME NEW a \in Actors, ApplyCommit(a) PROVE Decided(d, p)
    <3>1. PICK x : /\ datum' = [datum EXCEPT ![req[a].d] = x]
                   /\ decision' = [decision EXCEPT ![<<req[a].d, req[a].per>>].state = "resolved"]
      BY <2>1 DEF ApplyCommit
    <3>2. req[a].d \in DataPoints /\ req[a].per \in Periods
      BY <1>1, <2>1 DEF ApplyCommit, IInv, NeedsInv, At, DatumNeeded
    <3>3. decision[<<req[a].d, req[a].per>>].state = "pending"
      BY <1>1, <2>1 DEF ApplyCommit, AloneInv, FreshInv
    <3>4. decision'[<<req[a].d, req[a].per>>].state = "resolved"
      BY <1>1, <3>1, <3>2 DEF IInv, TypeOK, Decision
    <3>5. d # req[a].d => datum'[d] = datum[d]
      BY <1>1, <3>1 DEF IInv, TypeOK
    <3> QED BY <3>2, <3>3, <3>4, <3>5
  <2>2. ASSUME NEW a \in Actors, ImputeCommit(a) PROVE Decided(d, p)
    <3>1. /\ datum' = [datum EXCEPT ![req[a].d].per = req[a].per]
          /\ status[req[a].per] # "CLOSED"
      BY <1>1, <2>2 DEF ImputeCommit, AloneInv, FreshInv
    <3> QED BY <1>1, <3>1 DEF IInv, TypeOK
  <2>3. ASSUME NEW a \in Actors, NEW e \in DataPoints, CreateDatum(a, e) \/ VoidDatum(a, e)
        PROVE  Decided(d, p)
    <3>1. PICK s : datum' = [datum EXCEPT ![e].state = s]
      BY <2>3 DEF CreateDatum, VoidDatum
    <3> QED BY <1>1, <3>1 DEF IInv, TypeOK
  <2>4. \/ UNCHANGED datum
        \/ \E a \in Actors : \/ ImputeCommit(a) \/ ApplyCommit(a)
                             \/ \E e \in DataPoints : CreateDatum(a, e) \/ VoidDatum(a, e)
    BY <1>1 DEF Next, vars, db, OpenNextRead, OpenNextCommit, CloseRead, CloseCommit,
       ReopenRead, ReopenCommit, SaveConfig, UpdateThirdPartyWork, PopulateRead, PopulateStructure,
       PopulateMirror, UpdateLateDataPolicy, ImputeRead, ImputeLate, ResolveRead, ApplyReopen,
       Abandon
  <2> QED BY <2>1, <2>2, <2>3, <2>4
<1>2. IInv /\ AloneInv /\ [Next]_vars =>
        [\A d \in DataPoints, p \in Periods : Decided(d, p)]_vars
  BY <1>1
<1> QED BY <1>2, Invariance, AloneInductive, PTL DEF Spec, ClosedMonthOnlyByDecision

-----------------------------------------------------------------------------
(* What the screen shows, with one request at a time and no crash. *)

\* A period that shows is the one that is written.
LEMMA ShownIsWritten ==
  ASSUME NEW p \in Periods, Shown(p), NEW q \in 0 .. MaxPeriods, IsWritable(q)
  PROVE  q = p
<1>1. p \in Open /\ p \in Existing
  BY DEF Shown, Open, Existing
<1>2. q # 0 => q \in Existing /\ q <= p
  BY <1>1 DEF IsWritable, IsOpenPeriod, Open, Existing, Shown, IsLast
<1>3. q # 0 /\ p <= q
  BY <1>1 DEF IsWritable, IsOpenPeriod, Open, Periods
<1> QED BY <1>2, <1>3 DEF Periods

\* The newest period is the newest after a step that makes no period.
LEMMA LastStays ==
  ASSUME NEW p \in Periods, \A q \in Periods : status'[q] = "none" <=> status[q] = "none"
  PROVE  IsLast(p)' <=> IsLast(p)
<1>1. Existing' = Existing
  BY DEF Existing
<1> QED BY <1>1 DEF IsLast

\* A step that touches neither the screen nor a configuration keeps the two
\* alike, if it leaves no document half way and makes no period newly shown.
LEMMA ScreenKept ==
  ASSUME OneRequest, ScreenInv, NEW a \in Actors, ~At(a, "mirroring"),
         req'[a].at # "mirroring", UNCHANGED <<structure, cfg>>,
         \A p \in Periods : Shown(p)' => Shown(p)
  PROVE  ScreenInv'
<1>1. \A b \in Actors : MirrorInv(b)'
  BY DEF OneRequest, MirrorInv, At
<1>2. ASSUME NEW p \in Periods, OnScreen(p)' PROVE (Snapshot(structure) = Snapshot(cfg[p]))'
  <2>1. Shown(p)
    BY <1>2 DEF OnScreen, Shown
  <2>2. OnScreen(p)
    BY <2>1 DEF OneRequest, OnScreen, Shown
  <2> QED BY <2>2 DEF ScreenInv, ScreenMirrorsOpenPeriod, Snapshot
<1> QED BY <1>1, <1>2 DEF ScreenInv, ScreenMirrorsOpenPeriod

\* The same when the periods do not change at all.
LEMMA ScreenUntouched ==
  ASSUME OneRequest, ScreenInv, NEW a \in Actors, ~At(a, "mirroring"),
         req'[a].at # "mirroring", UNCHANGED <<structure, cfg, status, reopens>>
  PROVE  ScreenInv'
<1>1. \A p \in Periods : Shown(p)' => Shown(p)
  BY DEF Shown, IsLast, Existing
<1> QED BY <1>1, ScreenKept

\* The same for a step that reopens a period: a reopened period is not shown.
LEMMA ScreenReopened ==
  ASSUME OneRequest, IInv, ScreenInv, NEW a \in Actors, ~At(a, "mirroring"),
         req'[a].at # "mirroring", NEW r \in Periods, status[r] # "none", MarkReopened(r),
         UNCHANGED <<structure, cfg>>
  PROVE  ScreenInv'
<1>1. /\ \A q \in Periods : status'[q] = "none" <=> status[q] = "none"
      /\ \A q \in Periods \ {r} : status'[q] = status[q] /\ reopens'[q] = reopens[q]
      /\ reopens'[r] = reopens[r] + 1 /\ reopens[r] \in Nat
  BY PeriodsAssumption DEF MarkReopened, IInv, TypeOK
<1>2. \A p \in Periods : Shown(p)' => Shown(p)
  BY <1>1, LastStays DEF Shown
<1> QED BY <1>2, ScreenKept

\* What a write to a month and to the screen leaves alike.
LEMMA SavedAlike ==
  ASSUME NEW s \in Config, NEW c \in Config, Snapshot(s) = Snapshot(c),
         NEW section, NEW n \in 0 .. MaxWrites, NEW closing \in Closing
  PROVE  Snapshot(Saved(s, section, n, closing)) = Snapshot(Saved(c, section, n, closing))
<1>1. s.closing = c.closing
  BY DEF Config, Snapshot
<1> QED BY <1>1 DEF Config, Snapshot, Saved

LEMMA ScreenWrites ==
  ASSUME OneRequest, IInv, IInv', ScreenInv, NEW a \in Actors,
         SaveConfig(a) \/ UpdateThirdPartyWork(a)
  PROVE  ScreenInv'
<1>1. ~At(a, "mirroring") /\ UNCHANGED <<status, reopens, req>> /\ writes < MaxWrites
  BY DEF SaveConfig, UpdateThirdPartyWork, Free, At
<1>2. \A b \in Actors : MirrorInv(b)'
  BY <1>1 DEF OneRequest, MirrorInv, At
<1>3. writes + 1 \in 0 .. MaxWrites
  BY <1>1, PeriodsAssumption DEF IInv, TypeOK
<1>4. ASSUME NEW p \in Periods, OnScreen(p)' PROVE (Snapshot(structure) = Snapshot(cfg[p]))'
  <2>1. OnScreen(p) /\ Shown(p)
    BY <1>1, <1>4 DEF OnScreen, Shown, IsLast, Existing, At
  <2>2. Snapshot(structure) = Snapshot(cfg[p])
    BY <2>1 DEF ScreenInv, ScreenMirrorsOpenPeriod
  <2>3. structure \in Config /\ cfg[p] \in Config /\ p # 0
    BY <2>1, ExistingHasConfig DEF Shown, IInv, TypeOK, Periods
  <2>4. CASE SaveConfig(a)
    <3>1. PICK q \in 0 .. MaxPeriods, section \in Section, closing \in Closing :
            /\ IsWritable(q)
            /\ structure' = Saved(structure, section, writes + 1, closing)
            /\ q # 0 => SetConfig(q, Saved(cfg[q], section, writes + 1, closing))
      BY <2>4 DEF SaveConfig
    <3>2. q = p
      BY <2>1, <3>1, ShownIsWritten
    <3>3. cfg'[p] = Saved(cfg[p], section, writes + 1, closing)
      BY <2>3, <3>1, <3>2 DEF SetConfig, IInv, TypeOK
    <3>4. Snapshot(structure') = Snapshot(cfg'[p])
      BY <1>3, <2>2, <2>3, <3>1, <3>3, SavedAlike
    <3> QED BY <3>4 DEF Snapshot
  <2>5. CASE UpdateThirdPartyWork(a)
    <3>1. PICK q \in 0 .. MaxPeriods, some \in BOOLEAN :
            /\ IsWritable(q)
            /\ structure' = [structure EXCEPT !.rev = writes + 1, !.thirdParty = some]
            /\ q # 0 => SetConfig(q, [cfg[q] EXCEPT !.rev = writes + 1, !.thirdParty = some])
      BY <2>5 DEF UpdateThirdPartyWork
    <3>2. q = p
      BY <2>1, <3>1, ShownIsWritten
    <3>3. cfg'[p] = [cfg[p] EXCEPT !.rev = writes + 1, !.thirdParty = some]
      BY <2>3, <3>1, <3>2 DEF SetConfig, IInv, TypeOK
    <3>4. structure.closing = cfg[p].closing
      BY <2>2, <2>3 DEF Snapshot, Config
    <3>5. Snapshot(structure') = Snapshot(cfg'[p])
      BY <2>3, <3>1, <3>3, <3>4 DEF Snapshot, Config
    <3> QED BY <3>5 DEF Snapshot
  <2> QED BY <2>4, <2>5
<1> QED BY <1>2, <1>4 DEF ScreenInv, ScreenMirrorsOpenPeriod

\* A document writes the screen: what it owes the month is what the screen has.
LEMMA ScreenPopulates ==
  ASSUME OneRequest, IInv, ScreenInv, NEW a \in Actors, PopulateStructure(a)
  PROVE  ScreenInv'
<1>1. PICK p \in 0 .. MaxPeriods, section \in Section :
        /\ IsWritable(p) /\ writes < MaxWrites
        /\ structure' = Saved(structure, section, writes + 1, req[a].cfg.closing)
        /\ req' = [req EXCEPT ![a] =
             IF p = 0 THEN Idle
             ELSE [Idle EXCEPT !.at = "mirroring", !.per = p,
                     !.cfg = Saved(structure, section, writes + 1, req[a].cfg.closing),
                     !.section = section]]
        /\ UNCHANGED <<status, cfg, reopens>>
  BY DEF PopulateStructure
<1>2. ~At(a, "mirroring") /\ req[a].cfg \in Config
  BY DEF PopulateStructure, At, IInv, NeedsInv, ConfigNeeded
<1>3. \A q \in Periods : Shown(q)' <=> Shown(q)
  BY <1>1 DEF Shown, IsLast, Existing
<1>4. ASSUME NEW q \in Periods, Shown(q) PROVE q = p /\ Snapshot(structure) = Snapshot(cfg[q])
  <2>1. OnScreen(q)
    BY <1>2, <1>4 DEF OneRequest, OnScreen, Shown
  <2> QED BY <1>1, <1>4, <2>1, ShownIsWritten DEF ScreenInv, ScreenMirrorsOpenPeriod
<1>5. ASSUME NEW q \in Periods, Shown(q)
      PROVE  req'[a].at = "mirroring" /\ req'[a].per = q
             /\ Snapshot(Saved(cfg'[q], req'[a].section, req'[a].cfg.rev, req'[a].cfg.closing))
                  = Snapshot(structure')
  <2>1. PICK c : c = Saved(structure, section, writes + 1, req[a].cfg.closing)
    OBVIOUS
  <2>2. p = q /\ p # 0
    BY <1>4, <1>5 DEF Periods
  <2>3. req'[a] = [Idle EXCEPT !.at = "mirroring", !.per = p, !.cfg = c, !.section = section]
    BY <1>1, <2>1, <2>2 DEF IInv, TypeOK
  <2>4. /\ req'[a].at = "mirroring" /\ req'[a].per = p /\ req'[a].cfg = c
        /\ req'[a].section = section
    BY <2>3 DEF Idle
  <2>5. structure \in Config /\ cfg[q] \in Config
    BY <1>5, ExistingHasConfig DEF Shown, IInv, TypeOK
  <2>6. writes + 1 \in 0 .. MaxWrites /\ req[a].cfg.closing \in Closing
    BY <1>1, <1>2, PeriodsAssumption DEF IInv, TypeOK, Config
  <2>7. Snapshot(c) = Snapshot(Saved(cfg[q], section, writes + 1, req[a].cfg.closing))
    BY <1>4, <1>5, <2>1, <2>5, <2>6, SavedAlike
  <2>8. Snapshot(c) = Snapshot(Saved(cfg[q], section, c.rev, c.closing))
    <3>1. c.rev = writes + 1
      BY <2>1, <2>5 DEF Saved, Config
    <3>2. section = "indirectCosts" => c.closing = req[a].cfg.closing
      BY <2>1, <2>5 DEF Saved, Config
    <3>3. section # "indirectCosts" =>
            Saved(cfg[q], section, writes + 1, req[a].cfg.closing)
              = Saved(cfg[q], section, writes + 1, c.closing)
      BY DEF Saved
    <3> QED BY <2>7, <3>1, <3>2, <3>3
  <2> QED BY <1>1, <2>1, <2>2, <2>4, <2>8
<1>6. \/ req'[a].at # "mirroring"
      \/ req'[a].at = "mirroring" /\ req'[a].per \in Periods
  <2>1. p = 0 \/ p \in Periods
    BY DEF Periods
  <2>2. \A c : LET m == [Idle EXCEPT !.at = "mirroring", !.per = p, !.cfg = c,
                                     !.section = section]
              IN m.at = "mirroring" /\ m.per = p
    BY DEF Idle
  <2> QED BY <1>1, <2>1, <2>2, IdleFacts DEF IInv, TypeOK
<1>7. MirrorInv(a)'
  <2> SUFFICES ASSUME At(a, "mirroring")', IsLast(req[a].per)', (reopens[req[a].per] = 0)'
             PROVE  Snapshot(Saved(cfg'[req'[a].per], req'[a].section, req'[a].cfg.rev,
                                   req'[a].cfg.closing)) = Snapshot(structure')
    BY DEF MirrorInv, Snapshot, Saved
  <2>1. req'[a].per \in Periods /\ p = req'[a].per
    <3>1. \A c : [Idle EXCEPT !.at = "mirroring", !.per = p, !.cfg = c, !.section = section].per = p
      BY DEF Idle
    <3> QED BY <1>1, <1>6, <3>1, IdleFacts DEF At, IInv, TypeOK
  <2>2. Shown(p)
    BY <1>1, <2>1, WritableIsOpen DEF Shown, IsLast, Existing, Periods
  <2> QED BY <1>5, <2>1, <2>2
<1>8. ScreenMirrorsOpenPeriod'
  BY <1>3, <1>5 DEF ScreenMirrorsOpenPeriod, OnScreen, Shown, At
<1> QED BY <1>7, <1>8 DEF OneRequest, ScreenInv

\* ... and pays it.
LEMMA ScreenMirrors ==
  ASSUME OneRequest, IInv, AloneInv, ScreenInv, NEW a \in Actors, PopulateMirror(a)
  PROVE  ScreenInv'
<1> DEFINE p == req[a].per
           c == req[a].cfg
           s == Saved(cfg[p], req[a].section, c.rev, c.closing)
<1>1. /\ cfg' = [cfg EXCEPT ![p] = s] /\ Finish(a) /\ At(a, "mirroring")
      /\ UNCHANGED <<structure, status, reopens>>
  BY DEF PopulateMirror, SetConfig
<1>2. p \in Periods /\ IsOpenPeriod(p)
  BY <1>1 DEF AloneInv, FreshInv, IsOpenPeriod, Open
<1>3. IsLast(p) /\ reopens[p] = 0 => Snapshot(s) = Snapshot(structure)
  BY <1>1 DEF ScreenInv, MirrorInv
<1> HIDE DEF p, c, s
<1>4. req'[a].at = "idle"
  BY <1>1, IdleFacts DEF Finish, IInv, TypeOK
<1>5. \A b \in Actors : MirrorInv(b)'
  BY <1>4 DEF OneRequest, MirrorInv, At
<1>6. ASSUME NEW q \in Periods, OnScreen(q)' PROVE (Snapshot(structure) = Snapshot(cfg[q]))'
  <2>1. IsLast(q) /\ status[q] = "OPEN" /\ reopens[q] = 0
    BY <1>1, <1>6 DEF OnScreen, IsLast, Existing
  <2>2. q = p
    BY <1>2, <2>1 DEF IsOpenPeriod, Open, IsLast, Existing, Periods
  <2>3. cfg'[q] = s
    BY <1>1, <1>2, <2>2 DEF IInv, TypeOK
  <2>4. Snapshot(structure') = Snapshot(cfg'[q])
    BY <1>1, <1>3, <2>1, <2>2, <2>3
  <2> QED BY <2>4 DEF Snapshot
<1> QED BY <1>5, <1>6 DEF ScreenInv, ScreenMirrorsOpenPeriod

\* A month is born with what the screen shows.
LEMMA ScreenOpens ==
  ASSUME OneRequest, IInv, AloneInv, ScreenInv, NEW a \in Actors, OpenNextCommit(a)
  PROVE  ScreenInv'
<1> DEFINE l == req[a].per
           c == req[a].cfg
<1>1. /\ At(a, "opening") /\ status[l + 1] = "none"
      /\ status' = [status EXCEPT ![l + 1] = "OPEN"]
      /\ cfg' = [cfg EXCEPT ![l + 1] = c] /\ Finish(a)
      /\ structure' = IF l = 0 THEN structure ELSE Reset(structure, c)
  BY DEF OpenNextCommit, SetConfig
<1>2. l \in 0 .. MaxPeriods - 1 /\ c \in Config /\ l + 1 \in Periods
  BY <1>1, PeriodsAssumption DEF IInv, OpeningInv, Periods
<1>3. IsLast(l) /\ Open = {} /\ (l = 0 => c = Snapshot(structure))
  BY <1>1 DEF AloneInv, FreshInv
<1> HIDE DEF l, c
<1>4. req'[a].at = "idle"
  BY <1>1, IdleFacts DEF Finish, IInv, TypeOK
<1>5. \A b \in Actors : MirrorInv(b)'
  BY <1>4 DEF OneRequest, MirrorInv, At
<1>6. ASSUME NEW q \in Periods, OnScreen(q)' PROVE (Snapshot(structure) = Snapshot(cfg[q]))'
  <2>1. status'[q] = "OPEN"
    BY <1>6 DEF OnScreen
  <2>2. q = l + 1
    BY <1>1, <1>2, <1>3, <2>1 DEF Open, IInv, TypeOK
  <2>3. cfg'[q] = c
    BY <1>1, <1>2, <2>2 DEF IInv, TypeOK
  <2>4. structure \in Config
    BY DEF IInv, TypeOK
  <2>5. Snapshot(Snapshot(structure)) = Snapshot(structure)
    BY <2>4 DEF Snapshot, Config
  <2>6. Snapshot(Reset(structure, c)) = Snapshot(c)
    BY <1>2, <2>4 DEF Snapshot, Reset, Config
  <2>7. Snapshot(structure') = Snapshot(cfg'[q])
    BY <1>1, <1>3, <2>3, <2>5, <2>6
  <2> QED BY <2>7 DEF Snapshot
<1> QED BY <1>5, <1>6 DEF ScreenInv, ScreenMirrorsOpenPeriod

LEMMA ScreenCloses ==
  ASSUME OneRequest, IInv, ScreenInv, NEW a \in Actors, CloseCommit(a)
  PROVE  ScreenInv'
<1>1. /\ ~At(a, "mirroring") /\ req[a].per \in Periods /\ status[req[a].per] # "none"
      /\ status' = [status EXCEPT ![req[a].per] = "CLOSED"] /\ Finish(a)
      /\ UNCHANGED <<structure, cfg, reopens>>
  BY DEF CloseCommit, At, IInv, ClosingInv
<1>2. req'[a].at # "mirroring"
  BY <1>1, IdleFacts DEF Finish, IInv, TypeOK
<1>3. \A q \in Periods : status'[q] = "none" <=> status[q] = "none"
  BY <1>1 DEF IInv, TypeOK
<1>4. \A q \in Periods : Shown(q)' => Shown(q)
  BY <1>1, <1>3, LastStays DEF Shown, IInv, TypeOK
<1> QED BY <1>1, <1>2, <1>4, ScreenKept

\* The other steps do not show.
LEMMA ScreenElsewhere ==
  ASSUME OneRequest, ~MayCrash, IInv, ScreenInv, NEW a \in Actors,
         \/ OpenNextRead(a) \/ PopulateRead(a) \/ Abandon(a)
         \/ \E p \in Periods : CloseRead(a, p) \/ ReopenRead(a, p)
         \/ \E pol \in Policy : UpdateLateDataPolicy(a, pol)
         \/ \E d \in DataPoints : CreateDatum(a, d) \/ VoidDatum(a, d)
         \/ \E d \in DataPoints, p \in Periods : ImputeRead(a, d, p) \/ ImputeLate(a, d, p)
         \/ ImputeCommit(a)
         \/ \E d \in DataPoints, p \in Periods, ch \in Choice : ResolveRead(a, d, p, ch)
         \/ ApplyCommit(a)
  PROVE  ScreenInv'
<1>1. UNCHANGED <<structure, cfg, status, reopens>>
  BY DEF OpenNextRead, PopulateRead, Abandon, CloseRead, ReopenRead, UpdateLateDataPolicy,
     CreateDatum, VoidDatum, ImputeRead, ImputeLate, ImputeCommit, ResolveRead, ApplyCommit, db
<1>2. ~At(a, "mirroring")
  BY DEF OpenNextRead, PopulateRead, Abandon, CloseRead, ReopenRead, UpdateLateDataPolicy,
     CreateDatum, VoidDatum, ImputeRead, ImputeLate, ImputeCommit, ResolveRead, ApplyCommit,
     Free, At, Written
<1>3. req'[a].at # "mirroring"
  <2>1. ASSUME UNCHANGED req \/ Finish(a) PROVE req'[a].at # "mirroring"
    BY <1>2, <2>1, IdleFacts DEF Finish, At, IInv, TypeOK
  <2>2. ASSUME OpenNextRead(a) PROVE req'[a].at # "mirroring"
    <3>1. PICK l : req' = [req EXCEPT ![a] =
                       [Idle EXCEPT !.at = "opening", !.per = l,
                          !.cfg = IF l = 0 THEN Snapshot(structure) ELSE Carry(cfg[l])]]
      BY <2>2 DEF OpenNextRead
    <3>2. PICK c : req'[a] = [Idle EXCEPT !.at = "opening", !.per = l, !.cfg = c]
      BY <3>1 DEF IInv, TypeOK
    <3> QED BY <3>2 DEF Idle
  <2>3. ASSUME NEW p \in Periods, CloseRead(a, p) PROVE req'[a].at # "mirroring"
    <3>1. req'[a] = [Idle EXCEPT !.at = "closing", !.per = p, !.cfg = cfg[p]]
      BY <2>3 DEF CloseRead, IInv, TypeOK
    <3> QED BY <3>1 DEF Idle
  <2>4. ASSUME NEW p \in Periods, ReopenRead(a, p) PROVE req'[a].at # "mirroring"
    <3>1. req'[a] = [Idle EXCEPT !.at = "reopening", !.per = p]
      BY <2>4 DEF ReopenRead, IInv, TypeOK
    <3> QED BY <3>1 DEF Idle
  <2>5. ASSUME PopulateRead(a) PROVE req'[a].at # "mirroring"
    <3>1. req'[a] = [Idle EXCEPT !.at = "populating", !.cfg = structure]
      BY <2>5 DEF PopulateRead, IInv, TypeOK
    <3> QED BY <3>1 DEF Idle
  <2>6. ASSUME NEW d \in DataPoints, NEW p \in Periods, ImputeRead(a, d, p)
        PROVE  req'[a].at # "mirroring"
    <3>1. req'[a] = [Idle EXCEPT !.at = "imputing", !.per = p, !.d = d]
      BY <2>6 DEF ImputeRead, IInv, TypeOK
    <3> QED BY <3>1 DEF Idle
  <2>7. ASSUME NEW d \in DataPoints, NEW p \in Periods,
               ImputeLate(a, d, p) \/ \E ch \in Choice : ResolveRead(a, d, p, ch)
        PROVE  req'[a].at # "mirroring"
    <3>1. \/ req'[a] = Idle
          \/ \E ch : req'[a] = [Idle EXCEPT !.at = "deciding", !.per = p, !.d = d, !.choice = ch]
      <4>1. \/ Finish(a)
            \/ \E ch : req' = [req EXCEPT ![a] =
                 [Idle EXCEPT !.at = "deciding", !.per = p, !.d = d, !.choice = ch]]
        BY <2>7 DEF ImputeLate, ResolveRead, Finish
      <4> QED BY <4>1 DEF Finish, IInv, TypeOK
    <3>2. \A ch : [Idle EXCEPT !.at = "deciding", !.per = p, !.d = d, !.choice = ch].at = "deciding"
      BY DEF Idle
    <3> QED BY <3>1, <3>2, IdleFacts
  <2>8. \/ UNCHANGED req \/ Finish(a) \/ OpenNextRead(a) \/ PopulateRead(a)
        \/ \E p \in Periods : CloseRead(a, p) \/ ReopenRead(a, p)
        \/ \E d \in DataPoints, p \in Periods :
             \/ ImputeRead(a, d, p) \/ ImputeLate(a, d, p)
             \/ \E ch \in Choice : ResolveRead(a, d, p, ch)
    BY DEF Abandon, UpdateLateDataPolicy, CreateDatum, VoidDatum, ImputeCommit, ApplyCommit
  <2> QED BY <2>1, <2>2, <2>3, <2>4, <2>5, <2>6, <2>7, <2>8
<1> QED BY <1>1, <1>2, <1>3, ScreenUntouched

\* With one request at a time and none dying between its writes, the screen shows
\* exactly what closing the newest open month will freeze; third-party work aside.
THEOREM ScreenInductive ==
  ASSUME OneRequest, ~MayCrash
  PROVE  Spec => []ScreenInv
<1>1. Init => ScreenInv
  BY IdleFacts DEF Init, ScreenInv, ScreenMirrorsOpenPeriod, OnScreen, MirrorInv, At
<1>2. ASSUME IInv, AloneInv, ScreenInv, [Next]_vars PROVE ScreenInv'
  <2>1. CASE UNCHANGED vars
    BY <1>2, <2>1 DEF vars, db, ScreenInv, ScreenMirrorsOpenPeriod, OnScreen, MirrorInv, At,
       IsLast, Existing, Snapshot, Saved
  <2>2. CASE Next
    <3>1. ASSUME NEW a \in Actors, ReopenCommit(a) \/ ApplyReopen(a) PROVE ScreenInv'
      <4>1. /\ ~At(a, "mirroring") /\ req[a].per \in Periods /\ status[req[a].per] # "none"
            /\ MarkReopened(req[a].per) /\ UNCHANGED <<structure, cfg>>
        BY <1>2, <3>1 DEF ReopenCommit, ApplyReopen, At, IInv, NeedsInv, PeriodNeeded
      <4>2. req'[a] = Idle \/ req'[a] = [req[a] EXCEPT !.at = "reopened"]
        BY <1>2, <3>1 DEF ReopenCommit, ApplyReopen, Finish, IInv, TypeOK
      <4>3. req'[a].at # "mirroring"
        BY <1>2, <4>2, IdleFacts DEF IInv, TypeOK, Request
      <4> QED BY <1>2, <4>1, <4>3, ScreenReopened
    <3> QED BY <1>2, <2>2, <3>1, NextInv, ScreenWrites, ScreenPopulates, ScreenMirrors, ScreenOpens,
            ScreenCloses, ScreenElsewhere DEF Next
  <2> QED BY <1>2, <2>1, <2>2
<1>3. IInv /\ AloneInv /\ ScreenInv /\ [Next]_vars => ScreenInv'
  BY <1>2
<1> QED BY <1>1, <1>3, Invariance, AloneInductive, PTL DEF Spec

\* What the screen shows of the newest open month is what closing it freezes.
THEOREM ScreenMirrored ==
  ASSUME OneRequest, ~MayCrash
  PROVE  Spec => []ScreenMirrorsOpenPeriod
<1>1. ScreenInv => ScreenMirrorsOpenPeriod
  BY DEF ScreenInv
<1> QED BY <1>1, ScreenInductive, PTL

-----------------------------------------------------------------------------
(* The months and the years as days.                                         *)

\* The day before the first of January.
Eve(y) == 365 * y + (y - 1) \div 4 - (y - 1) \div 100 + (y - 1) \div 400

\* The days each month has.
LEMMA DaysFacts ==
  ASSUME NEW y \in Int
  PROVE  /\ \A m \in 1 .. 12 : DaysOf(y, m) \in 28 .. 31
         /\ DaysOf(y, 2) = IF Leap(y) THEN 29 ELSE 28
         /\ \A m \in {4, 6, 9, 11} : DaysOf(y, m) = 30
         /\ \A m \in {1, 3, 5, 7, 8, 10, 12} : DaysOf(y, m) = 31
BY DEF DaysOf

\* The days of a year before each month: what the recursive function computes.
LEMMA BeforeTable ==
  ASSUME NEW y \in Int
  PROVE  LET f == DaysOf(y, 2)
         IN /\ Before(y, 1) = 0 /\ Before(y, 2) = 31 /\ Before(y, 3) = 31 + f
            /\ Before(y, 4) = 62 + f /\ Before(y, 5) = 92 + f /\ Before(y, 6) = 123 + f
            /\ Before(y, 7) = 153 + f /\ Before(y, 8) = 184 + f /\ Before(y, 9) = 215 + f
            /\ Before(y, 10) = 245 + f /\ Before(y, 11) = 276 + f /\ Before(y, 12) = 306 + f
<1> DEFINE f == DaysOf(y, 2)
           t == [i \in 1 .. 12 |->
                   IF i = 1 THEN 0 ELSE IF i = 2 THEN 31 ELSE IF i = 3 THEN 31 + f
                   ELSE IF i = 4 THEN 62 + f ELSE IF i = 5 THEN 92 + f ELSE IF i = 6 THEN 123 + f
                   ELSE IF i = 7 THEN 153 + f ELSE IF i = 8 THEN 184 + f
                   ELSE IF i = 9 THEN 215 + f ELSE IF i = 10 THEN 245 + f
                   ELSE IF i = 11 THEN 276 + f ELSE 306 + f]
           Is(b) == b = [i \in 1 .. 12 |-> IF i = 1 THEN 0 ELSE b[i - 1] + DaysOf(y, i - 1)]
           b == CHOOSE b : Is(b)
<1>1. f \in Int
  BY DaysFacts
<1>2. \A i \in 2 .. 12 : t[i] = t[i - 1] + DaysOf(y, i - 1)
  BY <1>1, DaysFacts
<1>3. Is(t)
  BY <1>2
<1>4. Is(b)
  BY <1>3
<1>5. \A m \in 1 .. 12 : Before(y, m) = b[m]
  BY DEF Before
<1> HIDE DEF b, f, t
<1>6. b[1] = 0 /\ \A i \in 2 .. 12 : b[i] = b[i - 1] + DaysOf(y, i - 1)
  BY <1>4
<1> QED BY <1>5, <1>6, <1>1, DaysFacts DEF f

\* A year of 365 days, and of 366 when it is a leap one.
LEMMA LeapYear ==
  ASSUME NEW y \in Int
  PROVE  Eve(y) \in Int /\ Eve(y + 1) = Eve(y) + (IF Leap(y) THEN 366 ELSE 365)
BY DEF Eve, Leap

\* A later year begins later.
LEMMA YearsGrow ==
  ASSUME NEW y \in Int, NEW z \in Int, y < z
  PROVE  Eve(y) + 362 <= Eve(z)
BY DEF Eve

\* A month begins where the one before ends, and December ends with the year.
LEMMA MonthFacts ==
  ASSUME NEW y \in Int, NEW m \in 1 .. 12
  PROVE  Before(y, m) \in Nat /\ DaysOf(y, m) \in 28 .. 31
<1>0. DaysOf(y, 2) \in 28 .. 29
  BY DaysFacts
<1>1. m \in {1, 2, 3, 4, 5, 6, 7, 8, 9, 10, 11, 12}
  OBVIOUS
<1>2. Before(y, m) \in Nat
  BY <1>0, <1>1, BeforeTable
<1> QED BY <1>2, DaysFacts

LEMMA MonthAfter ==
  ASSUME NEW y \in Int, NEW m \in 1 .. 11
  PROVE  Before(y, m + 1) = Before(y, m) + DaysOf(y, m)
<1>0. DaysOf(y, 2) \in 28 .. 29
  BY DaysFacts
<1>1. m \in {1, 2, 3, 4, 5, 6, 7, 8, 9, 10, 11}
  OBVIOUS
<1> QED BY <1>0, <1>1, BeforeTable, DaysFacts

LEMMA YearEnd ==
  ASSUME NEW y \in Int
  PROVE  Before(y, 1) = 0 /\ Eve(y) + Before(y, 12) + DaysOf(y, 12) = Eve(y + 1)
<1>0. DaysOf(y, 2) \in 28 .. 29 /\ (DaysOf(y, 2) = IF Leap(y) THEN 29 ELSE 28)
  BY DaysFacts
<1> QED BY <1>0, BeforeTable, DaysFacts, LeapYear

\* The day of a date, in its parts.
LEMMA UtcIs ==
  ASSUME NEW y \in Int, NEW m \in 1 .. 12, NEW d \in Int
  PROVE  Utc(y, m, d) \in Int /\ Utc(y, m, d) = Eve(y) + Before(y, m) + d
<1>1. Before(y, m) \in Nat
  BY MonthFacts
<1>2. Eve(y) \in Int
  BY LeapYear
<1>3. Utc(y, m, d) = Eve(y) + Before(y, m) + d
  BY DEF Utc, Eve
<1> QED BY <1>1, <1>2, <1>3

\* Two months of a year do not overlap ...
LEMMA MonthsGrow ==
  ASSUME NEW y \in Int, NEW m \in 1 .. 12, NEW n \in 1 .. 12, m < n
  PROVE  Before(y, m) + DaysOf(y, m) <= Before(y, n)
<1>0. DaysOf(y, 2) \in 28 .. 29
  BY DaysFacts
<1>1. m \in {1, 2, 3, 4, 5, 6, 7, 8, 9, 10, 11}
  OBVIOUS
<1>2. n \in {2, 3, 4, 5, 6, 7, 8, 9, 10, 11, 12}
  OBVIOUS
<1>3. Before(y, m + 1) <= Before(y, n)
  BY <1>1, <1>2, <1>0, BeforeTable
<1>4. Before(y, m + 1) = Before(y, m) + DaysOf(y, m)
  BY <1>1, MonthAfter
<1> QED BY <1>3, <1>4

\* ... and none leaves the year.
LEMMA MonthInYear ==
  ASSUME NEW y \in Int, NEW m \in 1 .. 12
  PROVE  Eve(y) + Before(y, m) + DaysOf(y, m) <= Eve(y + 1)
<1>1. Eve(y) + Before(y, 12) + DaysOf(y, 12) = Eve(y + 1)
  BY YearEnd
<1>2. 12 \in 1 .. 12 /\ Eve(y) \in Int
  BY LeapYear
<1>3. Before(y, 12) \in Nat /\ DaysOf(y, 12) \in Nat /\ Before(y, m) \in Nat /\ DaysOf(y, m) \in Nat
  <2>1. Before(y, 12) \in Nat /\ DaysOf(y, 12) \in 28 .. 31
    BY <1>2, MonthFacts
  <2>2. Before(y, m) \in Nat /\ DaysOf(y, m) \in 28 .. 31
    BY MonthFacts
  <2> QED BY <2>1, <2>2
<1>4. CASE m = 12
  BY <1>1, <1>2, <1>3, <1>4
<1>5. CASE m # 12
  <2>1. Before(y, m) + DaysOf(y, m) <= Before(y, 12)
    BY <1>5, <1>2, MonthsGrow
  <2> QED BY <1>1, <1>2, <1>3, <2>1
<1> QED BY <1>4, <1>5

\* The first of the month after one is the day after its last.
LEMMA MonthStep ==
  ASSUME NEW y \in Nat, NEW m \in 1 .. 12
  PROVE  LET n == FollowingMonth(y, m)
         IN /\ n[1] \in Nat /\ n[2] \in 1 .. 12
            /\ Utc(n[1], n[2], 1) = Utc(y, m, DaysOf(y, m)) + 1
            /\ 100 * y + m < 100 * n[1] + n[2]
<1>0. y \in Int /\ 1 \in 1 .. 12 /\ 12 \in 1 .. 12 /\ y + 1 \in Int /\ 1 \in Int
  OBVIOUS
<1>1. DaysOf(y, m) \in Int /\ Before(y, m) \in Int /\ Eve(y) \in Int
  <2>1. Before(y, m) \in Nat /\ DaysOf(y, m) \in 28 .. 31
    BY <1>0, MonthFacts
  <2> QED BY <2>1, <1>0, LeapYear
<1>2. Utc(y, m, DaysOf(y, m)) = Eve(y) + Before(y, m) + DaysOf(y, m)
  BY <1>0, <1>1, UtcIs
<1>3. CASE m = 12
  <2>1. Utc(y + 1, 1, 1) = Eve(y + 1) + Before(y + 1, 1) + 1
    BY <1>0, UtcIs
  <2>2. Before(y + 1, 1) = 0
    BY <1>0, YearEnd
  <2>3. Eve(y + 1) = Eve(y) + Before(y, 12) + DaysOf(y, 12)
    BY <1>0, YearEnd
  <2> QED BY <1>1, <1>2, <1>3, <2>1, <2>2, <2>3 DEF FollowingMonth
<1>4. CASE m # 12
  <2>0. m \in 1 .. 11 /\ m + 1 \in 1 .. 12
    BY <1>4
  <2>1. Utc(y, m + 1, 1) = Eve(y) + Before(y, m + 1) + 1
    BY <1>0, <2>0, UtcIs
  <2>2. Before(y, m + 1) = Before(y, m) + DaysOf(y, m)
    BY <1>0, <2>0, MonthAfter
  <2> QED BY <1>1, <1>2, <1>4, <2>0, <2>1, <2>2 DEF FollowingMonth
<1> QED BY <1>3, <1>4

\* A set of naturals has a least element.
LEMMA LeastNatural ==
  ASSUME NEW S \in SUBSET Nat, S # {}
  PROVE  \E n \in S : \A k \in S : n <= k
<1>1. PICK n \in S : \A k \in S : <<k, n>> \notin OpToRel(<, Nat)
  BY NatLessThanWellFounded, WFMin
<1>2. \A k \in S : ~ (k < n)
  BY <1>1 DEF OpToRel
<1> QED BY <1>2

LEMMA EveOfZero == Eve(0) = -1
<1>1. \A x \in Int : x + 1 = 0 => x \div 4 = x /\ x \div 100 = x /\ x \div 400 = x
  OBVIOUS
<1>2. -1 \in Int /\ -1 + 1 = 0 /\ 0 - 1 = -1
  OBVIOUS
<1>3. Eve(0) = 365 * 0 + (-1) \div 4 - (-1) \div 100 + (-1) \div 400
  BY <1>2 DEF Eve
<1>4. (-1) \div 4 = -1 /\ (-1) \div 100 = -1 /\ (-1) \div 400 = -1
  BY <1>1, <1>2
<1> QED BY <1>3, <1>4

\* The eve of a year, within the bounds DateOf takes a day by.
LEMMA EveBounds ==
  ASSUME NEW y \in Nat
  PROVE  /\ Eve(y) \in Int /\ Eve(y + 1) \in Int /\ Eve(y) < Eve(y + 1)
         /\ 365 * y <= Eve(y) + 1 /\ Eve(y) <= 366 * y
         /\ Utc(y, 1, 1) = Eve(y) + 1
<1>1. y \in Int /\ 1 \in 1 .. 12 /\ 1 \in Int /\ y + 1 \in Int
  OBVIOUS
<1>2. Eve(y) \in Int /\ Eve(y + 1) \in Int /\ Eve(y) < Eve(y + 1)
  BY <1>1, LeapYear
<1>3. 365 * y <= Eve(y) + 1 /\ Eve(y) <= 366 * y
  BY DEF Eve
<1>4. Utc(y, 1, 1) = Eve(y) + Before(y, 1) + 1
  BY <1>1, UtcIs
<1> QED BY <1>1, <1>2, <1>3, <1>4, YearEnd

\* Every day is in a year, in the range where DateOf looks for it ...
LEMMA YearOfDay ==
  ASSUME NEW day \in Nat
  PROVE  \E z \in day \div 366 - 1 .. day \div 365 + 1 :
           Utc(z, 1, 1) <= day /\ day < Utc(z + 1, 1, 1)
<1> DEFINE S == {z \in Nat : day < Eve(z + 1) + 1}
<1>1. day \in S
  <2>1. 365 * (day + 1) <= Eve(day + 1) + 1 /\ Eve(day + 1) \in Int
    BY EveBounds, day + 1 \in Nat
  <2> QED BY <2>1
<1>2. PICK z \in S : \A k \in S : z <= k
  BY <1>1, LeastNatural
<1>3. z \in Nat /\ z + 1 \in Nat
  BY <1>2
<1>4. Eve(z) + 1 <= day
  <2>1. CASE z = 0
    BY <2>1, EveOfZero
  <2>2. CASE z # 0
    <3>1. z - 1 \in Nat /\ (z - 1) + 1 = z
      BY <1>3, <2>2
    <3>2. z - 1 \notin S
      BY <1>2, <1>3, <3>1
    <3>3. ~ (day < Eve((z - 1) + 1) + 1)
      BY <3>1, <3>2
    <3> QED BY <3>1, <3>3, <1>3, EveBounds
  <2> QED BY <2>1, <2>2
<1>5. day < Eve(z + 1) + 1
  BY <1>2
<1> HIDE DEF S
<1>6. /\ Eve(z) \in Int /\ Eve(z + 1) \in Int
      /\ 365 * z <= Eve(z) + 1 /\ Eve(z + 1) <= 366 * (z + 1)
      /\ Utc(z, 1, 1) = Eve(z) + 1 /\ Utc(z + 1, 1, 1) = Eve(z + 1) + 1
  BY <1>3, EveBounds
<1>7. z \in day \div 366 - 1 .. day \div 365 + 1
  BY <1>3, <1>4, <1>5, <1>6
<1> QED BY <1>4, <1>5, <1>6, <1>7

\* ... and in a month of it.
LEMMA MonthOfDay ==
  ASSUME NEW day \in Nat, NEW y \in Nat, Utc(y, 1, 1) <= day, day < Utc(y + 1, 1, 1)
  PROVE  \E i \in 1 .. 12 : Utc(y, i, 1) <= day /\ day < Utc(y, i, 1) + DaysOf(y, i)
<1>1. /\ Eve(y) \in Int /\ Eve(y + 1) \in Int
      /\ Utc(y, 1, 1) = Eve(y) + 1 /\ Utc(y + 1, 1, 1) = Eve(y + 1) + 1
  BY EveBounds, y + 1 \in Nat
<1>2. SUFFICES \E i \in 1 .. 12 : /\ Eve(y) + Before(y, i) + 1 <= day
                                  /\ day < Eve(y) + Before(y, i) + 1 + DaysOf(y, i)
  <2>1. PICK i \in 1 .. 12 : /\ Eve(y) + Before(y, i) + 1 <= day
                             /\ day < Eve(y) + Before(y, i) + 1 + DaysOf(y, i)
    BY <1>2
  <2>2. Utc(y, i, 1) = Eve(y) + Before(y, i) + 1
    BY <2>1, UtcIs, y \in Int, 1 \in Int
  <2> QED BY <2>1, <2>2
<1> DEFINE S == {i \in 1 .. 12 : day < Eve(y) + Before(y, i) + 1 + DaysOf(y, i)}
<1>3. 12 \in S
  <2>1. Before(y, 12) \in Nat /\ DaysOf(y, 12) \in 28 .. 31
    BY MonthFacts, y \in Int, 12 \in 1 .. 12
  <2>2. Eve(y) + Before(y, 12) + DaysOf(y, 12) = Eve(y + 1)
    BY YearEnd, y \in Int
  <2> QED BY <1>1, <2>1, <2>2
<1>4. PICK i \in S : \A k \in S : i <= k
  <2>1. S \in SUBSET Nat
    OBVIOUS
  <2> QED BY <1>3, <2>1, LeastNatural
<1>5. i \in 1 .. 12 /\ day < Eve(y) + Before(y, i) + 1 + DaysOf(y, i)
  BY <1>4
<1>6. Eve(y) + Before(y, i) + 1 <= day
  <2>1. CASE i = 1
    BY <2>1, <1>1, YearEnd, y \in Int
  <2>2. CASE i # 1
    <3>1. i - 1 \in 1 .. 11 /\ i - 1 \in 1 .. 12 /\ (i - 1) + 1 = i
      BY <1>5, <2>2
    <3>2. i - 1 \notin S
      BY <1>4, <1>5, <3>1
    <3>3. ~ (day < Eve(y) + Before(y, i - 1) + 1 + DaysOf(y, i - 1))
      BY <3>1, <3>2
    <3>4. Before(y, (i - 1) + 1) = Before(y, i - 1) + DaysOf(y, i - 1)
      BY <3>1, MonthAfter, y \in Int
    <3>5. Before(y, i - 1) \in Nat /\ DaysOf(y, i - 1) \in 28 .. 31
      BY <3>1, MonthFacts, y \in Int
    <3> HIDE DEF S
    <3> QED BY <3>1, <3>3, <3>4, <3>5, <1>1
  <2> QED BY <2>1, <2>2
<1> QED BY <1>5, <1>6

\* The date of a day is a date of the calendar, and the day of that date is the day.
LEMMA DateFacts ==
  ASSUME NEW day \in Nat
  PROVE  LET d == DateOf(day)
         IN /\ d = <<d[1], d[2], d[3]>>
            /\ d[1] \in Nat /\ d[2] \in 1 .. 12 /\ d[3] \in 1 .. DaysOf(d[1], d[2])
            /\ Utc(d[1], d[2], d[3]) = day
            /\ Utc(d[1], 1, 1) <= day /\ day < Utc(d[1] + 1, 1, 1)
            /\ Utc(d[1], d[2], 1) <= day /\ day < Utc(d[1], d[2], 1) + DaysOf(d[1], d[2])
<1> DEFINE y == CHOOSE z \in day \div 366 - 1 .. day \div 365 + 1 :
                  Utc(z, 1, 1) <= day /\ day < Utc(z + 1, 1, 1)
           m == CHOOSE i \in 1 .. 12 : Utc(y, i, 1) <= day /\ day < Utc(y, i, 1) + DaysOf(y, i)
<1>1. y \in day \div 366 - 1 .. day \div 365 + 1 /\ Utc(y, 1, 1) <= day /\ day < Utc(y + 1, 1, 1)
  BY YearOfDay
<1>2. DateOf(day) = <<y, m, day - Utc(y, m, 1) + 1>>
  BY DEF DateOf
<1> HIDE DEF y
<1>3. y \in Nat
  <2>1. y \in Int /\ y >= -1 /\ 1 \in 1 .. 12 /\ 1 \in Int /\ y + 1 \in Int
    BY <1>1
  <2>2. CASE y = -1
    <3>1. Utc(y + 1, 1, 1) = Eve(0) + 1
      BY <2>2, EveBounds, 0 \in Nat
    <3> QED BY <3>1, <1>1, EveOfZero
  <2> QED BY <2>1, <2>2
<1>4. m \in 1 .. 12 /\ Utc(y, m, 1) <= day /\ day < Utc(y, m, 1) + DaysOf(y, m)
  BY <1>1, <1>3, MonthOfDay
<1> HIDE DEF m
<1>5. /\ y \in Int /\ Before(y, m) \in Nat /\ DaysOf(y, m) \in 28 .. 31
  <2>1. y \in Int
    BY <1>3
  <2>2. Before(y, m) \in Nat /\ DaysOf(y, m) \in 28 .. 31
    BY <2>1, <1>4, MonthFacts
  <2> QED BY <2>1, <2>2
<1>6. Eve(y) \in Int
  BY <1>5, LeapYear
<1>7. Utc(y, m, 1) = Eve(y) + Before(y, m) + 1
  BY <1>4, <1>5, UtcIs, 1 \in Int
<1> DEFINE d == day - Utc(y, m, 1) + 1
<1>8. d \in 1 .. DaysOf(y, m) /\ d \in Int
  BY <1>4, <1>5, <1>6, <1>7
<1>9. Utc(y, m, d) = Eve(y) + Before(y, m) + d
  BY <1>4, <1>5, <1>8, UtcIs
<1>10. Utc(y, m, d) = day
  BY <1>5, <1>6, <1>7, <1>9
<1>11. DateOf(day) = <<y, m, d>>
  BY <1>2
<1> HIDE DEF d
<1> QED BY <1>1, <1>3, <1>4, <1>8, <1>10, <1>11

-----------------------------------------------------------------------------
(* Codes of each rhythm.                                                     *)

\* A date of the calendar, and its digits.
IsDate(y, m, d) == y \in Nat /\ m \in 1 .. 12 /\ d \in 1 .. DaysOf(y, m)
Digits(y, m, d) == 10000 * y + 100 * m + d

\* Of two dates the later one has the greater year, month and day, in that order.
LEMMA DateOrder ==
  ASSUME NEW y, NEW m, NEW d, NEW z, NEW n, NEW e,
         IsDate(y, m, d), IsDate(z, n, e), Utc(y, m, d) < Utc(z, n, e)
  PROVE  Digits(y, m, d) < Digits(z, n, e)
<1> USE DEF Digits
<1>0. /\ y \in Nat /\ m \in 1 .. 12 /\ d \in 1 .. DaysOf(y, m)
      /\ z \in Nat /\ n \in 1 .. 12 /\ e \in 1 .. DaysOf(z, n)
      /\ y \in Int /\ z \in Int /\ z + 1 \in Int /\ z + 1 \in Nat
  BY DEF IsDate
<1>1. DaysOf(y, m) \in 28 .. 31 /\ Before(y, m) \in Nat
  BY <1>0, MonthFacts
<1>2. DaysOf(z, n) \in 28 .. 31 /\ Before(z, n) \in Nat
  BY <1>0, MonthFacts
<1>3. d \in 1 .. 31 /\ e \in 1 .. 31 /\ d \in Int /\ e \in Int
  BY <1>0, <1>1, <1>2
<1>4. Eve(y) \in Int /\ Eve(z) \in Int /\ Eve(z + 1) \in Int
  BY <1>0, EveBounds
<1>5. Utc(y, m, d) = Eve(y) + Before(y, m) + d
  BY <1>0, <1>3, UtcIs
<1>6. Utc(z, n, e) = Eve(z) + Before(z, n) + e
  BY <1>0, <1>3, UtcIs
<1>7. y <= z
  <2> SUFFICES ASSUME z + 1 <= y PROVE FALSE
    BY <1>0
  <2>1. Eve(z + 1) <= Eve(y)
    <3>1. CASE z + 1 = y
      BY <3>1, <1>4
    <3>2. CASE z + 1 < y
      <4>1. Eve(z + 1) + 362 <= Eve(y)
        BY <3>2, <1>0, YearsGrow
      <4> QED BY <4>1, <1>4
    <3> QED BY <1>0, <3>1, <3>2
  <2>2. Eve(z) + Before(z, n) + DaysOf(z, n) <= Eve(z + 1)
    BY <1>0, MonthInYear
  <2> QED BY <1>0, <2>1, <2>2, <1>1, <1>2, <1>3, <1>4, <1>5, <1>6
<1>8. CASE y < z
  BY <1>0, <1>3, <1>8
<1>9. CASE y = z
  <2>1. m <= n
    <3> SUFFICES ASSUME n < m PROVE FALSE
      BY <1>0
    <3>1. Before(y, n) + DaysOf(y, n) <= Before(y, m)
      BY <1>0, MonthsGrow
    <3> QED BY <1>0, <3>1, <1>1, <1>2, <1>3, <1>4, <1>5, <1>6, <1>9
  <2>2. CASE m < n
    BY <1>0, <1>3, <1>9, <2>2
  <2>3. CASE m = n
    BY <1>0, <1>1, <1>2, <1>3, <1>4, <1>5, <1>6, <1>9, <2>3
  <2> QED BY <1>0, <2>1, <2>2, <2>3
<1> QED BY <1>0, <1>7, <1>8, <1>9

\* The code of a day says that day, and comes in the order of its digits.
LEMMA IsoCodeFacts ==
  ASSUME NEW day \in Nat
  PROVE  /\ StartOfCode(IsoCode(day)) = day
         /\ IsoCode(day)[1] = "C"
         /\ Rank(IsoCode(day)) = Digits(DateOf(day)[1], DateOf(day)[2], DateOf(day)[3])
         /\ Rank(IsoCode(day)) \in Int
<1> DEFINE d == DateOf(day)
<1>1. d[1] \in Nat /\ d[2] \in 1 .. 12 /\ d[3] \in 1 .. DaysOf(d[1], d[2])
      /\ Utc(d[1], d[2], d[3]) = day
  BY DateFacts
<1>2. IsoCode(day) = <<"C", d[1], d[2], d[3]>>
  BY DEF IsoCode
<1>3. d[3] \in Int
  <2>1. d[1] \in Int
    BY <1>1
  <2>2. DaysOf(d[1], d[2]) \in 28 .. 31
    BY <2>1, <1>1, MonthFacts
  <2> QED BY <1>1, <2>2
<1> HIDE DEF d
<1>4. /\ Rank(<<"C", d[1], d[2], d[3]>>) = Digits(d[1], d[2], d[3])
      /\ Digits(d[1], d[2], d[3]) \in Int
  BY <1>1, <1>3 DEF Rank, Digits
<1>5. StartOfCode(<<"C", d[1], d[2], d[3]>>) = day
  BY <1>1 DEF StartOfCode
<1> QED BY <1>1, <1>2, <1>3, <1>4, <1>5 DEF d

\* The codes of custom cycles are ordered as their days.
LEMMA DatesGrow ==
  ASSUME NEW day \in Nat, NEW other \in Nat, day < other
  PROVE  Rank(IsoCode(day)) < Rank(IsoCode(other))
<1> DEFINE d == DateOf(day)
           e == DateOf(other)
<1>1. IsDate(d[1], d[2], d[3]) /\ Utc(d[1], d[2], d[3]) = day
  BY DateFacts DEF IsDate
<1>2. IsDate(e[1], e[2], e[3]) /\ Utc(e[1], e[2], e[3]) = other
  BY DateFacts DEF IsDate
<1>3. /\ Rank(IsoCode(day)) = Digits(d[1], d[2], d[3])
      /\ Rank(IsoCode(other)) = Digits(e[1], e[2], e[3])
  BY IsoCodeFacts
<1> HIDE DEF d, e
<1>4. Digits(d[1], d[2], d[3]) < Digits(e[1], e[2], e[3])
  BY <1>1, <1>2, DateOrder
<1> QED BY <1>3, <1>4

\* What a rhythm may be: one of the company, or a cycle of so many days from a date.
IsRhythm(r) ==
  \/ r.kind \in Rhythms
  \/ r.kind = "CUSTOM_DAYS" /\ r.lengthDays \in 1 .. 366 /\ r.anchor \in Int

\* The codes a rhythm makes.
IsOf(code, r) ==
  CASE r.kind = "MONTHLY"   -> \E y \in Nat, m \in 1 .. 12 : code = <<"M", y, m, 0>>
    [] r.kind = "BIWEEKLY"  -> \E y \in Nat, m \in 1 .. 12, h \in 1 .. 2 : code = <<"Q", y, m, h>>
    [] r.kind = "QUARTERLY" -> \E y \in Nat, q \in 1 .. 4 : code = <<"T", y, q, 0>>
    [] OTHER -> \E day \in Nat, k \in Int : /\ day = r.anchor + k * r.lengthDays
                                            /\ code = IsoCode(day)

\* From a code to the next of its rhythm: it is one of the rhythm, the days go on where the
\* others end, and it comes later in the order of the codes.
Follows(code, r) ==
  LET next == NextPeriodCode(code, r)
  IN /\ code # NoCode
     /\ NormalizeLegacyCode(code, r) = code /\ IsCodeOf(code, r)
     /\ IsOf(next, r)
     /\ PeriodBounds(code, r).code = code
     /\ PeriodBounds(code, r).start \in Int /\ PeriodBounds(code, r).end \in Int
     /\ PeriodBounds(code, r).start <= PeriodBounds(code, r).end
     /\ PeriodBounds(next, r).start = PeriodBounds(code, r).end + 1
     /\ Rank(code) \in Int /\ Rank(next) \in Int /\ Rank(code) < Rank(next)

\* A multiple of n less than n is none.
LEMMA Product ==
  ASSUME NEW n \in Nat, NEW e \in Int, n * e \in 0 .. n - 1
  PROVE  n * e = 0
<1>1. CASE e >= 1
  <2>1. n * e = n * (e - 1) + n
    OBVIOUS
  <2>2. n * (e - 1) >= 0
    BY <1>1
  <2> QED BY <2>1, <2>2
<1>2. CASE e <= -1
  <2>1. n * e = n * (e + 1) - n
    OBVIOUS
  <2>2. n * (e + 1) <= 0
    BY <1>2
  <2> QED BY <2>1, <2>2
<1>3. CASE e = 0
  BY <1>3
<1> QED BY <1>1, <1>2, <1>3

\* The rest of a division.
LEMMA Division ==
  ASSUME NEW z \in Int, NEW n \in Int, n > 0, NEW m \in Int, m = z % n
  PROVE  m >= 0 /\ m < n /\ \E q \in Int : z = n * q + m
<1>1. \E q \in Int : z = n * q + m
  BY Z3
<1> QED BY <1>1

\* A multiple leaves no rest: the days a cycle begins on.
LEMMA Multiple ==
  ASSUME NEW k \in Int, NEW n \in Nat \ {0}
  PROVE  (k * n) % n = 0
<1>1. PICK z \in Int : z = k * n
  OBVIOUS
<1>2. PICK m \in Int : m = z % n
  OBVIOUS
<1>3. m >= 0 /\ m < n /\ \E q \in Int : z = n * q + m
  <2>1. n \in Int /\ n > 0
    OBVIOUS
  <2> QED BY <1>2, <2>1, Division
<1>4. PICK q \in Int : z = n * q + m
  BY <1>3
<1>5. n * (k - q) = k * n - n * q
  OBVIOUS
<1>6. k * n - n * q = m
  BY <1>1, <1>4, n * q \in Int, k * n \in Int
<1>7. m = 0
  BY <1>3, <1>5, <1>6, Product, k - q \in Int, n \in Nat, m \in 0 .. n - 1
<1> QED BY <1>1, <1>2, <1>7
\* The days of a month a period begins or ends on.
LEMMA UtcDays ==
  ASSUME NEW y \in Nat, NEW m \in 1 .. 12
  PROVE  /\ Utc(y, m, 1) \in Int /\ Utc(y, m, 15) \in Int /\ Utc(y, m, DaysOf(y, m)) \in Int
         /\ Utc(y, m, 15) = Utc(y, m, 1) + 14 /\ Utc(y, m, 16) = Utc(y, m, 1) + 15
         /\ Utc(y, m, DaysOf(y, m)) = Utc(y, m, 1) + DaysOf(y, m) - 1
         /\ DaysOf(y, m) \in 28 .. 31
<1>0. y \in Int /\ 1 \in Int /\ 15 \in Int /\ 16 \in Int
  OBVIOUS
<1>1. Before(y, m) \in Nat /\ DaysOf(y, m) \in 28 .. 31
  BY <1>0, MonthFacts
<1>2. Eve(y) \in Int
  BY <1>0, LeapYear
<1>3. DaysOf(y, m) \in Int
  BY <1>1
<1>4. Utc(y, m, 1) = Eve(y) + Before(y, m) + 1
  BY <1>0, UtcIs
<1>5. Utc(y, m, 15) = Eve(y) + Before(y, m) + 15
  BY <1>0, UtcIs
<1>6. Utc(y, m, 16) = Eve(y) + Before(y, m) + 16
  BY <1>0, UtcIs
<1>7. Utc(y, m, DaysOf(y, m)) = Eve(y) + Before(y, m) + DaysOf(y, m)
  BY <1>0, <1>3, UtcIs
<1> QED BY <1>1, <1>2, <1>4, <1>5, <1>6, <1>7

\* Each rhythm goes from its codes to the next ones.
LEMMA MonthlyFollows ==
  ASSUME NEW r, r.kind = "MONTHLY", NEW code, IsOf(code, r)
  PROVE  Follows(code, r)
<1>1. PICK y \in Nat, m \in 1 .. 12 : code = <<"M", y, m, 0>>
  BY DEF IsOf
<1>2. PICK n : n = FollowingMonth(y, m)
  OBVIOUS
<1>3. /\ n[1] \in Nat /\ n[2] \in 1 .. 12
      /\ Utc(n[1], n[2], 1) = Utc(y, m, DaysOf(y, m)) + 1
      /\ 100 * y + m < 100 * n[1] + n[2]
  BY <1>2, MonthStep
<1>4. PICK z \in Nat, k \in 1 .. 12 : z = n[1] /\ k = n[2]
  BY <1>3
<1>5. NextPeriodCode(code, r) = <<"M", z, k, 0>>
  BY <1>1, <1>2, <1>4 DEF NextPeriodCode
<1>6. IsOf(<<"M", z, k, 0>>, r)
  BY DEF IsOf
<1>7. PeriodBounds(code, r) = [code |-> code, start |-> Utc(y, m, 1), end |-> Utc(y, m, DaysOf(y, m))]
  BY <1>1 DEF PeriodBounds
<1>8. PeriodBounds(<<"M", z, k, 0>>, r).start = Utc(z, k, 1)
  BY DEF PeriodBounds
<1>9. Rank(code) = 100 * (100 * y + m) /\ Rank(<<"M", z, k, 0>>) = 100 * (100 * z + k)
  BY <1>1 DEF Rank
<1>10. code # NoCode /\ NormalizeLegacyCode(code, r) = code /\ IsCodeOf(code, r)
  BY <1>1 DEF NoCode, NormalizeLegacyCode, IsCodeOf
<1>11. /\ Utc(y, m, 1) \in Int /\ Utc(y, m, DaysOf(y, m)) \in Int
       /\ Utc(y, m, 1) <= Utc(y, m, DaysOf(y, m))
       /\ Utc(z, k, 1) = Utc(y, m, DaysOf(y, m)) + 1
       /\ 100 * y + m < 100 * z + k
  <2>1. /\ Utc(y, m, 1) \in Int /\ Utc(y, m, DaysOf(y, m)) \in Int
        /\ Utc(y, m, DaysOf(y, m)) = Utc(y, m, 1) + DaysOf(y, m) - 1
        /\ DaysOf(y, m) \in 28 .. 31
    BY UtcDays
  <2> QED BY <1>3, <1>4, <2>1
<1>12. Rank(code) \in Int /\ Rank(<<"M", z, k, 0>>) \in Int /\ Rank(code) < Rank(<<"M", z, k, 0>>)
  BY <1>9, <1>11
<1> QED BY <1>5, <1>6, <1>7, <1>8, <1>10, <1>11, <1>12 DEF Follows

LEMMA BiweeklyFollows ==
  ASSUME NEW r, r.kind = "BIWEEKLY", NEW code, IsOf(code, r)
  PROVE  Follows(code, r)
<1>1. PICK y \in Nat, m \in 1 .. 12, h \in 1 .. 2 : code = <<"Q", y, m, h>>
  BY DEF IsOf
<1>2. PICK n : n = FollowingMonth(y, m)
  OBVIOUS
<1>3. /\ n[1] \in Nat /\ n[2] \in 1 .. 12
      /\ Utc(n[1], n[2], 1) = Utc(y, m, DaysOf(y, m)) + 1
      /\ 100 * y + m < 100 * n[1] + n[2]
  BY <1>2, MonthStep
<1>4. PICK z \in Nat, k \in 1 .. 12 : z = n[1] /\ k = n[2]
  BY <1>3
<1>5. code # NoCode /\ NormalizeLegacyCode(code, r) = code /\ IsCodeOf(code, r)
  BY <1>1 DEF NoCode, NormalizeLegacyCode, IsCodeOf
<1>6. Rank(code) = 100 * (100 * y + m) + 31 + h
  BY <1>1 DEF Rank
<1>7. CASE h = 1
  <2>1. NextPeriodCode(code, r) = <<"Q", y, m, 2>>
    BY <1>1, <1>7 DEF NextPeriodCode
  <2>2. IsOf(<<"Q", y, m, 2>>, r)
    BY 2 \in 1 .. 2 DEF IsOf
  <2>3. PeriodBounds(code, r) = [code |-> code, start |-> Utc(y, m, 1), end |-> Utc(y, m, 15)]
    BY <1>1, <1>7 DEF PeriodBounds
  <2>4. PeriodBounds(<<"Q", y, m, 2>>, r).start = Utc(y, m, 16)
    BY DEF PeriodBounds
  <2>5. Rank(<<"Q", y, m, 2>>) = 100 * (100 * y + m) + 31 + 2
    BY DEF Rank
  <2>6. /\ Rank(code) \in Int /\ Rank(<<"Q", y, m, 2>>) \in Int
        /\ Rank(code) < Rank(<<"Q", y, m, 2>>)
    BY <1>6, <1>7, <2>5
  <2>7. /\ Utc(y, m, 1) \in Int /\ Utc(y, m, 15) \in Int
        /\ Utc(y, m, 1) <= Utc(y, m, 15) /\ Utc(y, m, 16) = Utc(y, m, 15) + 1
    BY UtcDays
  <2> QED BY <1>5, <2>1, <2>2, <2>3, <2>4, <2>6, <2>7 DEF Follows
<1>8. CASE h = 2
  <2>1. NextPeriodCode(code, r) = <<"Q", z, k, 1>>
    BY <1>1, <1>2, <1>4, <1>8 DEF NextPeriodCode
  <2>2. IsOf(<<"Q", z, k, 1>>, r)
    BY 1 \in 1 .. 2 DEF IsOf
  <2>3. PeriodBounds(code, r) = [code |-> code, start |-> Utc(y, m, 16), end |-> Utc(y, m, DaysOf(y, m))]
    BY <1>1, <1>8 DEF PeriodBounds
  <2>4. PeriodBounds(<<"Q", z, k, 1>>, r).start = Utc(z, k, 1)
    BY DEF PeriodBounds
  <2>5. Rank(<<"Q", z, k, 1>>) = 100 * (100 * z + k) + 31 + 1
    BY DEF Rank
  <2>6. /\ Rank(code) \in Int /\ Rank(<<"Q", z, k, 1>>) \in Int
        /\ Rank(code) < Rank(<<"Q", z, k, 1>>)
    BY <1>3, <1>4, <1>6, <1>8, <2>5
  <2>7. /\ Utc(y, m, 16) \in Int /\ Utc(y, m, DaysOf(y, m)) \in Int
        /\ Utc(y, m, 16) <= Utc(y, m, DaysOf(y, m))
        /\ Utc(z, k, 1) = Utc(y, m, DaysOf(y, m)) + 1
    <3>1. /\ Utc(y, m, 1) \in Int /\ Utc(y, m, 16) = Utc(y, m, 1) + 15
          /\ Utc(y, m, DaysOf(y, m)) = Utc(y, m, 1) + DaysOf(y, m) - 1
          /\ DaysOf(y, m) \in 28 .. 31
      BY UtcDays
    <3> QED BY <1>3, <1>4, <3>1
  <2> QED BY <1>5, <2>1, <2>2, <2>3, <2>4, <2>6, <2>7 DEF Follows
<1> QED BY <1>7, <1>8

LEMMA QuarterlyFollows ==
  ASSUME NEW r, r.kind = "QUARTERLY", NEW code, IsOf(code, r)
  PROVE  Follows(code, r)
<1>1. PICK y \in Nat, q \in 1 .. 4 : code = <<"T", y, q, 0>>
  BY DEF IsOf
<1>2. PICK m, last : m = (q - 1) * 3 + 1 /\ last = m + 2
  OBVIOUS
<1>3. m \in 1 .. 12 /\ last \in 1 .. 12 /\ m < last /\ last = 3 * q
  BY <1>2
<1>4. PICK n : n = FollowingMonth(y, last)
  OBVIOUS
<1>5. Utc(n[1], n[2], 1) = Utc(y, last, DaysOf(y, last)) + 1
  BY <1>3, <1>4, MonthStep
<1>6. code # NoCode /\ NormalizeLegacyCode(code, r) = code /\ IsCodeOf(code, r)
  BY <1>1 DEF NoCode, NormalizeLegacyCode, IsCodeOf
<1>7. Rank(code) = 10000 * y + 100 * (12 + q) /\ Rank(code) \in Int
  BY <1>1 DEF Rank
<1>8. PeriodBounds(code, r) = [code |-> code, start |-> Utc(y, m, 1), end |-> Utc(y, last, DaysOf(y, last))]
  BY <1>1, <1>2 DEF PeriodBounds
<1>9. /\ Utc(y, m, 1) \in Int /\ Utc(y, last, DaysOf(y, last)) \in Int
      /\ Utc(y, m, 1) <= Utc(y, last, DaysOf(y, last))
  <2>1. y \in Int /\ 1 \in Int
    OBVIOUS
  <2>2. Before(y, m) \in Nat /\ DaysOf(y, m) \in 28 .. 31
    <3>1. m \in 1 .. 12
      BY <1>3
    <3> QED BY <2>1, <3>1, MonthFacts
  <2>3. Before(y, last) \in Nat /\ DaysOf(y, last) \in 28 .. 31 /\ DaysOf(y, last) \in Int
    <3>1. last \in 1 .. 12
      BY <1>3
    <3>2. Before(y, last) \in Nat /\ DaysOf(y, last) \in 28 .. 31
      BY <2>1, <3>1, MonthFacts
    <3> QED BY <3>2
  <2>4. Before(y, m) + DaysOf(y, m) <= Before(y, last)
    BY <2>1, <1>3, MonthsGrow
  <2>5. Utc(y, m, 1) = Eve(y) + Before(y, m) + 1
    BY <2>1, <1>3, UtcIs
  <2>6. Utc(y, last, DaysOf(y, last)) = Eve(y) + Before(y, last) + DaysOf(y, last)
    BY <2>1, <2>3, <1>3, UtcIs
  <2>7. Eve(y) \in Int
    BY <2>1, LeapYear
  <2> QED BY <2>2, <2>3, <2>4, <2>5, <2>6, <2>7
<1>10. CASE q = 4
  <2>1. NextPeriodCode(code, r) = <<"T", y + 1, 1, 0>>
    BY <1>1, <1>10 DEF NextPeriodCode
  <2>2. IsOf(<<"T", y + 1, 1, 0>>, r)
    BY 1 \in 1 .. 4, y + 1 \in Nat DEF IsOf
  <2>3. PeriodBounds(<<"T", y + 1, 1, 0>>, r).start = Utc(y + 1, 1, 1)
    BY DEF PeriodBounds
  <2>4. n[1] = y + 1 /\ n[2] = 1
    BY <1>3, <1>4, <1>10 DEF FollowingMonth
  <2>5. Rank(<<"T", y + 1, 1, 0>>) = 10000 * (y + 1) + 100 * 13
    BY DEF Rank
  <2>6. /\ Rank(<<"T", y + 1, 1, 0>>) \in Int /\ Rank(code) < Rank(<<"T", y + 1, 1, 0>>)
    BY <1>7, <1>10, <2>5
  <2> QED BY <1>5, <1>6, <1>7, <1>8, <1>9, <2>1, <2>2, <2>3, <2>4, <2>6 DEF Follows
<1>11. CASE q # 4
  <2>0. q + 1 \in 1 .. 4
    BY <1>11
  <2>1. NextPeriodCode(code, r) = <<"T", y, q + 1, 0>>
    BY <1>1, <1>11 DEF NextPeriodCode
  <2>2. IsOf(<<"T", y, q + 1, 0>>, r)
    BY <2>0 DEF IsOf
  <2>3. PeriodBounds(<<"T", y, q + 1, 0>>, r).start = Utc(y, last + 1, 1)
    <3>1. (q + 1 - 1) * 3 + 1 = last + 1
      BY <1>3
    <3> QED BY <3>1 DEF PeriodBounds
  <2>4. n[1] = y /\ n[2] = last + 1
    BY <1>3, <1>4, <1>11 DEF FollowingMonth
  <2>5. Rank(<<"T", y, q + 1, 0>>) = 10000 * y + 100 * (12 + (q + 1))
    BY DEF Rank
  <2>6. /\ Rank(<<"T", y, q + 1, 0>>) \in Int /\ Rank(code) < Rank(<<"T", y, q + 1, 0>>)
    BY <1>7, <2>5
  <2> QED BY <1>5, <1>6, <1>7, <1>8, <1>9, <2>1, <2>2, <2>3, <2>4, <2>6 DEF Follows
<1> QED BY <1>10, <1>11

LEMMA CustomFollows ==
  ASSUME NEW r, r.kind = "CUSTOM_DAYS", r.lengthDays \in 1 .. 366, r.anchor \in Int,
         NEW code, IsOf(code, r)
  PROVE  Follows(code, r)
<1>1. PICK day \in Nat, k \in Int : day = r.anchor + k * r.lengthDays /\ code = IsoCode(day)
  BY DEF IsOf
<1>2. PICK len \in 1 .. 366, anchor \in Int : len = r.lengthDays /\ anchor = r.anchor
  OBVIOUS
<1>3. PICK later : later = day + len
  OBVIOUS
<1>4. later \in Nat /\ day < later
  BY <1>2, <1>3
<1>5. code[1] = "C" /\ StartOfCode(code) = day /\ Rank(code) \in Int
  BY <1>1, IsoCodeFacts
<1>6. IsoCode(later)[1] = "C" /\ StartOfCode(IsoCode(later)) = later /\ Rank(IsoCode(later)) \in Int
  BY <1>4, IsoCodeFacts
<1>7. NextPeriodCode(code, r) = IsoCode(later)
  BY <1>2, <1>3, <1>5 DEF NextPeriodCode
<1>8. later = anchor + (k + 1) * len /\ k + 1 \in Int
  <2>1. day = anchor + k * len
    BY <1>1, <1>2
  <2>2. (k + 1) * len = k * len + len
    OBVIOUS
  <2> QED BY <1>3, <2>1, <2>2, k * len \in Int
<1>9. IsOf(IsoCode(later), r)
  BY <1>2, <1>4, <1>8 DEF IsOf
<1>10. Rank(code) < Rank(IsoCode(later))
  BY <1>1, <1>4, DatesGrow
<1>11. PeriodBounds(code, r) = [code |-> code, start |-> day, end |-> day + len - 1]
  BY <1>2, <1>5 DEF PeriodBounds
<1>12. PeriodBounds(IsoCode(later), r).start = later
  BY <1>6 DEF PeriodBounds
<1>13. code # NoCode /\ NormalizeLegacyCode(code, r) = code
  BY <1>5 DEF NoCode, NormalizeLegacyCode
<1>14. IsCodeOf(code, r)
  <2>1. (k * len) % len = 0
    BY Multiple, len \in Nat \ {0}
  <2>2. day - anchor = k * len
    BY <1>1, <1>2, k * len \in Int
  <2> QED BY <1>2, <1>5, <2>1, <2>2 DEF IsCodeOf
<1>15. day \in Int /\ day + len - 1 \in Int /\ day <= day + len - 1 /\ later = (day + len - 1) + 1
  BY <1>2, <1>3
<1> QED BY <1>5, <1>6, <1>7, <1>9, <1>10, <1>11, <1>12, <1>13, <1>14, <1>15 DEF Follows

\* A date of the first year or later is the day 366 or later.
LEMMA LateEnough ==
  ASSUME NEW y \in Nat \ {0}, NEW m \in 1 .. 12, NEW d \in Int, d >= 1
  PROVE  Utc(y, m, d) \in Nat /\ Utc(y, m, d) >= 366
<1>1. y \in Int
  OBVIOUS
<1>2. Before(y, m) \in Nat /\ DaysOf(y, m) \in 28 .. 31
  BY <1>1, MonthFacts
<1>3. Eve(y) \in Int /\ Eve(y) >= 365
  <2>1. Eve(y) \in Int
    BY <1>1, LeapYear
  <2>2. Eve(y) >= 365
    BY DEF Eve
  <2> QED BY <2>1, <2>2
<1>4. Utc(y, m, d) = Eve(y) + Before(y, m) + d
  BY <1>1, UtcIs
<1> QED BY <1>2, <1>3, <1>4

\* A day and its date, taken apart.
LEMMA DayFacts ==
  ASSUME NEW day \in Nat
  PROVE  \E y \in Nat, m \in 1 .. 12, d \in 1 .. 31 :
           /\ DateOf(day) = <<y, m, d>> /\ day = Utc(y, m, 1) + d - 1 /\ d <= DaysOf(y, m)
           /\ day < Utc(y + 1, 1, 1)
<1> DEFINE e == DateOf(day)
<1>1. /\ e = <<e[1], e[2], e[3]>>
      /\ e[1] \in Nat /\ e[2] \in 1 .. 12 /\ e[3] \in 1 .. DaysOf(e[1], e[2])
      /\ Utc(e[1], e[2], e[3]) = day /\ day < Utc(e[1] + 1, 1, 1)
  BY DateFacts
<1> HIDE DEF e
<1>2. PICK y, m, d : y = e[1] /\ m = e[2] /\ d = e[3]
  OBVIOUS
<1>3. /\ e = <<y, m, d>> /\ y \in Nat /\ m \in 1 .. 12 /\ d \in 1 .. DaysOf(y, m)
      /\ Utc(y, m, d) = day /\ day < Utc(y + 1, 1, 1)
  BY <1>1, <1>2
<1>4. y \in Int /\ y \in Nat /\ m \in 1 .. 12 /\ 1 \in Int
  BY <1>3
<1>5. Before(y, m) \in Nat /\ DaysOf(y, m) \in 28 .. 31
  BY <1>4, MonthFacts
<1>6. d \in 1 .. 31 /\ d \in Int /\ d <= DaysOf(y, m)
  BY <1>3, <1>5
<1>7. Eve(y) \in Int
  BY <1>4, LeapYear
<1>8. Utc(y, m, d) = Eve(y) + Before(y, m) + d
  BY <1>4, <1>6, UtcIs
<1>9. Utc(y, m, 1) = Eve(y) + Before(y, m) + 1
  BY <1>4, UtcIs
<1>10. day = Utc(y, m, 1) + d - 1
  BY <1>3, <1>5, <1>6, <1>7, <1>8, <1>9
<1> QED BY <1>3, <1>4, <1>6, <1>10 DEF e

\* A later date of the months of a quarter stays in it.
LEMMA QuarterHolds ==
  ASSUME NEW y \in Nat, NEW m \in 1 .. 12, NEW n \in 1 .. 12, m <= n
  PROVE  /\ Utc(y, m, 1) <= Utc(y, n, 1) /\ Utc(y, m, 1) \in Int /\ Utc(y, n, 1) \in Int
         /\ Utc(y, m, 1) + DaysOf(y, m) - 1 <= Utc(y, n, DaysOf(y, n))
         /\ DaysOf(y, m) \in 28 .. 31 /\ Utc(y, n, DaysOf(y, n)) \in Int
<1>0. y \in Int /\ 1 \in Int
  OBVIOUS
<1>1. Before(y, m) \in Nat /\ DaysOf(y, m) \in 28 .. 31
  BY <1>0, MonthFacts
<1>2. Before(y, n) \in Nat /\ DaysOf(y, n) \in 28 .. 31
  BY <1>0, MonthFacts
<1>3. Eve(y) \in Int
  BY <1>0, LeapYear
<1>4. Utc(y, m, 1) = Eve(y) + Before(y, m) + 1
  BY <1>0, UtcIs
<1>5. Utc(y, n, 1) = Eve(y) + Before(y, n) + 1
  BY <1>0, UtcIs
<1>6. DaysOf(y, n) \in Int
  BY <1>2
<1>7. Utc(y, n, DaysOf(y, n)) = Eve(y) + Before(y, n) + DaysOf(y, n)
  BY <1>0, <1>6, UtcIs
<1>8. CASE m = n
  BY <1>1, <1>2, <1>3, <1>4, <1>5, <1>7, <1>8
<1>9. CASE m # n
  <2>1. Before(y, m) + DaysOf(y, m) <= Before(y, n)
    BY <1>0, <1>9, MonthsGrow
  <2> QED BY <2>1, <1>1, <1>2, <1>3, <1>4, <1>5, <1>7
<1> QED BY <1>8, <1>9

\* The cycle a day is in begins that day or before, and ends that day or after.
LEMMA CycleHolds ==
  ASSUME NEW r, r.lengthDays \in 1 .. 366, r.anchor \in Int, NEW day \in Nat, day >= 366
  PROVE  LET start == CycleStartFor(day, r)
         IN /\ start \in Nat /\ start <= day /\ day <= start + r.lengthDays - 1
            /\ \E k \in Int : start = r.anchor + k * r.lengthDays
<1>1. PICK len \in 1 .. 366, anchor \in Int : len = r.lengthDays /\ anchor = r.anchor
  OBVIOUS
<1>2. PICK z \in Int : z = day - anchor
  OBVIOUS
<1>3. PICK q \in Int : q = z \div len
  BY len \in Nat \ {0}
<1>4. PICK p \in Int : p = len * q
  OBVIOUS
<1>5. p <= z /\ z < p + len
  BY <1>3, <1>4, len \in Int, len > 0, Z3
<1>6. CycleStartFor(day, r) = anchor + q * len
  BY <1>1, <1>2, <1>3 DEF CycleStartFor
<1>7. q * len = p
  BY <1>4
<1>8. anchor + q * len \in Nat /\ anchor + q * len <= day /\ day <= anchor + q * len + len - 1
  BY <1>2, <1>5, <1>7
<1> QED BY <1>1, <1>6, <1>8

\* The period of a day, as the rhythm says it, is one of the rhythm and holds that day.
Holds(code, r, day) ==
  IsOf(code, r) /\ PeriodBounds(code, r).start <= day /\ day <= PeriodBounds(code, r).end

\* codeFromDate: the code of a day is of the rhythm, and its period holds the day.
LEMMA CodeHolds ==
  ASSUME NEW r, IsRhythm(r), NEW day \in Nat, day >= 366
  PROVE  Holds(CodeFromDate(day, r), r, day)
<1>1. PICK y \in Nat, m \in 1 .. 12, d \in 1 .. 31 :
        /\ DateOf(day) = <<y, m, d>> /\ day = Utc(y, m, 1) + d - 1 /\ d <= DaysOf(y, m)
  BY DayFacts
<1>2. /\ Utc(y, m, 1) \in Int /\ Utc(y, m, DaysOf(y, m)) \in Int /\ DaysOf(y, m) \in 28 .. 31
      /\ Utc(y, m, 15) = Utc(y, m, 1) + 14 /\ Utc(y, m, 16) = Utc(y, m, 1) + 15
      /\ Utc(y, m, DaysOf(y, m)) = Utc(y, m, 1) + DaysOf(y, m) - 1
  BY UtcDays
<1>3. Utc(y, m, 1) <= day /\ day <= Utc(y, m, DaysOf(y, m))
  BY <1>1, <1>2
<1>4. CASE r.kind = "MONTHLY"
  <2>1. CodeFromDate(day, r) = <<"M", y, m, 0>>
    BY <1>1, <1>4 DEF CodeFromDate
  <2>2. IsOf(<<"M", y, m, 0>>, r)
    BY <1>4 DEF IsOf
  <2>3. /\ PeriodBounds(<<"M", y, m, 0>>, r).start = Utc(y, m, 1)
        /\ PeriodBounds(<<"M", y, m, 0>>, r).end = Utc(y, m, DaysOf(y, m))
    BY DEF PeriodBounds
  <2> QED BY <2>1, <2>2, <2>3, <1>3 DEF Holds
<1>5. CASE r.kind = "BIWEEKLY" /\ d <= 15
  <2>1. CodeFromDate(day, r) = <<"Q", y, m, 1>>
    BY <1>1, <1>5 DEF CodeFromDate
  <2>2. IsOf(<<"Q", y, m, 1>>, r)
    BY <1>5, 1 \in 1 .. 2 DEF IsOf
  <2>3. /\ PeriodBounds(<<"Q", y, m, 1>>, r).start = Utc(y, m, 1)
        /\ PeriodBounds(<<"Q", y, m, 1>>, r).end = Utc(y, m, 15)
    BY DEF PeriodBounds
  <2>4. Utc(y, m, 1) <= day /\ day <= Utc(y, m, 15)
    BY <1>1, <1>2, <1>5
  <2> QED BY <2>1, <2>2, <2>3, <2>4 DEF Holds
<1>6. CASE r.kind = "BIWEEKLY" /\ ~ (d <= 15)
  <2>1. CodeFromDate(day, r) = <<"Q", y, m, 2>>
    BY <1>1, <1>6 DEF CodeFromDate
  <2>2. IsOf(<<"Q", y, m, 2>>, r)
    BY <1>6, 2 \in 1 .. 2 DEF IsOf
  <2>3. /\ PeriodBounds(<<"Q", y, m, 2>>, r).start = Utc(y, m, 16)
        /\ PeriodBounds(<<"Q", y, m, 2>>, r).end = Utc(y, m, DaysOf(y, m))
    BY DEF PeriodBounds
  <2>4. Utc(y, m, 16) <= day
    BY <1>1, <1>2, <1>6
  <2> QED BY <2>1, <2>2, <2>3, <2>4, <1>3 DEF Holds
<1>7. CASE r.kind = "QUARTERLY"
  <2>1. PICK q \in 1 .. 4 : q = (m - 1) \div 3 + 1
    OBVIOUS
  <2>2. PICK first \in 1 .. 12, last \in 1 .. 12 : /\ first = (q - 1) * 3 + 1 /\ last = first + 2
                                                   /\ first <= m /\ m <= last
    BY <2>1
  <2>3. CodeFromDate(day, r) = <<"T", y, q, 0>>
    BY <1>1, <1>7, <2>1 DEF CodeFromDate
  <2>4. IsOf(<<"T", y, q, 0>>, r)
    BY <1>7 DEF IsOf
  <2>5. /\ PeriodBounds(<<"T", y, q, 0>>, r).start = Utc(y, first, 1)
        /\ PeriodBounds(<<"T", y, q, 0>>, r).end = Utc(y, last, DaysOf(y, last))
    BY <2>2 DEF PeriodBounds
  <2>6. Utc(y, first, 1) <= Utc(y, m, 1) /\ Utc(y, first, 1) \in Int
    BY <2>2, QuarterHolds
  <2>7. /\ Utc(y, m, 1) + DaysOf(y, m) - 1 <= Utc(y, last, DaysOf(y, last))
        /\ Utc(y, last, DaysOf(y, last)) \in Int
    BY <2>2, QuarterHolds
  <2>8. Utc(y, first, 1) <= day /\ day <= Utc(y, last, DaysOf(y, last))
    BY <2>6, <2>7, <1>1, <1>2, <1>3
  <2> QED BY <2>3, <2>4, <2>5, <2>8 DEF Holds
<1>8. CASE r.kind = "CUSTOM_DAYS" /\ r.lengthDays \in 1 .. 366 /\ r.anchor \in Int
  <2>1. PICK start : start = CycleStartFor(day, r)
    OBVIOUS
  <2>2. /\ start \in Nat /\ start <= day /\ day <= start + r.lengthDays - 1
        /\ \E k \in Int : start = r.anchor + k * r.lengthDays
    BY <1>8, <2>1, CycleHolds
  <2>3. CodeFromDate(day, r) = IsoCode(start)
    BY <1>8, <2>1 DEF CodeFromDate
  <2>4. IsOf(IsoCode(start), r)
    BY <1>8, <2>2 DEF IsOf
  <2>5. StartOfCode(IsoCode(start)) = start /\ IsoCode(start)[1] = "C"
    BY <2>2, IsoCodeFacts
  <2>6. /\ PeriodBounds(IsoCode(start), r).start = start
        /\ PeriodBounds(IsoCode(start), r).end = start + r.lengthDays - 1
    BY <2>5 DEF PeriodBounds
  <2> QED BY <2>2, <2>3, <2>4, <2>6 DEF Holds
<1> QED BY <1>4, <1>5, <1>6, <1>7, <1>8 DEF IsRhythm, Rhythms

\* Whatever the rhythm is, its codes go on.
LEMMA RhythmFollows ==
  ASSUME NEW r, IsRhythm(r), NEW code, IsOf(code, r)
  PROVE  Follows(code, r)
BY MonthlyFollows, BiweeklyFollows, QuarterlyFollows, CustomFollows DEF IsRhythm, Rhythms

\* The first code of a structure: the one of the day it was created, with the rhythm its
\* company had then, read with the rhythm it has.
LEMMA FirstCode ==
  ASSUME NEW r, IsRhythm(r), NEW kind \in Rhythms, NEW day \in Nat, day >= 366,
         NEW code, code = NormalizeLegacyCode(CodeFromDate(day, Plain(kind)), r), IsCodeOf(code, r)
  PROVE  IsOf(code, r) /\ (Plain(kind) = r => Holds(code, r, day))
<1>1. PICK old : old = CodeFromDate(day, Plain(kind))
  OBVIOUS
<1>2. Plain(kind).kind = kind /\ IsRhythm(Plain(kind))
  BY DEF Plain, IsRhythm
<1>3. Holds(old, Plain(kind), day)
  BY <1>1, <1>2, CodeHolds
<1>4. PICK y \in Nat, m \in 1 .. 12, d \in 1 .. 31 :
        /\ DateOf(day) = <<y, m, d>> /\ day = Utc(y, m, 1) + d - 1 /\ d <= DaysOf(y, m)
        /\ day < Utc(y + 1, 1, 1)
  BY DayFacts
<1>5. y # 0
  <2> SUFFICES ASSUME y = 0 PROVE FALSE
    OBVIOUS
  <2>1. Utc(1, 1, 1) = Eve(1) + 1 /\ 1 \in Nat
    BY EveBounds, 1 \in Nat
  <2>2. Eve(1) = 365
    BY DEF Eve
  <2> QED BY <2>1, <2>2, <1>4
<1>6. CASE kind = "MONTHLY"
  <2>1. old = <<"M", y, m, 0>>
    BY <1>1, <1>2, <1>4, <1>6 DEF CodeFromDate
  <2>2. CASE r.kind = "MONTHLY"
    <3>1. code = <<"M", y, m, 0>>
      BY <1>1, <2>1, <2>2 DEF NormalizeLegacyCode
    <3> QED BY <1>1, <1>3, <2>1, <2>2, <3>1 DEF IsOf, Holds
  <2>3. CASE r.kind = "BIWEEKLY"
    <3>1. code = <<"Q", y, m, 1>>
      BY <1>1, <2>1, <2>3 DEF NormalizeLegacyCode
    <3> QED BY <1>2, <1>6, <2>3, <3>1, 1 \in 1 .. 2 DEF IsOf
  <2>4. CASE r.kind = "QUARTERLY"
    <3>1. code = <<"T", y, (m - 1) \div 3 + 1, 0>>
      BY <1>1, <2>1, <2>4 DEF NormalizeLegacyCode
    <3>2. (m - 1) \div 3 + 1 \in 1 .. 4
      OBVIOUS
    <3> QED BY <1>2, <1>6, <2>4, <3>1, <3>2 DEF IsOf
  <2>5. CASE r.kind = "CUSTOM_DAYS" /\ r.lengthDays \in 1 .. 366 /\ r.anchor \in Int
    <3>1. PICK first \in Nat : first = Utc(y, m, 1) /\ first >= 366
      <4>1. y \in Nat \ {0} /\ 1 \in Int /\ 1 >= 1
        BY <1>5
      <4>2. Utc(y, m, 1) \in Nat /\ Utc(y, m, 1) >= 366
        BY <4>1, LateEnough
      <4> QED BY <4>2
    <3>2. PICK start : start = CycleStartFor(first, r)
      OBVIOUS
    <3>3. start \in Nat /\ \E k \in Int : start = r.anchor + k * r.lengthDays
      BY <2>5, <3>1, <3>2, CycleHolds
    <3>4. code = IsoCode(start)
      BY <1>1, <2>1, <2>5, <3>1, <3>2 DEF NormalizeLegacyCode
    <3> QED BY <1>2, <1>6, <2>5, <3>3, <3>4 DEF IsOf
  <2> QED BY <2>2, <2>3, <2>4, <2>5 DEF IsRhythm, Rhythms
<1>7. CASE kind = "BIWEEKLY"
  <2>1. old[1] = "Q"
    BY <1>1, <1>2, <1>4, <1>7 DEF CodeFromDate
  <2>2. code = old
    BY <1>1, <2>1 DEF NormalizeLegacyCode
  <2>3. r.kind = "BIWEEKLY"
    BY <2>1, <2>2 DEF IsCodeOf, IsRhythm, Rhythms
  <2>4. IsOf(code, r)
    BY <1>2, <1>3, <1>7, <2>2, <2>3 DEF IsOf, Holds
  <2> QED BY <1>3, <2>2, <2>4
<1>8. CASE kind = "QUARTERLY"
  <2>1. old[1] = "T"
    BY <1>1, <1>2, <1>4, <1>8 DEF CodeFromDate
  <2>2. code = old
    BY <1>1, <2>1 DEF NormalizeLegacyCode
  <2>3. r.kind = "QUARTERLY"
    BY <2>1, <2>2 DEF IsCodeOf, IsRhythm, Rhythms
  <2>4. IsOf(code, r)
    BY <1>2, <1>3, <1>8, <2>2, <2>3 DEF IsOf, Holds
  <2> QED BY <1>3, <2>2, <2>4
<1> QED BY <1>6, <1>7, <1>8 DEF Rhythms

-----------------------------------------------------------------------------
(* The periods of a structure.                                               *)

\* The codes of a rhythm, and the periods it makes of them.
CodesOf(r) ==
  CASE r.kind = "MONTHLY"   -> {<<"M", y, m, 0>> : y \in Nat, m \in 1 .. 12}
    [] r.kind = "BIWEEKLY"  -> {<<"Q", y, m, h>> : y \in Nat, m \in 1 .. 12, h \in 1 .. 2}
    [] r.kind = "QUARTERLY" -> {<<"T", y, q, 0>> : y \in Nat, q \in 1 .. 4}
    [] OTHER -> {IsoCode(day) : day \in {d \in Nat : \E k \in Int : d = r.anchor + k * r.lengthDays}}
PeriodsOf(r) == {PeriodBounds(code, r) : code \in CodesOf(r)}

\* The code the next period is going to have.
Coming(ps, r, b) ==
  IF ps = << >> THEN NormalizeLegacyCode(b.code, r) ELSE NextPeriodCode(ps[Len(ps)].code, r)

\* The periods ps of a structure that was born b, with rhythm r and a code o to be opened:
\* each code comes after the one before, in the calendar and in the order of the codes.
Chained(ps, r, b, o) ==
  /\ ps \in Seq(PeriodsOf(r))
  /\ b # Unborn =>
       /\ b.day \in Nat /\ b.day >= 366 /\ b.rhythm \in Rhythms
       /\ b.code = CodeFromDate(b.day, Plain(b.rhythm))
  /\ \A i \in 1 .. Len(ps) : i > 1 => ps[i].code = NextPeriodCode(ps[i - 1].code, r)
  /\ \A i, j \in 1 .. Len(ps) : i < j => Rank(ps[i].code) < Rank(ps[j].code)
  /\ ps # << >> => b # Unborn /\ ps[1].code = NormalizeLegacyCode(b.code, r)
  /\ o # NoCode => b # Unborn /\ o \in CodesOf(r) /\ o = Coming(ps, r, b)

\* What the variables hold.
CalendarType ==
  /\ rhythm \in Rhythms
  /\ change \in Rhythms \union {"none"}
  /\ own \in [Structures -> OwnRhythms \union {Inherited}]
  /\ DOMAIN born = Structures /\ DOMAIN opening = Structures /\ DOMAIN periods = Structures

\* The inductive invariant: while nothing was mixed, every structure has its chain.
CalendarInv ==
  /\ CalendarType
  /\ ~mixed => \A s \in Structures : Chained(periods[s], EffectiveRhythm(s), born[s], opening[s])

\* The set of the codes is the one IsOf says.
LEMMA CodeTyped ==
  ASSUME NEW r, IsRhythm(r), NEW code
  PROVE  code \in CodesOf(r) <=> IsOf(code, r)
<1>1. CASE r.kind = "MONTHLY"
  BY <1>1 DEF CodesOf, IsOf
<1>2. CASE r.kind = "BIWEEKLY"
  BY <1>2 DEF CodesOf, IsOf
<1>3. CASE r.kind = "QUARTERLY"
  BY <1>3 DEF CodesOf, IsOf
<1>4. CASE r.kind = "CUSTOM_DAYS"
  BY <1>4 DEF CodesOf, IsOf
<1> QED BY <1>1, <1>2, <1>3, <1>4 DEF IsRhythm, Rhythms

\* The rhythm a structure has, its own or the one of its company, is a rhythm.
LEMMA RhythmOfStructure ==
  ASSUME CalendarType, NEW s \in Structures
  PROVE  IsRhythm(EffectiveRhythm(s))
<1>1. CASE own[s] = Inherited
  BY <1>1 DEF CalendarType, EffectiveRhythm, IsRhythm, Plain
<1>2. CASE own[s] # Inherited
  <2>1. own[s] \in OwnRhythms
    BY <1>2 DEF CalendarType
  <2> QED BY <1>2, <2>1, CalendarAssumption DEF EffectiveRhythm, IsRhythm, Rhythms
<1> QED BY <1>1, <1>2

\* What a period of a chain is.
LEMMA PeriodFacts ==
  ASSUME NEW r, IsRhythm(r), NEW p \in PeriodsOf(r)
  PROVE  p.code \in CodesOf(r) /\ p = PeriodBounds(p.code, r) /\ Follows(p.code, r)
<1>1. PICK code \in CodesOf(r) : p = PeriodBounds(code, r)
  BY DEF PeriodsOf
<1>2. IsOf(code, r)
  BY CodeTyped
<1>3. Follows(code, r)
  BY <1>2, RhythmFollows
<1>4. p.code = code
  BY <1>1, <1>3 DEF Follows
<1> QED BY <1>1, <1>3, <1>4

\* The newest period of a chain is the last one.
LEMMA NewestIsLast ==
  ASSUME NEW s, NEW r, IsRhythm(r), NEW b, NEW o, Chained(periods[s], r, b, o), periods[s] # << >>
  PROVE  Newest(s) = periods[s][Len(periods[s])]
<1> DEFINE ps == periods[s]
           n == Len(ps)
<1>1. ps \in Seq(PeriodsOf(r)) /\ n \in Nat /\ n >= 1 /\ DOMAIN ps = 1 .. n
  BY DEF Chained
<1>2. \A i \in 1 .. n : ps[i] \in PeriodsOf(r) /\ Rank(ps[i].code) \in Int
  <2> TAKE i \in 1 .. n
  <2>1. ps[i] \in PeriodsOf(r)
    BY <1>1
  <2>2. Follows(ps[i].code, r)
    BY <2>1, PeriodFacts
  <2> QED BY <2>1, <2>2 DEF Follows
<1>3. \A i, j \in 1 .. n : i < j => Rank(ps[i].code) < Rank(ps[j].code)
  BY DEF Chained
<1>4. Newest(s) = CHOOSE p \in {ps[i] : i \in 1 .. n} : \A i \in 1 .. n : Rank(ps[i].code) <= Rank(p.code)
  BY <1>1 DEF Newest
<1> HIDE DEF ps, n
<1>5. n \in 1 .. n
  BY <1>1
<1>6. \A i \in 1 .. n : Rank(ps[i].code) <= Rank(ps[n].code)
  <2> TAKE i \in 1 .. n
  <2>1. CASE i = n
    BY <2>1, <1>2
  <2>2. CASE i # n
    <3>1. i < n
      BY <1>1, <2>2
    <3> QED BY <3>1, <1>2, <1>3, <1>5
  <2> QED BY <2>1, <2>2
<1>7. PICK p : p = Newest(s)
  OBVIOUS
<1>8. p \in {ps[i] : i \in 1 .. n} /\ \A i \in 1 .. n : Rank(ps[i].code) <= Rank(p.code)
  BY <1>4, <1>5, <1>6, <1>7
<1>9. PICK k \in 1 .. n : p = ps[k]
  BY <1>8
<1>10. ~ (k < n)
  <2> SUFFICES ASSUME k < n PROVE FALSE
    OBVIOUS
  <2>1. Rank(ps[k].code) < Rank(ps[n].code) /\ Rank(ps[n].code) <= Rank(ps[k].code)
    BY <1>3, <1>5, <1>8, <1>9
  <2> QED BY <2>1, <1>2, <1>5
<1>11. k = n
  BY <1>1, <1>10
<1> QED BY <1>7, <1>9, <1>11 DEF ps, n

\* A chain goes on with the code that comes: what openNext reads.
LEMMA ComesNext ==
  ASSUME NEW ps, NEW r, IsRhythm(r), NEW b, NEW o, Chained(ps, r, b, o), b # Unborn,
         ps = << >> => IsCodeOf(NormalizeLegacyCode(b.code, r), r)
  PROVE  Chained(ps, r, b, Coming(ps, r, b))
<1>1. PICK next : next = Coming(ps, r, b)
  OBVIOUS
<1>2. IsOf(next, r)
  <2>1. CASE ps = << >>
    <3>1. next = NormalizeLegacyCode(b.code, r) /\ IsCodeOf(next, r)
      BY <1>1, <2>1 DEF Coming
    <3>2. PICK day \in Nat, kind \in Rhythms :
            day >= 366 /\ b.code = CodeFromDate(day, Plain(kind))
      BY DEF Chained
    <3> QED BY <3>1, <3>2, FirstCode
  <2>2. CASE ps # << >>
    <3>1. ps \in Seq(PeriodsOf(r)) /\ Len(ps) \in Nat /\ Len(ps) \in 1 .. Len(ps)
      BY <2>2 DEF Chained
    <3>2. ps[Len(ps)] \in PeriodsOf(r)
      BY <3>1
    <3>3. Follows(ps[Len(ps)].code, r)
      BY <3>2, PeriodFacts
    <3> QED BY <1>1, <2>2, <3>3 DEF Coming, Follows
  <2> QED BY <2>1, <2>2
<1>3. next \in CodesOf(r)
  BY <1>2, CodeTyped
<1> QED BY <1>1, <1>3 DEF Chained

\* The period of the code that comes makes the chain one longer.
LEMMA ChainGrows ==
  ASSUME NEW ps, NEW r, IsRhythm(r), NEW b, NEW o, Chained(ps, r, b, o), o # NoCode
  PROVE  Chained(Append(ps, PeriodBounds(o, r)), r, b, NoCode)
<1> DEFINE new == PeriodBounds(o, r)
           qs == Append(ps, new)
           n == Len(ps)
<1>1. /\ ps \in Seq(PeriodsOf(r)) /\ n \in Nat
      /\ b # Unborn /\ o \in CodesOf(r) /\ o = Coming(ps, r, b)
  BY DEF Chained
<1>2. new \in PeriodsOf(r)
  BY <1>1 DEF PeriodsOf
<1>3. Follows(o, r)
  BY <1>1, CodeTyped, RhythmFollows
<1>4. new.code = o
  BY <1>3 DEF Follows
<1> HIDE DEF new
<1>5. /\ qs \in Seq(PeriodsOf(r)) /\ Len(qs) = n + 1 /\ qs[n + 1] = new
      /\ \A i \in 1 .. n : qs[i] = ps[i]
      /\ qs # << >>
  BY <1>1, <1>2
<1> HIDE DEF qs
<1>6. \A i \in 1 .. n : Rank(ps[i].code) \in Int /\ Rank(ps[i].code) < Rank(o)
  <2> TAKE i \in 1 .. n
  <2>1. ps # << >> /\ n \in 1 .. n
    BY <1>1
  <2>2. o = NextPeriodCode(ps[n].code, r)
    BY <1>1, <2>1 DEF Coming
  <2>3. ps[n] \in PeriodsOf(r) /\ ps[i] \in PeriodsOf(r)
    BY <1>1, <2>1
  <2>4. Rank(ps[n].code) \in Int /\ Rank(o) \in Int /\ Rank(ps[n].code) < Rank(o)
    <3>1. Follows(ps[n].code, r)
      BY <2>3, PeriodFacts
    <3> QED BY <3>1, <2>2 DEF Follows
  <2>5. Rank(ps[i].code) \in Int
    <3>1. Follows(ps[i].code, r)
      BY <2>3, PeriodFacts
    <3> QED BY <3>1 DEF Follows
  <2>6. CASE i = n
    BY <2>4, <2>5, <2>6
  <2>7. CASE i # n
    <3>1. i < n
      BY <1>1, <2>7
    <3>2. Rank(ps[i].code) < Rank(ps[n].code)
      BY <3>1, <2>1 DEF Chained
    <3> QED BY <2>4, <2>5, <3>2
  <2> QED BY <2>6, <2>7
<1>7. \A i \in 1 .. Len(qs) : i > 1 => qs[i].code = NextPeriodCode(qs[i - 1].code, r)
  <2> SUFFICES ASSUME NEW i \in 1 .. n + 1, i > 1
               PROVE  qs[i].code = NextPeriodCode(qs[i - 1].code, r)
    BY <1>5
  <2>1. i - 1 \in 1 .. n /\ qs[i - 1] = ps[i - 1]
    BY <1>1, <1>5
  <2>2. CASE i = n + 1
    <3>1. ps # << >> /\ i - 1 = n
      BY <1>1, <2>1, <2>2
    <3>2. o = NextPeriodCode(ps[n].code, r)
      BY <1>1, <3>1 DEF Coming
    <3> QED BY <1>4, <1>5, <2>1, <2>2, <3>1, <3>2
  <2>3. CASE i # n + 1
    <3>1. i \in 1 .. n
      BY <1>1, <2>3
    <3>2. ps[i].code = NextPeriodCode(ps[i - 1].code, r)
      BY <3>1 DEF Chained
    <3> QED BY <1>5, <2>1, <3>1, <3>2
  <2> QED BY <2>2, <2>3
<1>8. \A i, j \in 1 .. Len(qs) : i < j => Rank(qs[i].code) < Rank(qs[j].code)
  <2> SUFFICES ASSUME NEW i \in 1 .. n + 1, NEW j \in 1 .. n + 1, i < j
               PROVE  Rank(qs[i].code) < Rank(qs[j].code)
    BY <1>5
  <2>1. i \in 1 .. n
    BY <1>1
  <2>2. CASE j = n + 1
    BY <1>4, <1>5, <1>6, <2>1, <2>2
  <2>3. CASE j # n + 1
    <3>1. j \in 1 .. n
      BY <1>1, <2>3
    <3>2. Rank(ps[i].code) < Rank(ps[j].code)
      BY <2>1, <3>1 DEF Chained
    <3> QED BY <1>5, <2>1, <3>1, <3>2
  <2> QED BY <2>2, <2>3
<1>9. qs[1].code = NormalizeLegacyCode(b.code, r)
  <2>1. CASE ps = << >>
    <3>1. n = 0
      BY <2>1
    <3> QED BY <1>1, <1>4, <1>5, <2>1, <3>1 DEF Coming
  <2>2. CASE ps # << >>
    <3>1. 1 \in 1 .. n
      BY <1>1, <2>2
    <3>2. ps[1].code = NormalizeLegacyCode(b.code, r)
      BY <2>2 DEF Chained
    <3> QED BY <1>5, <3>1, <3>2
  <2> QED BY <2>1, <2>2
<1>10. b # Unborn =>
         /\ b.day \in Nat /\ b.day >= 366 /\ b.rhythm \in Rhythms
         /\ b.code = CodeFromDate(b.day, Plain(b.rhythm))
  BY DEF Chained
<1>11. Chained(qs, r, b, NoCode)
  BY <1>1, <1>5, <1>7, <1>8, <1>9, <1>10 DEF Chained
<1> QED BY <1>11 DEF qs, new

\* A structure with no period and none to open.
LEMMA NothingYet ==
  ASSUME NEW r, NEW b,
         b # Unborn => /\ b.day \in Nat /\ b.day >= 366 /\ b.rhythm \in Rhythms
                       /\ b.code = CodeFromDate(b.day, Plain(b.rhythm))
  PROVE  Chained(<< >>, r, b, NoCode)
BY DEF Chained

LEMMA CreateChained ==
  ASSUME CalendarInv, NEW s \in Structures, NEW date \in Today, CreateStructure(s, date)
  PROVE  CalendarInv'
<1> USE DEF CalendarInv
<1>1. CalendarType'
  BY DEF CalendarType, CreateStructure
<1>2. ASSUME ~mixed', NEW t \in Structures
      PROVE  Chained(periods[t], EffectiveRhythm(t), born[t], opening[t])'
  <2>1. ~mixed /\ Chained(periods[t], EffectiveRhythm(t), born[t], opening[t])
    BY <1>2 DEF CreateStructure
  <2>2. periods' = periods /\ opening' = opening /\ EffectiveRhythm(t)' = EffectiveRhythm(t)
    BY DEF CreateStructure, EffectiveRhythm
  <2>3. CASE t = s
    <3>1. born[t] = Unborn
      BY <2>3 DEF CreateStructure
    <3>2. periods[t] = << >> /\ opening[t] = NoCode
      BY <2>1, <3>1 DEF Chained
    <3>3. PICK day : day = Utc(date[1], date[2], date[3])
      OBVIOUS
    <3>4. date[1] \in Nat \ {0} /\ date[2] \in 1 .. 12 /\ date[3] \in 1 .. 31
      BY CalendarAssumption
    <3>5. day \in Nat /\ day >= 366
      <4>1. PICK y, m, d : y = date[1] /\ m = date[2] /\ d = date[3]
        OBVIOUS
      <4>2. y \in Nat \ {0} /\ m \in 1 .. 12 /\ d \in Int /\ d >= 1
        BY <3>4, <4>1
      <4>3. Utc(y, m, d) \in Nat /\ Utc(y, m, d) >= 366
        BY <4>2, LateEnough
      <4> QED BY <3>3, <4>1, <4>3
    <3>6. born'[t] = [code |-> CodeFromDate(day, Plain(rhythm)), day |-> day, rhythm |-> rhythm]
      BY <2>3, <3>3 DEF CreateStructure, CalendarType
    <3>7. /\ born'[t].day = day /\ born'[t].rhythm = rhythm
          /\ born'[t].code = CodeFromDate(day, Plain(rhythm))
      BY <3>6
    <3>8. rhythm \in Rhythms
      BY DEF CalendarType
    <3>9. Chained(<< >>, EffectiveRhythm(t), born'[t], NoCode)
      BY <3>5, <3>7, <3>8, NothingYet
    <3> QED BY <2>2, <3>2, <3>9
  <2>4. CASE t # s
    <3>1. born'[t] = born[t]
      BY <2>4 DEF CreateStructure, CalendarType
    <3> QED BY <2>1, <2>2, <3>1
  <2> QED BY <2>3, <2>4
<1> QED BY <1>1, <1>2

\* A company is given another rhythm while it has no period and opens none: there is no
\* chain to break.  In any other case the history is mixed.
LEMMA ChangeChained ==
  ASSUME CalendarInv, ChangeRhythmWrite
  PROVE  CalendarInv'
<1> USE DEF CalendarInv
<1>1. CalendarType'
  BY DEF CalendarType, ChangeRhythmWrite
<1>2. ASSUME ~mixed', NEW t \in Structures
      PROVE  Chained(periods[t], EffectiveRhythm(t), born[t], opening[t])'
  <2>1. ~mixed /\ periods[t] = << >> /\ opening[t] = NoCode
    BY <1>2 DEF ChangeRhythmWrite
  <2>2. Chained(periods[t], EffectiveRhythm(t), born[t], opening[t])
    BY <2>1
  <2>3. periods' = periods /\ opening' = opening /\ born' = born
    BY DEF ChangeRhythmWrite
  <2>4. Chained(<< >>, EffectiveRhythm(t)', born[t], NoCode)
    <3>1. born[t] # Unborn =>
            /\ born[t].day \in Nat /\ born[t].day >= 366 /\ born[t].rhythm \in Rhythms
            /\ born[t].code = CodeFromDate(born[t].day, Plain(born[t].rhythm))
      BY <2>2 DEF Chained
    <3> QED BY <3>1, NothingYet
  <2> QED BY <2>1, <2>3, <2>4
<1> QED BY <1>1, <1>2

LEMMA OpenReadChained ==
  ASSUME CalendarInv, NEW s \in Structures, OpenRead(s)
  PROVE  CalendarInv'
<1> USE DEF CalendarInv
<1>1. CalendarType'
  BY DEF CalendarType, OpenRead
<1>2. ASSUME ~mixed', NEW t \in Structures
      PROVE  Chained(periods[t], EffectiveRhythm(t), born[t], opening[t])'
  <2>1. ~mixed /\ Chained(periods[t], EffectiveRhythm(t), born[t], opening[t])
    BY <1>2 DEF OpenRead
  <2>2. periods' = periods /\ born' = born /\ EffectiveRhythm(t)' = EffectiveRhythm(t)
    BY DEF OpenRead, EffectiveRhythm
  <2>3. CASE t = s
    <3>1. PICK r : r = EffectiveRhythm(s) /\ IsRhythm(r)
      BY RhythmOfStructure
    <3>2. Chained(periods[s], r, born[s], opening[s]) /\ born[s] # Unborn
      BY <2>1, <2>3, <3>1 DEF OpenRead
    <3>3. CASE periods[s] = << >>
      <4>1. /\ IsCodeOf(NormalizeLegacyCode(born[s].code, r), r)
            /\ opening'[s] = NormalizeLegacyCode(born[s].code, r)
        BY <3>1, <3>3 DEF OpenRead, CalendarType
      <4>2. Chained(periods[s], r, born[s], Coming(periods[s], r, born[s]))
        BY <3>1, <3>2, <4>1, ComesNext
      <4>3. opening'[s] = Coming(periods[s], r, born[s])
        BY <3>3, <4>1 DEF Coming
      <4> QED BY <2>2, <2>3, <3>1, <4>2, <4>3
    <3>4. CASE periods[s] # << >>
      <4>1. PICK last : last = periods[s][Len(periods[s])]
        OBVIOUS
      <4>2. Newest(s) = last
        BY <3>1, <3>2, <3>4, <4>1, NewestIsLast
      <4>3. last \in PeriodsOf(r)
        BY <3>2, <3>4, <4>1 DEF Chained
      <4>4. NormalizeLegacyCode(last.code, r) = last.code
        BY <3>1, <4>3, PeriodFacts DEF Follows
      <4>5. opening'[s] = NextPeriodCode(last.code, r)
        BY <3>1, <3>4, <4>2, <4>4 DEF OpenRead, CalendarType
      <4>6. opening'[s] = Coming(periods[s], r, born[s])
        BY <3>4, <4>1, <4>5 DEF Coming
      <4>7. Chained(periods[s], r, born[s], Coming(periods[s], r, born[s]))
        BY <3>1, <3>2, <3>4, ComesNext
      <4> QED BY <2>2, <2>3, <3>1, <4>6, <4>7
    <3> QED BY <3>3, <3>4
  <2>4. CASE t # s
    <3>1. opening'[t] = opening[t]
      BY <2>4 DEF OpenRead, CalendarType
    <3> QED BY <2>1, <2>2, <3>1
  <2> QED BY <2>3, <2>4
<1> QED BY <1>1, <1>2

LEMMA OpenWriteChained ==
  ASSUME CalendarInv, NEW s \in Structures, OpenWrite(s)
  PROVE  CalendarInv'
<1> USE DEF CalendarInv
<1>1. CalendarType'
  BY DEF CalendarType, OpenWrite
<1>2. ASSUME ~mixed', NEW t \in Structures
      PROVE  Chained(periods[t], EffectiveRhythm(t), born[t], opening[t])'
  <2>1. ~mixed /\ Chained(periods[t], EffectiveRhythm(t), born[t], opening[t])
    BY <1>2 DEF OpenWrite
  <2>2. born' = born /\ EffectiveRhythm(t)' = EffectiveRhythm(t)
    BY DEF OpenWrite, EffectiveRhythm
  <2>3. CASE t = s
    <3>1. PICK r : r = EffectiveRhythm(s) /\ IsRhythm(r)
      BY RhythmOfStructure
    <3>2. Chained(periods[s], r, born[s], opening[s]) /\ opening[s] # NoCode
      BY <2>1, <2>3, <3>1 DEF OpenWrite
    <3>3. opening'[s] = NoCode
      BY DEF OpenWrite, CalendarType
    <3>4. CASE periods' = periods
      <4>1. Chained(periods[s], r, born[s], NoCode)
        BY <3>2 DEF Chained
      <4> QED BY <2>2, <2>3, <3>1, <3>3, <3>4, <4>1
    <3>5. CASE periods' = [periods EXCEPT ![s] = Append(@, PeriodBounds(opening[s], EffectiveRhythm(s)))]
      <4>1. periods'[s] = Append(periods[s], PeriodBounds(opening[s], r))
        BY <3>1, <3>5 DEF CalendarType
      <4>2. Chained(Append(periods[s], PeriodBounds(opening[s], r)), r, born[s], NoCode)
        BY <3>1, <3>2, ChainGrows
      <4> QED BY <2>2, <2>3, <3>1, <3>3, <4>1, <4>2
    <3> QED BY <3>4, <3>5 DEF OpenWrite
  <2>4. CASE t # s
    <3>1. opening'[t] = opening[t] /\ periods'[t] = periods[t]
      BY <2>4 DEF OpenWrite, CalendarType
    <3> QED BY <2>1, <2>2, <3>1
  <2> QED BY <2>3, <2>4
<1> QED BY <1>1, <1>2

\* The types, and the chain of codes of every structure, hold in every behaviour.
THEOREM CalendarInductive == CalendarSpec => []CalendarInv
<1>1. CalendarInit => CalendarInv
  <2> SUFFICES ASSUME CalendarInit PROVE CalendarInv
    OBVIOUS
  <2>1. CalendarType
    BY DEF CalendarInit, CalendarType
  <2>2. ASSUME NEW s \in Structures
        PROVE  Chained(periods[s], EffectiveRhythm(s), born[s], opening[s])
    <3>1. periods[s] = << >> /\ born[s] = Unborn /\ opening[s] = NoCode
      BY DEF CalendarInit
    <3> QED BY <3>1, NothingYet
  <2> QED BY <2>1, <2>2 DEF CalendarInv
<1>2. CalendarInv /\ [CalendarNext]_calendarVars => CalendarInv'
  <2> SUFFICES ASSUME CalendarInv, [CalendarNext]_calendarVars PROVE CalendarInv'
    OBVIOUS
  <2>1. ASSUME NEW r \in Rhythms, ChangeRhythmRead(r) PROVE CalendarInv'
    BY <2>1 DEF ChangeRhythmRead, CalendarInv, CalendarType, EffectiveRhythm
  <2>2. CASE ChangeRhythmWrite
    BY <2>2, ChangeChained
  <2>3. ASSUME NEW s \in Structures, NEW date \in Today, CreateStructure(s, date) PROVE CalendarInv'
    BY <2>3, CreateChained
  <2>4. ASSUME NEW s \in Structures, OpenRead(s) PROVE CalendarInv'
    BY <2>4, OpenReadChained
  <2>5. ASSUME NEW s \in Structures, OpenWrite(s) PROVE CalendarInv'
    BY <2>5, OpenWriteChained
  <2>6. CASE UNCHANGED calendarVars
    BY <2>6 DEF calendarVars, CalendarInv, CalendarType, EffectiveRhythm
  <2> QED BY <2>1, <2>2, <2>3, <2>4, <2>5, <2>6 DEF CalendarNext
<1> QED BY <1>1, <1>2, PTL DEF CalendarSpec

\* Along a chain no day is left out and none is in two periods.
LEMMA ChainTiles ==
  ASSUME CalendarInv
  PROVE  PeriodsTileTheDays
<1> SUFFICES ASSUME ~mixed, NEW s \in Structures, NEW i \in DOMAIN periods[s]
             PROVE  /\ periods[s][i].start <= periods[s][i].end
                    /\ i > 1 => periods[s][i].start = periods[s][i - 1].end + 1
                    /\ i = 1 /\ Plain(born[s].rhythm) = EffectiveRhythm(s) =>
                         periods[s][1].start <= born[s].day /\ born[s].day <= periods[s][1].end
  BY DEF PeriodsTileTheDays
<1>1. PICK r, ps, b : /\ r = EffectiveRhythm(s) /\ ps = periods[s] /\ b = born[s]
  OBVIOUS
<1>2. IsRhythm(r) /\ Chained(ps, r, b, opening[s])
  BY <1>1, RhythmOfStructure DEF CalendarInv
<1>3. ps \in Seq(PeriodsOf(r)) /\ i \in 1 .. Len(ps) /\ Len(ps) \in Nat /\ ps # << >>
  BY <1>1, <1>2 DEF Chained
<1>4. ps[i] \in PeriodsOf(r)
  BY <1>3
<1>5. ps[i] = PeriodBounds(ps[i].code, r) /\ Follows(ps[i].code, r)
  BY <1>2, <1>4, PeriodFacts
<1>6. ps[i].start <= ps[i].end
  BY <1>5 DEF Follows
<1>7. ASSUME i > 1 PROVE ps[i].start = ps[i - 1].end + 1
  <2>1. i - 1 \in 1 .. Len(ps) /\ ps[i].code = NextPeriodCode(ps[i - 1].code, r)
    BY <1>2, <1>3, <1>7 DEF Chained
  <2>2. ps[i - 1] \in PeriodsOf(r)
    BY <1>3, <2>1
  <2>3. ps[i - 1] = PeriodBounds(ps[i - 1].code, r) /\ Follows(ps[i - 1].code, r)
    BY <1>2, <2>2, PeriodFacts
  <2> QED BY <1>5, <2>1, <2>3 DEF Follows
<1>8. ASSUME i = 1, Plain(b.rhythm) = r
      PROVE  ps[1].start <= b.day /\ b.day <= ps[1].end
  <2>1. /\ b.day \in Nat /\ b.day >= 366 /\ b.rhythm \in Rhythms
        /\ ps[1].code = NormalizeLegacyCode(CodeFromDate(b.day, Plain(b.rhythm)), r)
    BY <1>2, <1>3 DEF Chained
  <2>2. IsCodeOf(ps[1].code, r) /\ ps[1] = PeriodBounds(ps[1].code, r)
    BY <1>5, <1>8 DEF Follows
  <2>3. Holds(ps[1].code, r, b.day)
    <3>1. PICK code, day, kind : code = ps[1].code /\ day = b.day /\ kind = b.rhythm
      OBVIOUS
    <3>2. Holds(code, r, day)
      BY <1>2, <1>8, <2>1, <2>2, <3>1, FirstCode
    <3> QED BY <3>1, <3>2
  <2> QED BY <2>2, <2>3 DEF Holds
<1> QED BY <1>1, <1>6, <1>7, <1>8

\* As long as no rhythm is changed, and no period opened, on an old reading, the periods of
\* every structure tile the days, whatever the date and the rhythm.
THEOREM DaysAreTiled == CalendarSpec => []PeriodsTileTheDays
<1>1. CalendarInv => PeriodsTileTheDays
  BY ChainTiles
<1> QED BY <1>1, CalendarInductive, PTL
=============================================================================
