---------------------------- MODULE WorkOrders ----------------------------
(***************************************************************************)
(* The papers of one work order: the versions of its budget                *)
(* (presupuesto-orden-service.ts) and the sheets of overtime that a        *)
(* version justifies (parte-horas-service.ts, policy DIRECTA_CON_CAUSA).   *)
(*                                                                         *)
(* Every handler reads a row in a transaction of its own, decides, and     *)
(* updates the row by its id in another: the two steps of each action      *)
(* here.  A request whose row another one changed between them is crossed, *)
(* and the version it then decides on is kept in stale.                    *)
(***************************************************************************)
EXTENDS Naturals, FiniteSets

CONSTANTS
  Requests,     \* requests in flight
  People,       \* users who prepare and approve
  Nobody,       \* a null user
  MaxVersions,  \* bound on the versions of the budget
  Sheets        \* sheets of hours

ASSUME WorkOrdersAssumption == MaxVersions \in Nat /\ Nobody \notin People

Versions == 1 .. MaxVersions

VARIABLES
  budget,   \* versiones_presupuesto by numero: tipo, estado, the two people, expired
  hours,    \* partes_horas: estado, and the version that is its cause
  wreq,     \* locals of the requests in flight (crossed: another one changed what they read)
  stale     \* history: versions decided on from a reading that no longer held

workOrdersVars == <<budget, hours, wreq, stale>>

Kinds        == {"BASE", "ADICIONAL"}
Decisions    == {"prepare", "approve", "reject", "revalidate"}
BudgetStates == {"BORRADOR", "PREPARADO", "APROBADO", "RECHAZADO"}

NoBudget == [tipo |-> "none", estado |-> "BORRADOR", preparadoPor |-> Nobody,
             aprobadoPor |-> Nobody, expired |-> FALSE]
NoHours  == [estado |-> "none", cause |-> 0]
AtRest   == [at |-> "idle", tipo |-> "none", v |-> 0, user |-> Nobody, s |-> "none",
             crossed |-> FALSE]

Budgets == [tipo : Kinds \union {"none"}, estado : BudgetStates,
            preparadoPor : People \union {Nobody}, aprobadoPor : People \union {Nobody},
            expired : BOOLEAN]

WorkOrdersTypeOK ==
  /\ budget \in [Versions -> Budgets]
  /\ hours \in [Sheets -> [estado : {"none", "CARGADO", "APROBADO"}, cause : Versions \union {0}]]
  /\ wreq \in [Requests ->
       [at : {"idle", "number", "create", "prepare", "approve", "reject", "revalidate",
              "load", "approveSheet"},
        tipo : Kinds \union {"none"}, v : Nat, user : People \union {Nobody},
        s : Sheets \union {"none"}, crossed : BOOLEAN]]
  /\ stale \subseteq Versions

WorkOrdersInit ==
  /\ budget = [v \in Versions |-> NoBudget]
  /\ hours = [s \in Sheets |-> NoHours]
  /\ wreq = [r \in Requests |-> AtRest]
  /\ stale = {}

IsBudget(v) == budget[v].tipo # "none"
Bases       == {v \in Versions : budget[v].tipo = "BASE"}
NextNumber  == 1 + Cardinality({v \in Versions : IsBudget(v)})
Rests(r)    == wreq' = [wreq EXCEPT ![r] = AtRest]

\* r is done, and what the others in `phases` had read of version v no longer holds.
Crosses(r, phases, vs) ==
  wreq' = [q \in Requests |->
    IF q = r THEN AtRest
    ELSE [wreq[q] EXCEPT !.crossed = @ \/ (wreq[q].at \in phases /\ wreq[q].v \in vs)]]

-----------------------------------------------------------------------------
(* The versions of the budget.                                               *)

\* Mutant: an order takes a second base.
CheckAnyBase(r, tipo) ==
  /\ wreq[r] = AtRest
  /\ wreq' = [wreq EXCEPT ![r] = [AtRest EXCEPT !.at = "number", !.tipo = tipo]]
  /\ UNCHANGED <<budget, hours, stale>>

\* create: a base only where there is none yet.
CheckBase(r, tipo) ==
  /\ wreq[r] = AtRest
  /\ tipo = "BASE" => Bases = {}
  /\ wreq' = [wreq EXCEPT ![r] = [AtRest EXCEPT !.at = "number", !.tipo = tipo]]
  /\ UNCHANGED <<budget, hours, stale>>

\* In a transaction of its own, the number after the last one.
ReadLastNumber(r) ==
  /\ wreq[r].at = "number"
  /\ wreq' = [wreq EXCEPT ![r].at = "create", ![r].v = NextNumber]
  /\ UNCHANGED <<budget, hours, stale>>

\* The insertion: the number is unique, and the request fails when it is taken (or
\* beyond MaxVersions).
CreateBudget(r) ==
  /\ wreq[r].at = "create"
  /\ IF wreq[r].v \notin Versions \/ IsBudget(wreq[r].v)
     THEN Rests(r) /\ UNCHANGED <<budget, stale>>
     ELSE /\ budget' = [budget EXCEPT ![wreq[r].v] = [NoBudget EXCEPT !.tipo = wreq[r].tipo]]
          /\ stale' = IF wreq[r].crossed THEN stale \union {wreq[r].v} ELSE stale
          /\ Crosses(r, {"number"}, {0})
  /\ UNCHANGED hours

\* vigenteDesde + vigenciaDias goes by.  Only the approval looks at it, so that the date
\* is kept of a prepared version alone.
Expire(v) ==
  /\ budget[v].estado = "PREPARADO"
  /\ ~budget[v].expired
  /\ budget' = [budget EXCEPT ![v].expired = TRUE]
  /\ UNCHANGED <<hours, wreq, stale>>

\* What a handler reads of a version, for the person who asks.
Reads(r, v, user, what) ==
  /\ wreq[r] = AtRest
  /\ IsBudget(v)
  /\ wreq' = [wreq EXCEPT ![r] = [AtRest EXCEPT !.at = what, !.v = v, !.user = user]]
  /\ UNCHANGED <<budget, hours, stale>>

PrepareRead(r, v, user) ==
  /\ budget[v].estado = "BORRADOR"
  /\ Reads(r, v, user, "prepare")

\* Mutant: whoever prepared it approves it.
ApproveReadAnyone(r, v, user) ==
  /\ budget[v].estado = "PREPARADO"
  /\ ~budget[v].expired
  /\ Reads(r, v, user, "approve")

ApproveRead(r, v, user) ==
  /\ budget[v].estado = "PREPARADO"
  /\ budget[v].preparadoPor # user
  /\ ~budget[v].expired
  /\ Reads(r, v, user, "approve")

\* Who rejects or revalidates is not kept.
RejectRead(r, v) ==
  /\ budget[v].estado = "PREPARADO"
  /\ Reads(r, v, Nobody, "reject")

\* Mutant: an approved version is opened again.
RevalidateReadApproved(r, v) ==
  /\ budget[v].estado \in {"PREPARADO", "APROBADO"}
  /\ Reads(r, v, Nobody, "revalidate")

\* VENCIDO, the other state it accepts, is a state no code writes.
RevalidateRead(r, v) ==
  /\ budget[v].estado = "PREPARADO"
  /\ Reads(r, v, Nobody, "revalidate")

Changed(row, what, user) ==
  CASE what = "prepare"    -> [row EXCEPT !.estado = "PREPARADO", !.preparadoPor = user,
                                          !.expired = FALSE]
    [] what = "approve"    -> [row EXCEPT !.estado = "APROBADO", !.aprobadoPor = user,
                                          !.expired = FALSE]
    [] what = "reject"     -> [row EXCEPT !.estado = "RECHAZADO", !.expired = FALSE]
    [] what = "revalidate" -> [row EXCEPT !.estado = "BORRADOR", !.preparadoPor = Nobody,
                                          !.aprobadoPor = Nobody, !.expired = FALSE]

\* change: the update by id, whatever the row is by now.
Change(r) ==
  /\ wreq[r].at \in Decisions
  /\ LET v == wreq[r].v
     IN /\ budget' = [budget EXCEPT ![v] = Changed(@, wreq[r].at, wreq[r].user)]
        /\ stale' = IF wreq[r].crossed THEN stale \union {v} ELSE stale
        /\ Crosses(r, Decisions, {v})
  /\ UNCHANGED hours

-----------------------------------------------------------------------------
(* Sheets of overtime.                                                       *)

\* create of a sheet with a direct premium: its cause is an approved ADICIONAL.
LoadSheetRead(r, s, v) ==
  /\ wreq[r] = AtRest
  /\ hours[s] = NoHours
  /\ budget[v].tipo = "ADICIONAL"
  /\ budget[v].estado = "APROBADO"
  /\ wreq' = [wreq EXCEPT ![r] = [AtRest EXCEPT !.at = "load", !.s = s, !.v = v]]
  /\ UNCHANGED <<budget, hours, stale>>

LoadSheet(r) ==
  /\ wreq[r].at = "load"
  /\ hours' = IF hours[wreq[r].s] = NoHours
              THEN [hours EXCEPT ![wreq[r].s] = [estado |-> "CARGADO", cause |-> wreq[r].v]]
              ELSE hours
  /\ Rests(r)
  /\ UNCHANGED <<budget, stale>>

ApproveSheetRead(r, s) ==
  /\ wreq[r] = AtRest
  /\ hours[s].estado = "CARGADO"
  /\ wreq' = [wreq EXCEPT ![r] = [AtRest EXCEPT !.at = "approveSheet", !.s = s]]
  /\ UNCHANGED <<budget, hours, stale>>

ApproveSheet(r) ==
  /\ wreq[r].at = "approveSheet"
  /\ hours' = [hours EXCEPT ![wreq[r].s].estado = "APROBADO"]
  /\ Rests(r)
  /\ UNCHANGED <<budget, stale>>

WorkOrdersNext ==
  \/ \E v \in Versions : Expire(v)
  \/ \E r \in Requests :
       \/ \E tipo \in Kinds : CheckBase(r, tipo)
       \/ ReadLastNumber(r) \/ CreateBudget(r)
       \/ \E v \in Versions, user \in People :
            PrepareRead(r, v, user) \/ ApproveRead(r, v, user)
       \/ \E v \in Versions : RejectRead(r, v) \/ RevalidateRead(r, v)
       \/ Change(r)
       \/ \E s \in Sheets, v \in Versions : LoadSheetRead(r, s, v)
       \/ \E s \in Sheets : ApproveSheetRead(r, s)
       \/ LoadSheet(r) \/ ApproveSheet(r)

WorkOrdersSpec == WorkOrdersInit /\ [][WorkOrdersNext]_workOrdersVars

-----------------------------------------------------------------------------
(* Properties.  A version is stale when somebody decided on it from a row    *)
(* that another request had changed meanwhile.                               *)

\* Whoever prepared the version that is in force did not approve it: through any
\* number of rejections and revalidations, unless two decisions crossed.
SeparationOfDuties ==
  \A v \in Versions \ stale : budget[v].estado = "APROBADO" =>
    /\ budget[v].preparadoPor # Nobody
    /\ budget[v].aprobadoPor \notin {Nobody, budget[v].preparadoPor}

\* The contract price adds up one base at most, unless two were created at once.
OneBasePerOrder == Cardinality(Bases \ stale) <= 1

\* The premium of a sheet of overtime rests on an additional that is approved: an
\* approved version never goes back, unless two decisions crossed.
PremiumHasItsCause ==
  \A s \in Sheets : hours[s] # NoHours /\ hours[s].cause \notin stale =>
    budget[hours[s].cause].tipo = "ADICIONAL" /\ budget[hours[s].cause].estado = "APROBADO"
=============================================================================
