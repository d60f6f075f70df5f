---------------------------- MODULE Traceability ----------------------------
(***************************************************************************)
(* The traceable data points of one section of a structure of the ORDERS   *)
(* system: every number of the section opens to a datum with its versions  *)
(* and its signature.  Writers are the form that saves the section         *)
(* (cost-structure-service.ts) and the document that completes it          *)
(* (cost-structure-populator.ts), which both reconcile the data with it    *)
(* (datapoint-reconciler.ts), and people who correct, sign, void or back   *)
(* one datum (data-point-service.ts, evidence-service.ts).                 *)
(*                                                                         *)
(* Transactions are READ COMMITTED: what one reads may change before it    *)
(* writes, and an insertion that repeats a unique number waits for the     *)
(* other one and fails.                                                    *)
(***************************************************************************)
EXTENDS Integers, FiniteSets, SequencesExt

CONSTANTS
  Keys,          \* field keys of the section, with their label and date
  Movements,     \* those that several equal movements share; the others are a key
  SectionForms,  \* sections that may be saved: the values of each field, in order
  Amounts,       \* values a person or a document may give
  Askers,        \* requests at once
  MaxRequests,   \* bounds on the requests,
  MaxPoints      \* and on the data of a field

ASSUME TraceabilityAssumption ==
  /\ Movements \subseteq Keys
  /\ SectionForms \subseteq [Keys -> Seq(Nat)] /\ Amounts \subseteq Nat
  /\ MaxRequests \in Nat /\ MaxPoints \in Nat

VARIABLES
  numbers,   \* the numbers of the section: a sequence for each field
  saved,     \* the last versionN of cost_config_versions
  points,    \* data_points of each field in the order of createdAt, which no two share
  asked,     \* requests so far
  task,      \* locals of the requests in flight
  traced     \* history: since a form or a document reconciled the data, nobody else
             \* has written the section or one of them

traceVars == <<numbers, saved, points, asked, task, traced>>

Unasked == [op |-> "none"]

TraceabilityInit ==
  /\ numbers = [f \in Keys |-> << >>]
  /\ saved = 0
  /\ points = [f \in Keys |-> << >>]
  /\ asked = 0
  /\ task = [k \in Askers |-> Unasked]
  /\ traced = FALSE

Ends(k)       == task' = [task EXCEPT ![k] = Unasked]
Is(k, op, at) == task[k].op = op /\ task[k].at = at
Asks(k, request) == /\ task[k] = Unasked /\ asked < MaxRequests
                    /\ asked' = asked + 1
                    /\ task' = [task EXCEPT ![k] = request]
Moves(k, at)  == task' = [task EXCEPT ![k].at = at]

\* Writers of the section whose data are still to be reconciled.
Writing(k) == task[k].op \in {"save", "document"} /\ task[k].at \in {"written", "looked"}

\* k ends, having written what those in flight did not see.
EndsAndCrosses(k) ==
  task' = [j \in Askers |-> IF j = k THEN Unasked
                            ELSE IF Writing(j) THEN [task[j] EXCEPT !.crossed = TRUE] ELSE task[j]]

-----------------------------------------------------------------------------
(* A datum.  Its current version is the one with the highest number.         *)

Current(p) == Last(p.versions)

NewPoint(value) == [voided |-> FALSE, status |-> "borrador", signed |-> "nothing",
                    versions |-> <<[value |-> value, paper |-> FALSE]>>]

\* addVersionInTx: a correction asks for a new signature.
Corrected(p, value) == [p EXCEPT !.status = "borrador",
                                 !.versions = Append(@, [value |-> value, paper |-> FALSE])]
\* voidInTx
Voided(p) == [p EXCEPT !.voided = TRUE, !.status = "anulado"]

Within(pts) == \A f \in Keys : Len(pts[f]) <= MaxPoints

-----------------------------------------------------------------------------
(* reconcileSectionDataPoints.                                               *)

Alive(f) == {i \in DOMAIN points[f] : ~points[f][i].voided}

\* In their order.
LiveData(f) == [n \in 1 .. Cardinality(Alive(f)) |->
                  CHOOSE i \in Alive(f) : Cardinality({j \in Alive(f) : j <= i}) = n]

\* byIdentity: a movement by its repetition, any other field by its key, where the
\* last datum hides those before.
Indexed(f) == IF f \in Movements \/ LiveData(f) = << >> THEN LiveData(f) ELSE <<Last(LiveData(f))>>

Look(f) == [n \in DOMAIN Indexed(f) |->
              [at |-> Indexed(f)[n], value |-> Current(points[f][Indexed(f)[n]]).value]]

\* What becomes of a datum of a field whose numbers are now wanted, seen being the
\* index of before: nothing if it has its value, a version if it has another one, and
\* voided if no number is left for it.
Settled(p, i, seen, wanted) ==
  IF \A n \in DOMAIN seen : seen[n].at # i THEN p
  ELSE LET n == CHOOSE m \in DOMAIN seen : seen[m].at = i
       IN IF n > Len(wanted) THEN Voided(p)
          ELSE IF seen[n].value = wanted[n] THEN p ELSE Corrected(p, wanted[n])

\* A number without a datum gets one.
Missing(seen, wanted) ==
  [n \in 1 .. (Len(wanted) - Len(seen)) |-> NewPoint(wanted[Len(seen) + n])]

Reconciled(seen, wanted) ==
  [f \in Keys |->
     [i \in DOMAIN points[f] |-> Settled(points[f][i], i, seen[f], wanted[f])]
       \o Missing(seen[f], wanted[f])]

-----------------------------------------------------------------------------
(* updateConfig and updateSales: one transaction for the version of the      *)
(* section, the section and its data.                                        *)

\* appendConfigVersion: the highest number and one.
SaveBegin(k, form) ==
  /\ Asks(k, [op |-> "save", at |-> "numbered", number |-> saved + 1, form |-> form,
                crossed |-> FALSE, seen |-> << >>])
  /\ UNCHANGED <<numbers, saved, points, traced>>

SameNumberInFlight(k) == \E j \in Askers \ {k} : /\ task[j].op = "save" /\ Writing(j)
                                                 /\ task[j].number = task[k].number

\* Mutant: the number of a section's version is not unique.
SaveInsertAny(k) ==
  /\ Is(k, "save", "numbered")
  /\ Moves(k, "written")
  /\ UNCHANGED <<asked, numbers, saved, points, traced>>

\* The insertion, and the update of the structure, whose row stays locked.
SaveInsert(k) ==
  /\ Is(k, "save", "numbered")
  /\ ~SameNumberInFlight(k)
  /\ IF task[k].number <= saved THEN Ends(k) ELSE Moves(k, "written")
  /\ UNCHANGED <<asked, numbers, saved, points, traced>>

\* The data are read ...
ReconcileLook(k) ==
  /\ Writing(k) /\ task[k].at = "written"
  /\ task' = [task EXCEPT ![k].at = "looked", ![k].seen = [f \in Keys |-> Look(f)]]
  /\ UNCHANGED <<asked, numbers, saved, points, traced>>

\* ... and written, and the transaction commits.
SaveCommit(k) ==
  /\ Is(k, "save", "looked")
  /\ points' = Reconciled(task[k].seen, task[k].form)
  /\ Within(points')
  /\ numbers' = task[k].form
  /\ saved' = task[k].number
  /\ traced' = ~task[k].crossed
  /\ task' = [j \in Askers |->
                IF j = k THEN Unasked
                ELSE IF Writing(j) /\ task[j].op = "document"
                THEN [task[j] EXCEPT !.crossed = TRUE] ELSE task[j]]
  /\ UNCHANGED asked

\* An error or the end of the process: the transaction leaves nothing.
SaveAborts(k) ==
  /\ task[k].op = "save"
  /\ Ends(k)
  /\ UNCHANGED <<asked, numbers, saved, points, traced>>

-----------------------------------------------------------------------------
(* populateCostStructureFromApproval: the section is read, completed and     *)
(* written in two statements, and its data follow in a transaction.          *)

\* A movement is added to those there are; any other field takes the value.
Completed(f, value) ==
  [numbers EXCEPT ![f] = IF f \in Movements THEN Append(numbers[f], value) ELSE <<value>>]

DocumentBegin(k, f, value) ==
  /\ Asks(k, [op |-> "document", at |-> "read", form |-> Completed(f, value),
                crossed |-> FALSE, seen |-> << >>])
  /\ UNCHANGED <<numbers, saved, points, traced>>

\* It waits for the row of the structure.
DocumentWrite(k) ==
  /\ Is(k, "document", "read")
  /\ \A j \in Askers : ~(task[j].op = "save" /\ Writing(j))
  /\ numbers' = task[k].form
  /\ traced' = FALSE
  /\ task' = [j \in Askers |-> IF j = k THEN [task[k] EXCEPT !.at = "written"]
                               ELSE IF Writing(j) THEN [task[j] EXCEPT !.crossed = TRUE] ELSE task[j]]
  /\ UNCHANGED <<asked, saved, points>>

DocumentCommit(k) ==
  /\ Is(k, "document", "looked")
  /\ points' = Reconciled(task[k].seen, task[k].form)
  /\ Within(points')
  /\ traced' = ~task[k].crossed
  /\ EndsAndCrosses(k)
  /\ UNCHANGED <<asked, numbers, saved>>

\* An error, with an alert, or the end of the process: the section stays written.
DocumentStops(k) ==
  /\ task[k].op = "document"
  /\ Ends(k)
  /\ UNCHANGED <<asked, numbers, saved, points, traced>>

-----------------------------------------------------------------------------
(* DataPointService: one datum, by hand.  Each request reads before it       *)
(* writes, in a transaction or outside of it.                                *)

\* create: a movement that has a datum already is answered with it.
PointRead(k, f, value) ==
  /\ f \in Movements => LiveData(f) = << >>
  /\ Asks(k, [op |-> "create", at |-> "read", field |-> f, value |-> value])
  /\ UNCHANGED <<numbers, saved, points, traced>>

PointWrite(k) ==
  /\ Is(k, "create", "read")
  /\ points' = [points EXCEPT ![task[k].field] = Append(@, NewPoint(task[k].value))]
  /\ Within(points')
  /\ traced' = FALSE
  /\ EndsAndCrosses(k)
  /\ UNCHANGED <<asked, numbers, saved>>

\* addVersion, validate, void and attach, up to what they read of datum i.
Admits(op, p) == CASE op = "correct"  -> TRUE
                   [] op = "validate" -> p.status # "validado"
                   [] op = "void"     -> ~p.voided
                   [] op = "attach"   -> ~p.voided /\ p.status # "anulado"

HandBegin(k, op, f, i) ==
  /\ i \in DOMAIN points[f] /\ Admits(op, points[f][i])
  /\ Asks(k, [op |-> op, at |-> "begun", field |-> f, datum |-> i])
  /\ UNCHANGED <<numbers, saved, points, traced>>

Datum(k) == points[task[k].field][task[k].datum]
Replaces(k, p) == points' = [points EXCEPT ![task[k].field][task[k].datum] = p]

\* The last version, for the number of the next; a datum already backed by the paper is left.
LastRead(k) ==
  /\ Is(k, "correct", "begun") \/ Is(k, "attach", "begun")
  /\ IF task[k].op = "attach" /\ Current(Datum(k)).paper THEN Ends(k)
     ELSE task' = [task EXCEPT ![k] = [op |-> task[k].op, at |-> "read", field |-> task[k].field,
                                       datum |-> task[k].datum, number |-> Len(Datum(k).versions) + 1,
                                       value |-> Current(Datum(k)).value]]
  /\ UNCHANGED <<asked, numbers, saved, points, traced>>

NumberIsFree(k) == task[k].number = Len(Datum(k).versions) + 1

CorrectWrite(k, value) ==
  /\ Is(k, "correct", "read")
  /\ IF NumberIsFree(k)
     THEN /\ Replaces(k, Corrected(Datum(k), value))
          /\ traced' = FALSE
          /\ EndsAndCrosses(k)
     ELSE Ends(k) /\ UNCHANGED <<points, traced>>
  /\ UNCHANGED <<asked, numbers, saved>>

\* Mutant: a number that is taken does not stop the insertion.
AttachWriteAny(k) ==
  /\ Is(k, "attach", "read")
  /\ Replaces(k, [Datum(k) EXCEPT !.versions = Append(@, [value |-> task[k].value, paper |-> TRUE])])
  /\ Ends(k)
  /\ UNCHANGED <<asked, numbers, saved, traced>>

\* attach: the value that was read with the paper; the status is not touched.
AttachWrite(k) ==
  /\ Is(k, "attach", "read")
  /\ IF NumberIsFree(k)
     THEN Replaces(k, [Datum(k) EXCEPT !.versions = Append(@, [value |-> task[k].value, paper |-> TRUE])])
     ELSE UNCHANGED points
  /\ Ends(k)
  /\ UNCHANGED <<asked, numbers, saved, traced>>

ValidateWrite(k) ==
  /\ Is(k, "validate", "begun")
  /\ Replaces(k, [Datum(k) EXCEPT !.status = "validado", !.signed = Current(Datum(k)).value])
  /\ Ends(k)
  /\ UNCHANGED <<asked, numbers, saved, traced>>

VoidWrite(k) ==
  /\ Is(k, "void", "begun")
  /\ Replaces(k, Voided(Datum(k)))
  /\ traced' = FALSE
  /\ EndsAndCrosses(k)
  /\ UNCHANGED <<asked, numbers, saved>>

-----------------------------------------------------------------------------
TraceabilityNext ==
  \E k \in Askers :
    \/ \E form \in SectionForms : SaveBegin(k, form)
    \/ SaveInsert(k) \/ ReconcileLook(k) \/ SaveCommit(k) \/ SaveAborts(k)
    \/ \E f \in Keys, value \in Amounts : DocumentBegin(k, f, value) \/ PointRead(k, f, value)
    \/ DocumentWrite(k) \/ DocumentCommit(k) \/ DocumentStops(k)
    \/ PointWrite(k)
    \/ \E op \in {"correct", "validate", "void", "attach"}, f \in Keys, i \in 1 .. MaxPoints :
         HandBegin(k, op, f, i)
    \/ LastRead(k)
    \/ \E value \in Amounts : CorrectWrite(k, value)
    \/ AttachWrite(k) \/ ValidateWrite(k) \/ VoidWrite(k)

TraceabilitySpec == TraceabilityInit /\ [][TraceabilityNext]_traceVars

-----------------------------------------------------------------------------
(* Properties.                                                               *)

\* Every number of the section opens to a datum with that very value, the one the next
\* save will look at, and no movement has a datum that is not in the section: whatever
\* saves run at once, fail or are saved twice, until somebody writes one of the two by hand
\* or a document is crossed by another writer.
SectionIsTraced ==
  traced => \A f \in Keys :
    /\ f \in Movements => Len(LiveData(f)) = Len(numbers[f])
    /\ \A n \in DOMAIN numbers[f] :
         n <= Len(Indexed(f)) /\ Current(points[f][Indexed(f)[n]]).value = numbers[f][n]

\* A signature covers no other number than the one in force when it was given: a form or
\* a correction that comes in afterwards takes the signature away, and a paper attached to
\* the datum, which leaves the signature, repeats the number, whoever else is writing.
SignedNumberStands ==
  \A f \in Keys : \A i \in DOMAIN points[f] :
    points[f][i].status = "validado" => Current(points[f][i]).value = points[f][i].signed
=============================================================================
