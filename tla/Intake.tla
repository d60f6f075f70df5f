------------------------------- MODULE Intake -------------------------------
(***************************************************************************)
(* A document from its delivery to the cost of a department:               *)
(* ingest-data-entry.ts, validaciones-service.ts and the part of           *)
(* cost-structure-populator.ts that adds its amount to a department of a   *)
(* structure of the PROCESSES system.                                      *)
(*                                                                         *)
(* Any actor delivers papers, reviews entries or assigns departments.      *)
(* Each action is what happens between two awaits that matter; the         *)
(* transactions of the code are one action each.  What the language model  *)
(* reads on a paper may differ from one delivery to the next.              *)
(***************************************************************************)
EXTENDS Naturals, FiniteSets

CONSTANTS
  Actors,         \* requests in flight
  Papers,         \* a paper: its CAE and its supplier and number are its own
  Departments,    \* departments of the structure
  NoDepartment,   \* processDepartmentId is null
  Readings,       \* what the extraction finds: [cae, key : BOOLEAN]
  Classes,        \* what the classifier says: [sure : BOOLEAN, section, amount]
  Corrections,    \* sections a person corrects to
  MaxEntries      \* bound on the entries

Sections == {"cost", "unknown"}

ASSUME IntakeAssumption ==
  /\ MaxEntries \in Nat
  /\ NoDepartment \notin Departments
  /\ Corrections \subseteq Sections
  /\ Readings \subseteq [cae : BOOLEAN, key : BOOLEAN]
  /\ Classes \subseteq [sure : BOOLEAN, section : Sections, amount : BOOLEAN]

Entries == 1 .. MaxEntries

VARIABLES
  entry,      \* data_entries: status, paper, cae, key, department
  audit,      \* classification_audits: sure, section, amount, correction
  caeOwner,   \* processed_caes: the entry of each CAE, 0 when there is none
  reviews,    \* validation_history: how many lines per entry
  ledger,     \* cost_ledger_entries: how many lines per entry
  total,      \* the cost of a department: how often each entry is in the sum
  req,        \* locals of the requests in flight
  fate        \* history: what befell each entry

vars == <<entry, audit, caeOwner, reviews, ledger, total, req, fate>>
docs == <<entry, audit, caeOwner, reviews>>

Statuses == {"ABSENT", "PENDING", "APPROVED", "CORRECTED", "REJECTED"}
Accepted == {"APPROVED", "CORRECTED"}
\* told: a warning or an alert names it; died: its request did; overwritten:
\* a sum that had not seen it was saved; contested: decided on a stale row.
Fates    == {"none", "told", "died", "overwritten", "contested"}
Places   == {"idle", "byCAE", "byKey", "classify", "decide", "ledger",
             "populate", "sum", "assign"}

NoAudit == [written |-> FALSE, sure |-> FALSE, section |-> "unknown",
            amount |-> FALSE, correction |-> "none"]
Absent  == [status |-> "ABSENT", paper |-> 0, cae |-> FALSE, key |-> FALSE,
            department |-> NoDepartment]
Idle    == [at |-> "idle", paper |-> 0, cae |-> FALSE, key |-> FALSE, entry |-> 0,
            status |-> "PENDING", section |-> "unknown", department |-> NoDepartment,
            amount |-> FALSE, row |-> Absent, seen |-> [e \in Entries |-> 0], todo |-> {}]

Rows == [status : Statuses, paper : Papers \union {0}, cae : BOOLEAN, key : BOOLEAN,
         department : Departments \union {NoDepartment}]

TypeOK ==
  /\ entry \in [Entries -> Rows]
  /\ audit \in [Entries -> [written : BOOLEAN, sure : BOOLEAN, section : Sections,
                            amount : BOOLEAN, correction : Sections \union {"none"}]]
  /\ caeOwner \in [Papers -> Entries \union {0}]
  /\ reviews \in [Entries -> Nat]
  /\ ledger \in [Entries -> Nat]
  /\ total \in [Departments -> [Entries -> Nat]]
  /\ req \in [Actors -> [at : Places, paper : Papers \union {0}, cae : BOOLEAN,
                         key : BOOLEAN, entry : Entries \union {0}, status : Statuses,
                         section : Sections, department : Departments \union {NoDepartment},
                         amount : BOOLEAN, row : Rows, seen : [Entries -> Nat], todo : SUBSET Entries]]
  /\ fate \in [Entries -> Fates]

Init ==
  /\ entry = [e \in Entries |-> Absent]
  /\ audit = [e \in Entries |-> NoAudit]
  /\ caeOwner = [p \in Papers |-> 0]
  /\ reviews = [e \in Entries |-> 0]
  /\ ledger = [e \in Entries |-> 0]
  /\ total = [d \in Departments |-> [e \in Entries |-> 0]]
  /\ req = [a \in Actors |-> Idle]
  /\ fate = [e \in Entries |-> "none"]

Exists(e) == entry[e].status # "ABSENT"
IsNext(e) == ~Exists(e) /\ \A f \in 1 .. e - 1 : Exists(f)
Stop(a)   == req' = [req EXCEPT ![a] = Idle]

\* The first mishap is kept; that two people decided at once prevails.
Mishap(e, what) == IF what = "contested" \/ fate[e] = "none" THEN what ELSE fate[e]
Befalls(e, what) == fate' = [fate EXCEPT ![e] = Mishap(e, what)]

-----------------------------------------------------------------------------
(* Delivery: ingestDataEntry.                                                *)

\* The extraction has come back; any channel may deliver any paper again, while
\* the bound leaves room for an entry.
Analyse(a, p, reading) ==
  /\ req[a] = Idle
  /\ \E e \in Entries : IsNext(e)
  /\ req' = [req EXCEPT ![a] = [Idle EXCEPT !.at = "byCAE", !.paper = p,
                                            !.cae = reading.cae, !.key = reading.key]]
  /\ UNCHANGED <<docs, ledger, total, fate>>

\* Search by CAE, in every company: found, the request ends as a duplicate.
LookUpCAE(a) ==
  /\ req[a].at = "byCAE"
  /\ IF req[a].cae /\ caeOwner[req[a].paper] # 0
     THEN Stop(a)
     ELSE req' = [req EXCEPT ![a].at = "byKey"]
  /\ UNCHANGED <<docs, ledger, total, fate>>

LiveWithKey(p) ==
  {e \in Entries : /\ entry[e].paper = p
                   /\ entry[e].key
                   /\ entry[e].status \in Statuses \ {"ABSENT", "REJECTED"}}

\* Search by supplier and number, among the entries that are not rejected.
LookUpKey(a) ==
  /\ req[a].at = "byKey"
  /\ IF req[a].key /\ LiveWithKey(req[a].paper) # {}
     THEN Stop(a)
     ELSE req' = [req EXCEPT ![a].at = "classify"]
  /\ UNCHANGED <<docs, ledger, total, fate>>

\* An illegible paper is refused, and any failure before the insertion ends so.
RefuseIllegible(a) ==
  /\ req[a].at = "classify"
  /\ Stop(a)
  /\ UNCHANGED <<docs, ledger, total, fate>>

NewEntry(r)   == [status |-> "PENDING", paper |-> r.paper, cae |-> r.cae, key |-> r.key,
                  department |-> NoDepartment]
AuditOf(class) == [written |-> TRUE, sure |-> class.sure, section |-> class.section,
                   amount |-> class.amount, correction |-> "none"]
CAEIsTaken(r) == r.cae /\ caeOwner[r.paper] # 0

\* Mutants: the entry is created before the transaction of the audit and the
\* CAE, as the code once did; the CAE has no unique index.
InsertEntryFirst(a, e, class) ==
  /\ req[a].at = "classify"
  /\ IsNext(e)
  /\ entry' = [entry EXCEPT ![e] = NewEntry(req[a])]
  /\ IF CAEIsTaken(req[a])
     THEN UNCHANGED <<audit, caeOwner>>
     ELSE /\ audit' = [audit EXCEPT ![e] = AuditOf(class)]
          /\ caeOwner' = IF req[a].cae THEN [caeOwner EXCEPT ![req[a].paper] = e]
                                       ELSE caeOwner
  /\ Stop(a)
  /\ UNCHANGED <<reviews, ledger, total, fate>>

\* One transaction: entry, audit and CAE, or nothing when the CAE is taken.
Insert(a, e, class) ==
  /\ req[a].at = "classify"
  /\ IsNext(e)
  /\ IF CAEIsTaken(req[a])
     THEN UNCHANGED <<entry, audit, caeOwner>>
     ELSE /\ entry' = [entry EXCEPT ![e] = NewEntry(req[a])]
          /\ audit' = [audit EXCEPT ![e] = AuditOf(class)]
          /\ caeOwner' = IF req[a].cae THEN [caeOwner EXCEPT ![req[a].paper] = e]
                                       ELSE caeOwner
  /\ Stop(a)
  /\ UNCHANGED <<reviews, ledger, total, fate>>

-----------------------------------------------------------------------------
(* Decision: review, bulkApproveConfident and assignDepartment.              *)

Pending(e) == entry[e].status = "PENDING"

\* review up to its transaction: the owner decides on an entry read as PENDING.
ReviewRead(a, e, status, section, d) ==
  /\ req[a] = Idle
  /\ Pending(e)
  /\ req' = [req EXCEPT ![a] = [Idle EXCEPT !.at = "decide", !.entry = e,
              !.row = entry[e], !.status = status, !.section = section, !.department = d]]
  /\ UNCHANGED <<docs, ledger, total, fate>>

\* bulkApproveConfident lists what is pending and needs no review.
BulkStart(a) ==
  /\ req[a] = Idle
  /\ req' = [req EXCEPT ![a].todo = {e \in Entries : Pending(e) /\ audit[e].sure}]
  /\ UNCHANGED <<docs, ledger, total, fate>>

\* Its next call of review; one that throws ends the whole list.
BulkNext(a, e) ==
  /\ req[a].at = "idle"
  /\ e \in req[a].todo
  /\ req' = IF Pending(e)
            THEN [req EXCEPT ![a] = [Idle EXCEPT !.at = "decide", !.entry = e, !.row = entry[e],
                                     !.status = "APPROVED", !.todo = req[a].todo \ {e}]]
            ELSE [req EXCEPT ![a] = Idle]
  /\ UNCHANGED <<docs, ledger, total, fate>>

\* The review ends; of a bulk approval the rest of the list follows.
Done(a) == req' = [req EXCEPT ![a] = [Idle EXCEPT !.todo = req[a].todo]]

\* The section a person corrected stands over the one of the classifier.
TrueSection(r) ==
  IF r.status = "CORRECTED" THEN r.section ELSE audit[r.entry].section
FinalSection(e) ==
  IF audit[e].correction = "none" THEN audit[e].section ELSE audit[e].correction

Payload(r) == /\ r.status \in Accepted
              /\ audit[r.entry].written
              /\ TrueSection(r) # "unknown"
              /\ audit[r.entry].amount

\* The transaction of review: it updates by id, whatever the status is by now.
\* The line of the ledger is prepared here and inserted later.
ReviewCommit(a) ==
  /\ req[a].at = "decide"
  /\ LET r == req[a]
         e == r.entry
     IN /\ entry' = [entry EXCEPT ![e].status = r.status,
                       ![e].department = IF r.department = NoDepartment THEN @ ELSE r.department]
        /\ reviews' = [reviews EXCEPT ![e] = @ + 1]
        /\ audit' = IF r.status = "CORRECTED" /\ audit[e].written
                    THEN [audit EXCEPT ![e].correction = r.section]
                    ELSE audit
        /\ IF entry[e] = r.row THEN UNCHANGED fate ELSE Befalls(e, "contested")
        /\ IF r.status = "REJECTED"
           THEN Done(a)
           ELSE req' = [req EXCEPT
                  ![a].at = IF Payload(r) THEN "ledger" ELSE "populate",
                  ![a].row = Absent, ![a].status = "PENDING", ![a].section = "unknown",
                  ![a].amount = Payload(r)]
  /\ UNCHANGED <<caeOwner, ledger, total>>

\* The line of the ledger, outside of the transaction: a failure is an alert.
WriteLedger(a) ==
  /\ req[a].at = "ledger"
  /\ \/ /\ ledger' = [ledger EXCEPT ![req[a].entry] = @ + 1]
        /\ UNCHANGED fate
     \/ /\ Befalls(req[a].entry, "told")
        /\ UNCHANGED ledger
  /\ req' = [req EXCEPT ![a].at = "populate"]
  /\ UNCHANGED <<docs, total>>

\* Mutant: an entry that has a department is assigned again.
AssignReadAgain(a, e, d) ==
  /\ req[a] = Idle
  /\ entry[e].status \in Accepted
  /\ req' = [req EXCEPT ![a] = [Idle EXCEPT !.at = "assign", !.entry = e,
              !.row = entry[e], !.department = d, !.section = "cost", !.amount = ledger[e] > 0]]
  /\ UNCHANGED <<docs, ledger, total, fate>>

\* assignDepartment up to its update: an accepted entry without a department,
\* and the last line of the ledger.
AssignRead(a, e, d) ==
  /\ req[a] = Idle
  /\ entry[e].status \in Accepted
  /\ entry[e].department = NoDepartment
  /\ req' = [req EXCEPT ![a] = [Idle EXCEPT !.at = "assign", !.entry = e,
              !.row = entry[e], !.department = d, !.section = "cost", !.amount = ledger[e] > 0]]
  /\ UNCHANGED <<docs, ledger, total, fate>>

\* The department is saved; without a line of the ledger there is only a warning.
AssignSave(a) ==
  /\ req[a].at = "assign"
  /\ LET e == req[a].entry
     IN /\ entry' = [entry EXCEPT ![e].department = req[a].department]
        /\ IF entry[e] # req[a].row
           THEN Befalls(e, "contested")
           ELSE IF req[a].amount THEN UNCHANGED fate ELSE Befalls(e, "told")
        /\ IF req[a].amount
           THEN req' = [req EXCEPT ![a].at = "populate", ![a].row = Absent]
           ELSE Done(a)
  /\ UNCHANGED <<audit, caeOwner, reviews, ledger, total>>

-----------------------------------------------------------------------------
(* Population: populateCostStructureFromApproval for the PROCESSES system.   *)

Populates(a) ==
  /\ req[a].at = "populate"
  /\ "cost" \in {req[a].section, FinalSection(req[a].entry)}

\* Of a document of no known section nothing is populated.
PopulateNothing(a) ==
  /\ req[a].at = "populate"
  /\ ~Populates(a)
  /\ Done(a)
  /\ UNCHANGED <<docs, ledger, total, fate>>

\* Mutant: as it once was, only the log of the server knows.
PopulateSkipsSilently(a) ==
  /\ \/ Populates(a)
     \/ req[a].at = "sum"
  /\ Done(a)
  /\ UNCHANGED <<docs, ledger, total, fate>>

\* No department: the warning and the alert name no document, they say that it
\* waits in the list of those without one.
LeaveForList(a) ==
  /\ Populates(a)
  /\ req[a].department = NoDepartment
  /\ Done(a)
  /\ UNCHANGED <<docs, ledger, total, fate>>

\* No amount, no month or a closed one (requireWritablePeriod), or any failure: a
\* warning or an alert, and the request ends.
PopulateSkips(a) ==
  /\ \/ Populates(a)
     \/ req[a].at = "sum"
  /\ Befalls(req[a].entry, "told")
  /\ Done(a)
  /\ UNCHANGED <<docs, ledger, total>>

\* upsertPeriodCost reads the amount of the department ...
ReadSum(a) ==
  /\ Populates(a)
  /\ req[a].department # NoDepartment
  /\ req[a].amount
  /\ req' = [req EXCEPT ![a].at = "sum", ![a].seen = total[req[a].department]]
  /\ UNCHANGED <<docs, ledger, total, fate>>

\* ... and saves the sum.
WriteSum(a) ==
  /\ req[a].at = "sum"
  /\ LET r   == req[a]
         sum == [r.seen EXCEPT ![r.entry] = @ + 1]
     IN /\ total' = [total EXCEPT ![r.department] = sum]
        /\ fate' = [e \in Entries |->
              IF \/ sum[e] < total[r.department][e]
                 \/ e = r.entry /\ sum[e] = total[r.department][e]
              THEN Mishap(e, "overwritten") ELSE fate[e]]
  /\ Done(a)
  /\ UNCHANGED <<docs, ledger>>

\* listUnassignedForStructure: it looks at the section the classifier gave, also
\* where a person corrected it.
Listed(e) ==
  /\ entry[e].status \in Accepted
  /\ entry[e].department = NoDepartment
  /\ audit[e].section = "cost"

-----------------------------------------------------------------------------
(* Failures and requests.                                                    *)

\* The process dies in the middle of a request.
Crash(a) ==
  /\ req[a] # Idle
  /\ IF req[a].at \in {"ledger", "populate", "sum"}
     THEN Befalls(req[a].entry, "died") ELSE UNCHANGED fate
  /\ Stop(a)
  /\ UNCHANGED <<docs, ledger, total>>

Continue(a) ==
  \/ LookUpCAE(a) \/ LookUpKey(a) \/ RefuseIllegible(a)
  \/ \E e \in Entries : BulkNext(a, e) \/ \E class \in Classes : Insert(a, e, class)
  \/ ReviewCommit(a) \/ WriteLedger(a) \/ AssignSave(a)
  \/ PopulateNothing(a) \/ LeaveForList(a) \/ PopulateSkips(a) \/ ReadSum(a) \/ WriteSum(a)

Start(a) ==
  \/ \E p \in Papers, reading \in Readings : Analyse(a, p, reading)
  \/ \E e \in Entries, d \in Departments \union {NoDepartment} :
       \/ ReviewRead(a, e, "APPROVED", "unknown", d)
       \/ \E section \in Corrections : ReviewRead(a, e, "CORRECTED", section, d)
  \/ \E e \in Entries : ReviewRead(a, e, "REJECTED", "unknown", NoDepartment)
  \/ BulkStart(a)
  \/ \E e \in Entries, d \in Departments : AssignRead(a, e, d)

Next ==
  \E a \in Actors : Start(a) \/ Continue(a) \/ Crash(a)

Spec == Init /\ [][Next]_vars

-----------------------------------------------------------------------------
(* Properties.                                                               *)

\* Two deliveries of a paper at once, or a failure between them, never leave an
\* entry without its audit or two entries for one CAE.
IngestIsWhole ==
  \A e \in Entries : Exists(e) =>
    /\ audit[e].written
    /\ entry[e].cae => caeOwner[entry[e].paper] = e

\* How often an entry is in the costs of the departments.
Counted(e) == {d \in Departments : total[d][e] > 0}
CountedTwice(e) == \/ Cardinality(Counted(e)) > 1
                   \/ \E d \in Departments : total[d][e] > 1

\* A document reviewed, assigned or approved in bulk enters the costs at most
\* once, in its department and only while accepted, with one line of history and
\* of ledger, unless two people decided on it from the same reading of its row.
CountsAtMostOnce ==
  \A e \in Entries : fate[e] # "contested" =>
    /\ ~CountedTwice(e)
    /\ reviews[e] <= 1 /\ ledger[e] <= 1
    /\ Counted(e) # {} => entry[e].status \in Accepted /\ Counted(e) = {entry[e].department}

InFlight(e) == \E a \in Actors : req[a].entry = e

\* What the list misses: a person corrected its section into a cost, and chose
\* no department.
MissedByList(e) == entry[e].department = NoDepartment /\ audit[e].section # "cost"

\* An accepted cost is in a department or in the list of documents without one;
\* otherwise its person was told, the process died in the middle, another sum
\* overwrote it, or the list misses it: there is no other way to lose it.
AcceptedIsVisible ==
  \A e \in Entries :
    /\ entry[e].status \in Accepted
    /\ FinalSection(e) = "cost"
    /\ ~InFlight(e)
    => \/ Counted(e) # {} \/ Listed(e)
       \/ fate[e] # "none" \/ MissedByList(e)

\* The comment of upsertPeriodCost: an amount already in a sum is never overwritten.
SumsOnlyGrow ==
  [][\A d \in Departments, e \in Entries : total'[d][e] >= total[d][e]]_vars
=============================================================================
