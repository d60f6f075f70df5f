--------------------------- MODULE Intake_proofs ---------------------------
(***************************************************************************)
(* Proofs about Intake, for any number of requests, papers, departments    *)
(* and entries: the transaction of the ingestion is whole, and a document  *)
(* is counted once or somebody is told, whatever else interleaves, fails   *)
(* or dies.                                                                *)
(***************************************************************************)
EXTENDS Intake, FiniteSetTheorems, TLAPS

\* Requests past the reading of a row, and those that hold a department to add to.
OnEntry == {"decide", "ledger", "populate", "sum", "assign"}

\* A request works for an entry that exists, which it never un-creates.
RequestInv(a) ==
  /\ req[a].at \in {"byCAE", "byKey", "classify"} => req[a].paper \in Papers
  /\ req[a].at \in OnEntry => req[a].entry \in Entries /\ Exists(req[a].entry)
  /\ req[a].at \in {"sum", "assign"} => req[a].department \in Departments
  /\ req[a].at = "decide" => req[a].status # "ABSENT"

\* The papers of the entries are papers.
PaperInv == \A e \in Entries : Exists(e) => entry[e].paper \in Papers

IngestInv == TypeOK /\ PaperInv /\ IngestIsWhole /\ \A a \in Actors : RequestInv(a)

\* The records of the requests.
Locals == [at : Places, paper : Papers \union {0}, cae : BOOLEAN,
           key : BOOLEAN, entry : Entries \union {0}, status : Statuses,
           section : Sections, department : Departments \union {NoDepartment},
           amount : BOOLEAN, row : Rows, seen : [Entries -> Nat], todo : SUBSET Entries]

-----------------------------------------------------------------------------

LEMMA IdleFacts == Absent \in Rows /\ Idle \in Locals /\ Idle.at = "idle"
BY DEF Absent, Rows, Idle, Locals, Places, Statuses, Sections

\* What one request does to itself.
LEMMA LocalsStep ==
  ASSUME TypeOK, NEW a \in Actors, NEW l \in Locals, req' = [req EXCEPT ![a] = l]
  PROVE  /\ req' \in [Actors -> Locals] /\ req'[a] = l
         /\ \A b \in Actors \ {a} : req'[b] = req[b]
BY DEF TypeOK, Locals

LEMMA LocalsOf == ASSUME TypeOK, NEW a \in Actors PROVE req[a] \in Locals
BY DEF TypeOK, Locals

\* A request that ends, or ends one review of its list.
LEMMA EndStep ==
  ASSUME TypeOK, NEW a \in Actors, Stop(a) \/ Done(a)
  PROVE  /\ req' \in [Actors -> Locals] /\ req'[a].at = "idle"
         /\ \A b \in Actors \ {a} : req'[b] = req[b]
<1>1. CASE Stop(a)
  BY <1>1, LocalsStep, IdleFacts DEF Stop
<1>2. CASE Done(a)
  <2>1. req[a] \in Locals
    BY LocalsOf
  <2>2. /\ [Idle EXCEPT !.todo = req[a].todo] \in Locals
        /\ [Idle EXCEPT !.todo = req[a].todo].at = "idle"
    BY <2>1, IdleFacts DEF Locals
  <2> QED BY <1>2, <2>2, LocalsStep DEF Done
<1> QED BY <1>1, <1>2

\* Whatever befalls an entry is a fate.
LEMMA FateFacts ==
  ASSUME TypeOK, NEW e \in Entries, NEW what \in Fates, Befalls(e, what)
  PROVE  fate' \in [Entries -> Fates]
BY DEF TypeOK, Befalls, Mishap

\* The steps that leave the entries, their audits and the CAEs alone.
LEMMA QuietStep ==
  ASSUME IngestInv, UNCHANGED docs, NEW a \in Actors,
         req' \in [Actors -> Locals],
         \A b \in Actors \ {a} : req'[b] = req[b], RequestInv(a)',
         ledger' \in [Entries -> Nat], total' \in [Departments -> [Entries -> Nat]],
         fate' \in [Entries -> Fates]
  PROVE  IngestInv'
<1>1. TypeOK'
  BY DEF IngestInv, TypeOK, docs, Locals
<1>2. PaperInv' /\ IngestIsWhole'
  BY DEF IngestInv, PaperInv, IngestIsWhole, Exists, docs
<1>3. \A b \in Actors \ {a} : RequestInv(b)'
  BY DEF IngestInv, RequestInv, Exists, docs
<1> QED BY <1>1, <1>2, <1>3 DEF IngestInv

\* And add nothing to any sum.
LEMMA LocalStep ==
  ASSUME IngestInv, UNCHANGED <<docs, ledger, total, fate>>, NEW a \in Actors,
         NEW l \in Locals, req' = [req EXCEPT ![a] = l], RequestInv(a)'
  PROVE  IngestInv'
<1>1. /\ req' \in [Actors -> Locals]
      /\ \A b \in Actors \ {a} : req'[b] = req[b]
  BY LocalsStep DEF IngestInv
<1> QED BY <1>1, QuietStep DEF IngestInv, TypeOK

LEMMA EndsQuietly ==
  ASSUME IngestInv, UNCHANGED docs, NEW a \in Actors, Stop(a) \/ Done(a),
         UNCHANGED <<ledger, total>>, fate' \in [Entries -> Fates]
  PROVE  IngestInv'
<1>1. /\ req' \in [Actors -> Locals] /\ req'[a].at = "idle"
      /\ \A b \in Actors \ {a} : req'[b] = req[b]
  BY EndStep DEF IngestInv
<1>2. RequestInv(a)'
  BY <1>1 DEF RequestInv, OnEntry
<1> QED BY <1>1, <1>2, QuietStep DEF IngestInv, TypeOK

-----------------------------------------------------------------------------
(* Delivery.                                                                 *)

LEMMA AnalyseStep ==
  ASSUME IngestInv, NEW a \in Actors, NEW p \in Papers, NEW reading \in Readings,
         Analyse(a, p, reading)
  PROVE  IngestInv'
<1> DEFINE l == [Idle EXCEPT !.at = "byCAE", !.paper = p, !.cae = reading.cae,
                             !.key = reading.key]
<1>1. reading.cae \in BOOLEAN /\ reading.key \in BOOLEAN
  BY IntakeAssumption
<1>2. l \in Locals /\ l.at = "byCAE" /\ l.paper = p
  BY <1>1, IdleFacts DEF Locals, Places
<1>3. req' = [req EXCEPT ![a] = l]
  BY DEF Analyse
<1>4. RequestInv(a)'
  BY <1>2, <1>3, LocalsStep DEF RequestInv, OnEntry, IngestInv
<1> QED BY <1>2, <1>3, <1>4, LocalStep DEF Analyse

LEMMA LookUpStep ==
  ASSUME IngestInv, NEW a \in Actors, LookUpCAE(a) \/ LookUpKey(a) \/ RefuseIllegible(a)
  PROVE  IngestInv'
<1>1. CASE Stop(a)
  BY <1>1, EndsQuietly DEF LookUpCAE, LookUpKey, RefuseIllegible, IngestInv, TypeOK
<1>2. CASE ~Stop(a)
  <2>1. PICK at \in {"byKey", "classify"} : req' = [req EXCEPT ![a].at = at]
    BY <1>2 DEF LookUpCAE, LookUpKey, RefuseIllegible
  <2> DEFINE l == [req[a] EXCEPT !.at = at]
  <2>2. req[a] \in Locals
    BY LocalsOf DEF IngestInv
  <2>3. l \in Locals /\ l.at = at /\ l.paper = req[a].paper
    BY <2>2 DEF Locals, Places
  <2>4. req' = [req EXCEPT ![a] = l]
    BY <2>1 DEF IngestInv, TypeOK
  <2>5. req[a].paper \in Papers
    BY <1>2 DEF LookUpCAE, LookUpKey, RefuseIllegible, IngestInv, RequestInv
  <2>6. RequestInv(a)'
    BY <2>3, <2>4, <2>5, LocalsStep DEF RequestInv, OnEntry, IngestInv
  <2> QED BY <2>3, <2>4, <2>6, LocalStep DEF LookUpCAE, LookUpKey, RefuseIllegible
<1> QED BY <1>1, <1>2

\* The insertion is one transaction: the new entry has its audit and its CAE, which no
\* other entry had, and the entries there were keep theirs.
LEMMA InsertStep ==
  ASSUME IngestInv, NEW a \in Actors, NEW e \in Entries, NEW class \in Classes,
         Insert(a, e, class)
  PROVE  IngestInv'
<1> DEFINE r == req[a]
<1>1. CASE CAEIsTaken(r)
  BY <1>1, EndsQuietly DEF Insert, docs, IngestInv, TypeOK
<1>2. CASE ~CAEIsTaken(r)
  <2>1. /\ entry' = [entry EXCEPT ![e] = NewEntry(r)]
        /\ audit' = [audit EXCEPT ![e] = AuditOf(class)]
        /\ caeOwner' = IF r.cae THEN [caeOwner EXCEPT ![r.paper] = e] ELSE caeOwner
        /\ UNCHANGED <<reviews, ledger, total, fate>>
        /\ Stop(a) /\ ~Exists(e) /\ r.at = "classify"
    BY <1>2 DEF Insert, IsNext
  <2>2. r \in Locals /\ r.paper \in Papers
    BY <2>1, LocalsOf DEF IngestInv, RequestInv
  <2>3. r.cae => caeOwner[r.paper] = 0
    BY <1>2 DEF CAEIsTaken
  <2> HIDE DEF r
  <2>4. /\ NewEntry(r) \in Rows /\ NewEntry(r).status = "PENDING"
        /\ NewEntry(r).paper = r.paper /\ NewEntry(r).cae = r.cae
    BY <2>2 DEF NewEntry, Rows, Locals, Statuses
  <2>5. /\ AuditOf(class) \in [written : BOOLEAN, sure : BOOLEAN, section : Sections,
                               amount : BOOLEAN, correction : Sections \union {"none"}]
        /\ AuditOf(class).written
    BY IntakeAssumption DEF AuditOf
  <2>6. /\ req' \in [Actors -> Locals] /\ req'[a].at = "idle"
        /\ \A b \in Actors \ {a} : req'[b] = req[b]
    BY <2>1, EndStep DEF IngestInv
  <2>7. TypeOK'
    BY <2>1, <2>2, <2>4, <2>5, <2>6 DEF IngestInv, TypeOK, Locals
  <2>8. /\ \A f \in Entries \ {e} : entry'[f] = entry[f] /\ audit'[f] = audit[f]
        /\ entry'[e] = NewEntry(r) /\ audit'[e] = AuditOf(class)
    BY <2>1 DEF IngestInv, TypeOK
  <2>9. PaperInv'
    BY <2>2, <2>4, <2>8 DEF IngestInv, PaperInv, Exists
  <2>10. IngestIsWhole'
    <3> SUFFICES ASSUME NEW f \in Entries, Exists(f)'
                 PROVE  /\ audit'[f].written
                        /\ entry'[f].cae => caeOwner'[entry'[f].paper] = f
      BY DEF IngestIsWhole
    <3>1. CASE f = e
      BY <3>1, <2>1, <2>2, <2>4, <2>5, <2>8 DEF IngestInv, TypeOK
    <3>2. CASE f # e
      <4>1. /\ Exists(f) /\ audit[f].written /\ entry[f].paper \in Papers
            /\ entry[f].cae => caeOwner[entry[f].paper] = f
        BY <3>2, <2>8 DEF IngestInv, IngestIsWhole, PaperInv, Exists
      <4>2. f # 0
        BY IntakeAssumption DEF Entries
      <4> QED BY <4>1, <4>2, <3>2, <2>1, <2>2, <2>3, <2>8 DEF IngestInv, TypeOK
    <3> QED BY <3>1, <3>2
  <2>11. ASSUME NEW b \in Actors PROVE RequestInv(b)'
    <3>1. CASE b = a
      BY <3>1, <2>6 DEF RequestInv, OnEntry
    <3>2. CASE b # a
      BY <3>2, <2>4, <2>6, <2>8 DEF IngestInv, RequestInv, Exists
    <3> QED BY <3>1, <3>2
  <2> QED BY <2>7, <2>9, <2>10, <2>11 DEF IngestInv
<1> QED BY <1>1, <1>2

-----------------------------------------------------------------------------
(* Decision.                                                                 *)

LEMMA ReadingStep ==
  ASSUME IngestInv, NEW a \in Actors, NEW e \in Entries,
         NEW d \in Departments \union {NoDepartment},
         NEW status \in Statuses \ {"ABSENT"}, NEW section \in Sections,
         ReviewRead(a, e, status, section, d)
  PROVE  IngestInv'
<1> DEFINE l == [Idle EXCEPT !.at = "decide", !.entry = e, !.row = entry[e],
                             !.status = status, !.section = section, !.department = d]
<1>1. entry[e] \in Rows
  BY DEF IngestInv, TypeOK
<1>2. l \in Locals /\ l.at = "decide" /\ l.entry = e /\ l.status = status
  BY <1>1, IdleFacts DEF Locals, Places
<1>3. req' = [req EXCEPT ![a] = l]
  BY DEF ReviewRead
<1>4. Exists(e)' /\ req'[a] = l
  BY <1>2, <1>3, LocalsStep DEF ReviewRead, Pending, Exists, docs, IngestInv
<1>5. RequestInv(a)'
  BY <1>2, <1>4 DEF RequestInv, OnEntry
<1> QED BY <1>2, <1>3, <1>5, LocalStep DEF ReviewRead

LEMMA BulkStartStep == ASSUME IngestInv, NEW a \in Actors, BulkStart(a) PROVE IngestInv'
<1> DEFINE todo == {e \in Entries : Pending(e) /\ audit[e].sure}
           l == [req[a] EXCEPT !.todo = todo]
<1>1. req[a] \in Locals /\ req[a].at = "idle" /\ todo \in SUBSET Entries
  BY LocalsOf, IdleFacts DEF IngestInv, BulkStart
<1> HIDE DEF todo
<1>2. l \in Locals /\ l.at = "idle"
  BY <1>1 DEF Locals
<1>3. req' = [req EXCEPT ![a] = l]
  BY DEF BulkStart, IngestInv, TypeOK, todo
<1>4. RequestInv(a)'
  BY <1>2, <1>3, LocalsStep DEF RequestInv, OnEntry, IngestInv
<1> QED BY <1>2, <1>3, <1>4, LocalStep DEF BulkStart

LEMMA BulkNextStep ==
  ASSUME IngestInv, NEW a \in Actors, NEW e \in Entries, BulkNext(a, e)
  PROVE  IngestInv'
<1>1. CASE ~Pending(e)
  <2>1. Stop(a)
    BY <1>1 DEF BulkNext, Stop
  <2> QED BY <2>1, EndsQuietly DEF BulkNext, IngestInv, TypeOK
<1>2. CASE Pending(e)
  <2> DEFINE l == [Idle EXCEPT !.at = "decide", !.entry = e, !.row = entry[e],
                               !.status = "APPROVED", !.todo = req[a].todo \ {e}]
  <2>1. req[a].todo \ {e} \in SUBSET Entries /\ entry[e] \in Rows
    BY DEF IngestInv, TypeOK
  <2>2. l \in Locals /\ l.at = "decide" /\ l.entry = e /\ l.status = "APPROVED"
    BY <2>1, IdleFacts DEF Locals, Places, Statuses
  <2>3. req' = [req EXCEPT ![a] = l]
    BY <1>2 DEF BulkNext
  <2>4. Exists(e)' /\ req'[a] = l
    BY <1>2, <2>2, <2>3, LocalsStep DEF BulkNext, Pending, Exists, docs, IngestInv
  <2>5. RequestInv(a)'
    BY <2>2, <2>4 DEF RequestInv, OnEntry
  <2> QED BY <2>2, <2>3, <2>5, LocalStep DEF BulkNext
<1> QED BY <1>1, <1>2

\* The steps that write the row of an entry that exists: its paper and CAE stay.
LEMMA EntryStep ==
  ASSUME IngestInv, TypeOK', UNCHANGED caeOwner, NEW a \in Actors,
         \A b \in Actors \ {a} : req'[b] = req[b], RequestInv(a)',
         \A e \in Entries : /\ Exists(e)' <=> Exists(e)
                           /\ entry'[e].paper = entry[e].paper
                           /\ entry'[e].cae = entry[e].cae
                           /\ audit'[e].written = audit[e].written
  PROVE  IngestInv'
<1>1. PaperInv' /\ IngestIsWhole'
  BY DEF IngestInv, PaperInv, IngestIsWhole
<1>2. \A b \in Actors \ {a} : RequestInv(b)'
  BY DEF IngestInv, RequestInv
<1> QED BY <1>1, <1>2 DEF IngestInv

LEMMA ReviewCommitStep ==
  ASSUME IngestInv, NEW a \in Actors, ReviewCommit(a)
  PROVE  IngestInv'
<1> DEFINE r == req[a]
           e == r.entry
           row == [entry[e] EXCEPT !.status = r.status,
             !.department = IF r.department = NoDepartment THEN entry[e].department
                                                           ELSE r.department]
           l == [r EXCEPT !.at = IF Payload(r) THEN "ledger" ELSE "populate",
                          !.row = Absent, !.status = "PENDING", !.section = "unknown",
                          !.amount = Payload(r)]
<1>1. /\ r \in Locals /\ e \in Entries /\ Exists(e) /\ r.status # "ABSENT"
      /\ r.at = "decide"
  BY LocalsOf DEF ReviewCommit, IngestInv, RequestInv, OnEntry
<1>2. entry[e] \in Rows /\ entry[e].status # "ABSENT"
  BY <1>1 DEF IngestInv, TypeOK, Exists
<1>3. row \in Rows /\ row.status # "ABSENT" /\ row.paper = entry[e].paper
      /\ row.cae = entry[e].cae
  BY <1>1, <1>2 DEF Rows, Locals
<1>4. entry' = [entry EXCEPT ![e] = row]
  BY <1>1 DEF ReviewCommit, IngestInv, TypeOK
<1>5. Payload(r) \in BOOLEAN
  BY <1>1 DEF Payload, IngestInv, TypeOK
<1>6. /\ l \in Locals /\ l.at \in {"ledger", "populate"} /\ l.entry = e
  BY <1>1, <1>5, IdleFacts DEF Locals, Places, Statuses, Sections
<1>7. /\ req' \in [Actors -> Locals]
      /\ \A b \in Actors \ {a} : req'[b] = req[b]
      /\ req'[a].at = "idle" \/ req'[a] = l
  <2>1. CASE Done(a)
    BY <2>1, EndStep DEF IngestInv
  <2>2. CASE ~Done(a)
    <3>1. req' = [req EXCEPT ![a] = l]
      BY <2>2 DEF ReviewCommit, IngestInv, TypeOK
    <3> QED BY <3>1, <1>6, LocalsStep DEF IngestInv
  <2> QED BY <2>1, <2>2
<1>8. /\ reviews' \in [Entries -> Nat] /\ caeOwner' = caeOwner
      /\ ledger' = ledger /\ total' = total
  BY <1>1 DEF ReviewCommit, IngestInv, TypeOK
<1>9. /\ audit' \in [Entries -> [written : BOOLEAN, sure : BOOLEAN, section : Sections,
                                 amount : BOOLEAN, correction : Sections \union {"none"}]]
      /\ \A f \in Entries : audit'[f].written = audit[f].written
  <2> DEFINE Audits == [written : BOOLEAN, sure : BOOLEAN, section : Sections,
                        amount : BOOLEAN, correction : Sections \union {"none"}]
  <2>1. CASE audit' = [audit EXCEPT ![e].correction = r.section]
    <3>1. audit[e] \in Audits /\ r.section \in Sections
      BY <1>1 DEF IngestInv, TypeOK, Locals
    <3>2. /\ [audit[e] EXCEPT !.correction = r.section] \in Audits
          /\ [audit[e] EXCEPT !.correction = r.section].written = audit[e].written
      BY <3>1
    <3> QED BY <2>1, <3>2, <1>1 DEF IngestInv, TypeOK
  <2>2. CASE audit' = audit
    BY <2>2 DEF IngestInv, TypeOK
  <2> QED BY <2>1, <2>2 DEF ReviewCommit
<1>10. fate' \in [Entries -> Fates]
  BY <1>1, FateFacts DEF ReviewCommit, IngestInv, TypeOK, Fates
<1> HIDE DEF r, e, row, l
<1>11. TypeOK'
  BY <1>1, <1>3, <1>4, <1>7, <1>8, <1>9, <1>10 DEF IngestInv, TypeOK, Locals
<1>12. \A f \in Entries : /\ Exists(f)' <=> Exists(f)
                         /\ entry'[f].paper = entry[f].paper
                         /\ entry'[f].cae = entry[f].cae
  BY <1>1, <1>2, <1>3, <1>4 DEF IngestInv, TypeOK, Exists
<1>13. RequestInv(a)'
  BY <1>1, <1>6, <1>7, <1>12 DEF RequestInv, OnEntry
<1> QED BY <1>7, <1>8, <1>9, <1>11, <1>12, <1>13, EntryStep

LEMMA WriteLedgerStep ==
  ASSUME IngestInv, NEW a \in Actors, WriteLedger(a)
  PROVE  IngestInv'
<1> DEFINE l == [req[a] EXCEPT !.at = "populate"]
<1>1. /\ req[a] \in Locals /\ req[a].entry \in Entries /\ Exists(req[a].entry)
      /\ req[a].at = "ledger"
  BY LocalsOf DEF WriteLedger, IngestInv, RequestInv, OnEntry
<1>2. l \in Locals /\ l.at = "populate" /\ l.entry = req[a].entry
  BY <1>1 DEF Locals, Places
<1>3. req' = [req EXCEPT ![a] = l]
  BY DEF WriteLedger, IngestInv, TypeOK
<1>4. /\ req' \in [Actors -> Locals] /\ req'[a] = l
      /\ \A b \in Actors \ {a} : req'[b] = req[b]
  BY <1>2, <1>3, LocalsStep DEF IngestInv
<1>5. ledger' \in [Entries -> Nat] /\ fate' \in [Entries -> Fates]
  <2>1. CASE ledger' = [ledger EXCEPT ![req[a].entry] = @ + 1] /\ UNCHANGED fate
    BY <1>1, <2>1 DEF IngestInv, TypeOK
  <2>2. CASE Befalls(req[a].entry, "told") /\ UNCHANGED ledger
    <3>1. fate' \in [Entries -> Fates]
      BY <1>1, <2>2, FateFacts DEF IngestInv, Fates
    <3> QED BY <2>2, <3>1 DEF IngestInv, TypeOK
  <2> QED BY <2>1, <2>2 DEF WriteLedger
<1>6. RequestInv(a)'
  BY <1>1, <1>2, <1>4 DEF RequestInv, OnEntry, Exists, WriteLedger, docs
<1> QED BY <1>4, <1>5, <1>6, QuietStep DEF WriteLedger, IngestInv, TypeOK

LEMMA AssignReadStep ==
  ASSUME IngestInv, NEW a \in Actors, NEW e \in Entries, NEW d \in Departments,
         AssignRead(a, e, d)
  PROVE  IngestInv'
<1> DEFINE l == [Idle EXCEPT !.at = "assign", !.entry = e,
              !.row = entry[e], !.department = d, !.section = "cost", !.amount = ledger[e] > 0]
<1>1. entry[e] \in Rows /\ (ledger[e] > 0) \in BOOLEAN
  BY DEF IngestInv, TypeOK
<1>2. /\ l \in Locals /\ l.at = "assign" /\ l.entry = e /\ l.department = d
  BY <1>1, IdleFacts DEF Locals, Places, Sections
<1>3. req' = [req EXCEPT ![a] = l]
  BY DEF AssignRead
<1>4. Exists(e)' /\ req'[a] = l
  BY <1>2, <1>3, LocalsStep DEF AssignRead, Accepted, Exists, docs, IngestInv
<1>5. RequestInv(a)'
  BY <1>2, <1>4 DEF RequestInv, OnEntry
<1> QED BY <1>2, <1>3, <1>5, LocalStep DEF AssignRead

LEMMA AssignSaveStep ==
  ASSUME IngestInv, NEW a \in Actors, AssignSave(a)
  PROVE  IngestInv'
<1> DEFINE r == req[a]
           e == r.entry
           row == [entry[e] EXCEPT !.department = r.department]
           l == [r EXCEPT !.at = "populate", !.row = Absent]
<1>1. /\ r \in Locals /\ e \in Entries /\ Exists(e) /\ r.department \in Departments
      /\ r.at = "assign"
  BY LocalsOf DEF AssignSave, IngestInv, RequestInv, OnEntry
<1>2. entry[e] \in Rows
  BY <1>1 DEF IngestInv, TypeOK
<1>3. row \in Rows /\ row.status = entry[e].status /\ row.paper = entry[e].paper
      /\ row.cae = entry[e].cae
  BY <1>1, <1>2 DEF Rows
<1>4. entry' = [entry EXCEPT ![e] = row]
  BY <1>1 DEF AssignSave, IngestInv, TypeOK
<1>5. l \in Locals /\ l.at = "populate" /\ l.entry = e
  BY <1>1, IdleFacts DEF Locals, Places
<1>6. /\ req' \in [Actors -> Locals]
      /\ \A b \in Actors \ {a} : req'[b] = req[b]
      /\ req'[a].at = "idle" \/ req'[a] = l
  <2>1. CASE Done(a)
    BY <2>1, EndStep DEF IngestInv
  <2>2. CASE ~Done(a)
    <3>1. req' = [req EXCEPT ![a] = l]
      BY <2>2 DEF AssignSave, IngestInv, TypeOK
    <3> QED BY <3>1, <1>5, LocalsStep DEF IngestInv
  <2> QED BY <2>1, <2>2
<1>7. fate' \in [Entries -> Fates]
  <2>1. \/ UNCHANGED fate
        \/ \E what \in Fates : Befalls(e, what)
    BY DEF AssignSave, Fates
  <2> QED BY <1>1, <2>1, FateFacts DEF IngestInv, TypeOK
<1> HIDE DEF r, e, row, l
<1>8. TypeOK'
  <2>1. UNCHANGED <<audit, caeOwner, reviews, ledger, total>>
    BY DEF AssignSave
  <2>2. entry' \in [Entries -> Rows]
    BY <1>3, <1>4 DEF IngestInv, TypeOK
  <2> QED BY <2>1, <2>2, <1>6, <1>7 DEF IngestInv, TypeOK, Locals
<1>9. \A f \in Entries : /\ Exists(f)' <=> Exists(f)
                        /\ entry'[f].paper = entry[f].paper
                        /\ entry'[f].cae = entry[f].cae
                        /\ audit'[f].written = audit[f].written
  BY <1>1, <1>3, <1>4 DEF IngestInv, TypeOK, Exists, AssignSave
<1>10. RequestInv(a)'
  BY <1>1, <1>5, <1>6, <1>9 DEF RequestInv, OnEntry
<1> QED BY <1>6, <1>8, <1>9, <1>10, EntryStep DEF AssignSave

-----------------------------------------------------------------------------
(* Population and failures.                                                  *)

LEMMA PopulateEnds ==
  ASSUME IngestInv, NEW a \in Actors, PopulateNothing(a) \/ LeaveForList(a) \/ PopulateSkips(a)
  PROVE  IngestInv'
<1>1. CASE PopulateNothing(a) \/ LeaveForList(a)
  BY <1>1, EndsQuietly DEF PopulateNothing, LeaveForList, IngestInv, TypeOK
<1>2. CASE PopulateSkips(a)
  <2>1. req[a].entry \in Entries
    BY <1>2 DEF PopulateSkips, Populates, IngestInv, RequestInv, OnEntry
  <2>2. fate' \in [Entries -> Fates]
    BY <1>2, <2>1, FateFacts DEF PopulateSkips, IngestInv, Fates
  <2> QED BY <1>2, <2>2, EndsQuietly DEF PopulateSkips
<1> QED BY <1>1, <1>2

LEMMA ReadSumStep ==
  ASSUME IngestInv, NEW a \in Actors, ReadSum(a)
  PROVE  IngestInv'
<1> DEFINE l == [req[a] EXCEPT !.at = "sum", !.seen = total[req[a].department]]
<1>1. /\ req[a] \in Locals /\ req[a].entry \in Entries /\ Exists(req[a].entry)
      /\ req[a].at = "populate"
  BY LocalsOf DEF ReadSum, Populates, IngestInv, RequestInv, OnEntry
<1>2. req[a].department \in Departments /\ total[req[a].department] \in [Entries -> Nat]
  BY <1>1 DEF ReadSum, IngestInv, TypeOK, Locals
<1>3. /\ l \in Locals /\ l.at = "sum" /\ l.entry = req[a].entry
      /\ l.department = req[a].department
  BY <1>1, <1>2 DEF Locals, Places
<1>4. req' = [req EXCEPT ![a] = l]
  BY DEF ReadSum, IngestInv, TypeOK
<1>5. RequestInv(a)'
  <2>1. req'[a] = l
    BY <1>3, <1>4, LocalsStep DEF IngestInv
  <2> QED BY <1>1, <1>2, <1>3, <2>1 DEF RequestInv, OnEntry, Exists, ReadSum, docs
<1> QED BY <1>3, <1>4, <1>5, LocalStep DEF ReadSum

LEMMA WriteSumStep ==
  ASSUME IngestInv, NEW a \in Actors, WriteSum(a)
  PROVE  IngestInv'
<1> DEFINE r == req[a]
           sum == [r.seen EXCEPT ![r.entry] = @ + 1]
<1>1. /\ r \in Locals /\ r.entry \in Entries /\ r.department \in Departments
  BY LocalsOf DEF WriteSum, IngestInv, RequestInv, OnEntry
<1>2. sum \in [Entries -> Nat]
  BY <1>1 DEF Locals
<1>3. total' \in [Departments -> [Entries -> Nat]]
  BY <1>1, <1>2 DEF WriteSum, IngestInv, TypeOK
<1>4. fate' \in [Entries -> Fates]
  BY DEF WriteSum, IngestInv, TypeOK, Mishap, Fates
<1>5. /\ req' \in [Actors -> Locals] /\ req'[a].at = "idle"
      /\ \A b \in Actors \ {a} : req'[b] = req[b]
  BY EndStep DEF WriteSum, IngestInv
<1>6. RequestInv(a)'
  BY <1>5 DEF RequestInv, OnEntry
<1> QED BY <1>3, <1>4, <1>5, <1>6, QuietStep DEF WriteSum, IngestInv, TypeOK

LEMMA CrashStep == ASSUME IngestInv, NEW a \in Actors, Crash(a) PROVE IngestInv'
<1>1. fate' \in [Entries -> Fates]
  <2>1. CASE req[a].at \in {"ledger", "populate", "sum"}
    <3>1. req[a].entry \in Entries /\ Befalls(req[a].entry, "died")
      BY <2>1 DEF Crash, IngestInv, RequestInv, OnEntry
    <3> QED BY <3>1, FateFacts DEF IngestInv, Fates
  <2>2. CASE req[a].at \notin {"ledger", "populate", "sum"}
    BY <2>2 DEF Crash, IngestInv, TypeOK
  <2> QED BY <2>1, <2>2
<1> QED BY <1>1, EndsQuietly DEF Crash

-----------------------------------------------------------------------------

LEMMA InitStep == ASSUME Init PROVE IngestInv
<1>1. TypeOK
  <2>1. /\ Absent \in Rows /\ Idle \in Locals
        /\ NoAudit \in [written : BOOLEAN, sure : BOOLEAN, section : Sections,
                        amount : BOOLEAN, correction : Sections \union {"none"}]
    BY IdleFacts DEF NoAudit, Sections
  <2> QED BY <2>1 DEF Init, TypeOK, Locals, Fates
<1>2. PaperInv /\ IngestIsWhole
  BY DEF Init, PaperInv, IngestIsWhole, Exists, Absent
<1>3. \A a \in Actors : RequestInv(a)
  BY IdleFacts DEF Init, RequestInv, OnEntry
<1> QED BY <1>1, <1>2, <1>3 DEF IngestInv

LEMMA StutterStep == ASSUME IngestInv, UNCHANGED vars PROVE IngestInv'
<1>1. TypeOK'
  BY DEF IngestInv, TypeOK, vars, docs
<1>2. PaperInv' /\ IngestIsWhole'
  BY DEF IngestInv, PaperInv, IngestIsWhole, Exists, vars
<1>3. \A a \in Actors : RequestInv(a)'
  BY DEF IngestInv, RequestInv, Exists, vars
<1> QED BY <1>1, <1>2, <1>3 DEF IngestInv

LEMMA StartStep == ASSUME IngestInv, NEW a \in Actors, Start(a) PROVE IngestInv'
<1>1. CASE \E p \in Papers, reading \in Readings : Analyse(a, p, reading)
  BY <1>1, AnalyseStep
<1>2. ASSUME NEW e \in Entries, NEW d \in Departments \union {NoDepartment},
             \/ ReviewRead(a, e, "APPROVED", "unknown", d)
             \/ \E section \in Corrections : ReviewRead(a, e, "CORRECTED", section, d)
             \/ ReviewRead(a, e, "REJECTED", "unknown", NoDepartment)
      PROVE  IngestInv'
  BY <1>2, ReadingStep, IntakeAssumption DEF Statuses, Sections
<1>3. CASE BulkStart(a)
  BY <1>3, BulkStartStep
<1>4. CASE \E e \in Entries, d \in Departments : AssignRead(a, e, d)
  BY <1>4, AssignReadStep
<1> QED BY <1>1, <1>2, <1>3, <1>4 DEF Start

LEMMA ContinueStep == ASSUME IngestInv, NEW a \in Actors, Continue(a) PROVE IngestInv'
<1>1. CASE LookUpCAE(a) \/ LookUpKey(a) \/ RefuseIllegible(a)
  BY <1>1, LookUpStep
<1>2. CASE \E e \in Entries : BulkNext(a, e) \/ \E class \in Classes : Insert(a, e, class)
  BY <1>2, BulkNextStep, InsertStep
<1>3. CASE ReviewCommit(a) \/ WriteLedger(a) \/ AssignSave(a)
  BY <1>3, ReviewCommitStep, WriteLedgerStep, AssignSaveStep
<1>4. CASE \/ PopulateNothing(a) \/ LeaveForList(a) \/ PopulateSkips(a)
          \/ ReadSum(a) \/ WriteSum(a)
  BY <1>4, PopulateEnds, ReadSumStep, WriteSumStep
<1> QED BY <1>1, <1>2, <1>3, <1>4 DEF Continue

\* No step of any delivery, review or assignment, in whatever order, leaves the
\* inductive invariant of the intake (ingest-data-entry.ts).
THEOREM IngestInductive == Spec => []IngestInv
<1>1. Init => IngestInv
  BY InitStep
<1>2. IngestInv /\ [Next]_vars => IngestInv'
  BY StartStep, ContinueStep, CrashStep, StutterStep DEF Next
<1> QED BY <1>1, <1>2, PTL DEF Spec

\* Rows, sums and requests are always of their types.
THEOREM IntakeTypeCorrect == Spec => []TypeOK
<1>1. IngestInv => TypeOK
  BY DEF IngestInv
<1> QED BY <1>1, IngestInductive, PTL

\* ingest-data-entry.ts: an entry has its audit and the CAE it was read with, however many
\* deliveries of the paper are in flight and wherever they die.
THEOREM IngestionIsWhole == Spec => []IngestIsWhole
<1>1. IngestInv => IngestIsWhole
  BY DEF IngestInv
<1> QED BY <1>1, IngestInductive, PTL

-----------------------------------------------------------------------------
(* How often an entry enters the costs.                                      *)

\* A request past its commit that holds the entry, and one of them that has a department to
\* add it to.
Carries(a, e) == req[a].entry = e /\ req[a].at \in {"ledger", "populate", "sum"}
Writes(a, e)  == Carries(a, e) /\ req[a].department # NoDepartment
HasLine(a, e) == Carries(a, e) /\ req[a].at = "ledger"

\* No sum has the entry, nor the copy of one that a request is about to save.
Untouched(e) ==
  /\ \A d \in Departments : total[d][e] = 0
  /\ \A a \in Actors : req[a].at = "sum" => req[a].seen[e] = 0

\* What a person decides about has been read as pending, or as accepted and unassigned.
RowInv(a) ==
  /\ req[a].at = "decide" => /\ req[a].row.status = "PENDING"
                             /\ req[a].status \in {"APPROVED", "CORRECTED", "REJECTED"}
  /\ req[a].at = "assign" => /\ req[a].row.status \in Accepted
                             /\ req[a].row.department = NoDepartment

\* While nobody decided on an entry from a stale row, at most one request may add it to a sum, and
\* only while no sum has it; where it is counted it is counted once, in its department.
ClaimInv(e) ==
  fate[e] # "contested" =>
    /\ entry[e].status \in {"ABSENT", "PENDING"} =>
         /\ entry[e].department = NoDepartment /\ reviews[e] = 0 /\ ledger[e] = 0
         /\ \A a \in Actors : ~Carries(a, e)
    /\ entry[e].status \notin Accepted \/ entry[e].department = NoDepartment =>
         Untouched(e) /\ \A a \in Actors : ~Writes(a, e)
    /\ \A a \in Actors : Writes(a, e) =>
         /\ Untouched(e) /\ req[a].department = entry[e].department
         /\ \A b \in Actors : Writes(b, e) => b = a
    /\ \A d \in Departments : /\ total[d][e] <= 1
                              /\ total[d][e] # 0 => d = entry[e].department
    /\ \A a \in Actors : req[a].at = "sum" =>
         /\ req[a].seen[e] <= 1
         /\ req[a].seen[e] # 0 => req[a].department = entry[e].department
    /\ reviews[e] <= 1 /\ ledger[e] <= 1
    /\ \A a \in Actors : HasLine(a, e) =>
         ledger[e] = 0 /\ \A b \in Actors : HasLine(b, e) => b = a

\* An accepted cost of a department that nothing befell is in a sum or on its way to one.
VisibleInv(e) ==
  /\ fate[e] = "none" /\ entry[e].status \in Accepted
  /\ entry[e].department # NoDepartment /\ FinalSection(e) = "cost"
  => (\E d \in Departments : total[d][e] # 0) \/ \E a \in Actors : Writes(a, e)

CountInv == /\ \A a \in Actors : RowInv(a)
            /\ \A e \in Entries : ClaimInv(e) /\ VisibleInv(e)

\* What a step must leave of an entry for its claim to stand: a sum is read whole, and no
\* request comes to carry the entry.
ClaimKept(e) ==
  /\ entry'[e] = entry[e] /\ reviews'[e] = reviews[e] /\ ledger'[e] = ledger[e]
  /\ \A d \in Departments : total'[d][e] = total[d][e]
  /\ fate'[e] # "contested" => fate[e] # "contested"
  /\ \A a \in Actors :
       /\ Carries(a, e)' => Carries(a, e) /\ req'[a].department = req[a].department
       /\ HasLine(a, e)' => HasLine(a, e)
       /\ req'[a].at = "sum" =>
            \/ /\ req[a].at = "sum" /\ req'[a].department = req[a].department
               /\ req'[a].seen[e] = req[a].seen[e]
            \/ /\ req'[a].department \in Departments
               /\ req'[a].seen[e] = total[req'[a].department][e]

\* And for it to stay visible, unless a mishap is recorded or it is no cost.
VisibleKept(e) ==
  \/ fate'[e] # "none" \/ FinalSection(e)' # "cost"
  \/ /\ entry'[e] = entry[e] /\ FinalSection(e)' = FinalSection(e)
     /\ \A d \in Departments : total'[d][e] = total[d][e]
     /\ fate[e] = "none"
     /\ \A a \in Actors : Writes(a, e) => Writes(a, e)'

LEMMA ClaimFrame ==
  ASSUME NEW e \in Entries, ClaimInv(e), ClaimKept(e)
  PROVE  ClaimInv(e)'
<1> SUFFICES ASSUME fate'[e] # "contested" PROVE ClaimInv(e)'
  BY DEF ClaimInv
<1> USE DEF ClaimKept
<1>1. \A a \in Actors : Writes(a, e)' => Writes(a, e) /\ req'[a].department = req[a].department
  BY DEF Writes
<1>2. Untouched(e) => Untouched(e)'
  BY DEF Untouched
<1>3. /\ entry'[e].status \in {"ABSENT", "PENDING"} =>
           /\ entry'[e].department = NoDepartment /\ reviews'[e] = 0 /\ ledger'[e] = 0
           /\ \A a \in Actors : ~Carries(a, e)'
      /\ entry'[e].status \notin Accepted \/ entry'[e].department = NoDepartment =>
           Untouched(e)' /\ \A a \in Actors : ~Writes(a, e)'
      /\ \A a \in Actors : Writes(a, e)' =>
           /\ Untouched(e)' /\ req'[a].department = entry'[e].department
           /\ \A b \in Actors : Writes(b, e)' => b = a
  BY <1>1, <1>2 DEF ClaimInv
<1>4. /\ \A d \in Departments : /\ total'[d][e] <= 1
                                /\ total'[d][e] # 0 => d = entry'[e].department
      /\ \A a \in Actors : req'[a].at = "sum" =>
           /\ req'[a].seen[e] <= 1
           /\ req'[a].seen[e] # 0 => req'[a].department = entry'[e].department
      /\ reviews'[e] <= 1 /\ ledger'[e] <= 1
      /\ \A a \in Actors : HasLine(a, e)' =>
           ledger'[e] = 0 /\ \A b \in Actors : HasLine(b, e)' => b = a
  BY DEF ClaimInv
<1> QED BY <1>3, <1>4 DEF ClaimInv

LEMMA VisibleFrame ==
  ASSUME NEW e \in Entries, VisibleInv(e), VisibleKept(e)
  PROVE  VisibleInv(e)'
BY DEF VisibleInv, VisibleKept

\* What befalls one entry: no mishap is forgotten, and a contest stays one.
LEMMA MishapFacts ==
  ASSUME TypeOK, NEW e \in Entries, NEW what \in Fates \ {"none"}, Befalls(e, what)
  PROVE  /\ fate'[e] # "none"
         /\ fate'[e] # "contested" => fate[e] # "contested" /\ what # "contested"
         /\ \A f \in Entries \ {e} : fate'[f] = fate[f]
BY DEF TypeOK, Befalls, Mishap, Fates

\* The steps that write nothing and leave a request that carries no entry: an entry that
\* it was to add to a sum has a mishap, or is no cost.
LEMMA DropStep ==
  ASSUME CountInv, NEW a \in Actors, UNCHANGED <<docs, ledger, total>>,
         \A b \in Actors \ {a} : req'[b] = req[b],
         req'[a].at \notin {"ledger", "populate", "sum"}, RowInv(a)',
         \A e \in Entries :
           /\ fate'[e] = "none" => fate[e] = "none"
           /\ fate'[e] # "contested" => fate[e] # "contested"
           /\ Writes(a, e) => fate'[e] # "none" \/ FinalSection(e) # "cost"
  PROVE  CountInv'
<1>1. ASSUME NEW b \in Actors PROVE RowInv(b)'
  BY DEF CountInv, RowInv
<1>2. ASSUME NEW e \in Entries PROVE ClaimInv(e)'
  <2>1. ClaimKept(e)
    BY DEF ClaimKept, Carries, HasLine, docs
  <2> QED BY <2>1, ClaimFrame DEF CountInv
<1>3. ASSUME NEW e \in Entries PROVE VisibleInv(e)'
  <2>1. FinalSection(e)' = FinalSection(e)
    BY DEF FinalSection, docs
  <2>2. VisibleKept(e)
    BY <2>1 DEF VisibleKept, Writes, Carries, docs
  <2> QED BY <2>2, VisibleFrame DEF CountInv
<1> QED BY <1>1, <1>2, <1>3 DEF CountInv

-----------------------------------------------------------------------------
(* The steps of a request that add nothing to a sum.                         *)

\* A request that stops, or ends one review of its list.
LEMMA EndsDropping ==
  ASSUME IngestInv, CountInv, NEW a \in Actors, Stop(a) \/ Done(a),
         UNCHANGED <<docs, ledger, total>>,
         \A e \in Entries :
           /\ fate'[e] = "none" => fate[e] = "none"
           /\ fate'[e] # "contested" => fate[e] # "contested"
           /\ Writes(a, e) => fate'[e] # "none" \/ FinalSection(e) # "cost"
  PROVE  CountInv'
<1>1. /\ req'[a].at = "idle" /\ \A b \in Actors \ {a} : req'[b] = req[b]
  BY EndStep DEF IngestInv
<1>2. RowInv(a)'
  BY <1>1 DEF RowInv
<1> QED BY <1>1, <1>2, DropStep

LEMMA DeliveryCounts ==
  ASSUME IngestInv, CountInv, NEW a \in Actors,
         \/ \E p \in Papers, reading \in Readings : Analyse(a, p, reading)
         \/ LookUpCAE(a) \/ LookUpKey(a) \/ RefuseIllegible(a)
  PROVE  CountInv'
<1>1. /\ UNCHANGED <<docs, ledger, total, fate>>
      /\ req[a].at \in {"idle", "byCAE", "byKey", "classify"}
  BY IdleFacts DEF Analyse, LookUpCAE, LookUpKey, RefuseIllegible
<1>2. /\ req'[a].at \in {"idle", "byCAE", "byKey", "classify"}
      /\ \A b \in Actors \ {a} : req'[b] = req[b]
  <2>1. CASE \E p \in Papers, reading \in Readings : Analyse(a, p, reading)
    <3>1. PICK p \in Papers, reading \in Readings : Analyse(a, p, reading)
      BY <2>1
    <3> DEFINE l == [Idle EXCEPT !.at = "byCAE", !.paper = p, !.cae = reading.cae,
                                 !.key = reading.key]
    <3>2. l \in Locals /\ l.at = "byCAE"
      BY IntakeAssumption, IdleFacts DEF Locals, Places
    <3>3. req' = [req EXCEPT ![a] = l]
      BY <3>1 DEF Analyse
    <3> QED BY <3>2, <3>3, LocalsStep DEF IngestInv
  <2>2. CASE Stop(a)
    BY <2>2, EndStep DEF IngestInv
  <2>3. CASE \E at \in {"byKey", "classify"} : req' = [req EXCEPT ![a].at = at]
    BY <2>3 DEF IngestInv, TypeOK
  <2> QED BY <2>1, <2>2, <2>3 DEF LookUpCAE, LookUpKey, RefuseIllegible
<1>3. \A e \in Entries : ~Writes(a, e)
  BY <1>1 DEF Writes, Carries
<1>4. RowInv(a)'
  BY <1>2 DEF RowInv
<1> QED BY <1>1, <1>2, <1>3, <1>4, DropStep

LEMMA BulkStartCounts ==
  ASSUME IngestInv, CountInv, NEW a \in Actors, BulkStart(a)
  PROVE  CountInv'
<1>1. /\ req'[a].at = "idle" /\ req[a].at = "idle"
      /\ \A b \in Actors \ {a} : req'[b] = req[b]
  BY IdleFacts DEF BulkStart, IngestInv, TypeOK
<1>2. RowInv(a)' /\ \A e \in Entries : ~Writes(a, e)
  BY <1>1 DEF RowInv, Writes, Carries
<1> QED BY <1>1, <1>2, DropStep DEF BulkStart

\* The readings of a row: as pending to decide, as accepted and unassigned to assign.
LEMMA RowReadCounts ==
  ASSUME IngestInv, CountInv, NEW a \in Actors, req[a].at = "idle",
         UNCHANGED <<docs, ledger, total, fate>>,
         NEW l \in Locals, req' = [req EXCEPT ![a] = l], RowInv(a)',
         l.at \in {"decide", "assign"}
  PROVE  CountInv'
<1>1. /\ req'[a] = l /\ \A b \in Actors \ {a} : req'[b] = req[b]
  BY LocalsStep DEF IngestInv
<1>2. \A e \in Entries : ~Writes(a, e)
  BY DEF Writes, Carries
<1> QED BY <1>1, <1>2, DropStep

LEMMA ReadingCounts ==
  ASSUME IngestInv, CountInv, NEW a \in Actors, NEW e \in Entries,
         NEW d \in Departments \union {NoDepartment},
         NEW status \in {"APPROVED", "CORRECTED", "REJECTED"}, NEW section \in Sections,
         ReviewRead(a, e, status, section, d)
  PROVE  CountInv'
<1> DEFINE l == [Idle EXCEPT !.at = "decide", !.entry = e, !.row = entry[e],
                             !.status = status, !.section = section, !.department = d]
<1>1. /\ entry[e] \in Rows /\ status \in Statuses
  BY DEF IngestInv, TypeOK, Statuses
<1>2. /\ l \in Locals /\ l.at = "decide" /\ l.row = entry[e] /\ l.status = status
  BY <1>1, IdleFacts DEF Locals, Places
<1>3. req' = [req EXCEPT ![a] = l] /\ req[a].at = "idle"
  BY IdleFacts DEF ReviewRead
<1>4. req'[a] = l
  BY <1>2, <1>3, LocalsStep DEF IngestInv
<1>5. RowInv(a)'
  BY <1>2, <1>4 DEF RowInv, ReviewRead, Pending
<1> QED BY <1>2, <1>3, <1>5, RowReadCounts DEF ReviewRead

LEMMA BulkNextCounts ==
  ASSUME IngestInv, CountInv, NEW a \in Actors, NEW e \in Entries, BulkNext(a, e)
  PROVE  CountInv'
<1>1. CASE ~Pending(e)
  <2>1. Stop(a) /\ \A f \in Entries : ~Writes(a, f)
    BY <1>1 DEF BulkNext, Stop, Writes, Carries
  <2> QED BY <2>1, EndsDropping DEF BulkNext
<1>2. CASE Pending(e)
  <2> DEFINE l == [Idle EXCEPT !.at = "decide", !.entry = e, !.row = entry[e],
                               !.status = "APPROVED", !.todo = req[a].todo \ {e}]
  <2>1. req[a].todo \ {e} \in SUBSET Entries /\ entry[e] \in Rows
    BY DEF IngestInv, TypeOK
  <2>2. l \in Locals /\ l.at = "decide" /\ l.row = entry[e] /\ l.status = "APPROVED"
    BY <2>1, IdleFacts DEF Locals, Places, Statuses
  <2>3. req' = [req EXCEPT ![a] = l]
    BY <1>2 DEF BulkNext
  <2>4. req'[a] = l
    BY <2>2, <2>3, LocalsStep DEF IngestInv
  <2>5. RowInv(a)'
    BY <1>2, <2>2, <2>4 DEF RowInv, Pending
  <2> QED BY <2>2, <2>3, <2>5, RowReadCounts DEF BulkNext
<1> QED BY <1>1, <1>2

LEMMA AssignReadCounts ==
  ASSUME IngestInv, CountInv, NEW a \in Actors, NEW e \in Entries, NEW d \in Departments,
         AssignRead(a, e, d)
  PROVE  CountInv'
<1> DEFINE l == [Idle EXCEPT !.at = "assign", !.entry = e,
              !.row = entry[e], !.department = d, !.section = "cost", !.amount = ledger[e] > 0]
<1>1. entry[e] \in Rows /\ (ledger[e] > 0) \in BOOLEAN
  BY DEF IngestInv, TypeOK
<1>2. l \in Locals /\ l.at = "assign" /\ l.row = entry[e]
  BY <1>1, IdleFacts DEF Locals, Places, Sections
<1>3. req' = [req EXCEPT ![a] = l] /\ req[a].at = "idle"
  BY IdleFacts DEF AssignRead
<1>4. req'[a] = l
  BY <1>2, <1>3, LocalsStep DEF IngestInv
<1>5. RowInv(a)'
  BY <1>2, <1>4 DEF RowInv, AssignRead
<1> QED BY <1>2, <1>3, <1>5, RowReadCounts DEF AssignRead

\* A request that ends without adding its entry says so, or the entry is no cost or has no
\* department.
LEMMA PopulateEndsCount ==
  ASSUME IngestInv, CountInv, NEW a \in Actors,
         PopulateNothing(a) \/ LeaveForList(a) \/ PopulateSkips(a)
  PROVE  CountInv'
<1>1. CASE PopulateNothing(a)
  <2>1. \A e \in Entries : Writes(a, e) => FinalSection(e) # "cost"
    BY <1>1 DEF PopulateNothing, Populates, Writes, Carries
  <2> QED BY <1>1, <2>1, EndsDropping DEF PopulateNothing
<1>2. CASE PopulateSkips(a)
  <2> DEFINE e == req[a].entry
  <2>1. e \in Entries /\ Befalls(e, "told")
    BY <1>2 DEF PopulateSkips, Populates, IngestInv, RequestInv, OnEntry
  <2>2. /\ fate'[e] # "none"
        /\ fate'[e] # "contested" => fate[e] # "contested"
        /\ \A f \in Entries \ {e} : fate'[f] = fate[f]
    BY <2>1, MishapFacts DEF IngestInv, Fates
  <2>3. \A f \in Entries : Writes(a, f) => f = e
    BY DEF Writes, Carries
  <2> HIDE DEF e
  <2> QED BY <1>2, <2>2, <2>3, EndsDropping DEF PopulateSkips
<1>3. CASE LeaveForList(a)
  <2>1. \A e \in Entries : ~Writes(a, e)
    BY <1>3 DEF LeaveForList, Writes
  <2> QED BY <1>3, <2>1, EndsDropping DEF LeaveForList
<1> QED BY <1>1, <1>2, <1>3

LEMMA CrashCounts ==
  ASSUME IngestInv, CountInv, NEW a \in Actors, Crash(a)
  PROVE  CountInv'
<1> DEFINE e == req[a].entry
<1>1. CASE req[a].at \in {"ledger", "populate", "sum"}
  <2>1. e \in Entries /\ Befalls(e, "died")
    BY <1>1 DEF Crash, IngestInv, RequestInv, OnEntry
  <2>2. /\ fate'[e] # "none"
        /\ fate'[e] # "contested" => fate[e] # "contested"
        /\ \A f \in Entries \ {e} : fate'[f] = fate[f]
    BY <2>1, MishapFacts DEF IngestInv, Fates
  <2>3. \A f \in Entries : Writes(a, f) => f = e
    BY DEF Writes, Carries
  <2> HIDE DEF e
  <2> QED BY <2>2, <2>3, EndsDropping DEF Crash
<1>2. CASE req[a].at \notin {"ledger", "populate", "sum"}
  <2>1. \A f \in Entries : ~Writes(a, f)
    BY <1>2 DEF Writes, Carries
  <2> QED BY <1>2, <2>1, EndsDropping DEF Crash
<1> QED BY <1>1, <1>2

-----------------------------------------------------------------------------
(* The steps that write an entry, its lines or the sums.                     *)

\* The other entries of a step on entry e: they keep their rows, lines and sums, and the
\* request works for none of them.
LEMMA OthersStand ==
  ASSUME CountInv, NEW a \in Actors, NEW e \in Entries, NEW f \in Entries, f # e,
         entry'[f] = entry[f], audit'[f] = audit[f], reviews'[f] = reviews[f],
         ledger'[f] = ledger[f], \A d \in Departments : total'[d][f] = total[d][f],
         fate'[f] = fate[f], \A b \in Actors \ {a} : req'[b] = req[b],
         ~Carries(a, f), ~Carries(a, f)',
         req'[a].at = "sum" =>
           /\ req'[a].department \in Departments
           /\ req'[a].seen[f] = total[req'[a].department][f]
  PROVE  ClaimInv(f)' /\ VisibleInv(f)'
<1>1. ClaimKept(f)
  BY DEF ClaimKept, Carries, HasLine
<1>2. FinalSection(f)' = FinalSection(f)
  BY DEF FinalSection
<1>3. VisibleKept(f)
  BY <1>2 DEF VisibleKept, Writes, Carries
<1> QED BY <1>1, <1>3, ClaimFrame, VisibleFrame DEF CountInv

LEMMA InsertCounts ==
  ASSUME IngestInv, CountInv, NEW a \in Actors, NEW e \in Entries, NEW class \in Classes,
         Insert(a, e, class)
  PROVE  CountInv'
<1>1. req[a].at = "classify" /\ Stop(a) /\ \A f \in Entries : ~Carries(a, f)
  BY DEF Insert, Carries
<1>2. CASE UNCHANGED <<entry, audit, caeOwner>>
  <2>1. \A f \in Entries : ~Writes(a, f)
    BY <1>1 DEF Writes
  <2> QED BY <1>1, <1>2, <2>1, EndsDropping DEF Insert, docs
<1>3. CASE entry' = [entry EXCEPT ![e] = NewEntry(req[a])]
  <2>1. /\ req'[a].at = "idle" /\ \A b \in Actors \ {a} : req'[b] = req[b]
    BY <1>1, EndStep DEF IngestInv
  <2>2. /\ entry'[e].status = "PENDING" /\ entry'[e].department = NoDepartment
        /\ entry[e].status = "ABSENT"
        /\ \A f \in Entries \ {e} : entry'[f] = entry[f] /\ audit'[f] = audit[f]
    BY <1>3 DEF Insert, IngestInv, TypeOK, NewEntry, IsNext, Exists
  <2>3. /\ UNCHANGED <<reviews, ledger, total, fate>>
        /\ \A f \in Entries : ~Carries(a, f)'
    BY <2>1 DEF Insert, Carries
  <2>4. \A b \in Actors : RowInv(b)'
    BY <2>1 DEF RowInv, CountInv
  <2>5. ASSUME NEW f \in Entries \ {e} PROVE ClaimInv(f)' /\ VisibleInv(f)'
    <3>1. f \in Entries /\ f # e
      OBVIOUS
    <3> QED BY <1>1, <2>1, <2>2, <2>3, <3>1, OthersStand
  <2>6. ClaimInv(e)'
    <3> SUFFICES ASSUME fate[e] # "contested" PROVE ClaimInv(e)'
      BY <2>3 DEF ClaimInv
    <3>1. /\ reviews[e] = 0 /\ ledger[e] = 0 /\ Untouched(e)
          /\ \A b \in Actors : ~Carries(b, e)
      BY <2>2 DEF CountInv, ClaimInv, Accepted
    <3>2. \A b \in Actors : ~Carries(b, e)' /\ ~Writes(b, e)' /\ ~HasLine(b, e)'
      BY <2>1, <2>3, <3>1 DEF Carries, Writes, HasLine
    <3>3. Untouched(e)'
      BY <2>1, <2>3, <3>1 DEF Untouched
    <3> QED BY <2>2, <2>3, <3>1, <3>2, <3>3 DEF ClaimInv, Untouched
  <2>7. VisibleInv(e)'
    BY <2>2 DEF VisibleInv, Accepted
  <2> QED BY <2>4, <2>5, <2>6, <2>7 DEF CountInv
<1> QED BY <1>2, <1>3 DEF Insert

\* The decision on a row that is as it was read: the request is the only one to carry the
\* entry, which nobody has reviewed, entered in the ledger or counted.
LEMMA ReviewCommitCounts ==
  ASSUME IngestInv, CountInv, NEW a \in Actors, ReviewCommit(a)
  PROVE  CountInv'
<1> DEFINE r == req[a]
           l == [r EXCEPT !.at = IF Payload(r) THEN "ledger" ELSE "populate",
                          !.row = Absent, !.status = "PENDING", !.section = "unknown",
                          !.amount = Payload(r)]
<1>0. PICK e \in Entries : e = r.entry
  BY DEF ReviewCommit, IngestInv, RequestInv, OnEntry
<1>1. /\ r \in Locals /\ r.entry = e /\ r.at = "decide"
      /\ r.row.status = "PENDING" /\ r.status \in {"APPROVED", "CORRECTED", "REJECTED"}
  BY <1>0, LocalsOf DEF ReviewCommit, IngestInv, CountInv, RowInv
<1>2. /\ entry'[e].status = r.status
      /\ entry'[e].department = IF r.department = NoDepartment THEN entry[e].department
                                                               ELSE r.department
      /\ reviews'[e] = reviews[e] + 1
      /\ \A f \in Entries \ {e} : /\ entry'[f] = entry[f] /\ reviews'[f] = reviews[f]
                                  /\ audit'[f] = audit[f]
      /\ UNCHANGED <<ledger, total>>
  <2>1. entry[e] \in Rows /\ entry \in [Entries -> Rows] /\ reviews \in [Entries -> Nat]
    BY <1>1 DEF IngestInv, TypeOK
  <2>2. entry'[e] = [entry[e] EXCEPT !.status = r.status,
          !.department = IF r.department = NoDepartment THEN entry[e].department
                                                        ELSE r.department]
    BY <1>1, <2>1 DEF ReviewCommit
  <2>3. \A f \in Entries \ {e} : audit'[f] = audit[f]
    BY DEF ReviewCommit, IngestInv, TypeOK
  <2> QED BY <1>1, <2>1, <2>2, <2>3 DEF ReviewCommit, Rows
<1>3. /\ fate'[e] # "contested" => fate[e] # "contested" /\ entry[e] = r.row
      /\ fate'[e] = "none" => fate[e] = "none"
      /\ \A f \in Entries \ {e} : fate'[f] = fate[f]
  <2>1. CASE entry[e] = r.row
    BY <1>1, <2>1 DEF ReviewCommit
  <2>2. CASE Befalls(e, "contested")
    BY <1>1, <2>2, MishapFacts DEF IngestInv, Fates
  <2> QED BY <1>1, <2>1, <2>2 DEF ReviewCommit
<1>4. /\ \A b \in Actors \ {a} : req'[b] = req[b]
      /\ r.status = "REJECTED" => req'[a].at = "idle"
      /\ r.status # "REJECTED" => req'[a] = l
  <2>1. CASE r.status = "REJECTED"
    BY <2>1, EndStep DEF IngestInv, ReviewCommit
  <2>2. CASE r.status # "REJECTED"
    <3>1. req' = [req EXCEPT ![a] = l]
      BY <2>2 DEF ReviewCommit, IngestInv, TypeOK
    <3>2. Payload(r) \in BOOLEAN
      BY <1>1 DEF Payload, IngestInv, TypeOK
    <3>3. l \in Locals
      BY <1>1, <3>2, IdleFacts DEF Locals, Places, Statuses, Sections
    <3> QED BY <2>2, <3>1, <3>3, LocalsStep DEF IngestInv
  <2> QED BY <2>1, <2>2
<1>5. /\ req'[a].at \in {"idle", "ledger", "populate"}
      /\ r.status # "REJECTED" =>
           /\ req'[a].at \in {"ledger", "populate"} /\ req'[a].entry = e
           /\ req'[a].department = r.department
  BY <1>1, <1>4 DEF Locals
<1> HIDE DEF l
<1>6. \A b \in Actors : RowInv(b)'
  BY <1>4, <1>5 DEF RowInv, CountInv
<1>7. ASSUME NEW f \in Entries \ {e} PROVE ClaimInv(f)' /\ VisibleInv(f)'
  <2>1. f \in Entries /\ f # e
    OBVIOUS
  <2>2. ~Carries(a, f) /\ ~Carries(a, f)' /\ req'[a].at # "sum"
    BY <1>1, <1>4, <1>5, <2>1 DEF Carries
  <2> QED BY <1>1, <1>2, <1>3, <1>4, <2>1, <2>2, OthersStand
<1> HIDE DEF r
<1>8. ClaimInv(e)'
  <2> SUFFICES ASSUME fate'[e] # "contested" PROVE ClaimInv(e)'
    BY DEF ClaimInv
  <2>1. /\ entry[e].department = NoDepartment /\ reviews[e] = 0 /\ ledger[e] = 0
        /\ \A b \in Actors : ~Carries(b, e)
        /\ Untouched(e)
    BY <1>1, <1>3 DEF CountInv, ClaimInv, Accepted
  <2>2. \A b \in Actors \ {a} : ~Carries(b, e)' /\ ~Writes(b, e)' /\ ~HasLine(b, e)'
    BY <1>4, <2>1 DEF Carries, Writes, HasLine
  <2>3. Untouched(e)'
    BY <1>2, <1>4, <1>5, <2>1 DEF Untouched
  <2>4. /\ entry'[e].status \notin {"ABSENT", "PENDING"}
        /\ entry'[e].status \notin Accepted \/ entry'[e].department = NoDepartment =>
             ~Writes(a, e)'
    BY <1>1, <1>2, <1>4, <1>5, <2>1 DEF Accepted, Writes, Carries
  <2>5. Writes(a, e)' => req'[a].department = entry'[e].department
    BY <1>1, <1>2, <1>4, <1>5, <2>1 DEF Writes, Carries
  <2> QED BY <1>1, <1>2, <2>1, <2>2, <2>3, <2>4, <2>5 DEF ClaimInv, Untouched
<1>9. VisibleInv(e)'
  <2> SUFFICES ASSUME fate'[e] = "none", entry'[e].status \in Accepted,
                      entry'[e].department # NoDepartment
               PROVE  Writes(a, e)'
    BY DEF VisibleInv
  <2>1. entry[e].department = NoDepartment
    BY <1>1, <1>3 DEF CountInv, ClaimInv
  <2> QED BY <1>1, <1>2, <1>5, <2>1 DEF Accepted, Writes, Carries
<1> QED BY <1>6, <1>7, <1>8, <1>9 DEF CountInv

\* The line of the ledger: nobody else has one to write while it is unwritten.
LEMMA WriteLedgerCounts ==
  ASSUME IngestInv, CountInv, NEW a \in Actors, WriteLedger(a)
  PROVE  CountInv'
<1> DEFINE l == [req[a] EXCEPT !.at = "populate"]
<1>0. PICK e \in Entries : e = req[a].entry
  BY DEF WriteLedger, IngestInv, RequestInv, OnEntry
<1>1. req[a] \in Locals /\ req[a].entry = e /\ req[a].at = "ledger"
  BY <1>0, LocalsOf DEF WriteLedger, IngestInv
<1>2. /\ l \in Locals /\ l.at = "populate" /\ l.entry = e /\ l.department = req[a].department
  BY <1>1 DEF Locals, Places
<1>3. req'[a] = l /\ \A b \in Actors \ {a} : req'[b] = req[b]
  <2>1. req' = [req EXCEPT ![a] = l]
    BY DEF WriteLedger, IngestInv, TypeOK
  <2> QED BY <1>2, <2>1, LocalsStep DEF IngestInv
<1> HIDE DEF l
<1>4. /\ UNCHANGED <<docs, total>>
      /\ \A f \in Entries \ {e} : ledger'[f] = ledger[f] /\ fate'[f] = fate[f]
      /\ \/ ledger'[e] = ledger[e] + 1 /\ fate'[e] = fate[e]
         \/ ledger'[e] = ledger[e] /\ fate'[e] # "none"
      /\ fate'[e] # "contested" => fate[e] # "contested"
  <2>1. CASE ledger' = [ledger EXCEPT ![req[a].entry] = @ + 1] /\ UNCHANGED fate
    BY <1>1, <2>1 DEF WriteLedger, IngestInv, TypeOK
  <2>2. CASE Befalls(req[a].entry, "told") /\ UNCHANGED ledger
    BY <1>1, <2>2, MishapFacts DEF WriteLedger, IngestInv, Fates
  <2> QED BY <2>1, <2>2 DEF WriteLedger
<1>5. \A b \in Actors : RowInv(b)'
  BY <1>2, <1>3 DEF RowInv, CountInv
<1>6. ASSUME NEW f \in Entries \ {e} PROVE ClaimInv(f)' /\ VisibleInv(f)'
  <2>1. f \in Entries /\ f # e
    OBVIOUS
  <2>2. ~Carries(a, f) /\ ~Carries(a, f)' /\ req'[a].at # "sum"
    BY <1>1, <1>2, <1>3, <2>1 DEF Carries
  <2> QED BY <1>3, <1>4, <2>1, <2>2, OthersStand DEF docs
<1>7. ClaimInv(e)'
  <2>1. CASE ledger'[e] = ledger[e]
    <3>1. ClaimKept(e)
      BY <1>1, <1>2, <1>3, <1>4, <2>1 DEF ClaimKept, Carries, HasLine, docs
    <3> QED BY <3>1, ClaimFrame DEF CountInv
  <2>2. CASE ledger'[e] # ledger[e]
    <3> SUFFICES ASSUME fate'[e] # "contested" PROVE ClaimInv(e)'
      BY DEF ClaimInv
    <3>1. ledger'[e] = ledger[e] + 1 /\ ClaimInv(e)
      BY <1>4, <2>2 DEF CountInv
    <3>2. /\ ledger[e] = 0 /\ Carries(a, e)
          /\ \A b \in Actors : HasLine(b, e) => b = a
          /\ entry[e].status \notin {"ABSENT", "PENDING"}
      BY <1>1, <1>4, <3>1 DEF ClaimInv, HasLine, Carries
    <3>3. \A b \in Actors : ~HasLine(b, e)'
      BY <1>2, <1>3, <3>2 DEF HasLine, Carries
    <3>4. \A b \in Actors : Writes(b, e)' => Writes(b, e) /\ req'[b].department = req[b].department
      BY <1>1, <1>2, <1>3 DEF Writes, Carries
    <3>5. Untouched(e) => Untouched(e)'
      BY <1>2, <1>3, <1>4 DEF Untouched
    <3>6. /\ entry' = entry /\ reviews' = reviews /\ total' = total
          /\ \A b \in Actors : req'[b].at = "sum" => req'[b] = req[b]
      BY <1>2, <1>3, <1>4 DEF docs
    <3> QED BY <1>4, <3>1, <3>2, <3>3, <3>4, <3>5, <3>6 DEF ClaimInv
  <2> QED BY <2>1, <2>2
<1>8. VisibleInv(e)'
  <2>1. FinalSection(e)' = FinalSection(e)
    BY <1>4 DEF FinalSection, docs
  <2>2. \A b \in Actors : Writes(b, e) => Writes(b, e)'
    BY <1>1, <1>2, <1>3 DEF Writes, Carries
  <2>3. VisibleKept(e)
    BY <1>4, <2>1, <2>2 DEF VisibleKept, docs
  <2> QED BY <2>3, VisibleFrame DEF CountInv
<1> QED BY <1>5, <1>6, <1>7, <1>8 DEF CountInv

\* The assignment of a row that is as it was read: unassigned, so no sum has the entry and
\* nobody else adds it to one.
LEMMA AssignSaveCounts ==
  ASSUME IngestInv, CountInv, NEW a \in Actors, AssignSave(a)
  PROVE  CountInv'
<1> DEFINE r == req[a]
           l == [r EXCEPT !.at = "populate", !.row = Absent]
<1>0. PICK e \in Entries : e = r.entry
  BY DEF AssignSave, IngestInv, RequestInv, OnEntry
<1>1. /\ r \in Locals /\ r.entry = e /\ r.at = "assign" /\ r.department \in Departments
      /\ r.row.status \in Accepted /\ r.row.department = NoDepartment
  BY <1>0, LocalsOf DEF AssignSave, IngestInv, RequestInv, CountInv, RowInv
<1>2. /\ entry'[e].status = entry[e].status /\ entry'[e].department = r.department
      /\ \A f \in Entries \ {e} : entry'[f] = entry[f]
      /\ UNCHANGED <<audit, caeOwner, reviews, ledger, total>>
  <2>1. entry[e] \in Rows /\ entry \in [Entries -> Rows]
    BY <1>1 DEF IngestInv, TypeOK
  <2>2. entry'[e] = [entry[e] EXCEPT !.department = r.department]
    BY <1>1, <2>1 DEF AssignSave
  <2> QED BY <1>1, <2>1, <2>2 DEF AssignSave, Rows
<1>3. /\ fate'[e] # "contested" => fate[e] # "contested" /\ entry[e] = r.row
      /\ fate'[e] = "none" => fate[e] = "none" /\ r.amount
      /\ \A f \in Entries \ {e} : fate'[f] = fate[f]
  <2>1. CASE entry[e] # r.row
    <3>1. Befalls(e, "contested")
      BY <1>1, <2>1 DEF AssignSave
    <3> QED BY <3>1, MishapFacts DEF IngestInv, Fates
  <2>2. CASE entry[e] = r.row /\ r.amount
    BY <1>1, <2>2 DEF AssignSave
  <2>3. CASE entry[e] = r.row /\ ~r.amount
    <3>1. Befalls(e, "told")
      BY <1>1, <2>3 DEF AssignSave
    <3> QED BY <2>3, <3>1, MishapFacts DEF IngestInv, Fates
  <2> QED BY <2>1, <2>2, <2>3
<1>4. /\ \A b \in Actors \ {a} : req'[b] = req[b]
      /\ r.amount => /\ req'[a].at = "populate" /\ req'[a].entry = e
                     /\ req'[a].department = r.department
      /\ ~r.amount => req'[a].at = "idle"
  <2>1. CASE ~r.amount
    BY <2>1, EndStep DEF IngestInv, AssignSave
  <2>2. CASE r.amount
    <3>1. req' = [req EXCEPT ![a] = l]
      BY <2>2 DEF AssignSave, IngestInv, TypeOK
    <3>2. l \in Locals /\ l.at = "populate" /\ l.entry = e /\ l.department = r.department
      BY <1>1, IdleFacts DEF Locals, Places
    <3> QED BY <2>2, <3>1, <3>2, LocalsStep DEF IngestInv
  <2> QED BY <2>1, <2>2
<1> HIDE DEF l
<1>5. req'[a].at \in {"idle", "populate"}
  BY <1>4
<1>6. \A b \in Actors : RowInv(b)'
  BY <1>4, <1>5 DEF RowInv, CountInv
<1>7. ASSUME NEW f \in Entries \ {e} PROVE ClaimInv(f)' /\ VisibleInv(f)'
  <2>1. f \in Entries /\ f # e
    OBVIOUS
  <2>2. ~Carries(a, f) /\ ~Carries(a, f)' /\ req'[a].at # "sum"
    BY <1>1, <1>4, <2>1 DEF Carries
  <2> QED BY <1>1, <1>2, <1>3, <1>4, <2>1, <2>2, OthersStand
<1>8. r.department # NoDepartment
  BY <1>1, IntakeAssumption
<1> HIDE DEF r
<1>9. ClaimInv(e)'
  <2> SUFFICES ASSUME fate'[e] # "contested" PROVE ClaimInv(e)'
    BY DEF ClaimInv
  <2>1. /\ entry[e].status \in Accepted /\ entry[e].department = NoDepartment
        /\ ClaimInv(e) /\ fate[e] # "contested"
    BY <1>1, <1>3 DEF CountInv
  <2>2. Untouched(e) /\ \A b \in Actors : ~Writes(b, e)
    BY <2>1 DEF ClaimInv
  <2>3. Untouched(e)'
    BY <1>2, <1>4, <2>2 DEF Untouched
  <2>4. \A b \in Actors : Writes(b, e)' => b = a
    BY <1>4, <2>2 DEF Writes, Carries
  <2>5. Writes(a, e)' => req'[a].department = entry'[e].department
    BY <1>2, <1>4 DEF Writes, Carries
  <2>6. \A b \in Actors : HasLine(b, e)' => HasLine(b, e)
    BY <1>4 DEF HasLine, Carries
  <2>7. /\ entry'[e].status \notin {"ABSENT", "PENDING"} /\ entry'[e].status \in Accepted
        /\ entry'[e].department # NoDepartment
        /\ reviews' = reviews /\ ledger' = ledger
    BY <1>2, <1>8, <2>1 DEF Accepted
  <2>8. /\ reviews[e] <= 1 /\ ledger[e] <= 1
        /\ \A b \in Actors : HasLine(b, e) =>
             ledger[e] = 0 /\ \A c \in Actors : HasLine(c, e) => c = b
    BY <2>1 DEF ClaimInv
  <2>9. /\ \A d \in Departments : total'[d][e] = 0
        /\ \A b \in Actors : req'[b].at = "sum" => req'[b].seen[e] = 0
    BY <2>3 DEF Untouched
  <2>10. \A b \in Actors : Writes(b, e)' =>
           /\ Untouched(e)' /\ req'[b].department = entry'[e].department
           /\ \A c \in Actors : Writes(c, e)' => c = b
    BY <2>3, <2>4, <2>5
  <2>11. \A b \in Actors : HasLine(b, e)' =>
           ledger'[e] = 0 /\ \A c \in Actors : HasLine(c, e)' => c = b
    BY <2>6, <2>7, <2>8
  <2> QED BY <2>7, <2>8, <2>9, <2>10, <2>11 DEF ClaimInv
<1>10. VisibleInv(e)'
  <2>1. fate'[e] = "none" => Writes(a, e)'
    BY <1>3, <1>4, <1>8 DEF Writes, Carries
  <2> QED BY <2>1 DEF VisibleInv
<1> QED BY <1>6, <1>7, <1>9, <1>10 DEF CountInv

\* The copy of a sum has of every entry what the sum has.
LEMMA ReadSumCounts ==
  ASSUME IngestInv, CountInv, NEW a \in Actors, ReadSum(a)
  PROVE  CountInv'
<1> DEFINE r == req[a]
           l == [r EXCEPT !.at = "sum", !.seen = total[r.department]]
<1>1. /\ r \in Locals /\ r.at = "populate" /\ r.department \in Departments
  BY LocalsOf DEF ReadSum, Populates, IngestInv, Locals
<1>2. /\ l \in Locals /\ l.at = "sum" /\ l.entry = r.entry
      /\ l.department = r.department /\ l.seen = total[r.department]
  BY <1>1 DEF Locals, Places, IngestInv, TypeOK
<1>3. req'[a] = l /\ \A b \in Actors \ {a} : req'[b] = req[b]
  <2>1. req' = [req EXCEPT ![a] = l]
    BY DEF ReadSum, IngestInv, TypeOK
  <2> QED BY <1>2, <2>1, LocalsStep DEF IngestInv
<1> HIDE DEF l
<1>4. UNCHANGED <<docs, ledger, total, fate>>
  BY DEF ReadSum
<1>5. \A b \in Actors : RowInv(b)'
  BY <1>2, <1>3 DEF RowInv, CountInv
<1>6. ASSUME NEW f \in Entries PROVE ClaimInv(f)' /\ VisibleInv(f)'
  <2>1. ClaimKept(f)
    BY <1>1, <1>2, <1>3, <1>4 DEF ClaimKept, Carries, HasLine, docs
  <2>2. FinalSection(f)' = FinalSection(f)
    BY <1>4 DEF FinalSection, docs
  <2>3. \A b \in Actors : Writes(b, f) => Writes(b, f)'
    BY <1>1, <1>2, <1>3 DEF Writes, Carries
  <2>4. VisibleKept(f)
    BY <1>4, <2>2, <2>3 DEF VisibleKept, docs
  <2> QED BY <2>1, <2>4, ClaimFrame, VisibleFrame DEF CountInv
<1> QED BY <1>5, <1>6 DEF CountInv

\* What the saving of a sum does to each entry: the one it was saved for is in it once more
\* than in the copy, the others as often as in the copy.
LEMMA SavedSum ==
  ASSUME IngestInv, NEW a \in Actors, WriteSum(a)
  PROVE  /\ req[a].at = "sum" /\ req[a].entry \in Entries
         /\ req[a].department \in Departments
         /\ req'[a].at = "idle" /\ \A b \in Actors \ {a} : req'[b] = req[b]
         /\ UNCHANGED <<docs, ledger>>
         /\ \A d \in Departments \ {req[a].department} : total'[d] = total[d]
         /\ \A e \in Entries : LET d == req[a].department IN
              /\ total'[d][e] = req[a].seen[e] + (IF e = req[a].entry THEN 1 ELSE 0)
              /\ fate'[e] # "contested" => fate[e] # "contested"
              /\ fate'[e] = "none" => fate[e] = "none" /\ total'[d][e] >= total[d][e]
<1> DEFINE r == req[a]
           d == r.department
           sum == [r.seen EXCEPT ![r.entry] = @ + 1]
<1>1. /\ r \in Locals /\ r.at = "sum" /\ r.entry \in Entries /\ d \in Departments
  BY LocalsOf DEF WriteSum, IngestInv, RequestInv, OnEntry
<1>2. req'[a].at = "idle" /\ \A b \in Actors \ {a} : req'[b] = req[b]
  BY EndStep DEF WriteSum, IngestInv
<1>3. \A e \in Entries : sum[e] = r.seen[e] + (IF e = r.entry THEN 1 ELSE 0)
  BY <1>1 DEF Locals
<1>4. /\ total' = [total EXCEPT ![d] = sum]
      /\ fate' = [e \in Entries |->
              IF \/ sum[e] < total[d][e]
                 \/ e = r.entry /\ sum[e] = total[d][e]
              THEN Mishap(e, "overwritten") ELSE fate[e]]
      /\ UNCHANGED <<docs, ledger>>
  BY DEF WriteSum
<1>5. total'[d] = sum /\ \A c \in Departments \ {d} : total'[c] = total[c]
  BY <1>1, <1>4 DEF IngestInv, TypeOK
<1>6. ASSUME NEW e \in Entries
      PROVE  /\ fate'[e] # "contested" => fate[e] # "contested"
             /\ fate'[e] = "none" => fate[e] = "none" /\ sum[e] >= total[d][e]
  <2>1. sum[e] \in Nat /\ total[d][e] \in Nat
    BY <1>1, <1>3 DEF IngestInv, TypeOK, Locals
  <2> HIDE DEF sum
  <2> DEFINE lost == \/ sum[e] < total[d][e]
                     \/ e = r.entry /\ sum[e] = total[d][e]
  <2>2. CASE lost
    <3>1. fate'[e] = Mishap(e, "overwritten")
      BY <1>4, <2>2
    <3> QED BY <3>1 DEF Mishap
  <2>3. CASE ~lost
    <3>1. fate'[e] = fate[e]
      BY <1>4, <2>3
    <3> QED BY <2>1, <2>3, <3>1
  <2> QED BY <2>2, <2>3
<1> HIDE DEF sum
<1> QED BY <1>1, <1>2, <1>3, <1>4, <1>5, <1>6

\* A saved sum has the entry it was saved for once, which no sum had; of the others it has
\* what its copy had, or the loss is recorded.
LEMMA WriteSumCounts ==
  ASSUME IngestInv, CountInv, NEW a \in Actors, WriteSum(a)
  PROVE  CountInv'
<1>0. PICK g \in Entries, d \in Departments : g = req[a].entry /\ d = req[a].department
  BY SavedSum
<1>1. /\ req[a].at = "sum" /\ req[a].entry = g /\ req[a].department = d
      /\ req[a].seen \in [Entries -> Nat] /\ total \in [Departments -> [Entries -> Nat]]
  BY <1>0, SavedSum DEF IngestInv, TypeOK
<1>2. /\ req'[a].at = "idle" /\ \A b \in Actors \ {a} : req'[b] = req[b]
      /\ UNCHANGED <<entry, audit, reviews, ledger>>
      /\ \A c \in Departments \ {d} : total'[c] = total[c]
  BY <1>1, SavedSum DEF docs
<1>3. \A e \in Entries :
        /\ total'[d][e] = req[a].seen[e] + (IF e = g THEN 1 ELSE 0)
        /\ fate'[e] # "contested" => fate[e] # "contested"
        /\ fate'[e] = "none" => fate[e] = "none" /\ total'[d][e] >= total[d][e]
  BY <1>1, SavedSum
<1>4. \A b \in Actors : RowInv(b)'
  BY <1>2 DEF RowInv, CountInv
<1>5. \A e \in Entries, b \in Actors :
        /\ Carries(b, e)' => Carries(b, e) /\ b # a /\ req'[b] = req[b]
        /\ Writes(b, e)' => Writes(b, e) /\ b # a
        /\ HasLine(b, e)' => HasLine(b, e)
        /\ b # a /\ Writes(b, e) => Writes(b, e)'
        /\ req'[b].at = "sum" => req'[b] = req[b]
  BY <1>2 DEF Carries, Writes, HasLine
<1>6. Writes(a, g) /\ \A e \in Entries \ {g} : ~Writes(a, e)
  BY <1>1, IntakeAssumption DEF Writes, Carries
<1>7. ASSUME NEW e \in Entries PROVE ClaimInv(e)'
  <2> SUFFICES ASSUME fate'[e] # "contested" PROVE ClaimInv(e)'
    BY DEF ClaimInv
  <2>1. ClaimInv(e) /\ fate[e] # "contested"
    BY <1>3 DEF CountInv
  <2>2. /\ req[a].seen[e] <= 1
        /\ req[a].seen[e] # 0 => d = entry[e].department
        /\ Untouched(e) => req[a].seen[e] = 0
    BY <1>1, <2>1 DEF ClaimInv, Untouched
  <2>3. \A b \in Actors : req'[b].at = "sum" =>
          /\ req'[b].seen[e] <= 1
          /\ req'[b].seen[e] # 0 => req'[b].department = entry'[e].department
    BY <1>2, <1>5, <2>1 DEF ClaimInv
  <2>4. /\ entry'[e].status \in {"ABSENT", "PENDING"} =>
             /\ entry'[e].department = NoDepartment /\ reviews'[e] = 0 /\ ledger'[e] = 0
             /\ \A b \in Actors : ~Carries(b, e)'
        /\ reviews'[e] <= 1 /\ ledger'[e] <= 1
        /\ \A b \in Actors : HasLine(b, e)' =>
             ledger'[e] = 0 /\ \A c \in Actors : HasLine(c, e)' => c = b
    BY <1>2, <1>5, <2>1 DEF ClaimInv
  <2>5. CASE e = g
    <3>1. /\ Untouched(e) /\ d = entry[e].department
          /\ \A b \in Actors : Writes(b, e) => b = a
          /\ entry[e].status \in Accepted /\ entry[e].department # NoDepartment
      BY <1>1, <1>6, <2>1, <2>5 DEF ClaimInv
    <3>2. \A b \in Actors : ~Writes(b, e)'
      BY <1>5, <3>1
    <3>3. \A c \in Departments : /\ total'[c][e] <= 1
                                 /\ total'[c][e] # 0 => c = entry'[e].department
      BY <1>1, <1>2, <1>3, <2>2, <2>5, <3>1 DEF Untouched
    <3> QED BY <1>2, <2>3, <2>4, <3>1, <3>2, <3>3 DEF ClaimInv
  <2>6. CASE e # g
    <3>1. total'[d][e] = req[a].seen[e]
      BY <1>1, <1>3, <2>6
    <3>2. \A c \in Departments : /\ total'[c][e] <= 1
                                 /\ total'[c][e] # 0 => c = entry'[e].department
      BY <1>2, <2>1, <2>2, <3>1 DEF ClaimInv
    <3>3. Untouched(e) => Untouched(e)'
      BY <1>2, <1>5, <2>2, <3>1 DEF Untouched
    <3>4. /\ entry'[e].status \notin Accepted \/ entry'[e].department = NoDepartment =>
               Untouched(e)' /\ \A b \in Actors : ~Writes(b, e)'
          /\ \A b \in Actors : Writes(b, e)' =>
               /\ Untouched(e)' /\ req'[b].department = entry'[e].department
               /\ \A c \in Actors : Writes(c, e)' => c = b
      BY <1>2, <1>5, <2>1, <3>3 DEF ClaimInv
    <3> QED BY <2>3, <2>4, <3>2, <3>4 DEF ClaimInv
  <2> QED BY <2>5, <2>6
<1>8. ASSUME NEW e \in Entries PROVE VisibleInv(e)'
  <2> SUFFICES ASSUME fate'[e] = "none", entry[e].status \in Accepted,
                      entry[e].department # NoDepartment, FinalSection(e) = "cost"
               PROVE  \/ \E c \in Departments : total'[c][e] # 0
                      \/ \E b \in Actors : Writes(b, e)'
    BY <1>2 DEF VisibleInv, FinalSection
  <2>1. VisibleInv(e) /\ fate[e] = "none"
    BY <1>3 DEF CountInv
  <2>2. CASE \E c \in Departments : total[c][e] # 0
    <3>1. PICK c \in Departments : total[c][e] # 0
      BY <2>2
    <3>2. total[c][e] \in Nat
      BY <1>1
    <3>3. c = d => total'[c][e] >= total[c][e] /\ total'[c][e] \in Nat
      BY <1>1, <1>3
    <3>4. total'[c][e] # 0
      BY <1>2, <3>1, <3>2, <3>3
    <3> QED BY <3>4
  <2>3. CASE \E b \in Actors : Writes(b, e)
    <3>1. CASE e = g
      <4>1. total'[d][e] # 0
        BY <1>1, <1>3, <3>1
      <4> QED BY <4>1
    <3>2. CASE e # g
      BY <1>5, <1>6, <2>3, <3>2
    <3> QED BY <3>1, <3>2
  <2> QED BY <2>1, <2>2, <2>3 DEF VisibleInv
<1> QED BY <1>4, <1>7, <1>8 DEF CountInv

-----------------------------------------------------------------------------

LEMMA InitCounts == ASSUME Init PROVE CountInv
<1>1. /\ \A a \in Actors : req[a].at = "idle"
      /\ \A e \in Entries : /\ entry[e].status = "ABSENT" /\ entry[e].department = NoDepartment
                            /\ reviews[e] = 0 /\ ledger[e] = 0
                            /\ \A d \in Departments : total[d][e] = 0
  BY IdleFacts DEF Init, Absent
<1>2. \A a \in Actors, e \in Entries : ~Carries(a, e) /\ ~Writes(a, e) /\ ~HasLine(a, e)
  BY <1>1 DEF Carries, Writes, HasLine
<1>3. \A e \in Entries : Untouched(e) /\ ClaimInv(e) /\ VisibleInv(e)
  BY <1>1, <1>2 DEF Untouched, ClaimInv, VisibleInv, Accepted
<1> QED BY <1>1, <1>3 DEF CountInv, RowInv

LEMMA StutterCounts == ASSUME CountInv, UNCHANGED vars PROVE CountInv'
<1>1. \A a \in Actors : RowInv(a)'
  BY DEF CountInv, RowInv, vars
<1>2. ASSUME NEW e \in Entries PROVE ClaimInv(e)' /\ VisibleInv(e)'
  <2>1. ClaimKept(e)
    BY DEF ClaimKept, Carries, HasLine, vars
  <2>2. VisibleInv(e)'
    BY DEF CountInv, VisibleInv, FinalSection, Writes, Carries, vars
  <2> QED BY <2>1, <2>2, ClaimFrame DEF CountInv
<1> QED BY <1>1, <1>2 DEF CountInv

LEMMA StartCounts ==
  ASSUME IngestInv, CountInv, NEW a \in Actors, Start(a)
  PROVE  CountInv'
<1>1. CASE \E p \in Papers, reading \in Readings : Analyse(a, p, reading)
  BY <1>1, DeliveryCounts
<1>2. ASSUME NEW e \in Entries, NEW d \in Departments \union {NoDepartment},
             \/ ReviewRead(a, e, "APPROVED", "unknown", d)
             \/ \E section \in Corrections : ReviewRead(a, e, "CORRECTED", section, d)
             \/ ReviewRead(a, e, "REJECTED", "unknown", NoDepartment)
      PROVE  CountInv'
  BY <1>2, ReadingCounts, IntakeAssumption DEF Sections
<1>3. CASE BulkStart(a)
  BY <1>3, BulkStartCounts
<1>4. CASE \E e \in Entries, d \in Departments : AssignRead(a, e, d)
  BY <1>4, AssignReadCounts
<1> QED BY <1>1, <1>2, <1>3, <1>4 DEF Start

LEMMA ContinueCounts ==
  ASSUME IngestInv, CountInv, NEW a \in Actors, Continue(a)
  PROVE  CountInv'
<1>1. CASE LookUpCAE(a) \/ LookUpKey(a) \/ RefuseIllegible(a)
  BY <1>1, DeliveryCounts
<1>2. CASE \E e \in Entries : BulkNext(a, e) \/ \E class \in Classes : Insert(a, e, class)
  BY <1>2, BulkNextCounts, InsertCounts
<1>3. CASE ReviewCommit(a) \/ WriteLedger(a) \/ AssignSave(a)
  BY <1>3, ReviewCommitCounts, WriteLedgerCounts, AssignSaveCounts
<1>4. CASE \/ PopulateNothing(a) \/ LeaveForList(a) \/ PopulateSkips(a)
          \/ ReadSum(a) \/ WriteSum(a)
  BY <1>4, PopulateEndsCount, ReadSumCounts, WriteSumCounts
<1> QED BY <1>1, <1>2, <1>3, <1>4 DEF Continue

\* Nor what follows the cost of an entry, from its review to the sum of its
\* department (cost-structure-populator.ts).
THEOREM CountInductive == Spec => []CountInv
<1>1. Init => CountInv
  BY InitCounts
<1>2. IngestInv /\ CountInv /\ [Next]_vars => CountInv'
  BY StartCounts, ContinueCounts, CrashCounts, StutterCounts DEF Next
<1> QED BY <1>1, <1>2, IngestInductive, PTL DEF Spec

\* What the strengthening says of one entry once nobody contests it.
LEMMA OneSum ==
  ASSUME TypeOK, CountInv, NEW e \in Entries, fate[e] # "contested"
  PROVE  /\ ~CountedTwice(e) /\ reviews[e] <= 1 /\ ledger[e] <= 1
         /\ Counted(e) # {} => entry[e].status \in Accepted /\ Counted(e) = {entry[e].department}
<1>1. /\ \A d \in Departments : /\ total[d][e] <= 1 /\ total[d][e] \in Nat
                                /\ total[d][e] # 0 => d = entry[e].department
      /\ reviews[e] <= 1 /\ ledger[e] <= 1
      /\ entry[e].status \notin Accepted => \A d \in Departments : total[d][e] = 0
  BY DEF TypeOK, CountInv, ClaimInv, Untouched
<1>2. \A d \in Departments : d \in Counted(e) => d = entry[e].department
  BY <1>1 DEF Counted
<1>3. Counted(e) # {} => entry[e].status \in Accepted /\ Counted(e) = {entry[e].department}
  BY <1>1, <1>2 DEF Counted
<1>4. Cardinality(Counted(e)) \in {0, 1}
  BY <1>3, FS_EmptySet, FS_Singleton
<1>5. ~CountedTwice(e)
  BY <1>1, <1>4 DEF CountedTwice
<1> QED BY <1>1, <1>3, <1>5

\* validaciones-service.ts and cost-structure-populator.ts: a document is reviewed, entered
\* in the ledger and counted at most once, in its department and only while accepted, unless
\* two people decided on it from the same reading of its row.
THEOREM DocumentCountsAtMostOnce == Spec => []CountsAtMostOnce
<1>1. TypeOK /\ CountInv => CountsAtMostOnce
  BY OneSum DEF CountsAtMostOnce
<1> QED BY <1>1, CountInductive, IntakeTypeCorrect, PTL

\* listUnassignedForStructure and the warnings of populateCostStructureFromApproval: an
\* accepted cost that is in no sum is in the list as it filters, unless it was corrected into
\* a cost without a department, it has been told of, it died with its request, it was
\* overwritten by a sum that had not seen it, or it was contested.
THEOREM AcceptedCostIsVisible == Spec => []AcceptedIsVisible
<1>1. TypeOK /\ CountInv => AcceptedIsVisible
  <2> SUFFICES ASSUME TypeOK, CountInv, NEW e \in Entries, entry[e].status \in Accepted,
                      FinalSection(e) = "cost", ~InFlight(e), fate[e] = "none",
                      ~Listed(e), ~MissedByList(e)
               PROVE  Counted(e) # {}
    BY DEF AcceptedIsVisible
  <2>1. entry[e].department # NoDepartment
    BY DEF Listed, MissedByList
  <2>2. \A a \in Actors : ~Writes(a, e)
    BY DEF InFlight, Writes, Carries
  <2>3. PICK d \in Departments : total[d][e] # 0
    BY <2>1, <2>2 DEF CountInv, VisibleInv
  <2>4. total[d][e] > 0
    BY <2>3 DEF TypeOK
  <2> QED BY <2>3, <2>4 DEF Counted
<1> QED BY <1>1, CountInductive, IntakeTypeCorrect, PTL
=============================================================================
